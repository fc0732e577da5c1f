\* One order, cancelled while its saga runs.
SPECIFICATION Spec
CONSTANTS
    Orders = {o1}
    Users = {u1}
    Keys = {}
    Requests = {r1}
    Consumers = {c1}
    Sweepers = {s1}
    SweepBatch = 1
    MaxAborts = 0
    Webhooks = FALSE
    NoOrder = NoOrder
    NoKey = NoKey
    Idle = Idle
PROPERTY CancelledIsFinal
CHECK_DEADLOCK FALSE
