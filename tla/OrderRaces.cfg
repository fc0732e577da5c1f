\* One order, every handler racing every other: two consumers, a sweep that
\* reads while they do, two requests, webhooks, one failure, replies in any
\* order.
SPECIFICATION FairSpec
CONSTANTS
    Orders = {o1}
    Users = {u1}
    Keys = {k1}
    Requests = {r1, r2}
    Consumers = {c1, c2}
    Sweepers = {s1}
    SweepBatch = 1
    MaxAborts = 1
    Webhooks = TRUE
    NoOrder = NoOrder
    NoKey = NoKey
    Idle = Idle
INVARIANT SagaCausality
PROPERTIES
    ImplementsLifecycle
    SagaSettles
CHECK_DEADLOCK FALSE
