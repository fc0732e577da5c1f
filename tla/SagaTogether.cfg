\* Two orders that compete for the stock, each with a cancellation and a timeout.
SPECIFICATION Spec
CONSTANTS
    Orders = {o1, o2}
    Products = {p1, p2}
    p1 = p1
    p2 = p2
    Items <- OneEach
    Stock = 1
    Users = {u1}
    Requests = {r1}
    Sweepers = {s1}
    MaxAborts = 0
    Answers = {TRUE, FALSE}
    Consumer = c1
    NoOrder = NoOrder
    NoKey = NoKey
    Idle = Idle
    Free = Free
    NoRow = NoRow
INVARIANTS
    OutcomeIsBacked
PROPERTIES
    ImplementsOrderService
    FollowsLifecycle
CHECK_DEADLOCK FALSE
