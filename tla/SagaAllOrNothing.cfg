\* One order of two products, in stock or not; payments may be declined; no timeouts.
SPECIFICATION FairSpec
CONSTANTS
    Orders = {o1}
    Products = {p1, p2}
    p1 = p1
    p2 = p2
    Items <- OneEach
    Stock = 1
    Users = {u1}
    Requests = {r1}
    Sweepers = {}
    MaxAborts = 0
    Answers = {TRUE, FALSE}
    Consumer = c1
    NoOrder = NoOrder
    NoKey = NoKey
    Idle = Idle
    Free = Free
    NoRow = NoRow
PROPERTY AllOrNothing
CHECK_DEADLOCK FALSE
