\* Two orders of the same two products, two consumers that lock the rows in
\* opposite orders, two administrators, one failure.
SPECIFICATION FairSpec
CONSTANTS
    Orders = {o1, o2}
    Products = {p1, p2}
    Items <- Crossed
    Workers = {w1, w2}
    Admins = {a1, a2}
    Quantities = {1}
    Deltas <- LossOrGain
    MaxQuantity = 2
    MaxLedger = 2
    MaxAborts = 1
    Restock = FALSE
    Rebalances = FALSE
    Free = Free
    Idle = Idle
    NoRow = NoRow
    o1 = o1
    o2 = o2
    p1 = p1
    p2 = p2
INVARIANTS
    LedgerExplainsStock
    AvailableIsComputed
    ReservedIsHeld
    ReservedOnce
PROPERTY CommandsFinish
CHECK_DEADLOCK FALSE
