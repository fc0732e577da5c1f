\* An upsert of an existing row races adjustments, reservations and releases.
SPECIFICATION Spec
CONSTANTS
    Orders = {o1, o2}
    Products = {p1}
    Items <- Repeated
    Workers = {w1}
    Admins = {a1}
    Quantities = {0, 2}
    Deltas <- Loss
    MaxQuantity = 2
    MaxLedger = 2
    MaxAborts = 1
    Restock = TRUE
    Rebalances = FALSE
    Free = Free
    Idle = Idle
    NoRow = NoRow
    o1 = o1
    o2 = o2
    p1 = p1
    p2 = p2
PROPERTY NeverOversold
CHECK_DEADLOCK FALSE
