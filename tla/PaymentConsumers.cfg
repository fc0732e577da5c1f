\* Two orders, two consumers, one failure, a simulated answer for one order.
SPECIFICATION FairSpec
CONSTANTS
    Orders = {o1, o2}
    Workers = {w1, w2}
    Answers = {TRUE, FALSE}
    MaxAborts = 1
    Webhooks = {o1}
    Free = Free
    Idle = Idle
INVARIANTS
    ChargedOncePerAttempt
    PaidIsCharged
    OneAnswer
PROPERTY ChargeAnswered
CHECK_DEADLOCK FALSE
