\* Two requests at a time on one account, two failures to the lock, two mailed
\* links, two passwords set by them.
SPECIFICATION Spec
CONSTANTS
    Workers = {w1, w2}
    MaxFailed = 2
    MaxLinks = 2
    MaxResets = 2
    NoRow = NoRow
    Idle = Idle
INVARIANTS
    NewPasswordStays
    CountIsExact
PROPERTY VerifiedForGood
CHECK_DEADLOCK FALSE
