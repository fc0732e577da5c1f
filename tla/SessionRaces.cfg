\* One session, two concurrent requests, a change of user agent, one failure.
SPECIFICATION FairSpec
CONSTANTS
    Sessions = {s1}
    Workers = {w1, w2}
    Agents = {"a", "b"}
    Tokens = {t1, t2, t3, t4, t5}
    NoToken = NoToken
    MaxCrashes = 1
    Idle = Idle
INVARIANTS
    HonestIsNotReuse
    OnlyKnownLeaks
    LogoutAllEnds
PROPERTIES
    RevocationIsFinal
    RevokedIsShutOut
CHECK_DEADLOCK FALSE
