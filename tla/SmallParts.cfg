\* One part at a time.  Relay: three rows, one refused by the broker, two
\* overlapping runs, a batch smaller than the backlog, one failure.  Limits: two
\* requests at a time, one death.  Address book: two requests, one address over
\* the limit and one to spare.  Mails: three events, two of them of an order, one
\* of these fails to render, two deaths, one refusal, one rejected commit.
SPECIFICATION PartsSpec
CONSTANTS
    Events = {1, 2, 3}
    Runs = {r1, r2}
    Batch = 2
    Poison = {1}
    MaxFailures = 1
    NoEvent = NoEvent
    Clients = {c1, c2}
    IpLimit = 2
    EmailLimit = 1
    RouteLimit = 1
    Window = 2
    MaxLosses = 1
    Addresses = {a1, a2, a3, a4}
    Workers = {w1, w2}
    MaxAddresses = 2
    LastEvent = 3
    OrderEvents = {1, 2}
    AmountEvents = {1}
    MaxCrashes = 2
    MaxErrors = 1
    MaxRejections = 1
    Idle = Idle
    None = None
INVARIANTS
    SentIsPublished
    BoundedOverrun
    OneDefault
    FewDuplicates
PROPERTIES
    ImplementsReliableDelivery
    BacklogDrains
    BlockedRecovers
    UserIsMailed
CHECK_DEADLOCK FALSE
