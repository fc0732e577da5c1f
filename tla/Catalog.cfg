\* One part at a time.  Product: two requests, two versions of the content, one
\* picture uploaded.  Listing: three products, two of one price, created in two
\* milliseconds, pages of one.  Pictures: three uploads in two milliseconds.
\* Categories: two, changed by two administrators.
SPECIFICATION PartsSpec
CONSTANTS
    Workers = {w1, w2}
    Parts = {"product", "listing", "images", "tree"}
    MaxContents = 2
    MaxPictures = 1
    Ids = {1, 2, 3}
    PageSize = 1
    Price <- Prices
    MaxTime = 3
    MicrosPerMilli = 2
    Uploads = {u1, u2, u3}
    MaxMillis = 2
    Categories = {c1, c2}
    Admins = {w1, w2}
    Slugs = {s1, s2}
    None = None
    Idle = Idle
SYMMETRY Symmetry
INVARIANTS
    ActiveIsApproved
    CacheIsCurrent
    DeletedStaysDeleted
    ListedOnce
    EveryoneIsListed
    ImagesInPlace
PROPERTY OnlyWhatWasAsked
CHECK_DEADLOCK FALSE
