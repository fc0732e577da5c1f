\* One version of the content, one picture uploaded.
SPECIFICATION PartsSpec
CONSTANTS
    Workers = {w1}
    Parts = {"product"}
    MaxContents = 1
    MaxPictures = 1
    Ids = {}
    PageSize = 1
    Price <- NoPrices
    MaxTime = 1
    MicrosPerMilli = 1
    Uploads = {}
    MaxMillis = 1
    Categories = {}
    Admins = {}
    Slugs = {}
    None = None
    Idle = Idle
INVARIANT PublicIsReviewed
CHECK_DEADLOCK FALSE
