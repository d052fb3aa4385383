\* One start, one cancel, one exception.
CONSTANTS
    Urls <- Site
    Root = "root"
    Kind <- SiteKind
    Links <- SiteLinks
    Files <- SiteFiles
    FileOf <- SiteFileOf
    Limit = 2
    Threads <- ThreadNumbers
    ForceDownload = TRUE
    MaxStarts = 1
    MaxCancels = 1
    MaxFaults = 1
SPECIFICATION FairSpec
PROPERTIES
    UiReturns
CHECK_DEADLOCK FALSE
