\* A site with a cycle; of a second start, a cancel and an exception at most two (Undisturbed).
CONSTANTS
    Urls <- Site
    Root = "root"
    Kind <- SiteKind
    Links <- SiteLinks
    Files <- SiteFiles
    FileOf <- SiteFileOf
    Limit = 2
    Threads <- MoreThreadNumbers
    ForceDownload = FALSE
    MaxStarts = 2
    MaxCancels = 1
    MaxFaults = 1
SPECIFICATION FairSpec
CHECK_DEADLOCK FALSE
CONSTRAINT Undisturbed
INVARIANTS
    TypeOK
    SuccessIsTrue
    QueueIsWatched
    OneThreadPerAddress
PROPERTIES
    Ends
