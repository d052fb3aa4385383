\* One start that nothing disturbs.
CONSTANTS
    Urls <- Site
    Root = "root"
    Kind <- SiteKind
    Links <- SiteLinks
    Files <- SiteFiles
    FileOf <- SiteFileOf
    Limit = 2
    Threads <- ThreadNumbers
    ForceDownload = TRUE
    MaxStarts = 1
    MaxCancels = 0
    MaxFaults = 0
SPECIFICATION FairSpec
INVARIANTS
    SaidOnce
CHECK_DEADLOCK FALSE
