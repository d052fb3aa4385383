\* One player that listens and one that only talks; a battle is too old
\* after two frames, and a second one may begin.
CONSTANTS
    Players <- TwoPlayers
    Listeners <- OneListener
    Sids <- OneSid
    SidOf <- OneBattle
    p1 = p1
    p2 = p2
    s1 = s1
    FAME_PER_MS = 1
    SkippedFrames = 1
    LONG_LIMIT = 3
    MTU = 8
    InputLimit = 1
    Sizes = {0, 1, 2}
    MaxHeard <- FewWords
    MaxNow = 4
    MaxBorn = 2
    MaxFlight = 1
SPECIFICATION FairSpec
INVARIANTS
    TypeOK
    HistoryAgrees
    InputsAccounted
    InputsInTime
PROPERTIES
    CatchesUp
