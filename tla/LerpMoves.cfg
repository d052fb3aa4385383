\* One client that may come twice, two moves, two axes; a delay of one step
\* is within the limit and one of two steps is not.
CONSTANTS
    Server = server
    Clients <- OneClient
    c1 = c1
    Axes = {"loc", "rot"}
    Values = {0, 4}
    Home <- AtZero
    Costs = {0, 3}
    Skews <- Ahead
    DelayTimeLimit = 1
    MaxStarts = 2
    LastStart = 2
    MaxJoins = 2
    MaxNow = 7
SPECIFICATION FairSpec
INVARIANTS
    TypeOK
    RestsAtTarget
    ArrivalWithinLimit
    BroadcastsBalance
PROPERTIES
    Settles
CHECK_DEADLOCK FALSE
