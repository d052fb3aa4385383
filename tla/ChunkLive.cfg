\* One start of two threads per process; fairness.
CONSTANTS
    w1 = w1
    w2 = w2
    FileSize = 5
    BlockSize = 2
    Workers <- TwoWorkers
    MaxStarts = 1
    MaxRead = 2
    IntMod = 64
SPECIFICATION FairSpec
PROPERTIES
    Completes
