\* A file of more than half as many bytes as a C# int has values.
CONSTANTS
    w1 = w1
    w2 = w2
    FileSize = 4
    BlockSize = 2
    Workers <- TwoWorkers
    MaxStarts = 1
    MaxRead = 2
    IntMod = 4
SPECIFICATION FairSpec
PROPERTIES
    Completes
