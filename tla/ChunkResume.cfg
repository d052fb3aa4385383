\* Two starts of two threads in one process, any number of processes.
CONSTANTS
    w1 = w1
    w2 = w2
    FileSize = 3
    BlockSize = 2
    Workers <- TwoWorkers
    MaxStarts = 2
    MaxRead = 2
    IntMod = 64
SPECIFICATION Spec
SYMMETRY WorkerSymmetry
CONSTRAINT Undisturbed
INVARIANTS
    TypeOK
    MetaNeverAheadOfData
    PlainLengthMeansComplete
    CounterMatchesBlocks
PROPERTIES
    ProgressNeverLost
    ImplementsResumableFile
