\* Two starts of two threads in one process, any number of processes, one failure.
CONSTANTS
    w1 = w1
    w2 = w2
    Items = {"hashed", "chunked"}
    Order <- HashedAndChunked
    Workers <- TwoWorkers
    Size = 2
    Sized <- AllSized
    Hashed <- AllHashed
    Server <- Servers
    InitPaths <- NothingOrOld
    InitTemps <- Leftovers
    MaxStarts = 2
    MaxFaults = 1
    MaxLen = 4
SPECIFICATION Spec
SYMMETRY WorkerSymmetry
CONSTRAINT Undisturbed
INVARIANTS
    TypeOK
    FinishedIsVerified
    CreditExact
    DoneMeansSettled
PROPERTIES
    VerifiedCopySurvives
