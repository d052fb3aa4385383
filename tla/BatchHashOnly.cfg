\* A file whose hash is given and whose size is not; nothing fails but the process.
CONSTANTS
    w1 = w1
    w2 = w2
    Items = {"hashed", "plain"}
    Order <- HashedAndPlain
    Workers <- TwoWorkers
    Size = 2
    Sized <- AllSized
    Hashed <- AllHashed
    Server <- Servers
    InitPaths <- Nothing
    InitTemps <- Nothing
    MaxStarts = 1
    MaxFaults = 0
    MaxLen = 4
SPECIFICATION Spec
INVARIANTS
    NoErrorWithoutFault
