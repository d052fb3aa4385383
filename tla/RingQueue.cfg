\* More items than slots, so that every slot is used again.
CONSTANTS
    Size = 3
    Last = 7
SPECIFICATION FairSpec
INVARIANTS
    TypeOK
PROPERTIES
    ImplementsQueue
    NothingOverwritten
    AllEaten
CHECK_DEADLOCK FALSE
