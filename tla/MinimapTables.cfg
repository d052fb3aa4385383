CONSTANTS
    Cmps <- TwoCmps
    Maps <- OneMap
    MapOf <- AllOnOne
    c1 = c1
    c2 = c2
    m1 = m1
    Spots = {"near", "far"}
    MaxIndex = 3
SPECIFICATION Spec
SYMMETRY CmpSymmetry
INVARIANTS
    TypeOK
    RegisteredIsFound
    IdsPointHome
    TablesAreAlive
    KeysAreNotReused
