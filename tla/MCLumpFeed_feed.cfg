SPECIFICATION FairSpec
CONSTANTS
    Components = {c1}
    LUMP = LUMP
    Growing = {c1}
    MaxLines = 2
    MaxFiles = 2
    MaxInits = 3
    MaxLives = 2
INVARIANTS TypeOK FedOnceInOrder
PROPERTIES CallsReturn
CHECK_DEADLOCK FALSE
