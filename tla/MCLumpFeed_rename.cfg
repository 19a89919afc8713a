SPECIFICATION FairSpec
CONSTANTS
    Components = {c1, c2}
    LUMP = LUMP
    Growing = {c1}
    MaxLines = 1
    MaxFiles = 2
    MaxInits = 1
    MaxLives = 1
PROPERTY RotationRestarts
CHECK_DEADLOCK FALSE
