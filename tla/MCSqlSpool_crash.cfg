\* Three statements, two writers, two crashes.
SPECIFICATION FairSpec
CONSTANTS
    w1 = w1
    w2 = w2
    r1 = r1
    r2 = r2
    r3 = r3
    Writers <- AllWriters
    InputWriters <- InputOnly
    Records <- ThreeRecords
    MaxCrashes = 2
INVARIANTS
    TypeOK
    NothingLost
    RepeatedOnlyByCrash
PROPERTIES
    PendingIsWorkedOff
