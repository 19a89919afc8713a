\* Three processing threads, fair scheduling, size() reads before or after pop().
SPECIFICATION FairSpec
CONSTANTS
    p1 = p1
    p2 = p2
    p3 = p3
    Procs <- ThreeProcs
    MaxQueueSize = 3
    MaxLines = 5
    TornSize = FALSE
INVARIANTS
    TypeOK
    ShutDownComplete
    IndInv
PROPERTIES
    DeliveredIsProcessed
    ShutDownReturns
    ImplementsHandoff
