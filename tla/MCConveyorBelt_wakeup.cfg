\* The notification sent between the size test and the wait is lost.
SPECIFICATION FairSpec
CONSTANTS
    p1 = p1
    p2 = p2
    p3 = p3
    Procs <- TwoProcs
    MaxQueueSize = 2
    MaxLines = 5
    TornSize = FALSE
PROPERTIES
    DeliverReturns
