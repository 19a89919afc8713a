\* The only notification is swallowed: wait4NotifyNew takes it and
\* recordsPending finds nothing.
SPECIFICATION FairSpec
CONSTANTS
    w1 = w1
    w2 = w2
    r1 = r1
    r2 = r2
    r3 = r3
    Writers <- AllWriters
    InputWriters <- InputOnly
    Records <- TwoRecords
    MaxCrashes = 0
PROPERTIES
    NotifiedIsExecuted
