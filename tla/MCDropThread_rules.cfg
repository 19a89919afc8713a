\* Two addresses, one failure, one crash.
SPECIFICATION FairSpec
CONSTANTS
    ip1 = ip1
    ip2 = ip2
    IPs <- TwoIPs
    Enabled = TRUE
    MaxFailures = 1
    MaxCrashes = 1
INVARIANTS
    TypeOK
    DoneIsDropped
    RulesHaveRows
PROPERTIES
    NewIsWorkedOff
