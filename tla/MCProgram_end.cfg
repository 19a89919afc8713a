SPECIFICATION FairSpec
CONSTANTS
    Configs <- MCConfigs
    NoConfig = NoConfig
    NoOwner = NoOwner
    NoThread = NoThread
INVARIANTS TypeOK StartsOnlySound
PROPERTIES EndsWhenTold WatchedIsRead
CHECK_DEADLOCK FALSE
