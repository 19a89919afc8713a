\* Three runs of the program, one of them killed, over a log of three lines.
SPECIFICATION FairSpec
CONSTANTS
    MaxLines = 3
    FirstLines = 1
    InFlight = 2
    MaxStarts = 3
    MaxCrashes = 1
INVARIANTS
    TypeOK
    OncePerLife
    OnlyInFlightBelow
    BacklogReadToEnd
PROPERTIES
    PositionNeverBack
    LinesAreProcessed
