\* A regexp thread that sees EXIT before the barrier never comes to it.
SPECIFICATION FairSpec
CONSTANTS
    r0 = r0
    r1 = r1
    good = good
    bad = bad
    Regexps <- TwoRegexps
    Immediate <- OneDrop
    IPs <- TwoIPs
    Whitelist <- GoodIPs
    Texts <- FiveTexts
    MaxLines = 1
CHECK_DEADLOCK FALSE
PROPERTIES
    BarrierFills
