\* Two lines, two regexps, every interleaving of their threads.  Deadlock is not
\* checked: the program stops when the thread returns, and may stop at the barrier.
SPECIFICATION FairSpec
CONSTANTS
    r0 = r0
    r1 = r1
    good = good
    bad = bad
    Regexps <- TwoRegexps
    Immediate <- OneDrop
    IPs <- TwoIPs
    Whitelist <- GoodIPs
    Texts <- FiveTexts
    MaxLines = 2
CHECK_DEADLOCK FALSE
INVARIANTS
    TypeOK
    SeenIsTrue
    EvaluatedBeforeSeen
    SingleMatchExact
    WhitelistedDropNeedsTwo
PROPERTIES
    SeenIsSettled
    TakenIsSeen
