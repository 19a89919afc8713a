SPECIFICATION FairSpec
CONSTANTS
    Rows <- MCRows
    EvalRegexps <- MCEvalRegexps
    MaxHitCountToChk = 1
    MaxSecondsToKeep = 2
    NoMatch = "none"
    MaxMishaps = 1
INVARIANTS TypeOK HitsAreKept HistIsTraceable CopiesByMishap DropsSpanSeconds
PROPERTIES OffenderIsDropped
