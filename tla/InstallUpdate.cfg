SPECIFICATION FairSpec
CONSTANTS
    Count = 2
    MaxRelease = 4
INVARIANTS
    TypeOK
    RunsMatchingPair
    OldSurvives
    ErrorsTellAll
PROPERTIES
    BackoffKept
    StopLeadsOn
CHECK_DEADLOCK FALSE
