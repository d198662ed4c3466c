SPECIFICATION Spec
CONSTANTS
    listener = listener
    scan = scan
    updater = updater
    NoCaller = NoCaller
    Callers <- MCCallers
    Asks <- MCAsks
    Period = 2
    Word = 8
    Pairs = 2
    MaxOld = 1
    MaxElapsed = 4
    QueueCap = 3
    OverflowChecks = FALSE
    Punctual = TRUE
INVARIANTS
    CountdownWithinPeriod
CHECK_DEADLOCK FALSE
