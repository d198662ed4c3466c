SPECIFICATION FairSpec
CONSTANTS
    listener = listener
    scan = scan
    updater = updater
    NoCaller = NoCaller
    Callers <- MCCallers
    Asks <- MCAsks
    Period = 2
    Word = 8
    Pairs = 2
    MaxOld = 1
    MaxElapsed = 4
    QueueCap = 3
    OverflowChecks = TRUE
    Punctual = FALSE
PROPERTIES
    EveryCallAnswered
CHECK_DEADLOCK FALSE
