SPECIFICATION FairSpec
CONSTANTS
    movies = movies
    shows = shows
    Libs <- MCLibs
    Enough = 1
    MaxLinks = 2
    MaxChanges = 3
    Trouble = TRUE
INVARIANTS
    TypeOK
PROPERTIES
    RefreshJustified
    ForgottenOnlyByDebounce
CHECK_DEADLOCK FALSE
