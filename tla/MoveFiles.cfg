SPECIFICATION FairSpec
CONSTANTS
    root = root
    movie = movie
    subs = subs
    film = film
    en = en
    loose = loose
    Root = root
    Dirs <- DeepDirs
    Files <- DeepFiles
    Parent <- DeepParent
    MaxEvents = 2
INVARIANTS
    TypeOK
    NothingLost
    MissingOnlyIfCut
    RemovedIsGone
PROPERTIES
    DirectoriesMove
