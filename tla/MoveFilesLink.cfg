SPECIFICATION Spec
CONSTANTS
    root = root
    movie = movie
    subs = subs
    film = film
    en = en
    loose = loose
    Root = root
    Dirs <- FlatDirs
    Files <- FlatFiles
    Parent <- FlatParent
    MaxEvents = 0
INVARIANTS
    MovedIsLinked
