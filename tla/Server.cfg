SPECIFICATION FairSpec
CONSTANTS
    c1 = c1
    c2 = c2
    NoClient = NoClient
    Clients <- MCClients
INVARIANTS
    TypeOK
PROPERTIES
    AnswersAreTrue
    DeadTasksEndServer
    EveryClientServed
CHECK_DEADLOCK FALSE
