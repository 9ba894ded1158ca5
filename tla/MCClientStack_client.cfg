CONSTANTS
    TTL = 3
    BackoffBase = 1
    BackoffCap = 2
    StaggerCap = 1
    MaxAttempts = 2
    BreakerThreshold = 1
    Cooldown = 2
    DesiredLinks = 2
    MaxLinks = 4
    PostmanCasts <- SmallPostmanCasts
    RosterAt <- TwoRosters
    HeaderCap = 1
    Fresh = 1
    MaxFailures = 1
    ClientCasts <- SmallClientCasts
SPECIFICATION Spec
INVARIANTS TypeOK TimersArmed ListedLinksOpen PolledArePeers SubmitAnswered
PROPERTIES Resolves Redials ReadsCurrent 
CHECK_DEADLOCK FALSE
