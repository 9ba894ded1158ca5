CONSTANTS
    Ids <- MCIds
    Anchor = "anchor"
    Authors <- MCAuthors
    MaxPool = 1
    Workers = {"w1", "w2"}
    Jobs = {1}
    App = "app"
    LeaseDuration = 1
    Ahead <- MCAhead
    MaxClock = 2
    MaxCrashes = 1
    Managers = {"m"}
    Writers = {"c"}
    Newcomers = {"n1"}
    MaxChanges = 3
    Casts = {"jobs", "registry", "roster", "keys"}
    Seats = {"n1", "n2", "n3", "n4"}
SPECIFICATION Spec
INVARIANTS TypeOK JobInOnePlace DoneOnlyIfRan RegistryAgrees DenseWhileFresh SealedReadable EpochsWrapped
CHECK_DEADLOCK FALSE
