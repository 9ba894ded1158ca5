CONSTANTS
    n1 = n1
    n2 = n2
    n3 = n3
    n4 = n4
    Nodes <- MCNodes
    Members <- MCNodes
    Txs = {}
    Keys = {"roster"}
    Steps <- NoSteps
    Isolated = {}
    RosterKey = "roster"
    NewRoster <- NoSteps
    WAdmit = 3
    ClockSkew = 1
    Stamp <- NoSteps
    Door <- NoDoor
    BlockTime = 2
    CutReserve = 1
    Down = {}
    SubmitBy = 2
    MaxClock = 5
    MaxSkew = 3
    MaxCrashes = 0
SPECIFICATION Spec
INVARIANTS BucketsIncrease OverlapIsDead
SYMMETRY Symmetry
CHECK_DEADLOCK FALSE
