CONSTANTS
    n1 = n1
    n2 = n2
    n3 = n3
    n4 = n4
    Nodes <- MCNodes
    Members <- MCNodes
    Txs = {1}
    Keys = {"a", "roster"}
    Steps <- OneStep
    Isolated = {}
    RosterKey = "roster"
    NewRoster <- NoSteps
    WAdmit = 3
    ClockSkew = 1
    Stamp <- OneStamp
    Door <- OneDoor
    BlockTime = 2
    CutReserve = 1
    Down = {}
    SubmitBy = 2
    MaxClock = 3
    MaxSkew = 1
    MaxCrashes = 0
SPECIFICATION Spec
INVARIANTS OneSlicePerBucket
SYMMETRY OneSymmetry
CHECK_DEADLOCK FALSE
