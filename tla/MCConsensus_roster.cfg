CONSTANTS
    n1 = n1
    n2 = n2
    n3 = n3
    n4 = n4
    Nodes <- RosterNodes
    Members <- MCNodes
    Txs = {1}
    Keys = {"roster"}
    Steps <- RosterStep
    Isolated = {}
    RosterKey = "roster"
    NewRoster <- Replaced
    WAdmit = 3
    ClockSkew = 1
    Stamp <- OneStamp
    Door <- OneDoor
    BlockTime = 2
    CutReserve = 1
    Down = {n3}
    SubmitBy = 2
    MaxClock = 5
    MaxSkew = 1
    MaxCrashes = 0
SPECIFICATION Spec
INVARIANTS OneSlicePerBucket BlocksAuthorised
SYMMETRY OneSymmetry
CHECK_DEADLOCK FALSE
