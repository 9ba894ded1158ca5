CONSTANTS
    n1 = n1
    n2 = n2
    n3 = n3
    n4 = n4
    Nodes <- MCNodes
    Members <- MCNodes
    Txs = {1}
    Keys = {"a", "roster"}
    Steps <- BlindStep
    Isolated = {}
    RosterKey = "roster"
    NewRoster <- NoSteps
    WAdmit = 3
    ClockSkew = 1
    Stamp <- OneStamp
    Door <- OneDoor
    BlockTime = 2
    CutReserve = 1
    Down = {n3}
    SubmitBy = 5
    MaxClock = 5
    MaxSkew = 1
    MaxCrashes = 2
SPECIFICATION Spec
INVARIANTS SignOnce SettleOnce NoParkedRound
SYMMETRY OneSymmetry
CHECK_DEADLOCK FALSE
