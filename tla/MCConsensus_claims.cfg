CONSTANTS
    n1 = n1
    n2 = n2
    n3 = n3
    n4 = n4
    Nodes <- MCNodes
    Members <- MCNodes
    Txs = {1, 2, 3}
    Keys = {"a", "b", "roster"}
    Steps <- ClaimSteps
    Isolated = {3}
    RosterKey = "roster"
    NewRoster <- NoSteps
    WAdmit = 3
    ClockSkew = 1
    Stamp <- ClaimStamp
    Door <- ClaimDoor
    BlockTime = 2
    CutReserve = 1
    Down = {n3}
    SubmitBy = 2
    MaxClock = 5
    MaxSkew = 1
    MaxCrashes = 0
SPECIFICATION Spec
INVARIANTS TypeOK OneSlicePerBucket
CHECK_DEADLOCK FALSE
