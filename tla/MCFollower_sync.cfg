CONSTANTS
    Chain <- ThreeBlocks
    Parts = {1, 2}
    Start = 2
    Casts <- SmallCasts
    Batch = 2
    Reseating = {3}
SPECIFICATION Spec
INVARIANTS TypeOK ReplicaCoherent
PROPERTIES FollowsLedger CatchesUp
