SPECIFICATION Spec
CONSTANTS
    Dirs = {d1, d2, d3}
    Ids = {relay1}
    Contents = {x, y}
    None = None
    Peers <- MCMesh
    SyncWindow = 1
    MaxAge = 2
    MaxClock = 3
    MaxRegisters = 2
    MaxRestarts = 1
CHECK_DEADLOCK FALSE
SYMMETRY MCSymmetry
INVARIANTS
    TypeOK
    GossipReaches
    SameConsensus
PROPERTY
    RegistrySpec
