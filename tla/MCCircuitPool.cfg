SPECIFICATION Spec
CONSTANTS
    Requests = {r1, r2}
    Count = 2
    MaxCircuits = 5
    MaxRotations = 1
    MaxDead = 1
SYMMETRY MCSymmetry
INVARIANTS
    TypeOK
    ClosedOnlyInTransit
    ReadyWhenSettled
