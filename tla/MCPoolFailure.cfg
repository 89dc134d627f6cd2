SPECIFICATION Spec
CONSTANTS
    Requests = {r1, r2}
    Count = 2
    MaxCircuits = 4
    MaxRotations = 1
    MaxDead = 1
INVARIANT
    FailureRebuilds
