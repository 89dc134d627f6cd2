CONSTANTS
    N = 3
    MaxRequests = 1
    MaxChunks = 1
    Idlers = {2}
    NoKey = NoKey
SPECIFICATION Spec
INVARIANTS
    TypeOK
    KeyAgreement
    OnionIntact
    TelescopeOrder
