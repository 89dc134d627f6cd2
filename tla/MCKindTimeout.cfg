SPECIFICATION Spec
CONSTANTS
    Clients = {c1, c2}
    Workers = {w1, w2}
    Capacity = 1
    Nobody = Nobody
INVARIANT
    TimeoutSparesTunnel
