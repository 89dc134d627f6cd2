CONSTANTS
    N = 2
    MaxRequests = 1
    MaxChunks = 0
    Idlers = {1, 2}
    NoKey = NoKey
SPECIFICATION FairSpec
INVARIANT SweeperSeesAll
PROPERTY EventuallyTornDown
