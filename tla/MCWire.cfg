SPECIFICATION Spec
CONSTANTS
    PayloadSizes = {121, 122, 477, 478, 500, 998, 999, 1498}
    PreambleBytes = {0, 223, 224, 255}
    Cuts = {1, 2, 5}
    IdxMod = 3
    MaxPayloads = 2
    MaxInFlight = 2
INVARIANT TypeOK
INVARIANT PayloadsInOrder
INVARIANT ReaderInStep
INVARIANT NothingLeftBehind
CHECK_DEADLOCK FALSE
