SPECIFICATION Spec
CONSTANTS
    Commands = {"Relay"}
    MaxUp = 3
    MaxDown = 3
    Buf = 1
INVARIANT TypeOK
PROPERTY UpTunnel
PROPERTY DownTunnel
PROPERTY SessionEnds
PROPERTY UpDelivers
CHECK_DEADLOCK FALSE
