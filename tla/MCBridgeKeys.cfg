SPECIFICATION ModeSpec
CONSTANTS
    Commands = {"Relay"}
    MaxUp = 1
    MaxDown = 2
    Buf = 2
INVARIANT SessionKeyShared
CHECK_DEADLOCK FALSE
