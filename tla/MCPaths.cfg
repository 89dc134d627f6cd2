SPECIFICATION Spec
CONSTANTS
    e1 = e1  e2 = e2  m1 = m1  x1 = x1
    Relays <- MCRelays
    Lists <- MCLists
    Builders = {rot, get}
    Rotation = rot
    Skew <- MCSkew
    TokenTTL = 2
    MaxChanges = 2
    MaxBuilds = 2
    MaxCrashes = 1
    MaxNow = 4
    NoRelay = NoRelay
    Torn = Torn
INVARIANTS TypeOK SoundPath TokenHonoured
PROPERTIES GuardKept ListsConverge
