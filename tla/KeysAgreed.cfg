SPECIFICATION FairSpec
CONSTANTS
    a = a  b = b  c = c
    Nodes = {a, b, c}
    Starts = {"late"}
    MaxConnects = 2
    MaxFaults = 0
INVARIANTS
    NoKeyLost
PROPERTIES
    KeysAgreed
CHECK_DEADLOCK FALSE
