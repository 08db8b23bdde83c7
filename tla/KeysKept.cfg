SPECIFICATION Spec
CONSTANTS
    a = a  b = b  c = c
    Nodes = {a, b, c}
    Starts = {"unlocked", "late"}
    MaxConnects = 2
    MaxFaults = 1
SYMMETRY Symmetry
INVARIANTS
    TypeOK
    NoExchangeLoop
PROPERTIES
    KeysKept
CHECK_DEADLOCK FALSE
