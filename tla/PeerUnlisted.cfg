SPECIFICATION Spec
CONSTANTS
    p1 = p1  p2 = p2
    n1 = n1  n2 = n2
    Guest = Guest
    None = None
    Peers = {p1, p2}
    Names = {n1, n2}
    MaxConns = 2
    MaxChanges = 5
    MaxAsks = 1
INVARIANTS
    ConnectedIsListed
CHECK_DEADLOCK FALSE
