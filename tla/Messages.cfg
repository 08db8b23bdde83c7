SPECIFICATION MessagingSpec
CONSTANTS
    a = a  b = b  c = c
    None = None
    Nodes = {a, b, c}
    Starts = {"unlocked", "late"}
    MaxConnects = 2
    MaxFaults = 1
    Friends = {{a, b}}
    Outsiders = 0
    MaxTotal = 3
    MaxRedeliver = 1
SYMMETRY Symmetry
INVARIANTS
    MessagingTypeOK
    ReadableOnArrival
    EnvelopesTravel
PROPERTIES
    ImplementsMailbox
CHECK_DEADLOCK FALSE
