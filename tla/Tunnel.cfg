SPECIFICATION Spec
CONSTANTS
    p1 = p1  p2 = p2
    ip1 = ip1  ip2 = ip2
    None = None  NoIP = NoIP
    Peers = {p1, p2}
    IPs = {ip1, ip2}
    MaxKeys = 2
    MaxFaults = 2
    MaxStarts = 2
    MaxClicks = 3
SYMMETRY Symmetry
INVARIANTS
    TypeOK
    FileIsConfig
    PeersAreConfigured
    StaleTunnelShown
CHECK_DEADLOCK FALSE
