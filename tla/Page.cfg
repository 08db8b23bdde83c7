SPECIFICATION Spec
CONSTANTS
    r1 = r1  r2 = r2
    None = None
    Rooms = {r1, r2}
    Starts = {"new", "running"}
    MaxMessages = 1
    MaxClicks = 3
    MaxToggles = 2
    MaxFaults = 1
SYMMETRY Symmetry
INVARIANTS
    TypeOK
    PaneInRoom
    NothingHidden
    SwitchShown
CHECK_DEADLOCK FALSE
