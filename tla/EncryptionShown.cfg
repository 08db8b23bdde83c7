SPECIFICATION Spec
CONSTANTS
    r1 = r1  r2 = r2
    None = None
    Rooms = {r1}
    Starts = {"new"}
    MaxMessages = 1
    MaxClicks = 4
    MaxToggles = 0
    MaxFaults = 0
INVARIANTS
    SentAsShown
CHECK_DEADLOCK FALSE
