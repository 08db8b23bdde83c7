SPECIFICATION Spec
CONSTANTS
    c1 = c1  c2 = c2  ev = ev
    r1 = r1  r2 = r2
    None = None
    Commands = {c1}
    Events = ev
    RoomIds = {r1, r2}
    MaxRestarts = 1
    MaxCalls = 6
SYMMETRY Symmetry
INVARIANTS
    TypeOK
    RoomsConsistent
    TopicsFollowRooms
PROPERTIES
    SavedUntilLeft
CHECK_DEADLOCK FALSE
