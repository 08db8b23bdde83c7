SPECIFICATION Spec
CONSTANTS
    c1 = c1  c2 = c2  ev = ev
    m1 = m1  m2 = m2
    i1 = i1  i2 = i2
    p1 = p1  p2 = p2
    s1 = s1  s2 = s2
    None = None
    Commands = {c1, c2}
    Events = ev
    Msgs = {m1, m2}
    Ids = {i1, i2}
    Passwords = {p1, p2}
    Salts = {s1, s2}
    MaxRestarts = 1
    MaxFailures = 1
SYMMETRY Symmetry
CONSTRAINT OnlyCreationsOverlap
INVARIANTS
    TypeOK
    OpensWithItsSalt
    SavedStaysSaved
    MemoryCoversVault
CHECK_DEADLOCK FALSE
