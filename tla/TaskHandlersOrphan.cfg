SPECIFICATION Spec
CONSTANTS
    p1 = p1
    p2 = p2
    p3 = p3
    m1 = m1
    None = None
    NoModel = NoModel
    Pids = {p1, p2}
    Models = {m1}
    Manage = TRUE
    Failing = {}
    MaxCrashes = 1
SYMMETRY PidsAreInterchangeable
PROPERTIES
    OrphanIsNotLost
CHECK_DEADLOCK FALSE
