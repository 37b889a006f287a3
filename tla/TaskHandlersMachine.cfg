SPECIFICATION Spec
CONSTANTS
    p1 = p1
    p2 = p2
    p3 = p3
    m1 = m1
    None = None
    NoModel = NoModel
    Pids = {p1, p2, p3}
    Models = {m1}
    Manage = TRUE
    Failing = {"log", "pid", "ps"}
    MaxCrashes = 2
SYMMETRY PidsAreInterchangeable
INVARIANTS
    OnlyOwnIsStopped
    OneComfyAtATime
    TextRunsAlone
    RenderRunsAlone
    LoadedIsOwned
    BlankIsNotReused
CHECK_DEADLOCK FALSE
