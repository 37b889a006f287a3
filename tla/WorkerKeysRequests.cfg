SPECIFICATION Spec
CONSTANTS
    k1 = k1
    k2 = k2
    k3 = k3
    u1 = u1
    p1 = p1
    h1 = h1
    h2 = h2
    None = None
    Users = {u1}
    Keys = {k1, k2, k3}
    Processes = {p1}
    Threads = {h1, h2}
    ProcessOf <- OneProcess
    MaxActiveKeys = 1
    CacheSeconds = 2
    MaxTime = 3
SYMMETRY KeysAreInterchangeable
INVARIANTS
    RevocationTakesEffect
    ValidKeysAreNotRejected
    CapHoldsUpToOverlap
