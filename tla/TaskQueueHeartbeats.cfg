SPECIFICATION Spec
CONSTANTS
    t1 = t1
    t2 = t2
    w1 = w1
    w2 = w2
    s1 = s1
    s2 = s2
    s3 = s3
    u1 = u1
    u2 = u2
    k1 = k1
    k2 = k2
    k3 = k3
    c1 = c1
    c2 = c2
    image = image
    text = text
    None = None
    Tasks = {t1}
    Workers = {w1}
    Sessions = {s1, s2, s3}
    Users = {u1, u2}
    Tokens = {k1, k2}
    Conns = {c1, c2}
    Types = {image}
    TaskType <- AllImage
    Serves <- AllServeAll
    KeyOwner <- TwoUsersAndOperator
    Stages = {"rendering"}
    LeaseTerms = {1}
    Overrides <- NoOverride
    Retentions = {2}
    ActiveLease = 1
    WorkerRetention = 1
    MaxTime = 3
SYMMETRY Symmetry
INVARIANTS
    TypeOK
    CurrentTaskExists
PROPERTIES
    FinishedNeverReopens
    OwnershipOnlyPassesToOperator
    SettledRowIsFinal
    ReplacedSessionStaysOut
CHECK_DEADLOCK FALSE
