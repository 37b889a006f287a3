SPECIFICATION Spec
CONSTANTS
    t1 = t1
    t2 = t2
    w1 = w1
    w2 = w2
    s1 = s1
    s2 = s2
    s3 = s3
    u1 = u1
    u2 = u2
    k1 = k1
    k2 = k2
    k3 = k3
    c1 = c1
    c2 = c2
    image = image
    text = text
    None = None
    Tasks = {t1, t2}
    Workers = {w1, w2}
    Sessions = {}
    Users = {}
    Tokens = {k1, k2, k3}
    Conns = {c1, c2}
    Types = {image, text}
    TaskType <- ImageThenText
    Serves <- ImageOrAll
    KeyOwner <- OperatorKeys
    Stages = {"rendering"}
    LeaseTerms = {1}
    Overrides <- NoOverride
    Retentions = {2}
    ActiveLease = 1
    WorkerRetention = 2
    MaxTime = 3
SYMMETRY Symmetry
INVARIANTS
    ClaimsMatchGrants
    OutcomeFromOwnGrant
PROPERTIES
    TokenNeverReturns
    OnlyOverdueClaimsAreLost
    OldestFirst
    OverClaimStaysOver
    ImplementsLifecycle
CHECK_DEADLOCK FALSE
