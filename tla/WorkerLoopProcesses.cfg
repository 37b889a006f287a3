SPECIFICATION FairSpec
CONSTANTS
    t1 = t1
    p1 = p1
    p2 = p2
    w1 = w1
    w2 = w2
    None = None
    Tasks = {t1}
    Processes = {p1, p2}
    Reliable = {p2}
    Workers = {w1, w2}
    Assignments <- BothAssignments
    InitialLease = 1
    ActiveLease = 2
    MaxTokens = 4
    MaxLosses <- Losses
INVARIANTS
    NoUpdateLost
    LiveHolderKeepsTask
PROPERTIES
    ReplacedSessionRenewsNothing
    EveryTaskFinishes
