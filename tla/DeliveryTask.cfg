SPECIFICATION FairSpec
CONSTANTS
    t1 = t1
    w1 = w1
    w2 = w2
    a1 = a1
    a2 = a2
    r1 = r1
    r2 = r2
    None = None
    Tasks = {t1}
    Workers = {w1, w2}
    Artifacts = {a1, a2}
    Suffixes = {".webp", ".png"}
    Requests = {r1, r2}
    Kinds = {"remote", "candidate"}
    PostFormat = ".webp"
    Retentions = {1}
    ArtifactRetention = 1
    MaxTime = 2
INVARIANTS
    ResultIsDownloadable
    HeroIsWhole
PROPERTIES
    EveryWaitEnds
CHECK_DEADLOCK FALSE
