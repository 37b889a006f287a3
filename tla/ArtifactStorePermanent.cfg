SPECIFICATION Spec
CONSTANTS
    a1 = a1
    a2 = a2
    r1 = r1
    r2 = r2
    None = None
    Artifacts = {a1}
    Requests = {r1, r2}
    Suffixes = {".png", ".webp", ""}
INVARIANTS
    DeleteIsPermanent
CHECK_DEADLOCK FALSE
