SPECIFICATION FairSpec
CONSTANTS
    ann = ann
    bob = bob
    k1 = k1
    k2 = k2
    k3 = k3
    k4 = k4
    alpha = alpha
    box = box
    Keys = {k1, k2, k3, k4}
    UserKeys = {k4}
    DemoReel = demo_reel
    Names = {alpha, box, demo_reel}
    Users = {ann, bob}
    Malformed = Malformed
    None = None
    Environments <- Tried
    Refreshes = {1, 2}
    MaxVersion = 1
    Unrenderable = {1}
INVARIANTS
    SummaryMatchesTables
    TypeOK
PROPERTIES
    TablesNeverGoBack
    RolloutsLeaveKeysAlone
    EveryRefreshEnds

