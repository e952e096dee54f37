SPECIFICATION FairSpec
CONSTANTS
    User = {u1}
    Req = {q1, q2}
    None = None
    Mode <- Modes
    TenantTTL = 2
    FirmTTL = 1
    PermsTTL = 2
    Name = {"n1", "n2"}
    Assignment = {a1, a2}
INVARIANTS
    InvalidationWorks
PROPERTIES
    SuspensionTakesHold
    LostPermissionLosesPower
    CachesConverge
