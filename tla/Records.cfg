SPECIFICATION RecordsSpec
CONSTANTS
    Parts = {"invitations", "limits", "keys", "impersonation", "households"}
    Invitation = {i1, i2}
    Token = {t1, t2, t3}
    Req = {q1, q2}
    Call = {c1, c2}
    TTL = 1
    MaxTime = 2
    None = None
    Limit <- MCLimit
    KeysOf <- MCKeysOf
    Window = 2
    MaxRequests = 3
    MaxSeconds = 3
    Grace = 2
    MaxKeys = 4
    MaxHours = 4
    User = {"staff", "chief"}
    Durations = {1}
    MaxMinutes = 3
SYMMETRY Symmetry
INVARIANTS
    OneInvitation
    PendingMeansUnregistered
    LimitExact
    KeysDie
    TokensHonest
    HouseholdSettled
PROPERTIES
    JoinsOnce
CHECK_DEADLOCK FALSE
