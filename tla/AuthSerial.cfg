SPECIFICATION Spec
CONSTANTS
    User = {u1}
    Session = {s1}
    Token = {t1, t2, t3}
    Code = {c1, c2}
    Req = {q1}
    None = None
    Admin = {u1}
    Enrolled = {}
    Ops = {"login", "refresh", "revoke", "revokeAll", "adminRevokeAll", "logout", "challenge", "recover", "enroll", "verify", "status"}
    AccessTTL = 1
    RevTTL = 1
    RefreshTTL = 1
    CodeCount = 1
    Failures = FALSE
    MaxTime = 1
    MaxSecret = 2
SYMMETRY Symmetry
INVARIANTS
    SpentOnce
    RevokedSessionHasNoLiveToken
    EnrolmentWhole
    RevocationIsImmediate
CHECK_DEADLOCK FALSE
