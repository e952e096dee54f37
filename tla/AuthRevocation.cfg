SPECIFICATION Spec
CONSTANTS
    User = {u1, u2}
    Session = {s1, s2}
    Token = {t1, t2}
    Code = {c1}
    Req = {q1, q2}
    None = None
    Admin = {u1}
    Enrolled = {u1}
    Ops = {"login", "refresh", "revoke", "revokeAll", "adminRevokeAll", "challenge"}
    AccessTTL = 1
    RevTTL = 1
    RefreshTTL = 1
    CodeCount = 1
    Failures = TRUE
    MaxTime = 1
    MaxSecret = 1
SYMMETRY Symmetry
INVARIANTS
    IInv
    NoTokenFromRevokedGrant
    RevokedTokensRefused
    ExposureBounded
    SecondFactorBehindTokens
CHECK_DEADLOCK FALSE
