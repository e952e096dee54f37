SPECIFICATION Spec
CONSTANTS
    User = {u1}
    Session = {s1}
    Token = {t1, t2, t3}
    Code = {c1}
    Req = {q1, q2}
    None = None
    Admin = {u1}
    Enrolled = {}
    Ops = {"login", "refresh"}
    AccessTTL = 1
    RevTTL = 1
    RefreshTTL = 1
    CodeCount = 1
    Failures = FALSE
    MaxTime = 0
    MaxSecret = 1
SYMMETRY Symmetry
INVARIANTS
    RefreshTokenSpentOnce
CHECK_DEADLOCK FALSE
