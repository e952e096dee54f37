SPECIFICATION FairSpec
CONSTANTS
    User = {u1}
    Session = {s1}
    Token = {t1, t2}
    Code = {c1}
    Req = {q1, q2}
    None = None
    Admin = {u1}
    Enrolled = {}
    Ops = {"login", "refresh", "revoke", "logout"}
    AccessTTL = 1
    RevTTL = 1
    RefreshTTL = 1
    CodeCount = 1
    Failures = FALSE
    MaxTime = 1
    MaxSecret = 1
PROPERTIES
    ReuseLocksSession
CHECK_DEADLOCK FALSE
