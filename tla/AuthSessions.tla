---------------------------- MODULE AuthSessions ----------------------------
(***************************************************************************)
(* Sessions, refresh tokens, access tokens and second factors of the API   *)
(* (modules/auth, modules/sessions, http/middleware/auth).                 *)
(*                                                                         *)
(* Every HTTP request is a process q \in Req that runs one handler.  The   *)
(* handler's code between two awaits is one action: a step executes one    *)
(* SQL statement or one Redis command and everything up to the next await, *)
(* so handlers interleave exactly where the event loop lets them.          *)
(* req[q].at names the statement the handler executes next.                *)
(***************************************************************************)
EXTENDS Naturals, FiniteSets

CONSTANTS
    User, Session, Token, Code, Req,
    None,
    Admin,       \* users whose roles carry the permission user.manage_roles
    Enrolled,    \* users that start with a verified TOTP factor
    Ops,         \* the operations clients call in this instance
    AccessTTL,   \* JWT_ACCESS_TOKEN_TTL
    RevTTL,      \* SESSION_REVOCATION_TTL
    RefreshTTL,  \* JWT_REFRESH_TOKEN_TTL
    CodeCount,   \* RECOVERY_CODE_COUNT
    Failures,    \* may a handler die half way (crash, database or Redis error)?
    MaxTime, MaxSecret   \* bounds of the model: the clock, the enrolments

ASSUME TTLAssumption ==
    /\ AccessTTL \in Nat /\ RevTTL \in Nat /\ RefreshTTL \in Nat
    /\ RevTTL >= AccessTTL
ASSUME UserAssumption == Admin \subseteq User /\ Enrolled \subseteq User
ASSUME NoneAssumption ==
    None \notin User \cup Session \cup Token \cup Code \cup {"login", "challenge"}
\* Refresh tokens, recovery codes and the two other grants are told apart.
ASSUME GrantAssumption ==
    /\ Token \cap Code = {}
    /\ {"login", "challenge"} \cap (Token \cup Code) = {}
ASSUME CodeCountAssumption == CodeCount \in Nat

VARIABLES
    now,         \* the clock the API hosts, Postgres and Redis share
    status,      \* users.status
    sessions,    \* rows of the table sessions
    rtoken,      \* rows of the table refresh_tokens
    held,        \* refresh tokens whose raw value a client received
    access,      \* access tokens a client received
    listedUntil, \* expiry of the Redis key revoked:session:<id>; 0: never set
    factor,      \* the row of mfa_factors of each user
    codes,       \* rows of mfa_recovery_codes
    req          \* the handlers in flight

Tables == <<now, status, sessions, rtoken, held, access, listedUntil, factor,
            codes>>
vars == <<Tables, req>>

(***************************************************************************)
(* What a refresh token was issued for: a password login, a TOTP           *)
(* challenge, the recovery code or the refresh token that was presented.   *)
(***************************************************************************)
Source == {"login", "challenge"} \cup Code \cup Token

(***************************************************************************)
(* Where an access token stands against its session's revocation.  It is   *)
(* history, recorded when the token is signed: "fresh" if the session was  *)
(* active, "late" if the session was revoked after the request came in,    *)
(* "stale" if what the request presented was already revoked by then.      *)
(***************************************************************************)
Lag == {"fresh", "late", "stale"}

NoSession == [state |-> "absent", user |-> None, revokedAt |-> 0]
NoToken == [state |-> "absent", sid |-> None, exp |-> 0, from |-> None]
NoCode == [state |-> "absent", user |-> None]
NoFactor == [state |-> "none", secret |-> 0, proved |-> 0]

Idle == [at |-> "idle", user |-> None, sid |-> None, from |-> None,
         made |-> None, mfa |-> FALSE, iat |-> 0, lag |-> "fresh",
         dead |-> FALSE, listing |-> {}, purging |-> {}, secret |-> 0]

\* Statements after which the handler still has a refresh token to insert.
Minting == {"login.createSession", "login.findFactor", "challenge.findUser",
            "challenge.findFactor", "recover.findUser", "recover.findCode",
            "recover.markUsed", "issue.sign", "issue.createRefresh",
            "refresh.findSession", "refresh.rotate", "refresh.findUser",
            "refresh.findFactor", "refresh.createRefresh"}
Label == Minting \cup
    {"idle", "refresh.sign", "theft.revokeTokens", "theft.revokeSession",
     "theft.list", "revoke.update", "revoke.fanout", "enroll.deleteCodes",
     "enroll.insertCodes", "verify.mark"}

\* The local variables of a handler.
Local == [at : Label, user : User \cup {None}, sid : Session \cup {None},
          from : Source \cup {None}, made : Token \cup {None}, mfa : BOOLEAN,
          iat : Nat, lag : Lag, dead : BOOLEAN, listing : SUBSET Session,
          purging : SUBSET Session, secret : Nat]

TypeOK ==
    /\ now \in Nat
    /\ status \in [User -> {"active", "disabled"}]
    /\ sessions \in [Session -> [state : {"absent", "active", "revoked"},
                                 user : User \cup {None}, revokedAt : Nat]]
    /\ rtoken \in [Token -> [state : {"absent", "live", "revoked"},
                             sid : Session \cup {None}, exp : Nat,
                             from : Source \cup {None}]]
    /\ held \in SUBSET Token
    /\ access \in SUBSET [sid : Session, iat : Nat, mfa : BOOLEAN, lag : Lag]
    /\ listedUntil \in [Session -> Nat]
    /\ factor \in [User -> [state : {"none", "pending", "verified"},
                            secret : Nat, proved : Nat]]
    /\ codes \in [Code -> [state : {"absent", "unused", "used"},
                           user : User \cup {None}]]
    /\ req \in [Req -> Local]

CodesOf(u) == {c \in Code : codes[c].state # "absent" /\ codes[c].user = u}

Init ==
    /\ now = 0
    /\ status = [u \in User |-> "active"]
    /\ sessions = [s \in Session |-> NoSession]
    /\ rtoken = [t \in Token |-> NoToken]
    /\ held = {}
    /\ access = {}
    /\ listedUntil = [s \in Session |-> 0]
    /\ factor = [u \in User |->
                    IF u \in Enrolled
                    THEN [state |-> "verified", secret |-> 1, proved |-> 1]
                    ELSE NoFactor]
    /\ codes \in [Code -> {NoCode} \cup [state : {"unused"}, user : Enrolled]]
    /\ \A u \in Enrolled : Cardinality(CodesOf(u)) <= CodeCount
    /\ req = [q \in Req |-> Idle]

-----------------------------------------------------------------------------
(* The handler's program counter, and the bounds on the tables.            *)

At(q, label) == req[q].at = label
Become(q, local) == req' = [req EXCEPT ![q] = local]
Goto(q, label) == Become(q, [req[q] EXCEPT !.at = label])
Finish(q) == Become(q, Idle)
Begin(q, op, local) == op \in Ops /\ At(q, "idle") /\ Become(q, local)

\* Bound: a handler starts only if a row is left for the token it may insert.
TokenLeft ==
    Cardinality({q \in Req : req[q].at \in Minting})
        < Cardinality({t \in Token : rtoken[t].state = "absent"})
SessionLeft ==
    Cardinality({q \in Req : At(q, "login.createSession")})
        < Cardinality({s \in Session : sessions[s].state = "absent"})

Listed(s) == now < listedUntil[s]

\* authMiddleware lets the token through: jwtVerify, then redis.get.
Accepts_IgnoresExpiry(a) == ~Listed(a.sid)
Accepts_IgnoresRevocation(a) == now < a.iat + AccessTTL
Accepts(a) ==
    /\ now < a.iat + AccessTTL
    /\ ~Listed(a.sid)

UserOf(a) == sessions[a.sid].user
Active(s) == sessions[s].state = "active"
Verified(u) == factor[u].state = "verified"
ActiveSessionsOf(u) == {s \in Session : Active(s) /\ sessions[s].user = u}

\* UPDATE sessions SET revoked_at = now() over a set of rows.
Revoked(S) == [s \in Session |-> IF s \in S
                                 THEN [sessions[s] EXCEPT !.state = "revoked",
                                                          !.revokedAt = now]
                                 ELSE sessions[s]]

\* UPDATE refresh_tokens SET revoked_at = now() over a set of rows.
RevokedTokens(T) == [t \in Token |-> IF t \in T
                                     THEN [rtoken[t] EXCEPT !.state = "revoked"]
                                     ELSE rtoken[t]]
LiveTokensOf(s) == {t \in Token : rtoken[t].state = "live" /\ rtoken[t].sid = s}

\* SET revoked:session:<s> 1 EX SESSION_REVOCATION_TTL
AddToRevocationSet_Short(s) == listedUntil' = [listedUntil EXCEPT ![s] = now]
AddToRevocationSet(s) ==
    listedUntil' = [listedUntil EXCEPT ![s] = now + RevTTL]

\* INSERT INTO refresh_tokens for the session and source of request q.
InsertToken(q, t) ==
    /\ rtoken[t].state = "absent"
    /\ rtoken' = [rtoken EXCEPT ![t] =
                    [state |-> "live", sid |-> req[q].sid,
                     exp |-> now + RefreshTTL, from |-> req[q].from]]

SignLag(q) == IF req[q].dead THEN "stale"
              ELSE IF Active(req[q].sid) THEN "fresh" ELSE "late"

-----------------------------------------------------------------------------
(* login *)

LoginStart(q, u) ==
    /\ TokenLeft /\ SessionLeft
    /\ status[u] = "active"
    /\ Begin(q, "login", [Idle EXCEPT !.at = "login.createSession",
                                      !.user = u, !.from = "login"])
    /\ UNCHANGED Tables

LoginCreateSession(q) ==
    /\ At(q, "login.createSession")
    /\ \E s \in Session :
        /\ sessions[s].state = "absent"
        /\ sessions' = [sessions EXCEPT ![s] = [state |-> "active",
                            user |-> req[q].user, revokedAt |-> 0]]
        /\ Become(q, [req[q] EXCEPT !.at = "login.findFactor", !.sid = s])
    /\ UNCHANGED <<now, status, rtoken, held, access, listedUntil, factor, codes>>

\* A verified factor: the caller gets the session id alone and must still
\* pass /mfa/challenge or /mfa/recover.
LoginFindFactor_Skipped(q) ==
    /\ At(q, "login.findFactor")
    /\ Goto(q, "issue.sign")
    /\ UNCHANGED Tables
LoginFindFactor(q) ==
    /\ At(q, "login.findFactor")
    /\ \/ Verified(req[q].user) /\ Finish(q)
       \/ ~Verified(req[q].user) /\ Goto(q, "issue.sign")
    /\ UNCHANGED Tables

-----------------------------------------------------------------------------
(* issueFullTokens: the JWT is signed before the refresh token is stored,  *)
(* and both reach the client when the handler returns.                     *)

IssueSign(q) ==
    /\ At(q, "issue.sign")
    /\ Become(q, [req[q] EXCEPT !.at = "issue.createRefresh", !.iat = now,
                                !.lag = SignLag(q)])
    /\ UNCHANGED Tables

IssueCreateRefresh(q) ==
    /\ At(q, "issue.createRefresh")
    /\ \E t \in Token : InsertToken(q, t) /\ held' = held \cup {t}
    /\ access' = access \cup {[sid |-> req[q].sid, iat |-> req[q].iat,
                               mfa |-> req[q].mfa, lag |-> req[q].lag]}
    /\ Finish(q)
    /\ UNCHANGED <<now, status, sessions, listedUntil, factor, codes>>

-----------------------------------------------------------------------------
(* mfaChallenge and mfaRecover: a second factor for an active session.     *)

SecondFactor(q, s, at, from) ==
    [Idle EXCEPT !.at = at, !.user = sessions[s].user, !.sid = s,
                 !.from = from, !.mfa = TRUE,
                 !.dead = (sessions[s].state = "revoked")]

ChallengeStart(q, s) ==
    /\ TokenLeft
    /\ Active(s)
    /\ Begin(q, "challenge", SecondFactor(q, s, "challenge.findUser", "challenge"))
    /\ UNCHANGED Tables

ChallengeFindUser(q) ==
    /\ At(q, "challenge.findUser")
    /\ \/ status[req[q].user] = "active" /\ Goto(q, "challenge.findFactor")
       \/ status[req[q].user] # "active" /\ Finish(q)
    /\ UNCHANGED Tables

\* The TOTP code is right, or the request ends with 401.
ChallengeFindFactor(q) ==
    /\ At(q, "challenge.findFactor")
    /\ \/ Verified(req[q].user) /\ Goto(q, "issue.sign")
       \/ Finish(q)
    /\ UNCHANGED Tables

RecoverStart(q, s, c) ==
    /\ TokenLeft
    /\ Active(s)
    /\ codes[c].state # "absent"
    /\ Begin(q, "recover", SecondFactor(q, s, "recover.findUser", c))
    /\ UNCHANGED Tables

RecoverFindUser(q) ==
    /\ At(q, "recover.findUser")
    /\ \/ status[req[q].user] = "active" /\ Goto(q, "recover.findCode")
       \/ status[req[q].user] # "active" /\ Finish(q)
    /\ UNCHANGED Tables

RecoverFindCode_Used(q) ==
    /\ At(q, "recover.findCode")
    /\ Goto(q, "recover.markUsed")
    /\ UNCHANGED Tables
RecoverFindCode(q) ==
    /\ At(q, "recover.findCode")
    /\ LET mine == [state |-> "unused", user |-> req[q].user]
       IN \/ codes[req[q].from] = mine /\ Goto(q, "recover.markUsed")
          \/ codes[req[q].from] # mine /\ Finish(q)
    /\ UNCHANGED Tables

\* The UPDATE has no guard on used_at; a row deleted meanwhile stays deleted.
RecoverMarkUsed(q) ==
    /\ At(q, "recover.markUsed")
    /\ codes' = [codes EXCEPT ![req[q].from].state =
                    IF @ = "absent" THEN @ ELSE "used"]
    /\ Goto(q, "issue.sign")
    /\ UNCHANGED <<now, status, sessions, rtoken, held, access, listedUntil, factor>>

-----------------------------------------------------------------------------
(* refresh: rotation, or theft detection for a token already revoked.      *)

Presented(t, at) ==
    LET s == rtoken[t].sid
    IN [Idle EXCEPT !.at = at, !.user = sessions[s].user, !.sid = s, !.from = t,
                    !.dead = \/ rtoken[t].state = "revoked"
                             \/ sessions[s].state = "revoked"]

RefreshStart(q, t) ==
    /\ TokenLeft
    /\ t \in held
    /\ rtoken[t].state = "live"
    /\ now <= rtoken[t].exp
    /\ Begin(q, "refresh", Presented(t, "refresh.findSession"))
    /\ UNCHANGED Tables

RefreshFindSession_Unchecked(q) ==
    /\ At(q, "refresh.findSession")
    /\ Goto(q, "refresh.rotate")
    /\ UNCHANGED Tables
RefreshFindSession(q) ==
    /\ At(q, "refresh.findSession")
    /\ \/ Active(req[q].sid) /\ Goto(q, "refresh.rotate")
       \/ ~Active(req[q].sid) /\ Finish(q)
    /\ UNCHANGED Tables

\* revokeRefreshToken has no guard on revoked_at: two requests that both read
\* the token as live both pass.
RefreshRotate(q) ==
    /\ At(q, "refresh.rotate")
    /\ rtoken' = RevokedTokens({req[q].from})
    /\ Goto(q, "refresh.findUser")
    /\ UNCHANGED <<now, status, sessions, held, access, listedUntil, factor, codes>>

RefreshFindUser(q) ==
    /\ At(q, "refresh.findUser")
    /\ \/ status[req[q].user] = "active" /\ Goto(q, "refresh.findFactor")
       \/ status[req[q].user] # "active" /\ Finish(q)
    /\ UNCHANGED Tables

RefreshFindFactor(q) ==
    /\ At(q, "refresh.findFactor")
    /\ Become(q, [req[q] EXCEPT !.at = "refresh.createRefresh",
                                !.mfa = Verified(req[q].user)])
    /\ UNCHANGED Tables

RefreshCreateRefresh(q) ==
    /\ At(q, "refresh.createRefresh")
    /\ \E t \in Token :
        /\ InsertToken(q, t)
        /\ Become(q, [req[q] EXCEPT !.at = "refresh.sign", !.made = t])
    /\ UNCHANGED <<now, status, sessions, held, access, listedUntil, factor, codes>>

\* Here the JWT is signed last; the client gets both tokens.
RefreshSign(q) ==
    /\ At(q, "refresh.sign")
    /\ held' = held \cup {req[q].made}
    /\ access' = access \cup {[sid |-> req[q].sid, iat |-> now,
                               mfa |-> req[q].mfa, lag |-> SignLag(q)]}
    /\ Finish(q)
    /\ UNCHANGED <<now, status, sessions, rtoken, listedUntil, factor, codes>>

ReuseStart(q, t) ==
    /\ t \in held
    /\ rtoken[t].state = "revoked"
    /\ Begin(q, "refresh", Presented(t, "theft.revokeTokens"))
    /\ UNCHANGED Tables

TheftRevokeTokens(q) ==
    /\ At(q, "theft.revokeTokens")
    /\ rtoken' = RevokedTokens(LiveTokensOf(req[q].sid))
    /\ Goto(q, "theft.revokeSession")
    /\ UNCHANGED <<now, status, sessions, held, access, listedUntil, factor, codes>>

\* auth/repository.revokeSession overwrites revoked_at of a revoked session.
TheftRevokeSession(q) ==
    /\ At(q, "theft.revokeSession")
    /\ sessions' = Revoked({req[q].sid})
    /\ Goto(q, "theft.list")
    /\ UNCHANGED <<now, status, rtoken, held, access, listedUntil, factor, codes>>

TheftList_Dropped(q) ==
    /\ At(q, "theft.list")
    /\ Finish(q)
    /\ UNCHANGED Tables
TheftList(q) ==
    /\ At(q, "theft.list")
    /\ AddToRevocationSet(req[q].sid)
    /\ Finish(q)
    /\ UNCHANGED <<now, status, sessions, rtoken, held, access, factor, codes>>

-----------------------------------------------------------------------------
(* logout: revokes the presented refresh token and nothing else.           *)

Logout(t) ==
    /\ "logout" \in Ops
    /\ t \in held
    /\ rtoken' = RevokedTokens({t})
    /\ UNCHANGED <<now, status, sessions, held, access, listedUntil, factor,
                   codes, req>>

-----------------------------------------------------------------------------
(* revokeSession, revokeAllOtherSessions, adminForceRevokeAllSessions.     *)
(* The caller's access token a passed authMiddleware.                      *)

Fanout(S) == [Idle EXCEPT !.at = "revoke.fanout", !.listing = S, !.purging = S]

RevokeStart(q, a, s) ==
    /\ Accepts(a)
    /\ Active(s)
    /\ sessions[s].user = UserOf(a)
    /\ Begin(q, "revoke", [Idle EXCEPT !.at = "revoke.update", !.sid = s])
    /\ UNCHANGED Tables

\* UPDATE ... WHERE revoked_at IS NULL: the loser of a race gets 404.
RevokeUpdate_ListsFirst(q) ==
    /\ At(q, "revoke.update")
    /\ Become(q, Fanout({req[q].sid}))
    /\ UNCHANGED Tables
RevokeUpdate(q) ==
    /\ At(q, "revoke.update")
    /\ LET s == req[q].sid
       IN \/ /\ Active(s)
             /\ sessions' = Revoked({s})
             /\ Become(q, Fanout({s}))
          \/ ~Active(s) /\ Finish(q) /\ UNCHANGED sessions
    /\ UNCHANGED <<now, status, rtoken, held, access, listedUntil, factor, codes>>

RevokeAll(q, op, S) ==
    /\ S # {}
    /\ Begin(q, op, Fanout(S))
    /\ sessions' = Revoked(S)
    /\ UNCHANGED <<now, status, rtoken, held, access, listedUntil, factor, codes>>

RevokeAllOthers(q, a) ==
    /\ Accepts(a)
    /\ RevokeAll(q, "revokeAll", ActiveSessionsOf(UserOf(a)) \ {a.sid})

AdminRevokeAll(q, a, u) ==
    /\ Accepts(a)
    /\ UserOf(a) \in Admin
    /\ RevokeAll(q, "adminRevokeAll", ActiveSessionsOf(u))

\* Promise.all: one Redis SET and one UPDATE per session, in any order.
FanoutNext(q, listing, purging) ==
    Become(q, IF listing \cup purging = {} THEN Idle
              ELSE [req[q] EXCEPT !.listing = listing, !.purging = purging])

FanoutList(q, s) ==
    /\ At(q, "revoke.fanout")
    /\ s \in req[q].listing
    /\ AddToRevocationSet(s)
    /\ FanoutNext(q, req[q].listing \ {s}, req[q].purging)
    /\ UNCHANGED <<now, status, sessions, rtoken, held, access, factor, codes>>

FanoutPurge_Skipped(q, s) ==
    /\ At(q, "revoke.fanout")
    /\ s \in req[q].purging
    /\ FanoutNext(q, req[q].listing, req[q].purging \ {s})
    /\ UNCHANGED Tables
FanoutPurge(q, s) ==
    /\ At(q, "revoke.fanout")
    /\ s \in req[q].purging
    /\ rtoken' = RevokedTokens(LiveTokensOf(s))
    /\ FanoutNext(q, req[q].listing, req[q].purging \ {s})
    /\ UNCHANGED <<now, status, sessions, held, access, listedUntil, factor, codes>>

-----------------------------------------------------------------------------
(* mfaEnroll and mfaVerify *)

EnrollStart_KeepsVerified(q, a) ==
    LET u == UserOf(a)
    IN /\ Accepts(a)
       /\ factor[u].secret < MaxSecret
       /\ Begin(q, "enroll", [Idle EXCEPT !.at = "enroll.deleteCodes", !.user = u])
       /\ factor' = [factor EXCEPT
                        ![u].state = IF Verified(u) THEN "verified" ELSE "pending",
                        ![u].secret = @ + 1]
       /\ UNCHANGED <<now, status, sessions, rtoken, held, access, listedUntil,
                      codes>>
EnrollStart(q, a) ==
    LET u == UserOf(a)
    IN /\ Accepts(a)
       /\ factor[u].secret < MaxSecret     \* bound on enrolments
       /\ Begin(q, "enroll", [Idle EXCEPT !.at = "enroll.deleteCodes", !.user = u])
       /\ factor' = [factor EXCEPT ![u] = [state |-> "pending",
                        secret |-> factor[u].secret + 1,
                        proved |-> factor[u].proved]]
       /\ UNCHANGED <<now, status, sessions, rtoken, held, access, listedUntil,
                      codes>>

EnrollDeleteCodes(q) ==
    /\ At(q, "enroll.deleteCodes")
    /\ codes' = [c \in Code |-> IF codes[c].user = req[q].user THEN NoCode
                                ELSE codes[c]]
    /\ Goto(q, "enroll.insertCodes")
    /\ UNCHANGED <<now, status, sessions, rtoken, held, access, listedUntil, factor>>

\* CodeCount rows in one INSERT.  The hashes are random: a new code equals
\* none that is stored or that a request in flight presents.
EnrollInsertCodes(q) ==
    /\ At(q, "enroll.insertCodes")
    /\ \E C \in SUBSET {c \in Code : /\ codes[c].state = "absent"
                                     /\ \A p \in Req : req[p].from # c
                                     /\ \A t \in Token : rtoken[t].from # c} :
        /\ Cardinality(C) = CodeCount
        /\ codes' = [c \in Code |-> IF c \in C
                                    THEN [state |-> "unused", user |-> req[q].user]
                                    ELSE codes[c]]
    /\ Finish(q)
    /\ UNCHANGED <<now, status, sessions, rtoken, held, access, listedUntil, factor>>

VerifyStart(q, a) ==
    LET u == UserOf(a)
    IN /\ Accepts(a)
       /\ factor[u].state = "pending"
       /\ Begin(q, "verify", [Idle EXCEPT !.at = "verify.mark", !.user = u,
                                          !.secret = factor[u].secret])
       /\ UNCHANGED Tables

\* UPDATE mfa_factors SET verified_at = now() WHERE id: an enrolment keeps the
\* row's id, so the row may hold another secret than the one just checked.
VerifyMark(q) ==
    /\ At(q, "verify.mark")
    /\ factor' = [factor EXCEPT ![req[q].user] =
                    [@ EXCEPT !.state = "verified", !.proved = req[q].secret]]
    /\ Finish(q)
    /\ UNCHANGED <<now, status, sessions, rtoken, held, access, listedUntil, codes>>

-----------------------------------------------------------------------------
(* PATCH /users/:id, a handler that dies, the clock.                       *)

UpdateUserStatus_AnyStatus(u) ==
    /\ "status" \in Ops
    /\ \E st \in {"active", "disabled", "invited"} \ {status[u]} :
        status' = [status EXCEPT ![u] = st]
    /\ UNCHANGED <<now, sessions, rtoken, held, access, listedUntil, factor,
                   codes, req>>
UpdateUserStatus(u) ==
    /\ "status" \in Ops
    /\ \E st \in {"active", "disabled"} \ {status[u]} :
        status' = [status EXCEPT ![u] = st]
    /\ UNCHANGED <<now, sessions, rtoken, held, access, listedUntil, factor,
                   codes, req>>

Fail(q) ==
    /\ Failures
    /\ ~At(q, "idle")
    /\ Finish(q)
    /\ UNCHANGED Tables

Tick ==
    /\ now < MaxTime
    /\ now' = now + 1
    /\ UNCHANGED <<status, sessions, rtoken, held, access, listedUntil, factor,
                   codes, req>>

-----------------------------------------------------------------------------
\* The next statement of the handler that q runs.
Resume(q) ==
    \/ LoginCreateSession(q) \/ LoginFindFactor(q)
    \/ IssueSign(q) \/ IssueCreateRefresh(q)
    \/ ChallengeFindUser(q) \/ ChallengeFindFactor(q)
    \/ RecoverFindUser(q) \/ RecoverFindCode(q) \/ RecoverMarkUsed(q)
    \/ RefreshFindSession(q) \/ RefreshRotate(q) \/ RefreshFindUser(q)
    \/ RefreshFindFactor(q) \/ RefreshCreateRefresh(q) \/ RefreshSign(q)
    \/ TheftRevokeTokens(q) \/ TheftRevokeSession(q) \/ TheftList(q)
    \/ RevokeUpdate(q)
    \/ \E s \in Session : FanoutList(q, s) \/ FanoutPurge(q, s)
    \/ EnrollDeleteCodes(q) \/ EnrollInsertCodes(q) \/ VerifyMark(q)

\* A client calls an endpoint.
Arrive(q) ==
    \/ \E u \in User : LoginStart(q, u)
    \/ \E s \in Session : ChallengeStart(q, s)
    \/ \E s \in Session, c \in Code : RecoverStart(q, s, c)
    \/ \E t \in Token : RefreshStart(q, t) \/ ReuseStart(q, t)
    \/ \E a \in access, s \in Session : RevokeStart(q, a, s)
    \/ \E a \in access : RevokeAllOthers(q, a) \/ EnrollStart(q, a)
                         \/ VerifyStart(q, a)
    \/ \E a \in access, u \in User : AdminRevokeAll(q, a, u)

Next ==
    \/ \E q \in Req : Resume(q) \/ Arrive(q) \/ Fail(q)
    \/ \E t \in Token : Logout(t)
    \/ \E u \in User : UpdateUserStatus(u)
    \/ Tick

Spec == Init /\ [][Next]_vars

\* Node runs every handler to its end unless the process dies.
FairSpec == Spec /\ \A q \in Req : WF_vars(Resume(q))

-----------------------------------------------------------------------------
(* Properties *)

\* A request that presents a refresh token or a session that was revoked
\* before the request came in never yields tokens, however its reads interleave
\* with others (the checks of refresh, mfaChallenge and mfaRecover).
NoTokenFromRevokedGrant == \A a \in access : a.lag # "stale"

\* Once the Redis entry of a session is written, authMiddleware refuses every
\* access token signed while the session was active, now and after the entry
\* has expired: the entry outlives the tokens it stands for.
RevokedTokensRefused ==
    \A a \in access :
        a.lag = "fresh" /\ listedUntil[a.sid] # 0 => ~Accepts(a)

\* What revocation is worth when the Redis write never happens (the handler
\* dies after the UPDATE): no token signed before it lives longer than AccessTTL.
ExposureBounded ==
    \A a \in access :
        LET s == sessions[a.sid]
        IN a.lag = "fresh" /\ s.state = "revoked" /\ Accepts(a)
               => now < s.revokedAt + AccessTTL

\* The same two promises without the exception for requests in flight: a token
\* is refused from the moment its revoked session is on the list.
RevocationIsImmediate ==
    \A a \in access : listedUntil[a.sid] # 0 => ~Accepts(a)

\* Rotation: a refresh token, and so a stolen copy of it, buys one successor.
RefreshTokenSpentOnce ==
    \A t1, t2 \in Token :
        rtoken[t1].from \in Token /\ rtoken[t1].from = rtoken[t2].from => t1 = t2

\* And so does a recovery code: what was spent is spent.
SpentOnce ==
    /\ RefreshTokenSpentOnce
    /\ \A t1, t2 \in Token :
          rtoken[t1].from \in Code /\ rtoken[t1].from = rtoken[t2].from => t1 = t2

\* When no handler is running, a revoked session has no refresh token that is
\* not revoked itself (runs without Failures).
RevokedSessionHasNoLiveToken ==
    (\A q \in Req : At(q, "idle")) =>
        \A s \in Session : sessions[s].state = "revoked" => LiveTokensOf(s) = {}

\* A factor counts as verified only for the secret its owner gave a code for, and
\* a user holds the recovery codes of one enrolment at most.
EnrolmentWhole ==
    \A u \in User :
        /\ Verified(u) => factor[u].proved = factor[u].secret
        /\ Cardinality(CodesOf(u)) <= CodeCount

PassedSecondFactor(s) ==
    \E t \in Token : rtoken[t].sid = s /\ rtoken[t].from \in {"challenge"} \cup Code

\* The password alone, through login and any number of refreshes, never gives
\* an enrolled user a token: its session passed a challenge or a recovery.
\* (Without "enroll" in Ops: mfaEnroll un-verifies the factor, so a user who
\* re-enrols logs in with the password alone until mfaVerify.)
SecondFactorBehindTokens ==
    \A a \in access : UserOf(a) \in Enrolled => PassedSecondFactor(a.sid)

\* Reuse of a revoked refresh token ends with the session revoked and listed
\* (handlers run to their end).
ReuseLocksSession ==
    \A q \in Req, s \in Session :
        At(q, "theft.revokeTokens") /\ req[q].sid = s
            ~> sessions[s].state = "revoked" /\ listedUntil[s] # 0

-----------------------------------------------------------------------------
(* The inductive invariant: what the rows, the handlers' locals and the     *)
(* Redis keys say of each other between any two statements.                *)

\* Foreign keys: tokens belong to existing sessions, sessions to users.
RowsOK ==
    /\ \A s \in Session : sessions[s].state # "absent" => sessions[s].user \in User
    /\ \A t \in Token : rtoken[t].state # "absent" =>
            /\ rtoken[t].sid \in Session
            /\ sessions[rtoken[t].sid].state # "absent"
    /\ \A t \in held : rtoken[t].state # "absent"
    /\ \A a \in access : sessions[a.sid].state # "absent"

HasSession == {"login.findFactor", "challenge.findUser", "challenge.findFactor",
               "recover.findUser", "recover.findCode", "recover.markUsed",
               "issue.sign", "issue.createRefresh", "refresh.findSession",
               "refresh.rotate", "refresh.findUser", "refresh.findFactor",
               "refresh.createRefresh", "refresh.sign", "theft.revokeTokens",
               "theft.revokeSession", "theft.list", "revoke.update"}

\* What a handler has in its locals at each statement.
LocalOK(r) ==
    /\ r.at \in Minting => r.user \in User /\ r.from \in Source
    /\ r.at \in HasSession => /\ r.sid \in Session
                              /\ sessions[r.sid].state # "absent"
    /\ r.at \in {"refresh.findSession", "refresh.rotate"}
         => r.from \in Token /\ rtoken[r.from].state # "absent"
    /\ r.at = "refresh.sign" => /\ r.made \in Token
                                /\ rtoken[r.made].state # "absent"
    /\ r.at \in {"enroll.deleteCodes", "enroll.insertCodes", "verify.mark"}
         => r.user \in User

\* A token signed at iat expires before any entry its session's revocation wrote.
Covered(s, iat) ==
    /\ iat <= now
    /\ sessions[s].state = "revoked" => iat <= sessions[s].revokedAt
    /\ listedUntil[s] # 0 => iat + AccessTTL <= listedUntil[s]

\* A session is listed only after it was revoked; tokens given out are covered.
RowsSafe ==
    /\ \A s \in Session : listedUntil[s] # 0 => sessions[s].state = "revoked"
    /\ \A a \in access : a.lag = "fresh" => Covered(a.sid, a.iat)
    /\ NoTokenFromRevokedGrant

\* The sessions a handler is about to list are revoked, the token it is about
\* to give out is covered, and one whose grant was revoked on arrival stops
\* before it signs.
LocalSafe(r) ==
    /\ \A s \in r.listing : sessions[s].state = "revoked"
    /\ r.at = "theft.list" => sessions[r.sid].state = "revoked"
    /\ r.at = "issue.createRefresh" /\ r.lag = "fresh" => Covered(r.sid, r.iat)
    /\ r.dead => \/ /\ r.at = "refresh.findSession"
                    /\ sessions[r.sid].state = "revoked"
                 \/ r.at \in {"theft.revokeTokens", "theft.revokeSession",
                              "theft.list"}
    /\ r.lag # "stale"

IInv == /\ TypeOK /\ RowsOK /\ RowsSafe
        /\ \A q \in Req : LocalOK(req[q]) /\ LocalSafe(req[q])

-----------------------------------------------------------------------------
(* What else the rows and the locals say of each other, for the promises    *)
(* about second factors and for one request at a time.                      *)

\* The session of an enrolled user passed a second factor.
Behind(s) == sessions[s].user \in Enrolled => PassedSecondFactor(s)

\* How far a handler got says which grant it holds.
GrantHonest(r) ==
    /\ r.at \in Minting \ {"login.createSession"} => r.user = sessions[r.sid].user
    /\ r.at \in {"challenge.findUser", "challenge.findFactor"} => r.from = "challenge"
    /\ r.at \in {"recover.findUser", "recover.findCode", "recover.markUsed"}
         => r.from \in Code
    /\ r.at \in {"issue.sign", "issue.createRefresh"} /\ r.user \in Enrolled
         => r.from \in {"challenge"} \cup Code
    /\ r.at \in {"refresh.findSession", "refresh.rotate", "refresh.findUser",
                 "refresh.findFactor", "refresh.createRefresh", "refresh.sign"}
         => Behind(r.sid)

FactorInv ==
    /\ \A u \in Enrolled : Verified(u)
    /\ \A t \in Token : IF rtoken[t].state = "absent" THEN rtoken[t].sid = None
                         ELSE Behind(rtoken[t].sid)
    /\ \A a \in access : Behind(a.sid)
    /\ \A q \in Req : GrantHonest(req[q])

\* One request at a time.
Serial == \A p, q \in Req : p = q

\* The handler that mints tokens found its session active, and it still is.
Holding == {"refresh.sign"} \cup
               (Minting \ {"login.createSession", "refresh.findSession"})
ActiveInv ==
    /\ \A a \in access : a.lag = "fresh"
    /\ \A q \in Req :
        /\ req[q].at \in Holding => Active(req[q].sid)
        /\ At(q, "issue.createRefresh") => req[q].lag = "fresh"

\* Only the handler that revoked a session still has tokens of it to revoke
\* (without Failures).
PurgeInv ==
    /\ \A s \in Session : sessions[s].state = "revoked" =>
        \/ LiveTokensOf(s) = {}
        \/ \E q \in Req : At(q, "revoke.fanout") /\ s \in req[q].purging
    /\ \A q \in Req : At(q, "theft.revokeSession") => LiveTokensOf(req[q].sid) = {}

\* What bought a token is spent; the grant a handler holds has bought none yet.
Unspent(g) == \A t \in Token : rtoken[t].from # g
GrantUnspent(r) ==
    /\ r.at \in {"refresh.findSession", "refresh.rotate"} => Unspent(r.from)
    /\ r.at \in {"refresh.findUser", "refresh.findFactor", "refresh.createRefresh"}
         => /\ r.from \in Token /\ rtoken[r.from].state = "revoked"
            /\ Unspent(r.from)
    /\ r.at \in {"recover.findUser", "recover.findCode", "recover.markUsed"}
         => r.from \in Code
    /\ r.at = "recover.markUsed" => codes[r.from].state = "unused"
    /\ r.at \in {"login.createSession", "login.findFactor", "challenge.findUser",
                 "challenge.findFactor"} => r.from \in {"login", "challenge"}
    /\ r.at \in {"issue.sign", "issue.createRefresh"} =>
         \/ r.from \in {"login", "challenge"}
         \/ r.from \in Code /\ codes[r.from].state # "unused" /\ Unspent(r.from)
SpentInv ==
    /\ SpentOnce
    /\ \A t \in Token :
        LET f == rtoken[t].from
        IN /\ rtoken[t].state = "absent" => f = None
           /\ f \in Token => rtoken[f].state = "revoked"
           /\ f \in Code => codes[f].state # "unused"
    /\ \A q \in Req : GrantUnspent(req[q])

\* The code mfaVerify checked is one for the secret still stored; when mfaEnroll
\* inserts recovery codes, the user has none.
EnrolInv ==
    /\ EnrolmentWhole
    /\ \A q \in Req :
        /\ At(q, "verify.mark") => req[q].secret = factor[req[q].user].secret
        /\ At(q, "enroll.insertCodes") => CodesOf(req[q].user) = {}

SerialInv == ActiveInv /\ (Failures \/ PurgeInv) /\ SpentInv /\ EnrolInv
=============================================================================
