------------------------- MODULE AuthSessionsProofs -------------------------
(***************************************************************************)
(* IInv of AuthSessions is an inductive invariant for every number of      *)
(* users, sessions, tokens, codes and concurrent handlers, and implies the *)
(* safety properties.  The argument has two halves.  A step of handler q   *)
(* changes its own locals to some record r, and whatever it does to the    *)
(* tables is an Advance: revoked sessions stay revoked and are stamped     *)
(* with the current time, keys are set for revoked sessions only.  An      *)
(* Advance preserves what every OTHER handler relies on; what remains per  *)
(* action is that r itself is as it should be.                             *)
(*                                                                         *)
(* Two further invariants follow: no row disappears or comes back to life  *)
(* (Grows), and without the enrolment handlers every session and token of  *)
(* a user with MFA stands behind a second factor (FactorInv).              *)
(***************************************************************************)
EXTENDS AuthSessions, FiniteSetTheorems, TLAPS

USE TTLAssumption, UserAssumption, NoneAssumption

SessionRow == [state : {"absent", "active", "revoked"},
               user : User \cup {None}, revokedAt : Nat]
TokenRow == [state : {"absent", "live", "revoked"}, sid : Session \cup {None},
             exp : Nat, from : Source \cup {None}]

\* What any step of any handler may do to sessions, keys and tokens.
Advance ==
    /\ now' = now
    /\ sessions' \in [Session -> SessionRow]
    /\ listedUntil' \in [Session -> Nat]
    /\ \A s \in Session :
        \/ sessions'[s] = sessions[s]
        \/ /\ sessions[s].state = "absent"
           /\ sessions'[s].state = "active"
           /\ sessions'[s].user \in User
        \/ /\ sessions[s].state # "absent"
           /\ sessions'[s].state = "revoked"
           /\ sessions'[s].revokedAt = now
           /\ sessions'[s].user = sessions[s].user
    /\ \A s \in Session :
        \/ listedUntil'[s] = listedUntil[s]
        \/ sessions[s].state = "revoked" /\ listedUntil'[s] = now + RevTTL
    /\ \A t \in Token : rtoken[t].state # "absent" => rtoken'[t].state # "absent"

LEMMA IdleOK == Idle \in Local /\ LocalOK(Idle) /\ LocalSafe(Idle)
  BY DEF Idle, Local, Label, Lag, Source, LocalOK, LocalSafe, Minting, HasSession

\* The locals of a handler that has just begun.
BegunWith(l, u, s, f, d) ==
    [Idle EXCEPT !.at = l, !.user = u, !.sid = s, !.from = f, !.dead = d]

LEMMA BegunOK ==
  ASSUME NEW l \in Label, NEW u \in User \cup {None}, NEW s \in Session \cup {None},
         NEW f \in Source \cup {None}, NEW d \in BOOLEAN
  PROVE  BegunWith(l, u, s, f, d) \in Local
  <1>1. Idle \in Local
    BY IdleOK
  <1> QED BY <1>1 DEF BegunWith, Local

LEMMA LocalMfa ==
  ASSUME NEW r \in Local, NEW m \in BOOLEAN
  PROVE  [r EXCEPT !.mfa = m] \in Local
  BY DEF Local

\* An Advance keeps a signed token covered.
LEMMA CoveredStays ==
  ASSUME TypeOK, Advance, NEW s \in Session, NEW iat \in Nat,
         sessions[s].state # "absent", Covered(s, iat)
  PROVE  Covered(s, iat)'
  <1> DEFINE row == sessions[s]
             rowN == sessions'[s]
  <1>0. /\ row.revokedAt \in Nat /\ rowN.revokedAt \in Nat /\ now \in Nat
        /\ listedUntil[s] \in Nat /\ listedUntil'[s] \in Nat
    BY DEF TypeOK, Advance, SessionRow
  <1>1. /\ now' = now
        /\ \/ rowN = row
           \/ rowN.state = "revoked" /\ rowN.revokedAt = now
    BY DEF Advance
  <1>2. listedUntil'[s] = listedUntil[s] \/ listedUntil'[s] = now + RevTTL
    BY DEF Advance
  <1>3. iat <= now'
    BY <1>1 DEF Covered
  <1>4. rowN.state = "revoked" => iat <= rowN.revokedAt
    BY <1>1 DEF Covered
  <1>5. listedUntil'[s] # 0 => iat + AccessTTL <= listedUntil'[s]
    BY <1>0, <1>1, <1>2, <1>3 DEF Covered
  <1> QED BY <1>3, <1>4, <1>5 DEF Covered

\* An Advance preserves what a handler with locals r relies on.
LEMMA LocalsStay ==
  ASSUME TypeOK, Advance, NEW r \in Local, LocalOK(r), LocalSafe(r)
  PROVE  LocalOK(r)' /\ LocalSafe(r)'
  <1>1. LocalOK(r)'
    BY DEF TypeOK, Advance, LocalOK, Local, HasSession
  <1>2. LocalSafe(r)'
    <2>1. \A s \in r.listing : sessions'[s].state = "revoked"
      BY DEF Local, LocalSafe, Advance
    <2>2. r.at = "theft.list" => sessions'[r.sid].state = "revoked"
      BY DEF Local, LocalSafe, LocalOK, HasSession, Advance
    <2>3. r.at = "issue.createRefresh" /\ r.lag = "fresh" => Covered(r.sid, r.iat)'
      BY CoveredStays DEF Local, LocalSafe, LocalOK, HasSession
    <2>4. r.dead => \/ /\ r.at = "refresh.findSession"
                       /\ sessions'[r.sid].state = "revoked"
                    \/ r.at \in {"theft.revokeTokens", "theft.revokeSession",
                                 "theft.list"}
      BY DEF Local, LocalSafe, LocalOK, HasSession, Advance
    <2> QED BY <2>1, <2>2, <2>3, <2>4 DEF LocalSafe
  <1> QED BY <1>1, <1>2

LEMMA HandlerStep ==
  ASSUME IInv, Advance, NEW q \in Req, NEW r \in Local, Become(q, r),
         LocalOK(r)', LocalSafe(r)'
  PROVE  /\ req' \in [Req -> Local]
         /\ (\A p \in Req : LocalOK(req[p]) /\ LocalSafe(req[p]))'
  <1>1. /\ req' \in [Req -> Local] /\ req'[q] = r
        /\ \A p \in Req \ {q} : req'[p] = req[p]
    BY DEF Become, IInv, TypeOK
  <1>2. ASSUME NEW p \in Req, p # q
        PROVE  LocalOK(req[p])' /\ LocalSafe(req[p])'
    <2>1. req[p] \in Local /\ LocalOK(req[p]) /\ LocalSafe(req[p])
      BY DEF IInv, TypeOK
    <2> QED BY <2>1, <1>1, <1>2, LocalsStay DEF IInv, LocalOK, LocalSafe, Covered
  <1>3. LocalOK(req[q])' /\ LocalSafe(req[q])'
    BY <1>1 DEF LocalOK, LocalSafe, Covered
  <1> QED BY <1>1, <1>2, <1>3

\* A step that hands out no token and inserts no token row keeps the rows right.
LEMMA RowsStep ==
  ASSUME IInv, Advance, held' = held, access' = access,
         rtoken' \in [Token -> TokenRow],
         \A t \in Token : rtoken'[t].state # "absent" =>
             rtoken[t].state # "absent" /\ rtoken'[t].sid = rtoken[t].sid
  PROVE  RowsOK' /\ RowsSafe'
  <1>0. \A s \in Session : sessions[s].state # "absent" => sessions'[s].state # "absent"
    BY DEF Advance
  <1>1. RowsOK'
    <2>1. \A s \in Session : sessions'[s].state # "absent" => sessions'[s].user \in User
      BY DEF IInv, RowsOK, Advance
    <2>2. \A t \in Token : rtoken'[t].state # "absent" =>
              /\ rtoken'[t].sid \in Session
              /\ sessions'[rtoken'[t].sid].state # "absent"
      BY <1>0 DEF IInv, RowsOK
    <2>3. \A t \in held' : rtoken'[t].state # "absent"
      BY DEF IInv, TypeOK, RowsOK, Advance
    <2>4. \A a \in access' : sessions'[a.sid].state # "absent"
      BY <1>0 DEF IInv, TypeOK, RowsOK
    <2> QED BY <2>1, <2>2, <2>3, <2>4 DEF RowsOK
  <1>2. RowsSafe'
    <2>1. \A s \in Session : listedUntil'[s] # 0 => sessions'[s].state = "revoked"
      BY DEF IInv, RowsSafe, Advance
    <2>2. \A a \in access : a.lag = "fresh" => Covered(a.sid, a.iat)'
      BY CoveredStays DEF IInv, TypeOK, RowsOK, RowsSafe
    <2>3. NoTokenFromRevokedGrant'
      BY DEF IInv, RowsSafe, NoTokenFromRevokedGrant
    <2>4. (\A a \in access : a.lag = "fresh" => Covered(a.sid, a.iat))'
      BY <2>2 DEF Covered
    <2> QED BY <2>1, <2>3, <2>4 DEF RowsSafe
  <1> QED BY <1>1, <1>2

\* A step that changes nothing but the handler's locals.
LEMMA QuietStep ==
  ASSUME IInv, NEW q \in Req, NEW r \in Local, Become(q, r),
         LocalOK(r), LocalSafe(r), UNCHANGED Tables
  PROVE  IInv'
  <1>0. Advance
    BY DEF IInv, TypeOK, Advance, Tables, SessionRow
  <1>1. LocalOK(r)' /\ LocalSafe(r)'
    BY DEF Tables, LocalOK, LocalSafe, Covered
  <1>2. /\ req' \in [Req -> Local]
        /\ (\A p \in Req : LocalOK(req[p]) /\ LocalSafe(req[p]))'
    BY <1>0, <1>1, HandlerStep
  <1>3. RowsOK' /\ RowsSafe'
    BY DEF IInv, Tables, RowsOK, RowsSafe, Covered, NoTokenFromRevokedGrant
  <1>4. TypeOK'
    BY <1>2 DEF IInv, TypeOK, Tables
  <1> QED BY <1>2, <1>3, <1>4 DEF IInv

\* A handler that ends, by itself or because its process dies.
LEMMA FinishStep ==
  ASSUME IInv, NEW q \in Req, Finish(q), UNCHANGED Tables
  PROVE  IInv'
  BY IdleOK, QuietStep DEF Finish

\* A handler that moves on to a statement that no promise is attached to.
LEMMA GotoStep ==
  ASSUME IInv, NEW q \in Req, NEW l \in Label, Goto(q, l), UNCHANGED Tables,
         LocalOK([req[q] EXCEPT !.at = l]), LocalSafe([req[q] EXCEPT !.at = l])
  PROVE  IInv'
  <1>1. req[q] \in Local
    BY DEF IInv, TypeOK
  <1>2. [req[q] EXCEPT !.at = l] \in Local
    BY <1>1 DEF Local
  <1> QED BY <1>2, QuietStep DEF Goto

-----------------------------------------------------------------------------
(* One lemma per handler: its steps preserve IInv.                          *)

LEMMA LoginSteps ==
  ASSUME IInv, NEW q \in Req,
         \/ \E u \in User : LoginStart(q, u)
         \/ LoginFindFactor(q) \/ IssueSign(q)
  PROVE  IInv'
  <1>1. ASSUME NEW u \in User, LoginStart(q, u) PROVE IInv'
    <2> DEFINE r == [Idle EXCEPT !.at = "login.createSession", !.user = u,
                                 !.from = "login"]
    <2>1. r \in Local
      BY IdleOK DEF Local, Label, Minting, Source
    <2>2. LocalOK(r) /\ LocalSafe(r)
      BY DEF Idle, LocalOK, LocalSafe, Minting, HasSession, Source
    <2> QED BY <1>1, <2>1, <2>2, QuietStep DEF LoginStart, Begin, Tables
  <1>2. ASSUME LoginFindFactor(q) PROVE IInv'
    <2>1. CASE Finish(q)
      BY <1>2, <2>1, FinishStep DEF LoginFindFactor, Tables
    <2>2. CASE Goto(q, "issue.sign")
      <3> DEFINE r == [req[q] EXCEPT !.at = "issue.sign"]
      <3>1. LocalOK(r) /\ LocalSafe(r)
        BY <1>2 DEF LoginFindFactor, At, IInv, TypeOK, Local, LocalOK, LocalSafe,
                    Minting, HasSession
      <3> QED BY <1>2, <2>2, <3>1, GotoStep DEF LoginFindFactor, Tables, Label, Minting
    <2> QED BY <1>2, <2>1, <2>2 DEF LoginFindFactor
  <1>3. ASSUME IssueSign(q) PROVE IInv'
    <2> DEFINE r == [req[q] EXCEPT !.at = "issue.createRefresh", !.iat = now,
                                   !.lag = SignLag(q)]
    <2>0. /\ req[q] \in Local /\ LocalOK(req[q]) /\ LocalSafe(req[q])
          /\ req[q].at = "issue.sign" /\ now \in Nat
      BY <1>3 DEF IssueSign, At, IInv, TypeOK
    <2>1. r \in Local
      <3>1. SignLag(q) \in Lag
        BY DEF SignLag, Lag
      <3> QED BY <2>0, <3>1 DEF Local, Label, Minting
    <2>2. LocalOK(r)
      BY <2>0 DEF Local, LocalOK, Minting, HasSession
    <2>3. r.lag = "fresh" => Covered(r.sid, r.iat)
      BY <2>0 DEF Local, LocalOK, LocalSafe, HasSession, SignLag, Active, Covered,
                  IInv, RowsSafe
    <2>4. LocalSafe(r)
      BY <2>0, <2>3 DEF Local, LocalSafe, SignLag
    <2> QED BY <1>3, <2>1, <2>2, <2>4, QuietStep DEF IssueSign, Tables
  <1> QED BY <1>1, <1>2, <1>3

LEMMA CreateSessionStep ==
  ASSUME IInv, NEW q \in Req, LoginCreateSession(q)
  PROVE  IInv'
  <1>1. PICK s \in Session :
          /\ sessions[s].state = "absent"
          /\ sessions' = [sessions EXCEPT ![s] = [state |-> "active",
                              user |-> req[q].user, revokedAt |-> 0]]
          /\ Become(q, [req[q] EXCEPT !.at = "login.findFactor", !.sid = s])
    BY DEF LoginCreateSession
  <1>2. /\ req[q] \in Local /\ LocalOK(req[q]) /\ LocalSafe(req[q])
        /\ req[q].at = "login.createSession" /\ req[q].user \in User
        /\ req[q].from \in Source
    BY DEF LoginCreateSession, At, IInv, TypeOK, LocalOK, Minting
  <1>3. PICK r \in Local : r = [req[q] EXCEPT !.at = "login.findFactor", !.sid = s]
    BY <1>2 DEF Local, Label, Minting
  <1>4. Advance
    BY <1>1, <1>2 DEF IInv, TypeOK, Advance, SessionRow, LoginCreateSession
  <1>5. LocalOK(r)'
    <2>1. sessions'[s].state = "active"
      BY <1>1 DEF IInv, TypeOK
    <2> QED BY <1>2, <1>3, <2>1 DEF Local, LocalOK, Minting, HasSession
  <1>6. LocalSafe(r)'
    BY <1>2, <1>3, <1>4 DEF Local, LocalSafe, Advance
  <1>7. /\ req' \in [Req -> Local]
        /\ (\A p \in Req : LocalOK(req[p]) /\ LocalSafe(req[p]))'
    BY <1>1, <1>3, <1>4, <1>5, <1>6, HandlerStep
  <1>8. RowsOK' /\ RowsSafe'
    <2>1. /\ rtoken' \in [Token -> TokenRow] /\ rtoken' = rtoken
          /\ held' = held /\ access' = access
      BY DEF LoginCreateSession, IInv, TypeOK, TokenRow
    <2> QED BY <1>4, <2>1, RowsStep
  <1>9. TypeOK'
    BY <1>4, <1>7 DEF IInv, TypeOK, LoginCreateSession, Advance, SessionRow
  <1> QED BY <1>7, <1>8, <1>9 DEF IInv

\* The tokens a handler hands out: a new row, or a row it made before.
LEMMA GrantStep ==
  ASSUME IInv, Advance, NEW q \in Req, Finish(q),
         NEW t \in Token, NEW a \in [sid : Session, iat : Nat, mfa : BOOLEAN, lag : Lag],
         sessions[a.sid].state # "absent", sessions' = sessions,
         listedUntil' = listedUntil, rtoken' \in [Token -> TokenRow],
         \A u \in Token : rtoken'[u].state # "absent" =>
             \/ rtoken'[u] = rtoken[u]
             \/ rtoken'[u].sid = a.sid,
         rtoken'[t].state # "absent",
         held' = held \cup {t}, access' = access \cup {a},
         a.lag # "stale", a.lag = "fresh" => Covered(a.sid, a.iat),
         UNCHANGED <<status, factor, codes>>
  PROVE  IInv'
  <1>1. /\ req' \in [Req -> Local]
        /\ (\A p \in Req : LocalOK(req[p]) /\ LocalSafe(req[p]))'
    <2>1. LocalOK(Idle)' /\ LocalSafe(Idle)'
      BY IdleOK DEF Idle, LocalOK, LocalSafe, Minting, HasSession
    <2> QED BY <2>1, IdleOK, HandlerStep DEF Finish
  <1>2. RowsOK'
    <2>1. \A u \in Token : rtoken'[u].state # "absent" =>
              rtoken'[u].sid \in Session /\ sessions'[rtoken'[u].sid].state # "absent"
      BY DEF IInv, RowsOK
    <2>2. \A u \in held' : rtoken'[u].state # "absent"
      BY DEF IInv, TypeOK, RowsOK, Advance
    <2> QED BY <2>1, <2>2 DEF IInv, RowsOK
  <1>3. RowsSafe'
    <2>1. (\A b \in access : b.lag = "fresh" => Covered(b.sid, b.iat))'
      BY DEF IInv, RowsSafe, Covered, Advance
    <2>2. (\A s \in Session : listedUntil[s] # 0 => sessions[s].state = "revoked")'
      BY DEF IInv, RowsSafe
    <2>3. NoTokenFromRevokedGrant'
      BY DEF IInv, RowsSafe, NoTokenFromRevokedGrant
    <2> QED BY <2>1, <2>2, <2>3 DEF RowsSafe
  <1>4. TypeOK'
    BY <1>1 DEF IInv, TypeOK, Advance, SessionRow, TokenRow
  <1> QED BY <1>1, <1>2, <1>3, <1>4 DEF IInv

LEMMA InsertTokenRow ==
  ASSUME IInv, NEW q \in Req, NEW t \in Token, InsertToken(q, t),
         req[q].from \in Source, req[q].sid \in Session
  PROVE  /\ rtoken' \in [Token -> TokenRow]
         /\ rtoken'[t].state = "live" /\ rtoken'[t].sid = req[q].sid
         /\ \A u \in Token \ {t} : rtoken'[u] = rtoken[u]
  BY DEF IInv, TypeOK, InsertToken, TokenRow

LEMMA IssueCreateRefreshStep ==
  ASSUME IInv, NEW q \in Req, IssueCreateRefresh(q)
  PROVE  IInv'
  <1>1. PICK t \in Token : InsertToken(q, t) /\ held' = held \cup {t}
    BY DEF IssueCreateRefresh
  <1>2. /\ req[q] \in Local /\ LocalOK(req[q]) /\ LocalSafe(req[q])
        /\ req[q].at = "issue.createRefresh"
    BY DEF IssueCreateRefresh, At, IInv, TypeOK
  <1>3. /\ req[q].from \in Source /\ req[q].sid \in Session
        /\ sessions[req[q].sid].state # "absent"
    BY <1>2 DEF LocalOK, Minting, HasSession
  <1>4. PICK a \in [sid : Session, iat : Nat, mfa : BOOLEAN, lag : Lag] :
          a = [sid |-> req[q].sid, iat |-> req[q].iat, mfa |-> req[q].mfa,
               lag |-> req[q].lag]
    BY <1>2, <1>3 DEF Local
  <1>5. /\ rtoken' \in [Token -> TokenRow]
        /\ rtoken'[t].state = "live" /\ rtoken'[t].sid = a.sid
        /\ \A u \in Token \ {t} : rtoken'[u] = rtoken[u]
    BY <1>1, <1>3, <1>4, InsertTokenRow
  <1>6. Advance
    BY <1>5 DEF IInv, TypeOK, Advance, SessionRow, IssueCreateRefresh
  <1>7. a.lag # "stale" /\ (a.lag = "fresh" => Covered(a.sid, a.iat))
    BY <1>2, <1>4 DEF LocalSafe
  <1>8. \A u \in Token : rtoken'[u].state # "absent" =>
             \/ rtoken'[u] = rtoken[u]
             \/ rtoken'[u].sid = a.sid
    BY <1>5
  <1>9. /\ sessions' = sessions /\ listedUntil' = listedUntil /\ Finish(q)
        /\ UNCHANGED <<status, factor, codes>> /\ access' = access \cup {a}
    BY <1>4 DEF IssueCreateRefresh
  <1>10. rtoken'[t].state # "absent" /\ sessions[a.sid].state # "absent"
    BY <1>3, <1>4, <1>5
  <1> QED BY <1>1, <1>5, <1>6, <1>7, <1>8, <1>9, <1>10, GrantStep

LEMMA RefreshSignStep ==
  ASSUME IInv, NEW q \in Req, RefreshSign(q)
  PROVE  IInv'
  <1>1. /\ req[q] \in Local /\ LocalOK(req[q]) /\ LocalSafe(req[q])
        /\ req[q].at = "refresh.sign" /\ now \in Nat
    BY DEF RefreshSign, At, IInv, TypeOK
  <1>2. /\ req[q].sid \in Session /\ sessions[req[q].sid].state # "absent"
        /\ req[q].made \in Token /\ rtoken[req[q].made].state # "absent"
    BY <1>1 DEF LocalOK, HasSession
  <1>3. PICK t \in Token : t = req[q].made
    BY <1>2
  <1>4. PICK a \in [sid : Session, iat : Nat, mfa : BOOLEAN, lag : Lag] :
          a = [sid |-> req[q].sid, iat |-> now, mfa |-> req[q].mfa,
               lag |-> SignLag(q)]
    <2>1. SignLag(q) \in Lag
      BY DEF SignLag, Lag
    <2>2. req[q].mfa \in BOOLEAN
      BY <1>1 DEF Local
    <2>3. [sid |-> req[q].sid, iat |-> now, mfa |-> req[q].mfa, lag |-> SignLag(q)]
            \in [sid : Session, iat : Nat, mfa : BOOLEAN, lag : Lag]
      BY <1>1, <1>2, <2>1, <2>2
    <2> QED BY <2>3
  <1>5. Advance
    BY DEF IInv, TypeOK, Advance, SessionRow, RefreshSign
  <1>6. a.lag # "stale"
    BY <1>1, <1>4 DEF LocalSafe, SignLag
  <1>7. a.lag = "fresh" => Covered(a.sid, a.iat)
    BY <1>1, <1>2, <1>4 DEF SignLag, Active, Covered, IInv, RowsSafe
  <1>8. rtoken' \in [Token -> TokenRow] /\ rtoken' = rtoken
    BY DEF IInv, TypeOK, TokenRow, RefreshSign
  <1> QED BY <1>2, <1>3, <1>4, <1>5, <1>6, <1>7, <1>8, GrantStep DEF RefreshSign

LEMMA RefreshCreateRefreshStep ==
  ASSUME IInv, NEW q \in Req, RefreshCreateRefresh(q)
  PROVE  IInv'
  <1>1. PICK t \in Token :
          /\ InsertToken(q, t)
          /\ Become(q, [req[q] EXCEPT !.at = "refresh.sign", !.made = t])
    BY DEF RefreshCreateRefresh
  <1>2. /\ req[q] \in Local /\ LocalOK(req[q]) /\ LocalSafe(req[q])
        /\ req[q].at = "refresh.createRefresh"
    BY DEF RefreshCreateRefresh, At, IInv, TypeOK
  <1>3. /\ req[q].from \in Source /\ req[q].sid \in Session
        /\ sessions[req[q].sid].state # "absent"
    BY <1>2 DEF LocalOK, Minting, HasSession
  <1>4. PICK r \in Local : r = [req[q] EXCEPT !.at = "refresh.sign", !.made = t]
    BY <1>2 DEF Local, Label
  <1>5. /\ rtoken' \in [Token -> TokenRow]
        /\ rtoken'[t].state = "live" /\ rtoken'[t].sid = req[q].sid
        /\ \A u \in Token \ {t} : rtoken'[u] = rtoken[u]
    BY <1>1, <1>3, InsertTokenRow
  <1>6. /\ sessions' = sessions /\ listedUntil' = listedUntil /\ now' = now
        /\ held' = held /\ access' = access /\ status' = status
        /\ factor' = factor /\ codes' = codes
    BY DEF RefreshCreateRefresh
  <1>7. Advance
    BY <1>5, <1>6 DEF IInv, TypeOK, Advance, SessionRow
  <1>8. LocalOK(r)'
    BY <1>2, <1>3, <1>4, <1>5, <1>6 DEF Local, LocalOK, Minting, HasSession
  <1>9. LocalSafe(r)'
    BY <1>2, <1>4, <1>6 DEF Local, LocalSafe
  <1>10. /\ req' \in [Req -> Local]
         /\ (\A p \in Req : LocalOK(req[p]) /\ LocalSafe(req[p]))'
    BY <1>1, <1>4, <1>7, <1>8, <1>9, HandlerStep
  <1>11. RowsOK'
    <2>1. \A u \in Token : rtoken'[u].state # "absent" =>
              rtoken'[u].sid \in Session /\ sessions'[rtoken'[u].sid].state # "absent"
      BY <1>3, <1>5, <1>6 DEF IInv, RowsOK
    <2>2. \A u \in held' : rtoken'[u].state # "absent"
      BY <1>5, <1>6 DEF IInv, TypeOK, RowsOK
    <2> QED BY <1>6, <2>1, <2>2 DEF IInv, RowsOK
  <1>12. RowsSafe'
    BY <1>6 DEF IInv, RowsSafe, Covered, NoTokenFromRevokedGrant
  <1>13. TypeOK'
    BY <1>5, <1>6, <1>10 DEF IInv, TypeOK, TokenRow
  <1> QED BY <1>10, <1>11, <1>12, <1>13 DEF IInv

\* The statements of mfaChallenge and mfaRecover that only read.
LEMMA SecondFactorSteps ==
  ASSUME IInv, NEW q \in Req,
         \/ \E s \in Session : ChallengeStart(q, s)
         \/ \E s \in Session, c \in Code : RecoverStart(q, s, c)
         \/ ChallengeFindUser(q) \/ ChallengeFindFactor(q)
         \/ RecoverFindUser(q) \/ RecoverFindCode(q)
  PROVE  IInv'
  <1>1. ASSUME NEW s \in Session, NEW l \in {"challenge.findUser", "recover.findUser"},
               NEW f \in Source, Active(s), Become(q, SecondFactor(q, s, l, f)),
               UNCHANGED Tables
        PROVE  IInv'
    <2>0. sessions[s].state = "active" /\ sessions[s].user \in User
      BY <1>1 DEF Active, IInv, RowsOK
    <2>1. SecondFactor(q, s, l, f) \in Local
      <3>1. (sessions[s].state = "revoked") = FALSE
        BY <2>0
      <3>2. /\ l \in Label /\ f \in Source \cup {None}
            /\ sessions[s].user \in User \cup {None} /\ s \in Session \cup {None}
        BY <2>0 DEF Label, Minting
      <3>3. PICK b \in Local : b = BegunWith(l, sessions[s].user, s, f, FALSE)
        BY <3>2, BegunOK
      <3>4. SecondFactor(q, s, l, f) = [b EXCEPT !.mfa = TRUE]
        BY <3>1, <3>3 DEF SecondFactor, BegunWith, Idle
      <3> QED BY <3>4, LocalMfa
    <2>2. /\ LocalOK(SecondFactor(q, s, l, f))
          /\ LocalSafe(SecondFactor(q, s, l, f))
      BY <1>1, <2>0 DEF SecondFactor, Idle, LocalOK, LocalSafe, Minting, HasSession
    <2> QED BY <1>1, <2>1, <2>2, QuietStep
  <1>2. ASSUME NEW s \in Session, ChallengeStart(q, s) PROVE IInv'
    BY <1>1, <1>2 DEF ChallengeStart, Begin, Source, Tables
  <1>3. ASSUME NEW s \in Session, NEW c \in Code, RecoverStart(q, s, c) PROVE IInv'
    BY <1>1, <1>3 DEF RecoverStart, Begin, Source, Tables
  <1>4. ASSUME NEW l \in {"challenge.findFactor", "recover.findCode",
                          "recover.markUsed", "issue.sign"},
               req[q].at \in {"challenge.findUser", "challenge.findFactor",
                              "recover.findUser", "recover.findCode"},
               Goto(q, l), UNCHANGED Tables
        PROVE  IInv'
    <2>1. req[q] \in Local /\ LocalOK(req[q]) /\ LocalSafe(req[q])
      BY DEF IInv, TypeOK
    <2>2. /\ LocalOK([req[q] EXCEPT !.at = l])
          /\ LocalSafe([req[q] EXCEPT !.at = l])
      BY <1>4, <2>1 DEF Local, LocalOK, LocalSafe, Minting, HasSession
    <2> QED BY <1>4, <2>2, GotoStep DEF Label, Minting
  <1>5. ASSUME ChallengeFindUser(q) PROVE IInv'
    BY <1>4, <1>5, FinishStep DEF ChallengeFindUser, At, Tables
  <1>6. ASSUME ChallengeFindFactor(q) PROVE IInv'
    BY <1>4, <1>6, FinishStep DEF ChallengeFindFactor, At, Tables
  <1>7. ASSUME RecoverFindUser(q) PROVE IInv'
    BY <1>4, <1>7, FinishStep DEF RecoverFindUser, At, Tables
  <1>8. ASSUME RecoverFindCode(q) PROVE IInv'
    BY <1>4, <1>8, FinishStep DEF RecoverFindCode, At, Tables
  <1> QED BY <1>2, <1>3, <1>5, <1>6, <1>7, <1>8

\* The statements of refresh that only read, and the two ways it begins.
LEMMA RefreshSteps ==
  ASSUME IInv, NEW q \in Req,
         \/ \E t \in Token : RefreshStart(q, t) \/ ReuseStart(q, t)
         \/ RefreshFindSession(q) \/ RefreshFindUser(q) \/ RefreshFindFactor(q)
  PROVE  IInv'
  <1>1. ASSUME NEW t \in Token, NEW l \in {"refresh.findSession", "theft.revokeTokens"},
               t \in held, l = "refresh.findSession" => rtoken[t].state = "live",
               Become(q, Presented(t, l)), UNCHANGED Tables
        PROVE  IInv'
    <2>0. /\ rtoken[t].state # "absent" /\ rtoken[t].sid \in Session
          /\ sessions[rtoken[t].sid].state # "absent"
          /\ sessions[rtoken[t].sid].user \in User
      BY <1>1 DEF IInv, RowsOK
    <2> DEFINE r == Presented(t, l)
    <2>1. r \in Local
      <3> DEFINE late == \/ rtoken[t].state = "revoked"
                         \/ sessions[rtoken[t].sid].state = "revoked"
      <3>1. PICK dead \in BOOLEAN : dead = late
        <4>1. CASE late
          <5>1. late = TRUE
            BY <4>1
          <5> QED BY <5>1
        <4>2. CASE ~late
          <5>1. late = FALSE
            BY <4>2
          <5> QED BY <5>1
        <4> QED BY <4>1, <4>2
      <3>2. /\ l \in Label /\ t \in Source \cup {None}
            /\ sessions[rtoken[t].sid].user \in User \cup {None}
            /\ rtoken[t].sid \in Session \cup {None}
        BY <2>0 DEF Label, Minting, Source
      <3>3. r = BegunWith(l, sessions[rtoken[t].sid].user, rtoken[t].sid, t, dead)
        BY <3>1 DEF Presented, BegunWith
      <3> HIDE DEF r
      <3> QED BY <3>2, <3>3, BegunOK
    <2>2. LocalOK(r)
      BY <2>0 DEF Presented, Idle, LocalOK, Minting, HasSession, Source
    <2>3. LocalSafe(r)
      BY <1>1, <2>0 DEF Presented, Idle, LocalSafe
    <2> QED BY <1>1, <2>1, <2>2, <2>3, QuietStep
  <1>2. ASSUME NEW t \in Token, RefreshStart(q, t) PROVE IInv'
    BY <1>1, <1>2 DEF RefreshStart, Begin, Tables
  <1>3. ASSUME NEW t \in Token, ReuseStart(q, t) PROVE IInv'
    BY <1>1, <1>3 DEF ReuseStart, Begin, Tables
  <1>4. /\ req[q] \in Local /\ LocalOK(req[q]) /\ LocalSafe(req[q])
    BY DEF IInv, TypeOK
  <1>5. ASSUME RefreshFindSession(q) PROVE IInv'
    <2>1. CASE Finish(q)
      BY <1>5, <2>1, FinishStep DEF RefreshFindSession, Tables
    <2>2. CASE Active(req[q].sid) /\ Goto(q, "refresh.rotate")
      <3>1. /\ LocalOK([req[q] EXCEPT !.at = "refresh.rotate"])
            /\ LocalSafe([req[q] EXCEPT !.at = "refresh.rotate"])
        BY <1>4, <1>5, <2>2 DEF RefreshFindSession, At, Active, Local, LocalOK,
                                LocalSafe, Minting, HasSession
      <3> QED BY <1>5, <2>2, <3>1, GotoStep DEF RefreshFindSession, Tables, Label, Minting
    <2> QED BY <1>5, <2>1, <2>2 DEF RefreshFindSession
  <1>6. ASSUME RefreshFindUser(q) PROVE IInv'
    <2>1. CASE Finish(q)
      BY <1>6, <2>1, FinishStep DEF RefreshFindUser, Tables
    <2>2. CASE Goto(q, "refresh.findFactor")
      <3>1. /\ LocalOK([req[q] EXCEPT !.at = "refresh.findFactor"])
            /\ LocalSafe([req[q] EXCEPT !.at = "refresh.findFactor"])
        BY <1>4, <1>6 DEF RefreshFindUser, At, Local, LocalOK, LocalSafe,
                          Minting, HasSession
      <3> QED BY <1>6, <2>2, <3>1, GotoStep DEF RefreshFindUser, Tables, Label, Minting
    <2> QED BY <1>6, <2>1, <2>2 DEF RefreshFindUser
  <1>7. ASSUME RefreshFindFactor(q) PROVE IInv'
    <2> DEFINE r == [req[q] EXCEPT !.at = "refresh.createRefresh",
                                   !.mfa = Verified(req[q].user)]
    <2>1. r \in Local
      <3>1. Verified(req[q].user) \in BOOLEAN
        BY DEF Verified
      <3> QED BY <1>4, <3>1 DEF Local, Label, Minting
    <2>2. LocalOK(r) /\ LocalSafe(r)
      BY <1>4, <1>7 DEF RefreshFindFactor, At, Local, LocalOK, LocalSafe,
                        Minting, HasSession
    <2> QED BY <1>7, <2>1, <2>2, QuietStep DEF RefreshFindFactor, Tables
  <1> QED BY <1>2, <1>3, <1>5, <1>6, <1>7

\* An UPDATE that revokes a set of refresh tokens, by any handler.
LEMMA TokensRevoked ==
  ASSUME IInv, NEW T \in SUBSET Token, rtoken' = RevokedTokens(T),
         \A t \in T : rtoken[t].state # "absent"
  PROVE  /\ rtoken' \in [Token -> TokenRow]
         /\ \A t \in Token : /\ rtoken'[t].sid = rtoken[t].sid
                             /\ rtoken'[t].state = "absent" <=> rtoken[t].state = "absent"
  <1>1. rtoken \in [Token -> TokenRow]
    BY DEF IInv, TypeOK, TokenRow
  <1>2. ASSUME NEW t \in Token
        PROVE  /\ rtoken'[t] \in TokenRow /\ rtoken'[t].sid = rtoken[t].sid
               /\ rtoken'[t].state = "absent" <=> rtoken[t].state = "absent"
    BY <1>1, <1>2 DEF RevokedTokens, TokenRow
  <1> QED BY <1>2 DEF RevokedTokens

\* A step of a handler that revokes tokens and nothing else.
LEMMA RevokeTokensStep ==
  ASSUME IInv, NEW T \in SUBSET Token, rtoken' = RevokedTokens(T),
         \A t \in T : rtoken[t].state # "absent",
         UNCHANGED <<now, status, sessions, held, access, listedUntil, factor, codes>>
  PROVE  /\ Advance /\ RowsOK' /\ RowsSafe'
         /\ req' \in [Req -> Local] => TypeOK'
  <1>1. /\ rtoken' \in [Token -> TokenRow]
        /\ \A t \in Token : /\ rtoken'[t].sid = rtoken[t].sid
                            /\ rtoken'[t].state = "absent" <=> rtoken[t].state = "absent"
    BY TokensRevoked
  <1>2. Advance
    BY <1>1 DEF IInv, TypeOK, Advance, SessionRow
  <1>3. RowsOK' /\ RowsSafe'
    BY <1>1, <1>2, RowsStep
  <1>4. req' \in [Req -> Local] => TypeOK'
    BY <1>1 DEF IInv, TypeOK, TokenRow
  <1> QED BY <1>2, <1>3, <1>4

LEMMA RotateStep ==
  ASSUME IInv, NEW q \in Req, RefreshRotate(q)
  PROVE  IInv'
  <1>1. /\ req[q] \in Local /\ LocalOK(req[q]) /\ LocalSafe(req[q])
        /\ req[q].at = "refresh.rotate"
    BY DEF RefreshRotate, At, IInv, TypeOK
  <1>2. req[q].from \in Token /\ rtoken[req[q].from].state # "absent"
    BY <1>1 DEF LocalOK
  <1>3. PICK r \in Local : r = [req[q] EXCEPT !.at = "refresh.findUser"]
    BY <1>1 DEF Local, Label, Minting
  <1>4. LocalOK(r) /\ LocalSafe(r)
    BY <1>1, <1>3 DEF Local, LocalOK, LocalSafe, Minting, HasSession
  <1>5. /\ Advance /\ RowsOK' /\ RowsSafe'
        /\ req' \in [Req -> Local] => TypeOK'
    BY <1>2, RevokeTokensStep DEF RefreshRotate
  <1>6. LocalOK(r)' /\ LocalSafe(r)'
    BY <1>4, <1>5, LocalsStay DEF IInv
  <1>7. /\ req' \in [Req -> Local]
        /\ (\A p \in Req : LocalOK(req[p]) /\ LocalSafe(req[p]))'
    BY <1>3, <1>5, <1>6, HandlerStep DEF RefreshRotate, Goto
  <1> QED BY <1>5, <1>7 DEF IInv

LEMMA LogoutStep ==
  ASSUME IInv, NEW t \in Token, Logout(t)
  PROVE  IInv'
  <1>1. \A u \in {t} : rtoken[u].state # "absent"
    BY DEF Logout, IInv, RowsOK
  <1>2. /\ Advance /\ RowsOK' /\ RowsSafe'
        /\ req' \in [Req -> Local] => TypeOK'
    BY <1>1, RevokeTokensStep DEF Logout
  <1>4. TypeOK'
    BY <1>2 DEF Logout, IInv, TypeOK
  <1>3. ASSUME NEW p \in Req PROVE LocalOK(req[p])' /\ LocalSafe(req[p])'
    <2>1. PICK r \in Local : r = req[p]
      BY DEF IInv, TypeOK
    <2>2. LocalOK(r)' /\ LocalSafe(r)'
      BY <1>2, <2>1, LocalsStay DEF IInv
    <2> QED BY <2>1, <2>2 DEF Logout, LocalOK, LocalSafe, Covered
  <1> QED BY <1>2, <1>3, <1>4 DEF IInv

\* UPDATE sessions SET revoked_at over existing rows.
LEMMA SessionsRevoked ==
  ASSUME IInv, NEW S \in SUBSET Session, \A s \in S : sessions[s].state # "absent",
         sessions' = Revoked(S), UNCHANGED <<now, listedUntil, rtoken>>
  PROVE  /\ Advance
         /\ \A s \in S : sessions'[s].state = "revoked"
  <1>1. /\ sessions \in [Session -> SessionRow] /\ now \in Nat
        /\ listedUntil \in [Session -> Nat]
    BY DEF IInv, TypeOK, SessionRow
  <1>2. ASSUME NEW s \in Session
        PROVE  /\ sessions'[s] \in SessionRow
               /\ s \notin S => sessions'[s] = sessions[s]
               /\ s \in S => /\ sessions'[s].state = "revoked"
                             /\ sessions'[s].revokedAt = now
                             /\ sessions'[s].user = sessions[s].user
    <2>1. sessions[s] \in SessionRow
      BY <1>1
    <2>2. sessions'[s] = IF s \in S
                         THEN [sessions[s] EXCEPT !.state = "revoked", !.revokedAt = now]
                         ELSE sessions[s]
      BY DEF Revoked
    <2> QED BY <1>1, <2>1, <2>2 DEF SessionRow
  <1>3. sessions' \in [Session -> SessionRow]
    BY <1>2 DEF Revoked
  <1> QED BY <1>1, <1>2, <1>3 DEF Advance

LEMMA TheftSteps ==
  ASSUME IInv, NEW q \in Req,
         TheftRevokeTokens(q) \/ TheftRevokeSession(q) \/ TheftList(q)
  PROVE  IInv'
  <1>0. req[q] \in Local /\ LocalOK(req[q]) /\ LocalSafe(req[q])
    BY DEF IInv, TypeOK
  <1>1. ASSUME TheftRevokeTokens(q) PROVE IInv'
    <2>1. PICK r \in Local : r = [req[q] EXCEPT !.at = "theft.revokeSession"]
      BY <1>0 DEF Local, Label
    <2>2. LocalOK(r) /\ LocalSafe(r)
      BY <1>0, <1>1, <2>1 DEF TheftRevokeTokens, At, Local, LocalOK, LocalSafe,
                              Minting, HasSession
    <2>3. /\ Advance /\ RowsOK' /\ RowsSafe'
          /\ req' \in [Req -> Local] => TypeOK'
      BY <1>1, RevokeTokensStep DEF TheftRevokeTokens, LiveTokensOf
    <2>4. LocalOK(r)' /\ LocalSafe(r)'
      BY <2>2, <2>3, LocalsStay DEF IInv
    <2>5. /\ req' \in [Req -> Local]
          /\ (\A p \in Req : LocalOK(req[p]) /\ LocalSafe(req[p]))'
      BY <1>1, <2>1, <2>3, <2>4, HandlerStep DEF TheftRevokeTokens, Goto
    <2> QED BY <2>3, <2>5 DEF IInv
  <1>2. ASSUME TheftRevokeSession(q) PROVE IInv'
    <2>0. /\ req[q].at = "theft.revokeSession" /\ req[q].sid \in Session
          /\ sessions[req[q].sid].state # "absent"
      BY <1>0, <1>2 DEF TheftRevokeSession, At, LocalOK, HasSession
    <2>1. PICK r \in Local : r = [req[q] EXCEPT !.at = "theft.list"]
      BY <1>0 DEF Local, Label
    <2>2. Advance
      BY <1>2, <2>0, SessionsRevoked DEF TheftRevokeSession
    <2>3. sessions'[req[q].sid].state = "revoked"
      BY <1>2, <2>0, SessionsRevoked DEF TheftRevokeSession
    <2>4. LocalOK(r)'
      BY <2>0, <2>1, <2>3, <1>0 DEF Local, LocalOK, Minting, HasSession
    <2>5. LocalSafe(r)'
      BY <1>0, <2>0, <2>1, <2>2, <2>3 DEF Local, LocalSafe, Advance
    <2>6. /\ req' \in [Req -> Local]
          /\ (\A p \in Req : LocalOK(req[p]) /\ LocalSafe(req[p]))'
      BY <1>2, <2>1, <2>2, <2>4, <2>5, HandlerStep DEF TheftRevokeSession, Goto
    <2>7. /\ rtoken' \in [Token -> TokenRow] /\ rtoken' = rtoken
          /\ held' = held /\ access' = access
      BY <1>2 DEF TheftRevokeSession, IInv, TypeOK, TokenRow
    <2>8. RowsOK' /\ RowsSafe'
      BY <2>2, <2>7, RowsStep
    <2>9. TypeOK'
      BY <1>2, <2>2, <2>6 DEF IInv, TypeOK, TheftRevokeSession, Advance, SessionRow
    <2> QED BY <2>6, <2>8, <2>9 DEF IInv
  <1>3. ASSUME TheftList(q) PROVE IInv'
    <2>0. /\ req[q].sid \in Session /\ sessions[req[q].sid].state = "revoked"
      BY <1>0, <1>3 DEF TheftList, At, LocalOK, LocalSafe, HasSession
    <2>1. now \in Nat /\ now + RevTTL \in Nat
      BY DEF IInv, TypeOK
    <2>2. Advance
      BY <1>3, <2>0, <2>1 DEF TheftList, AddToRevocationSet, IInv, TypeOK, Advance,
                              SessionRow
    <2>3. LocalOK(Idle)' /\ LocalSafe(Idle)'
      BY IdleOK DEF Idle, LocalOK, LocalSafe, Minting, HasSession
    <2>4. /\ req' \in [Req -> Local]
          /\ (\A p \in Req : LocalOK(req[p]) /\ LocalSafe(req[p]))'
      BY <1>3, <2>2, <2>3, IdleOK, HandlerStep DEF TheftList, Finish
    <2>5. /\ rtoken' \in [Token -> TokenRow] /\ rtoken' = rtoken
          /\ held' = held /\ access' = access
      BY <1>3 DEF TheftList, IInv, TypeOK, TokenRow
    <2>6. RowsOK' /\ RowsSafe'
      BY <2>2, <2>5, RowsStep
    <2>7. TypeOK'
      BY <1>3, <2>2, <2>4 DEF IInv, TypeOK, TheftList, Advance, SessionRow
    <2> QED BY <2>4, <2>6, <2>7 DEF IInv
  <1> QED BY <1>1, <1>2, <1>3

\* The records of the revocation handlers.
LEMMA FanoutOK ==
  ASSUME NEW S \in SUBSET Session
  PROVE  Fanout(S) \in Local /\ LocalOK(Fanout(S))
  <1>1. "revoke.fanout" \in Label
    BY DEF Label
  <1>2. Fanout(S) \in Local
    BY <1>1, IdleOK DEF Fanout, Local
  <1>3. LocalOK(Fanout(S))
    BY DEF Fanout, Idle, LocalOK, Minting, HasSession
  <1> QED BY <1>2, <1>3

LEMMA RevokeSteps ==
  ASSUME IInv, NEW q \in Req,
         \/ \E a \in access, s \in Session : RevokeStart(q, a, s)
         \/ RevokeUpdate(q)
         \/ \E op \in Ops, S \in SUBSET Session :
                RevokeAll(q, op, S) /\ \A s \in S : Active(s)
  PROVE  IInv'
  <1>1. ASSUME NEW a \in access, NEW s \in Session, RevokeStart(q, a, s) PROVE IInv'
    <2> DEFINE r == [Idle EXCEPT !.at = "revoke.update", !.sid = s]
    <2>1. r \in Local
      BY IdleOK DEF Local, Label
    <2>2. LocalOK(r) /\ LocalSafe(r)
      BY <1>1 DEF RevokeStart, Active, Idle, LocalOK, LocalSafe, Minting, HasSession
    <2> QED BY <1>1, <2>1, <2>2, QuietStep DEF RevokeStart, Begin, Tables
  <1>2. ASSUME NEW S \in SUBSET Session, \A s \in S : Active(s),
               sessions' = Revoked(S), Become(q, Fanout(S)),
               UNCHANGED <<now, status, rtoken, held, access, listedUntil, factor, codes>>
        PROVE  IInv'
    <2>0. \A s \in S : sessions[s].state # "absent"
      BY <1>2 DEF Active
    <2>1. Advance /\ \A s \in S : sessions'[s].state = "revoked"
      BY <1>2, <2>0, SessionsRevoked
    <2>2. PICK r \in Local : r = Fanout(S)
      BY <1>2, FanoutOK
    <2>3. LocalOK(r)'
      BY <2>2 DEF Fanout, Idle, LocalOK, Minting, HasSession
    <2>4. LocalSafe(r)'
      BY <2>1, <2>2 DEF Fanout, Idle, LocalSafe
    <2>5. /\ req' \in [Req -> Local]
          /\ (\A p \in Req : LocalOK(req[p]) /\ LocalSafe(req[p]))'
      BY <1>2, <2>1, <2>2, <2>3, <2>4, HandlerStep
    <2>6. /\ rtoken' \in [Token -> TokenRow] /\ rtoken' = rtoken
          /\ held' = held /\ access' = access
      BY <1>2 DEF IInv, TypeOK, TokenRow
    <2>7. RowsOK' /\ RowsSafe'
      BY <2>1, <2>6, RowsStep
    <2>8. TypeOK'
      BY <1>2, <2>1, <2>5 DEF IInv, TypeOK, Advance, SessionRow
    <2> QED BY <2>5, <2>7, <2>8 DEF IInv
  <1>3. ASSUME RevokeUpdate(q) PROVE IInv'
    <2>1. req[q].sid \in Session
      BY <1>3 DEF RevokeUpdate, At, IInv, LocalOK, HasSession
    <2>2. CASE /\ Active(req[q].sid) /\ sessions' = Revoked({req[q].sid})
               /\ Become(q, Fanout({req[q].sid}))
      <3>1. {req[q].sid} \in SUBSET Session /\ \A s \in {req[q].sid} : Active(s)
        BY <2>1, <2>2
      <3>2. PICK S \in SUBSET Session : S = {req[q].sid}
        BY <3>1
      <3> QED BY <1>3, <2>2, <3>1, <3>2, <1>2 DEF RevokeUpdate
    <2>3. CASE Finish(q) /\ UNCHANGED sessions
      BY <1>3, <2>3, FinishStep DEF RevokeUpdate, Tables
    <2> QED BY <1>3, <2>2, <2>3 DEF RevokeUpdate
  <1>4. ASSUME NEW op \in Ops, NEW S \in SUBSET Session, RevokeAll(q, op, S),
               \A s \in S : Active(s)
        PROVE  IInv'
    BY <1>2, <1>4 DEF RevokeAll, Begin
  <1> QED BY <1>1, <1>3, <1>4

LEMMA FanoutSteps ==
  ASSUME IInv, NEW q \in Req, NEW s \in Session, FanoutList(q, s) \/ FanoutPurge(q, s)
  PROVE  IInv'
  <1>0. req[q] \in Local /\ LocalOK(req[q]) /\ LocalSafe(req[q])
    BY DEF IInv, TypeOK
  <1>1. ASSUME NEW L \in SUBSET req[q].listing, NEW P \in SUBSET req[q].purging,
               req[q].at = "revoke.fanout", FanoutNext(q, L, P)
        PROVE  \E r \in Local : Become(q, r) /\ LocalOK(r) /\ LocalSafe(r)
    <2>1. CASE L \cup P = {}
      BY <1>1, <2>1, IdleOK DEF FanoutNext
    <2>2. CASE L \cup P # {}
      <3> DEFINE r == [req[q] EXCEPT !.listing = L, !.purging = P]
      <3>1. r \in Local
        BY <1>0 DEF Local
      <3>2. LocalOK(r) /\ LocalSafe(r)
        BY <1>0, <1>1 DEF Local, LocalOK, LocalSafe, Minting, HasSession
      <3> QED BY <1>1, <2>2, <3>1, <3>2 DEF FanoutNext
    <2> QED BY <2>1, <2>2
  <1>2. ASSUME FanoutList(q, s) PROVE IInv'
    <2>1. PICK r \in Local : Become(q, r) /\ LocalOK(r) /\ LocalSafe(r)
      BY <1>1, <1>2 DEF FanoutList, At
    <2>2. /\ sessions[s].state = "revoked" /\ now + RevTTL \in Nat
      BY <1>0, <1>2 DEF FanoutList, LocalSafe, IInv, TypeOK
    <2>3. Advance
      BY <1>2, <2>2 DEF FanoutList, AddToRevocationSet, IInv, TypeOK, Advance, SessionRow
    <2>4. LocalOK(r)' /\ LocalSafe(r)'
      BY <2>1, <2>3, LocalsStay DEF IInv
    <2>5. /\ req' \in [Req -> Local]
          /\ (\A p \in Req : LocalOK(req[p]) /\ LocalSafe(req[p]))'
      BY <2>1, <2>3, <2>4, HandlerStep
    <2>6. /\ rtoken' \in [Token -> TokenRow] /\ rtoken' = rtoken
          /\ held' = held /\ access' = access
      BY <1>2 DEF FanoutList, IInv, TypeOK, TokenRow
    <2>7. RowsOK' /\ RowsSafe'
      BY <2>3, <2>6, RowsStep
    <2>8. TypeOK'
      BY <1>2, <2>3, <2>5 DEF FanoutList, IInv, TypeOK, Advance, SessionRow
    <2> QED BY <2>5, <2>7, <2>8 DEF IInv
  <1>3. ASSUME FanoutPurge(q, s) PROVE IInv'
    <2>1. PICK r \in Local : Become(q, r) /\ LocalOK(r) /\ LocalSafe(r)
      BY <1>1, <1>3 DEF FanoutPurge, At
    <2>2. /\ Advance /\ RowsOK' /\ RowsSafe'
          /\ req' \in [Req -> Local] => TypeOK'
      BY <1>3, RevokeTokensStep DEF FanoutPurge, LiveTokensOf
    <2>3. LocalOK(r)' /\ LocalSafe(r)'
      BY <2>1, <2>2, LocalsStay DEF IInv
    <2>4. /\ req' \in [Req -> Local]
          /\ (\A p \in Req : LocalOK(req[p]) /\ LocalSafe(req[p]))'
      BY <2>1, <2>2, <2>3, HandlerStep
    <2> QED BY <2>2, <2>4 DEF IInv
  <1> QED BY <1>2, <1>3

\* A step that leaves sessions, tokens and keys alone: it may change users,
\* factors and codes, and the locals of one handler.
LEMMA AsideStep ==
  ASSUME IInv, NEW q \in Req, NEW r \in Local, Become(q, r), LocalOK(r), LocalSafe(r),
         status' \in [User -> {"active", "disabled"}],
         factor' \in [User -> [state : {"none", "pending", "verified"},
                               secret : Nat, proved : Nat]],
         codes' \in [Code -> [state : {"absent", "unused", "used"},
                              user : User \cup {None}]],
         UNCHANGED <<now, sessions, rtoken, held, access, listedUntil>>
  PROVE  IInv'
  <1>1. Advance
    BY DEF IInv, TypeOK, Advance, SessionRow
  <1>2. LocalOK(r)' /\ LocalSafe(r)'
    BY DEF LocalOK, LocalSafe, Covered
  <1>3. /\ req' \in [Req -> Local]
        /\ (\A p \in Req : LocalOK(req[p]) /\ LocalSafe(req[p]))'
    BY <1>1, <1>2, HandlerStep
  <1>4. RowsOK' /\ RowsSafe'
    BY DEF IInv, RowsOK, RowsSafe, Covered, NoTokenFromRevokedGrant
  <1>5. TypeOK'
    BY <1>3 DEF IInv, TypeOK
  <1> QED BY <1>3, <1>4, <1>5 DEF IInv

LEMMA EnrollSteps ==
  ASSUME IInv, NEW q \in Req,
         \/ \E a \in access : EnrollStart(q, a) \/ VerifyStart(q, a)
         \/ EnrollDeleteCodes(q) \/ EnrollInsertCodes(q) \/ VerifyMark(q)
  PROVE  IInv'
  <1>0. /\ req[q] \in Local /\ LocalOK(req[q]) /\ LocalSafe(req[q]) /\ TypeOK
        /\ status \in [User -> {"active", "disabled"}]
        /\ factor \in [User -> [state : {"none", "pending", "verified"},
                                secret : Nat, proved : Nat]]
        /\ codes \in [Code -> [state : {"absent", "unused", "used"},
                               user : User \cup {None}]]
    BY DEF IInv, TypeOK
  <1>1. ASSUME NEW a \in access PROVE UserOf(a) \in User
    BY DEF IInv, TypeOK, RowsOK, UserOf
  <1>2. ASSUME NEW a \in access, EnrollStart(q, a) PROVE IInv'
    <2>1. PICK u \in User : u = UserOf(a)
      BY <1>1
    <2>2. PICK r \in Local : r = [Idle EXCEPT !.at = "enroll.deleteCodes", !.user = u]
      BY IdleOK DEF Local, Label
    <2>3. LocalOK(r) /\ LocalSafe(r)
      BY <2>2 DEF Idle, LocalOK, LocalSafe, Minting, HasSession
    <2>4. factor' \in [User -> [state : {"none", "pending", "verified"},
                                secret : Nat, proved : Nat]]
      <3>1. factor' = [factor EXCEPT ![u] = [state |-> "pending",
                          secret |-> factor[u].secret + 1,
                          proved |-> factor[u].proved]]
        BY <1>2, <2>1 DEF EnrollStart
      <3>2. factor[u].secret + 1 \in Nat /\ factor[u].proved \in Nat
        BY <1>0
      <3> QED BY <1>0, <3>1, <3>2
    <2> QED BY <1>0, <1>2, <2>1, <2>2, <2>3, <2>4, AsideStep DEF EnrollStart, Begin
  <1>3. ASSUME NEW a \in access, VerifyStart(q, a) PROVE IInv'
    <2>1. PICK u \in User : u = UserOf(a)
      BY <1>1
    <2>2. factor[u].secret \in Nat
      BY <1>0
    <2>3. PICK r \in Local : r = [Idle EXCEPT !.at = "verify.mark", !.user = u,
                                              !.secret = factor[u].secret]
      BY <2>2, IdleOK DEF Local, Label
    <2>4. LocalOK(r) /\ LocalSafe(r)
      BY <2>3 DEF Idle, LocalOK, LocalSafe, Minting, HasSession
    <2> QED BY <1>3, <2>1, <2>3, <2>4, QuietStep DEF VerifyStart, Begin, Tables
  <1>4. ASSUME EnrollDeleteCodes(q) PROVE IInv'
    <2>1. PICK r \in Local : r = [req[q] EXCEPT !.at = "enroll.insertCodes"]
      BY <1>0 DEF Local, Label
    <2>2. LocalOK(r) /\ LocalSafe(r)
      BY <1>0, <1>4, <2>1 DEF EnrollDeleteCodes, At, Local, LocalOK, LocalSafe,
                              Minting, HasSession
    <2>3. codes' \in [Code -> [state : {"absent", "unused", "used"},
                               user : User \cup {None}]]
      BY <1>0, <1>4 DEF EnrollDeleteCodes, NoCode
    <2> QED BY <1>0, <1>4, <2>1, <2>2, <2>3, AsideStep DEF EnrollDeleteCodes, Goto
  <1>5. ASSUME EnrollInsertCodes(q) PROVE IInv'
    <2>1. req[q].user \in User
      BY <1>0, <1>5 DEF EnrollInsertCodes, At, LocalOK
    <2>2. codes' \in [Code -> [state : {"absent", "unused", "used"},
                               user : User \cup {None}]]
      BY <1>0, <1>5, <2>1 DEF EnrollInsertCodes
    <2> QED BY <1>0, <1>5, <2>2, IdleOK, AsideStep DEF EnrollInsertCodes, Finish
  <1>6. ASSUME VerifyMark(q) PROVE IInv'
    <2>1. req[q].secret \in Nat /\ req[q].user \in User
      BY <1>0, <1>6 DEF VerifyMark, At, LocalOK, Local
    <2>2. factor' \in [User -> [state : {"none", "pending", "verified"},
                                secret : Nat, proved : Nat]]
      <3>1. factor[req[q].user] \in [state : {"none", "pending", "verified"},
                                     secret : Nat, proved : Nat]
        BY <1>0, <2>1
      <3>2. [factor[req[q].user] EXCEPT !.state = "verified", !.proved = req[q].secret]
              \in [state : {"none", "pending", "verified"}, secret : Nat, proved : Nat]
        BY <2>1, <3>1
      <3> QED BY <1>0, <1>6, <2>1, <3>2 DEF VerifyMark
    <2> QED BY <1>0, <1>6, <2>2, IdleOK, AsideStep DEF VerifyMark, Finish
  <1> QED BY <1>2, <1>3, <1>4, <1>5, <1>6

LEMMA RecoverMarkUsedStep ==
  ASSUME IInv, NEW q \in Req, RecoverMarkUsed(q)
  PROVE  IInv'
  <1>0. /\ req[q] \in Local /\ LocalOK(req[q]) /\ LocalSafe(req[q])
        /\ req[q].at = "recover.markUsed"
        /\ status \in [User -> {"active", "disabled"}]
        /\ factor \in [User -> [state : {"none", "pending", "verified"},
                                secret : Nat, proved : Nat]]
        /\ codes \in [Code -> [state : {"absent", "unused", "used"},
                               user : User \cup {None}]]
    BY DEF IInv, TypeOK, RecoverMarkUsed, At
  <1>1. PICK r \in Local : r = [req[q] EXCEPT !.at = "issue.sign"]
    BY <1>0 DEF Local, Label, Minting
  <1>2. LocalOK(r) /\ LocalSafe(r)
    BY <1>0, <1>1 DEF Local, LocalOK, LocalSafe, Minting, HasSession
  <1>3. codes' \in [Code -> [state : {"absent", "unused", "used"},
                             user : User \cup {None}]]
    <2> DEFINE c == req[q].from
    <2>1. CASE c \in Code
      <3>1. PICK row \in [state : {"absent", "unused", "used"}, user : User \cup {None}] :
              row = [codes[c] EXCEPT !.state = IF @ = "absent" THEN @ ELSE "used"]
        <4>1. codes[c] \in [state : {"absent", "unused", "used"}, user : User \cup {None}]
          BY <1>0, <2>1
        <4>2. PICK st \in {"absent", "unused", "used"} :
                st = IF codes[c].state = "absent" THEN codes[c].state ELSE "used"
          BY <4>1
        <4>3. [codes[c] EXCEPT !.state = st]
                \in [state : {"absent", "unused", "used"}, user : User \cup {None}]
          BY <4>1
        <4>4. [codes[c] EXCEPT !.state = IF @ = "absent" THEN @ ELSE "used"]
                = [codes[c] EXCEPT !.state = st]
          BY <4>2
        <4> QED BY <4>3, <4>4
      <3>2. codes' = [codes EXCEPT ![c] = row]
        BY <1>0, <2>1, <3>1 DEF RecoverMarkUsed
      <3> QED BY <1>0, <3>2
    <2>2. CASE c \notin Code
      BY <1>0, <2>2 DEF RecoverMarkUsed
    <2> QED BY <2>1, <2>2
  <1> QED BY <1>0, <1>1, <1>2, <1>3, AsideStep DEF RecoverMarkUsed, Goto

\* Steps that touch no handler.
LEMMA AroundSteps ==
  ASSUME IInv, \/ \E u \in User : UpdateUserStatus(u)
               \/ Tick
               \/ UNCHANGED vars
  PROVE  IInv'
  <1>1. ASSUME NEW u \in User, UpdateUserStatus(u) PROVE IInv'
    <2>1. TypeOK'
      BY <1>1 DEF UpdateUserStatus, IInv, TypeOK
    <2>2. RowsOK' /\ RowsSafe' /\ (\A q \in Req : LocalOK(req[q]) /\ LocalSafe(req[q]))'
      BY <1>1 DEF UpdateUserStatus, IInv, RowsOK, RowsSafe, Covered,
                  NoTokenFromRevokedGrant, LocalOK, LocalSafe
    <2> QED BY <2>1, <2>2 DEF IInv
  <1>2. ASSUME Tick PROVE IInv'
    <2>0. now \in Nat /\ now' = now + 1
      BY <1>2 DEF Tick, IInv, TypeOK
    <2>1. TypeOK'
      BY <1>2, <2>0 DEF Tick, IInv, TypeOK
    <2>2. ASSUME NEW s \in Session, NEW iat \in Nat, Covered(s, iat)
          PROVE  Covered(s, iat)'
      BY <1>2, <2>0, <2>2 DEF Tick, Covered
    <2>3. RowsOK'
      BY <1>2 DEF Tick, IInv, RowsOK
    <2>4. RowsSafe'
      <3>1. \A a \in access : a.lag = "fresh" => Covered(a.sid, a.iat)'
        BY <2>2 DEF IInv, TypeOK, RowsSafe
      <3>2. (\A a \in access : a.lag = "fresh" => Covered(a.sid, a.iat))'
        BY <1>2, <3>1 DEF Tick, Covered
      <3> QED BY <1>2, <3>2 DEF Tick, IInv, RowsSafe, NoTokenFromRevokedGrant
    <2>5. ASSUME NEW q \in Req PROVE LocalOK(req[q])' /\ LocalSafe(req[q])'
      <3>1. PICK r \in Local : r = req[q]
        BY DEF IInv, TypeOK
      <3>2. LocalOK(r) /\ LocalSafe(r) /\ req'[q] = r
        BY <1>2, <3>1 DEF IInv, Tick
      <3>3. LocalOK(r)'
        BY <1>2, <3>2 DEF Tick, LocalOK
      <3>4. r.at = "issue.createRefresh" /\ r.lag = "fresh" => Covered(r.sid, r.iat)'
        BY <2>2, <3>2 DEF LocalOK, LocalSafe, HasSession, Local
      <3>5. LocalSafe(r)'
        BY <1>2, <3>2, <3>4 DEF Tick, LocalSafe
      <3> QED BY <3>2, <3>3, <3>5 DEF LocalOK, LocalSafe, Covered
    <2> QED BY <2>1, <2>3, <2>4, <2>5 DEF IInv
  <1>3. ASSUME UNCHANGED vars PROVE IInv'
    BY <1>3 DEF vars, Tables, IInv, TypeOK, RowsOK, RowsSafe, Covered,
                NoTokenFromRevokedGrant, LocalOK, LocalSafe
  <1> QED BY <1>1, <1>2, <1>3

-----------------------------------------------------------------------------
LEMMA InitInv == Init => IInv
  <1> SUFFICES ASSUME Init PROVE IInv
    OBVIOUS
  <1>1. TypeOK
    BY IdleOK DEF Init, TypeOK, NoSession, NoToken, NoCode, NoFactor
  <1>2. RowsOK /\ RowsSafe
    BY DEF Init, RowsOK, RowsSafe, NoSession, NoToken, NoTokenFromRevokedGrant
  <1>3. \A q \in Req : LocalOK(req[q]) /\ LocalSafe(req[q])
    BY IdleOK DEF Init
  <1> QED BY <1>1, <1>2, <1>3 DEF IInv

LEMMA ResumeInv ==
  ASSUME IInv, NEW q \in Req, Resume(q)
  PROVE  IInv'
  <1>1. CASE LoginFindFactor(q) \/ IssueSign(q)
    BY <1>1, LoginSteps
  <1>2. CASE LoginCreateSession(q)
    BY <1>2, CreateSessionStep
  <1>3. CASE IssueCreateRefresh(q)
    BY <1>3, IssueCreateRefreshStep
  <1>4. CASE \/ ChallengeFindUser(q) \/ ChallengeFindFactor(q)
             \/ RecoverFindUser(q) \/ RecoverFindCode(q)
    BY <1>4, SecondFactorSteps
  <1>5. CASE RecoverMarkUsed(q)
    BY <1>5, RecoverMarkUsedStep
  <1>6. CASE RefreshFindSession(q) \/ RefreshFindUser(q) \/ RefreshFindFactor(q)
    BY <1>6, RefreshSteps
  <1>7. CASE RefreshRotate(q)
    BY <1>7, RotateStep
  <1>8. CASE RefreshCreateRefresh(q)
    BY <1>8, RefreshCreateRefreshStep
  <1>9. CASE RefreshSign(q)
    BY <1>9, RefreshSignStep
  <1>10. CASE TheftRevokeTokens(q) \/ TheftRevokeSession(q) \/ TheftList(q)
    BY <1>10, TheftSteps
  <1>11. CASE RevokeUpdate(q)
    BY <1>11, RevokeSteps
  <1>12. CASE \E s \in Session : FanoutList(q, s) \/ FanoutPurge(q, s)
    BY <1>12, FanoutSteps
  <1>13. CASE EnrollDeleteCodes(q) \/ EnrollInsertCodes(q) \/ VerifyMark(q)
    BY <1>13, EnrollSteps
  <1> QED BY <1>1, <1>2, <1>3, <1>4, <1>5, <1>6, <1>7, <1>8, <1>9, <1>10, <1>11,
             <1>12, <1>13 DEF Resume

LEMMA ArriveInv ==
  ASSUME IInv, NEW q \in Req, Arrive(q)
  PROVE  IInv'
  <1>1. CASE \E u \in User : LoginStart(q, u)
    BY <1>1, LoginSteps
  <1>2. CASE \/ \E s \in Session : ChallengeStart(q, s)
             \/ \E s \in Session, c \in Code : RecoverStart(q, s, c)
    BY <1>2, SecondFactorSteps
  <1>3. CASE \E t \in Token : RefreshStart(q, t) \/ ReuseStart(q, t)
    BY <1>3, RefreshSteps
  <1>4. CASE \E a \in access, s \in Session : RevokeStart(q, a, s)
    BY <1>4, RevokeSteps
  <1>5. ASSUME NEW a \in access, RevokeAllOthers(q, a) PROVE IInv'
    <2> DEFINE S == ActiveSessionsOf(UserOf(a)) \ {a.sid}
    <2>1. S \in SUBSET Session /\ \A s \in S : Active(s)
      BY DEF ActiveSessionsOf
    <2>2. "revokeAll" \in Ops /\ RevokeAll(q, "revokeAll", S)
      BY <1>5 DEF RevokeAllOthers, RevokeAll, Begin
    <2> QED BY <2>1, <2>2, RevokeSteps
  <1>6. ASSUME NEW a \in access, NEW u \in User, AdminRevokeAll(q, a, u) PROVE IInv'
    <2> DEFINE S == ActiveSessionsOf(u)
    <2>1. S \in SUBSET Session /\ \A s \in S : Active(s)
      BY DEF ActiveSessionsOf
    <2>2. "adminRevokeAll" \in Ops /\ RevokeAll(q, "adminRevokeAll", S)
      BY <1>6 DEF AdminRevokeAll, RevokeAll, Begin
    <2> QED BY <2>1, <2>2, RevokeSteps
  <1>7. CASE \E a \in access : EnrollStart(q, a) \/ VerifyStart(q, a)
    BY <1>7, EnrollSteps
  <1> QED BY <1>1, <1>2, <1>3, <1>4, <1>5, <1>6, <1>7 DEF Arrive

LEMMA NextInv == IInv /\ [Next]_vars => IInv'
  <1> SUFFICES ASSUME IInv, [Next]_vars PROVE IInv'
    OBVIOUS
  <1>1. ASSUME NEW q \in Req, Fail(q) PROVE IInv'
    BY <1>1, FinishStep DEF Fail, Tables
  <1>2. CASE \E t \in Token : Logout(t)
    BY <1>2, LogoutStep
  <1>3. CASE (\E u \in User : UpdateUserStatus(u)) \/ Tick \/ UNCHANGED vars
    BY <1>3, AroundSteps
  <1> QED BY <1>1, <1>2, <1>3, ResumeInv, ArriveInv DEF Next

\* What the rows, the handlers and the Redis keys say of each other holds
\* between any two statements of any handlers.
THEOREM Invariance == Spec => []IInv
  BY InitInv, NextInv, PTL DEF Spec

\* Every row and every local variable has its type.
THEOREM TypeCorrect == Spec => []TypeOK
  <1>1. IInv => TypeOK
    BY DEF IInv
  <1> QED BY <1>1, Invariance, PTL

\* refresh, mfaChallenge and mfaRecover never give out tokens for a refresh
\* token or a session that was revoked when the request came in.
THEOREM RevokedGrantsBuyNothing == Spec => []NoTokenFromRevokedGrant
  <1>1. IInv => NoTokenFromRevokedGrant
    BY DEF IInv, RowsSafe
  <1> QED BY <1>1, Invariance, PTL

\* The entry of the revocation list outlives every token it stands for, so
\* authMiddleware never accepts one again.
THEOREM RevocationListSuffices == Spec => []RevokedTokensRefused
  <1>1. IInv => RevokedTokensRefused
    <2> SUFFICES ASSUME IInv, NEW a \in access, a.lag = "fresh", listedUntil[a.sid] # 0
                 PROVE  ~Accepts(a)
      BY DEF RevokedTokensRefused
    <2>1. a.sid \in Session /\ a.iat \in Nat /\ now \in Nat /\ listedUntil[a.sid] \in Nat
      BY DEF IInv, TypeOK
    <2>2. a.iat + AccessTTL <= listedUntil[a.sid]
      BY DEF IInv, RowsSafe, Covered
    <2> QED BY <2>1, <2>2 DEF Accepts, Listed
  <1> QED BY <1>1, Invariance, PTL

\* If the entry is never written, a token signed before the revocation is still
\* refused AccessTTL after it.
THEOREM RevocationTakesHold == Spec => []ExposureBounded
  <1>1. IInv => ExposureBounded
    <2> SUFFICES ASSUME IInv, NEW a \in access, a.lag = "fresh",
                        sessions[a.sid].state = "revoked", Accepts(a)
                 PROVE  now < sessions[a.sid].revokedAt + AccessTTL
      BY DEF ExposureBounded
    <2>1. /\ a.sid \in Session /\ a.iat \in Nat /\ now \in Nat
          /\ sessions[a.sid].revokedAt \in Nat
      BY DEF IInv, TypeOK
    <2>2. a.iat <= sessions[a.sid].revokedAt
      BY DEF IInv, RowsSafe, Covered
    <2> QED BY <2>1, <2>2 DEF Accepts
  <1> QED BY <1>1, Invariance, PTL

-----------------------------------------------------------------------------
(* What no step ever undoes: rows stay, with their owner and their grant,   *)
(* and what is revoked stays revoked.                                       *)
Grows ==
    /\ \A s \in Session : sessions[s].state # "absent" =>
          /\ sessions'[s].state # "absent" /\ sessions'[s].user = sessions[s].user
          /\ sessions[s].state = "revoked" => sessions'[s].state = "revoked"
    /\ \A t \in Token :
          IF rtoken[t].state = "absent"
          THEN rtoken'[t] = rtoken[t] \/ rtoken'[t].state = "live"
          ELSE /\ rtoken'[t].state # "absent" /\ rtoken'[t].sid = rtoken[t].sid
               /\ rtoken'[t].from = rtoken[t].from
               /\ rtoken[t].state = "revoked" => rtoken'[t].state = "revoked"

LEMMA TokensUpdated ==
  ASSUME TypeOK, NEW T \in SUBSET Token, rtoken' = RevokedTokens(T), NEW t \in Token
  PROVE  IF t \in T
         THEN /\ rtoken'[t].state = "revoked" /\ rtoken'[t].sid = rtoken[t].sid
              /\ rtoken'[t].from = rtoken[t].from
         ELSE rtoken'[t] = rtoken[t]
  <1>1. rtoken[t] \in TokenRow
    BY DEF TypeOK, TokenRow
  <1>2. rtoken'[t] = IF t \in T THEN [rtoken[t] EXCEPT !.state = "revoked"]
                     ELSE rtoken[t]
    BY DEF RevokedTokens
  <1> QED BY <1>1, <1>2 DEF TokenRow

LEMMA TokensRevokedGrow ==
  ASSUME TypeOK, NEW T \in SUBSET Token, rtoken' = RevokedTokens(T),
         \A t \in T : rtoken[t].state # "absent", sessions' = sessions
  PROVE  Grows
  BY TokensUpdated DEF Grows

LEMMA TokenInsertedGrows ==
  ASSUME TypeOK, NEW q \in Req, NEW t \in Token, InsertToken(q, t), sessions' = sessions
  PROVE  Grows
  <1>1. rtoken'[t].state = "live" /\ \A u \in Token \ {t} : rtoken'[u] = rtoken[u]
    BY DEF TypeOK, InsertToken
  <1> QED BY <1>1 DEF Grows, InsertToken

LEMMA SessionsRevokedGrow ==
  ASSUME IInv, NEW S \in SUBSET Session, \A s \in S : sessions[s].state # "absent",
         sessions' = Revoked(S), UNCHANGED <<now, listedUntil, rtoken>>
  PROVE  Grows
  BY SessionsRevoked DEF Advance, Grows

LEMMA ResumeGrows ==
  ASSUME IInv, NEW q \in Req, Resume(q)
  PROVE  Grows
  <1>0. TypeOK /\ LocalOK(req[q])
    BY DEF IInv
  <1>1. ASSUME sessions' = sessions, rtoken' = rtoken PROVE Grows
    BY <1>1 DEF Grows
  <1>2. CASE LoginCreateSession(q)
    BY <1>0, <1>2 DEF LoginCreateSession, TypeOK, Grows
  <1>3. CASE IssueCreateRefresh(q) \/ RefreshCreateRefresh(q)
    BY <1>0, <1>3, TokenInsertedGrows DEF IssueCreateRefresh, RefreshCreateRefresh
  <1>4. CASE RefreshRotate(q)
    BY <1>0, <1>4, TokensRevokedGrow DEF RefreshRotate, At, LocalOK
  <1>5. CASE TheftRevokeTokens(q)
    BY <1>0, <1>5, TokensRevokedGrow DEF TheftRevokeTokens, LiveTokensOf
  <1>6. CASE TheftRevokeSession(q)
    BY <1>0, <1>6, SessionsRevokedGrow DEF TheftRevokeSession, At, LocalOK, HasSession
  <1>7. CASE RevokeUpdate(q)
    <2>1. CASE Active(req[q].sid) /\ sessions' = Revoked({req[q].sid})
      <3>1. req[q].sid \in Session
        BY <1>0, <1>7 DEF RevokeUpdate, At, LocalOK, HasSession
      <3> QED BY <1>7, <2>1, <3>1, SessionsRevokedGrow DEF RevokeUpdate, Active
    <2>2. CASE sessions' = sessions
      BY <1>1, <1>7, <2>2 DEF RevokeUpdate
    <2> QED BY <1>7, <2>1, <2>2 DEF RevokeUpdate
  <1>8. ASSUME NEW s \in Session, FanoutPurge(q, s) PROVE Grows
    BY <1>0, <1>8, TokensRevokedGrow DEF FanoutPurge, LiveTokensOf
  <1>9. CASE \/ LoginFindFactor(q) \/ IssueSign(q) \/ ChallengeFindUser(q)
             \/ ChallengeFindFactor(q) \/ RecoverFindUser(q) \/ RecoverFindCode(q)
             \/ RefreshFindSession(q) \/ RefreshFindUser(q) \/ RefreshFindFactor(q)
    BY <1>1, <1>9 DEF LoginFindFactor, IssueSign, ChallengeFindUser,
       ChallengeFindFactor, RecoverFindUser, RecoverFindCode, RefreshFindSession,
       RefreshFindUser, RefreshFindFactor, Tables
  <1>10. CASE \/ RecoverMarkUsed(q) \/ RefreshSign(q) \/ TheftList(q)
              \/ \E s \in Session : FanoutList(q, s)
              \/ EnrollDeleteCodes(q) \/ EnrollInsertCodes(q) \/ VerifyMark(q)
    BY <1>1, <1>10 DEF RecoverMarkUsed, RefreshSign, TheftList, FanoutList,
       EnrollDeleteCodes, EnrollInsertCodes, VerifyMark
  <1> QED BY <1>2, <1>3, <1>4, <1>5, <1>6, <1>7, <1>8, <1>9, <1>10 DEF Resume

LEMMA ArriveGrows ==
  ASSUME IInv, NEW q \in Req, Arrive(q)
  PROVE  Grows
  <1>1. ASSUME sessions' = sessions, rtoken' = rtoken PROVE Grows
    BY <1>1 DEF Grows
  <1>2. ASSUME NEW S \in SUBSET Session, \A s \in S : Active(s), NEW op,
               RevokeAll(q, op, S)
        PROVE  Grows
    BY <1>2, SessionsRevokedGrow DEF RevokeAll, Active
  <1>3. CASE \/ \E u \in User : LoginStart(q, u)
             \/ \E s \in Session : ChallengeStart(q, s)
             \/ \E s \in Session, c \in Code : RecoverStart(q, s, c)
             \/ \E t \in Token : RefreshStart(q, t) \/ ReuseStart(q, t)
             \/ \E a \in access, s \in Session : RevokeStart(q, a, s)
             \/ \E a \in access : EnrollStart(q, a) \/ VerifyStart(q, a)
    BY <1>1, <1>3 DEF LoginStart, ChallengeStart, RecoverStart, RefreshStart,
       ReuseStart, RevokeStart, EnrollStart, VerifyStart, Tables
  <1>4. ASSUME NEW a \in access, RevokeAllOthers(q, a) PROVE Grows
    BY <1>2, <1>4 DEF RevokeAllOthers, ActiveSessionsOf
  <1>5. ASSUME NEW a \in access, NEW u \in User, AdminRevokeAll(q, a, u) PROVE Grows
    BY <1>2, <1>5 DEF AdminRevokeAll, ActiveSessionsOf
  <1> QED BY <1>3, <1>4, <1>5 DEF Arrive

LEMMA NextGrows == IInv /\ [Next]_vars => Grows
  <1> SUFFICES ASSUME IInv, [Next]_vars PROVE Grows
    OBVIOUS
  <1>1. ASSUME sessions' = sessions, rtoken' = rtoken PROVE Grows
    BY <1>1 DEF Grows
  <1>2. ASSUME NEW t \in Token, Logout(t) PROVE Grows
    BY <1>2, TokensRevokedGrow DEF Logout, IInv, RowsOK
  <1>3. CASE \/ \E q \in Req : Fail(q)
             \/ \E u \in User : UpdateUserStatus(u)
             \/ Tick \/ UNCHANGED vars
    BY <1>1, <1>3 DEF Fail, UpdateUserStatus, Tick, vars, Tables
  <1> QED BY <1>2, <1>3, ResumeGrows, ArriveGrows DEF Next

\* No step of any handler brings back a revoked session or refresh token, hands
\* a row to another user or session, or removes one.
THEOREM RevocationIsFinal == Spec => [][Grows]_vars
  <1>1. Init => IInv
    BY InitInv
  <1> QED BY <1>1, NextInv, NextGrows, PTL DEF Spec

-----------------------------------------------------------------------------
(* The handler that moves: its locals before and after.                    *)

LEMMA GotoMoves ==
  ASSUME TypeOK, NEW q \in Req, NEW l, Goto(q, l)
  PROVE  /\ req'[q].at = l
         /\ req'[q].user = req[q].user /\ req'[q].sid = req[q].sid
         /\ req'[q].from = req[q].from /\ req'[q].lag = req[q].lag
         /\ req'[q].secret = req[q].secret /\ req'[q].made = req[q].made
         /\ \A p \in Req \ {q} : req'[p] = req[p]
  <1>1. req[q] \in Local /\ req' = [req EXCEPT ![q] = [req[q] EXCEPT !.at = l]]
    BY DEF TypeOK, Goto, Become
  <1> QED BY <1>1 DEF TypeOK, Local

LEMMA BecomeMoves ==
  ASSUME TypeOK, NEW q \in Req, NEW r, Become(q, r)
  PROVE  req'[q] = r /\ \A p \in Req \ {q} : req'[p] = req[p]
  BY DEF TypeOK, Become

LEMMA FinishMoves ==
  ASSUME TypeOK, NEW q \in Req, Finish(q)
  PROVE  req'[q].at = "idle" /\ \A p \in Req \ {q} : req'[p] = req[p]
  BY BecomeMoves DEF Finish, Idle

-----------------------------------------------------------------------------
(* The password alone: FactorInv is inductive where nobody enrols anew.     *)

LEMMA PassedStays ==
  ASSUME IInv, FactorInv, Grows, NEW s \in Session, sessions[s].state # "absent",
         Behind(s)
  PROVE  Behind(s)'
  <1> SUFFICES ASSUME sessions'[s].user \in Enrolled PROVE PassedSecondFactor(s)'
    BY DEF Behind
  <1>1. PassedSecondFactor(s)
    BY DEF Grows, Behind
  <1>2. PICK t \in Token : rtoken[t].sid = s /\ rtoken[t].from \in {"challenge"} \cup Code
    BY <1>1 DEF PassedSecondFactor
  <1>3. rtoken[t].state # "absent"
    BY <1>2, NoneAssumption DEF FactorInv
  <1> QED BY <1>2, <1>3 DEF Grows, PassedSecondFactor

Granting == (Minting \ {"login.createSession"}) \cup {"refresh.sign"}

\* What a handler with locals r needs for its grant to stay honest.
SessionKnown(r) == r.at \in Granting => r.sid \in Session /\ sessions[r.sid].state # "absent"

LEMMA HonestStays ==
  ASSUME IInv, FactorInv, Grows, NEW r, SessionKnown(r), GrantHonest(r)
  PROVE  GrantHonest(r)'
  <1>1. r.at \in Granting => (Behind(r.sid) => Behind(r.sid)')
    BY PassedStays DEF SessionKnown
  <1>2. r.at \in Granting => sessions'[r.sid].user = sessions[r.sid].user
    BY DEF SessionKnown, Grows
  <1> QED BY <1>1, <1>2 DEF GrantHonest, Minting, Granting

LEMMA OthersHonest ==
  ASSUME IInv, FactorInv, Grows, NEW p \in Req, req'[p] = req[p]
  PROVE  GrantHonest(req[p])'
  <1>1. PICK r \in Local : r = req[p]
    BY DEF IInv, TypeOK
  <1>2. SessionKnown(r) /\ GrantHonest(r)
    BY <1>1 DEF IInv, FactorInv, LocalOK, SessionKnown, HasSession, Minting, Granting
  <1>3. GrantHonest(r)'
    BY <1>2, HonestStays
  <1> QED BY <1>1, <1>3 DEF GrantHonest, Behind, PassedSecondFactor

\* A step that hands out and inserts no token.
LEMMA FactorStep ==
  ASSUME IInv, FactorInv, Grows, \A p \in Req : GrantHonest(req[p])',
         \A u \in Enrolled : Verified(u)', access' = access,
         \A t \in Token : rtoken[t].state = "absent" => rtoken'[t] = rtoken[t]
  PROVE  FactorInv'
  <1>1. ASSUME NEW t \in Token
        PROVE  (IF rtoken[t].state = "absent" THEN rtoken[t].sid = None
                ELSE Behind(rtoken[t].sid))'
    <2>1. CASE rtoken[t].state = "absent"
      BY <2>1 DEF FactorInv
    <2>2. CASE rtoken[t].state # "absent"
      <3>1. Behind(rtoken[t].sid)'
        <4>1. rtoken'[t].sid = rtoken[t].sid
          BY <2>2 DEF Grows
        <4>2. PICK s \in Session : s = rtoken[t].sid /\ sessions[s].state # "absent"
          BY <2>2 DEF IInv, RowsOK
        <4>3. Behind(s)'
          BY <2>2, <4>2, PassedStays DEF FactorInv
        <4> QED BY <4>1, <4>2, <4>3 DEF Behind, PassedSecondFactor
      <3> QED BY <2>2, <3>1 DEF Grows
    <2> QED BY <2>1, <2>2
  <1>2. ASSUME NEW a \in access' PROVE Behind(a.sid)'
    BY <1>2, PassedStays DEF FactorInv, IInv, RowsOK, TypeOK
  <1> QED BY <1>1, <1>2 DEF FactorInv

LEMMA FactorMove ==
  ASSUME IInv, FactorInv, Grows, NEW q \in Req, NEW r, Become(q, r), SessionKnown(r),
         GrantHonest(r), \A u \in Enrolled : Verified(u)', access' = access,
         \A t \in Token : rtoken[t].state = "absent" => rtoken'[t] = rtoken[t]
  PROVE  FactorInv'
  <1>1. req'[q] = r /\ \A p \in Req \ {q} : req'[p] = req[p]
    BY BecomeMoves DEF IInv
  <1>2. GrantHonest(r)'
    BY HonestStays
  <1>3. GrantHonest(req[q])'
    BY <1>1, <1>2 DEF GrantHonest, Behind, PassedSecondFactor
  <1>4. \A p \in Req : GrantHonest(req[p])'
    BY <1>1, <1>3, OthersHonest
  <1> QED BY <1>4, FactorStep

\* The statements that move on in the same request.
LEMMA FactorGoto ==
  ASSUME IInv, FactorInv, Grows, NEW q \in Req, NEW l,
         Goto(q, l), access' = access, factor' = factor,
         \A t \in Token : rtoken[t].state = "absent" => rtoken'[t] = rtoken[t],
         \/ l \notin Granting
         \/ <<req[q].at, l>> \in
              {<<"challenge.findUser", "challenge.findFactor">>,
               <<"challenge.findFactor", "issue.sign">>,
               <<"recover.findUser", "recover.findCode">>,
               <<"recover.findCode", "recover.markUsed">>,
               <<"recover.markUsed", "issue.sign">>,
               <<"refresh.findSession", "refresh.rotate">>,
               <<"refresh.rotate", "refresh.findUser">>,
               <<"refresh.findUser", "refresh.findFactor">>}
         \/ req[q].at = "login.findFactor" /\ ~Verified(req[q].user) /\ l = "issue.sign"
  PROVE  FactorInv'
  <1> DEFINE r == [req[q] EXCEPT !.at = l]
  <1>1. req[q] \in Local /\ LocalOK(req[q]) /\ GrantHonest(req[q])
    BY DEF IInv, TypeOK, FactorInv
  <1>2. /\ r.at = l /\ r.user = req[q].user /\ r.sid = req[q].sid
        /\ r.from = req[q].from
    BY <1>1 DEF Local
  <1>3. \A u \in Enrolled : Verified(u) /\ Verified(u)'
    BY DEF FactorInv, Verified
  <1>4. SessionKnown(r) /\ GrantHonest(r)
    <2> HIDE DEF r
    <2>1. CASE l \notin Granting
      BY <1>2, <2>1 DEF SessionKnown, GrantHonest, Granting, Minting
    <2>2. CASE l \in Granting
      BY <1>1, <1>2, <1>3, <2>2 DEF SessionKnown, GrantHonest, Granting, Minting, LocalOK,
                                    HasSession
    <2> QED BY <2>1, <2>2
  <1>5. Become(q, r)
    BY DEF Goto
  <1> QED BY <1>3, <1>4, <1>5, FactorMove

LEMMA FactorFinish ==
  ASSUME IInv, FactorInv, Grows, NEW q \in Req, NEW r, Become(q, r), r.at \notin Granting,
         r.at # "login.createSession",
         access' = access, \A u \in Enrolled : Verified(u)',
         \A t \in Token : rtoken[t].state = "absent" => rtoken'[t] = rtoken[t]
  PROVE  FactorInv'
  <1>1. SessionKnown(r) /\ GrantHonest(r)
    BY DEF SessionKnown, GrantHonest, Granting, Minting
  <1> QED BY <1>1, FactorMove

LEMMA FactorInsert ==
  ASSUME IInv, FactorInv, Grows, NEW q \in Req, NEW t \in Token, InsertToken(q, t),
         At(q, "issue.createRefresh") \/ At(q, "refresh.createRefresh"),
         UNCHANGED <<sessions, factor>>, req'[q].at \in {"idle", "refresh.sign"},
         req'[q].at = "refresh.sign" =>
             At(q, "refresh.createRefresh") /\ req'[q].sid = req[q].sid,
         \A p \in Req \ {q} : req'[p] = req[p],
         \A a \in access' : a \in access \/ a.sid = req[q].sid
  PROVE  FactorInv'
  <1> DEFINE sid == req[q].sid
  <1>1. /\ LocalOK(req[q]) /\ GrantHonest(req[q]) /\ sid \in Session
        /\ sessions[sid].state # "absent"
    BY DEF IInv, FactorInv, LocalOK, HasSession, At
  <1>2. /\ rtoken'[t] = [state |-> "live", sid |-> sid, exp |-> now + RefreshTTL,
                         from |-> req[q].from]
        /\ \A u \in Token \ {t} : rtoken'[u] = rtoken[u]
    BY DEF IInv, TypeOK, InsertToken
  <1>3. PICK s \in Session : s = sid /\ sessions[s].state # "absent"
    BY <1>1
  <1>4. Behind(s)'
    <2>1. CASE Behind(s)
      BY <1>3, <2>1, PassedStays
    <2>2. CASE At(q, "refresh.createRefresh")
      BY <1>1, <1>3, <2>2, PassedStays DEF At, GrantHonest
    <2>3. CASE At(q, "issue.createRefresh") /\ sessions[s].user \in Enrolled
      <3>1. req[q].from \in {"challenge"} \cup Code
        BY <1>1, <1>3, <2>3 DEF At, GrantHonest, Minting
      <3>2. rtoken'[t].sid = s /\ rtoken'[t].from \in {"challenge"} \cup Code
        BY <1>2, <1>3, <3>1
      <3> QED BY <3>2 DEF Behind, PassedSecondFactor
    <2> QED BY <2>1, <2>2, <2>3 DEF Behind
  <1>5. ASSUME NEW u \in Token
        PROVE  (IF rtoken[u].state = "absent" THEN rtoken[u].sid = None
                ELSE Behind(rtoken[u].sid))'
    <2>1. CASE u = t
      <3>1. rtoken'[u].sid = s /\ rtoken'[u].state = "live"
        BY <1>2, <1>3, <2>1
      <3> QED BY <1>4, <3>1 DEF Behind, PassedSecondFactor
    <2>2. CASE u # t /\ rtoken[u].state = "absent"
      BY <1>2, <2>2 DEF FactorInv
    <2>3. CASE u # t /\ rtoken[u].state # "absent"
      <3>1. PICK v \in Session : v = rtoken[u].sid /\ sessions[v].state # "absent"
        BY <2>3 DEF IInv, RowsOK
      <3>2. Behind(v)'
        BY <2>3, <3>1, PassedStays DEF FactorInv
      <3>3. rtoken'[u].sid = v
        BY <1>2, <2>3, <3>1
      <3> QED BY <1>2, <2>3, <3>2, <3>3 DEF Behind, PassedSecondFactor
    <2> QED BY <2>1, <2>2, <2>3
  <1>6. ASSUME NEW a \in access' PROVE Behind(a.sid)'
    <2>1. CASE a.sid = sid
      BY <1>3, <1>4, <2>1 DEF Behind, PassedSecondFactor
    <2>2. CASE a \in access
      BY <2>2, PassedStays DEF FactorInv, IInv, RowsOK, TypeOK
    <2> QED BY <2>1, <2>2
  <1>7. GrantHonest(req[q])'
    <2>1. CASE req'[q].at = "idle"
      BY <2>1 DEF GrantHonest, Minting
    <2>2. CASE req'[q].at = "refresh.sign"
      <3>1. req'[q].sid = s
        BY <1>3, <2>2
      <3> QED BY <1>4, <2>2, <3>1 DEF GrantHonest, Minting, Behind, PassedSecondFactor
    <2> QED BY <2>1, <2>2
  <1>8. \A u \in Enrolled : Verified(u)'
    BY DEF FactorInv, Verified
  <1>9. \A p \in Req : GrantHonest(req[p])'
    BY <1>7, OthersHonest
  <1> QED BY <1>5, <1>6, <1>8, <1>9 DEF FactorInv

LEMMA FactorSameRows ==
  ASSUME FactorInv, factor' = factor
  PROVE  \A u \in Enrolled : Verified(u)'
  BY DEF FactorInv, Verified

\* An UPDATE of refresh tokens touches no absent row.
LEMMA AbsentStay ==
  ASSUME TypeOK, NEW T \in SUBSET Token, rtoken' = RevokedTokens(T),
         \A t \in T : rtoken[t].state # "absent"
  PROVE  \A t \in Token : rtoken[t].state = "absent" => rtoken'[t] = rtoken[t]
  BY DEF RevokedTokens

LEMMA ResumeFactor ==
  ASSUME IInv, FactorInv, Grows, NEW q \in Req, Resume(q)
  PROVE  FactorInv'
  <1>0. /\ TypeOK /\ LocalOK(req[q]) /\ GrantHonest(req[q]) /\ req[q] \in Local
        /\ factor' = factor => \A u \in Enrolled : Verified(u)'
    BY FactorSameRows DEF IInv, FactorInv, TypeOK
  <1>f. ASSUME Finish(q), access' = access, \A u \in Enrolled : Verified(u)',
               \A t \in Token : rtoken[t].state = "absent" => rtoken'[t] = rtoken[t]
        PROVE  FactorInv'
    BY <1>f, FactorFinish DEF Finish, Idle, Granting, Minting
  <1>1. CASE LoginCreateSession(q)
    <2>1. PICK s \in Session :
            /\ sessions[s].state = "absent"
            /\ sessions' = [sessions EXCEPT ![s] = [state |-> "active",
                                user |-> req[q].user, revokedAt |-> 0]]
            /\ Become(q, [req[q] EXCEPT !.at = "login.findFactor", !.sid = s])
      BY <1>1 DEF LoginCreateSession
    <2>2. /\ req'[q] = [req[q] EXCEPT !.at = "login.findFactor", !.sid = s]
          /\ \A p \in Req \ {q} : req'[p] = req[p]
      BY <1>0, <2>1, BecomeMoves
    <2>3. /\ req'[q].at = "login.findFactor" /\ req'[q].sid = s
          /\ req'[q].user = req[q].user
      BY <1>0, <2>2 DEF Local
    <2>4. sessions'[s].user = req[q].user
      BY <1>0, <2>1 DEF TypeOK
    <2>5. GrantHonest(req[q])'
      BY <2>3, <2>4 DEF GrantHonest, Minting
    <2>6. \A p \in Req : GrantHonest(req[p])'
      BY <2>2, <2>5, OthersHonest
    <2> QED BY <1>0, <1>1, <2>6, FactorStep DEF LoginCreateSession
  <1>2. CASE IssueCreateRefresh(q)
    <2>1. req'[q].at = "idle" /\ \A p \in Req \ {q} : req'[p] = req[p]
      BY <1>0, <1>2, FinishMoves DEF IssueCreateRefresh
    <2>2. \A a \in access' : a \in access \/ a.sid = req[q].sid
      BY <1>2 DEF IssueCreateRefresh
    <2> QED BY <1>2, <2>1, <2>2, FactorInsert DEF IssueCreateRefresh
  <1>3. CASE RefreshCreateRefresh(q)
    <2>1. PICK t \in Token :
            /\ InsertToken(q, t)
            /\ Become(q, [req[q] EXCEPT !.at = "refresh.sign", !.made = t])
      BY <1>3 DEF RefreshCreateRefresh
    <2>2. /\ req'[q] = [req[q] EXCEPT !.at = "refresh.sign", !.made = t]
          /\ \A p \in Req \ {q} : req'[p] = req[p]
      BY <1>0, <2>1, BecomeMoves
    <2>3. req'[q].at = "refresh.sign" /\ req'[q].sid = req[q].sid
      BY <1>0, <2>2 DEF Local
    <2> QED BY <1>3, <2>1, <2>2, <2>3, FactorInsert DEF RefreshCreateRefresh
  <1>4. CASE RefreshSign(q)
    <2>1. req'[q].at = "idle" /\ \A p \in Req \ {q} : req'[p] = req[p]
      BY <1>0, <1>4, FinishMoves DEF RefreshSign
    <2>2. \A a \in access' : a \in access \/ a.sid = req[q].sid
      BY <1>4 DEF RefreshSign
    <2>3. Behind(req[q].sid)
      BY <1>0, <1>4 DEF RefreshSign, At, GrantHonest
    <2>4. UNCHANGED <<sessions, rtoken, factor>>
      BY <1>4 DEF RefreshSign
    <2>5. \A s : Behind(s) => Behind(s)'
      BY <2>4 DEF Behind, PassedSecondFactor
    <2>6. GrantHonest(req[q])'
      BY <2>1 DEF GrantHonest, Minting
    <2>7. \A p \in Req : GrantHonest(req[p])'
      BY <2>1, <2>6, OthersHonest
    <2>8. \A a \in access' : Behind(a.sid)'
      BY <2>2, <2>3, <2>5 DEF FactorInv
    <2>9. \A t \in Token : (IF rtoken[t].state = "absent" THEN rtoken[t].sid = None
                            ELSE Behind(rtoken[t].sid))'
      BY <2>4 DEF FactorInv, Behind, PassedSecondFactor
    <2> QED BY <1>0, <2>4, <2>7, <2>8, <2>9 DEF FactorInv
  <1>5. CASE IssueSign(q)
    <2>1. Become(q, [req[q] EXCEPT !.at = "issue.createRefresh", !.iat = now,
                                   !.lag = SignLag(q)])
      BY <1>5 DEF IssueSign
    <2>2. PICK r : r = [req[q] EXCEPT !.at = "issue.createRefresh", !.iat = now,
                                      !.lag = SignLag(q)]
      OBVIOUS
    <2>3. /\ r.at = "issue.createRefresh" /\ r.user = req[q].user
          /\ r.sid = req[q].sid /\ r.from = req[q].from
      BY <1>0, <2>2 DEF Local
    <2>4. SessionKnown(r) /\ GrantHonest(r)
      BY <1>0, <1>5, <2>3 DEF IssueSign, At, SessionKnown, GrantHonest, Minting,
                              LocalOK, HasSession
    <2> QED BY <1>0, <1>5, <2>1, <2>2, <2>4, FactorMove DEF IssueSign, Tables
  <1>6. CASE RefreshFindFactor(q)
    <2>1. Become(q, [req[q] EXCEPT !.at = "refresh.createRefresh",
                                   !.mfa = Verified(req[q].user)])
      BY <1>6 DEF RefreshFindFactor
    <2>2. PICK r : r = [req[q] EXCEPT !.at = "refresh.createRefresh",
                                      !.mfa = Verified(req[q].user)]
      OBVIOUS
    <2>3. /\ r.at = "refresh.createRefresh" /\ r.user = req[q].user
          /\ r.sid = req[q].sid /\ r.from = req[q].from
      BY <1>0, <2>2 DEF Local
    <2>4. SessionKnown(r) /\ GrantHonest(r)
      BY <1>0, <1>6, <2>3 DEF RefreshFindFactor, At, SessionKnown, GrantHonest,
                              Minting, LocalOK, HasSession
    <2> QED BY <1>0, <1>6, <2>1, <2>2, <2>4, FactorMove DEF RefreshFindFactor, Tables
  <1>7. CASE LoginFindFactor(q) \/ ChallengeFindUser(q) \/ ChallengeFindFactor(q)
    BY <1>0, <1>f, <1>7, FactorGoto DEF LoginFindFactor, ChallengeFindUser,
       ChallengeFindFactor, Tables, At
  <1>8. CASE RecoverFindUser(q) \/ RecoverFindCode(q) \/ RecoverMarkUsed(q)
    BY <1>0, <1>f, <1>8, FactorGoto DEF RecoverFindUser, RecoverFindCode,
       RecoverMarkUsed, Tables, At
  <1>9. CASE RefreshFindSession(q) \/ RefreshFindUser(q)
    BY <1>0, <1>f, <1>9, FactorGoto DEF RefreshFindSession, RefreshFindUser, Tables, At
  <1>10. CASE RefreshRotate(q)
    <2>1. /\ req[q].at = "refresh.rotate" /\ req[q].from \in Token
          /\ rtoken[req[q].from].state # "absent"
      BY <1>0, <1>10 DEF RefreshRotate, At, LocalOK
    <2>2. /\ rtoken' = RevokedTokens({req[q].from}) /\ Goto(q, "refresh.findUser")
          /\ access' = access /\ factor' = factor
      BY <1>10 DEF RefreshRotate
    <2>3. PICK T \in SUBSET Token : T = {req[q].from}
      BY <2>1
    <2>4. \A t \in T : rtoken[t].state # "absent"
      BY <2>1, <2>3
    <2>5. \A t \in Token : rtoken[t].state = "absent" => rtoken'[t] = rtoken[t]
      BY <1>0, <2>2, <2>3, <2>4, AbsentStay
    <2> QED BY <1>0, <2>1, <2>2, <2>5, FactorGoto
  <1>11. CASE TheftRevokeTokens(q)
    <2>1. \A t \in Token : rtoken[t].state = "absent" => rtoken'[t] = rtoken[t]
      BY <1>0, <1>11, AbsentStay DEF TheftRevokeTokens, LiveTokensOf
    <2> QED BY <1>0, <1>11, <2>1, FactorGoto DEF TheftRevokeTokens, Granting, Minting
  <1>12. CASE TheftRevokeSession(q) \/ TheftList(q)
    BY <1>0, <1>f, <1>12, FactorGoto DEF TheftRevokeSession, TheftList, Granting, Minting
  <1>13. CASE RevokeUpdate(q)
    <2>1. CASE Finish(q)
      BY <1>0, <1>f, <1>13, <2>1 DEF RevokeUpdate
    <2>2. CASE Become(q, Fanout({req[q].sid}))
      BY <1>0, <1>13, <2>2, FactorFinish DEF RevokeUpdate, Fanout, Idle, Granting, Minting
    <2> QED BY <1>13, <2>1, <2>2 DEF RevokeUpdate
  <1>14. ASSUME NEW s \in Session, FanoutList(q, s) \/ FanoutPurge(q, s)
         PROVE  FactorInv'
    <2>1. \A t \in Token : rtoken[t].state = "absent" => rtoken'[t] = rtoken[t]
      BY <1>0, <1>14, AbsentStay DEF FanoutList, FanoutPurge, LiveTokensOf
    <2>2. PICK L, P : FanoutNext(q, L, P) /\ At(q, "revoke.fanout")
      BY <1>14 DEF FanoutList, FanoutPurge
    <2>3. PICK r : Become(q, r) /\ r.at \in {"idle", "revoke.fanout"}
      <3>1. CASE L \cup P = {}
        BY <2>2, <3>1 DEF FanoutNext, Idle
      <3>2. CASE L \cup P # {}
        <4>1. [req[q] EXCEPT !.listing = L, !.purging = P].at = "revoke.fanout"
          BY <1>0, <2>2 DEF At, Local
        <4> QED BY <2>2, <3>2, <4>1 DEF FanoutNext
      <3> QED BY <3>1, <3>2
    <2> QED BY <1>0, <1>14, <2>1, <2>3, FactorFinish DEF FanoutList, FanoutPurge,
               Granting, Minting
  <1>15. CASE EnrollDeleteCodes(q) \/ EnrollInsertCodes(q)
    BY <1>0, <1>f, <1>15, FactorGoto DEF EnrollDeleteCodes, EnrollInsertCodes, Granting,
                                         Minting
  <1>16. CASE VerifyMark(q)
    <2>1. ASSUME NEW u \in Enrolled PROVE Verified(u)'
      <3>1. factor[u].state = "verified" /\ u \in User
        BY UserAssumption DEF FactorInv, Verified
      <3>2. req[q].user \in User
        BY <1>0, <1>16 DEF VerifyMark, At, LocalOK
      <3>3. factor'[u].state = "verified"
        BY <1>0, <1>16, <3>1, <3>2 DEF VerifyMark, TypeOK
      <3> QED BY <3>3 DEF Verified
    <2> QED BY <1>f, <1>16, <2>1 DEF VerifyMark
  <1> QED BY <1>1, <1>2, <1>3, <1>4, <1>5, <1>6, <1>7, <1>8, <1>9, <1>10, <1>11,
             <1>12, <1>13, <1>14, <1>15, <1>16 DEF Resume

LEMMA ArriveFactor ==
  ASSUME IInv, FactorInv, Grows, "enroll" \notin Ops, NEW q \in Req, Arrive(q)
  PROVE  FactorInv'
  <1>0. TypeOK /\ (factor' = factor => \A u \in Enrolled : Verified(u)')
    BY FactorSameRows DEF IInv
  <1>1. ASSUME NEW u \in User, LoginStart(q, u) PROVE FactorInv'
    <2>1. PICK r : r = [Idle EXCEPT !.at = "login.createSession", !.user = u,
                                    !.from = "login"]
      OBVIOUS
    <2>2. r.at = "login.createSession"
      BY <2>1 DEF Idle
    <2>3. SessionKnown(r) /\ GrantHonest(r)
      BY <2>2 DEF SessionKnown, GrantHonest, Granting, Minting
    <2> QED BY <1>0, <1>1, <2>1, <2>3, FactorMove DEF LoginStart, Begin, Tables
  <1>2. ASSUME NEW s \in Session, Active(s), NEW l, NEW f, UNCHANGED Tables,
               \/ l = "challenge.findUser" /\ f = "challenge"
               \/ l = "recover.findUser" /\ f \in Code,
               Become(q, SecondFactor(q, s, l, f))
        PROVE  FactorInv'
    <2>1. PICK r : r = SecondFactor(q, s, l, f)
      OBVIOUS
    <2>2. /\ r.at = l /\ r.from = f /\ r.sid = s /\ r.user = sessions[s].user
      BY <2>1 DEF SecondFactor, Idle
    <2>3. SessionKnown(r) /\ GrantHonest(r)
      BY <1>2, <2>2 DEF SessionKnown, GrantHonest, Granting, Minting, Active
    <2> QED BY <1>0, <1>2, <2>1, <2>3, FactorMove DEF Tables
  <1>3. ASSUME NEW t \in Token, t \in held, NEW l \in {"refresh.findSession",
                  "theft.revokeTokens"}, UNCHANGED Tables, Become(q, Presented(t, l))
        PROVE  FactorInv'
    <2>1. PICK r : r = Presented(t, l)
      OBVIOUS
    <2>2. r.at = l /\ r.sid = rtoken[t].sid /\ r.user = sessions[rtoken[t].sid].user
      BY <2>1 DEF Presented, Idle
    <2>3. /\ rtoken[t].state # "absent" /\ rtoken[t].sid \in Session
          /\ sessions[rtoken[t].sid].state # "absent" /\ Behind(rtoken[t].sid)
      BY <1>3 DEF IInv, RowsOK, FactorInv
    <2>4. SessionKnown(r) /\ GrantHonest(r)
      BY <2>2, <2>3 DEF SessionKnown, GrantHonest, Granting, Minting
    <2> QED BY <1>0, <1>3, <2>1, <2>4, FactorMove DEF Tables
  <1>4. CASE \E s \in Session : ChallengeStart(q, s)
    BY <1>2, <1>4 DEF ChallengeStart, Begin
  <1>5. CASE \E s \in Session, c \in Code : RecoverStart(q, s, c)
    BY <1>2, <1>5 DEF RecoverStart, Begin
  <1>6. CASE \E t \in Token : RefreshStart(q, t) \/ ReuseStart(q, t)
    BY <1>3, <1>6 DEF RefreshStart, ReuseStart, Begin
  <1>7. ASSUME NEW r, Become(q, r), r.at \in {"revoke.update", "revoke.fanout",
                 "verify.mark"}, UNCHANGED <<access, factor, rtoken>>
        PROVE  FactorInv'
    BY <1>0, <1>7, FactorFinish DEF Granting, Minting
  <1>8. ASSUME NEW a \in access, NEW s \in Session, RevokeStart(q, a, s) PROVE FactorInv'
    BY <1>7, <1>8 DEF RevokeStart, Begin, Tables, Idle
  <1>9. ASSUME NEW S, NEW op, RevokeAll(q, op, S) PROVE FactorInv'
    BY <1>7, <1>9 DEF RevokeAll, Begin, Fanout, Idle
  <1>10. ASSUME NEW a \in access, VerifyStart(q, a) PROVE FactorInv'
    BY <1>7, <1>10 DEF VerifyStart, Begin, Tables, Idle
  <1>11. ASSUME NEW a \in access, EnrollStart(q, a) PROVE FALSE
    BY <1>11 DEF EnrollStart, Begin
  <1> QED BY <1>1, <1>4, <1>5, <1>6, <1>8, <1>9, <1>10, <1>11
          DEF Arrive, RevokeAllOthers, AdminRevokeAll

LEMMA NextFactor ==
  ASSUME "enroll" \notin Ops, IInv, FactorInv, [Next]_vars
  PROVE  FactorInv'
  <1>0. Grows
    BY NextGrows
  <1>1. ASSUME UNCHANGED vars PROVE FactorInv'
    BY <1>1 DEF vars, Tables, FactorInv, Verified, Behind, PassedSecondFactor,
                GrantHonest
  <1>2. ASSUME req' = req, access' = access, factor' = factor,
               \A t \in Token : rtoken[t].state = "absent" => rtoken'[t] = rtoken[t]
        PROVE  FactorInv'
    <2>1. \A p \in Req : GrantHonest(req[p])'
      BY <1>0, <1>2, OthersHonest
    <2> QED BY <1>0, <1>2, <2>1, FactorStep, FactorSameRows
  <1>3. ASSUME NEW t \in Token, Logout(t) PROVE FactorInv'
    <2>1. \A u \in Token : rtoken[u].state = "absent" => rtoken'[u] = rtoken[u]
      <3>1. rtoken[t].state # "absent"
        BY <1>3 DEF Logout, IInv, RowsOK
      <3>2. \A u \in Token \ {t} : rtoken'[u] = rtoken[u]
        BY <1>3 DEF Logout, RevokedTokens
      <3> QED BY <3>1, <3>2
    <2> QED BY <1>2, <1>3, <2>1 DEF Logout
  <1>4. ASSUME NEW u \in User, UpdateUserStatus(u) PROVE FactorInv'
    BY <1>2, <1>4 DEF UpdateUserStatus
  <1>5. ASSUME Tick PROVE FactorInv'
    BY <1>2, <1>5 DEF Tick
  <1>6. ASSUME NEW q \in Req, Fail(q) PROVE FactorInv'
    BY <1>0, <1>6, FactorFinish, FactorSameRows DEF Fail, Finish, Tables, Idle, Granting,
                                                  Minting
  <1> QED BY <1>0, <1>1, <1>3, <1>4, <1>5, <1>6, ResumeFactor, ArriveFactor DEF Next

LEMMA InitFactor == Init => FactorInv
  <1> SUFFICES ASSUME Init PROVE FactorInv
    OBVIOUS
  <1>1. \A u \in Enrolled : Verified(u)
    BY UserAssumption DEF Init, Verified
  <1>2. \A q \in Req : GrantHonest(req[q])
    BY DEF Init, Idle, GrantHonest, Minting
  <1> QED BY <1>1, <1>2 DEF Init, FactorInv, NoToken

\* Where users do not enrol anew, the password alone, through login and any
\* number of refreshes by any number of handlers, never gives an enrolled user
\* a token.
THEOREM PasswordAloneBuysNothing ==
  ASSUME "enroll" \notin Ops
  PROVE  Spec => []SecondFactorBehindTokens
  <1>1. IInv /\ FactorInv /\ [Next]_vars => FactorInv'
    BY NextFactor
  <1>2. FactorInv => SecondFactorBehindTokens
    BY DEF FactorInv, Behind, SecondFactorBehindTokens, UserOf
  <1> QED BY <1>1, <1>2, InitInv, NextInv, InitFactor, PTL DEF Spec

-----------------------------------------------------------------------------
(***************************************************************************)
(* The promises of AuthSessions that hold when requests do not overlap:    *)
(* under Serial a request arrives only when no other is in progress.  When *)
(* two handlers interleave each of them fails (the run AuthRefreshRace     *)
(* shows one), and so does RevokedSessionHasNoLiveToken when a process     *)
(* dies in mid-handler: that theorem assumes no crashes too.  ActiveInv,   *)
(* PurgeInv, EnrolInv and SpentInv say what the one handler in progress    *)
(* still has to do.                                                        *)
(***************************************************************************)

-----------------------------------------------------------------------------
(* One request at a time.  What a step does, for the promises that hold     *)
(* then: how a handler begins, and the statements that change no row.       *)

Arrives(q) ==
    /\ At(q, "idle")
    /\ UNCHANGED <<now, rtoken, held, access, listedUntil, codes>>
    /\ LET r == req'[q]
       IN \/ /\ UNCHANGED <<sessions, factor>>
             /\ \/ r.at = "login.createSession" /\ r.from = "login"
                \/ r.at = "challenge.findUser" /\ r.from = "challenge" /\ Active(r.sid)
                \/ r.at = "recover.findUser" /\ r.from \in Code /\ Active(r.sid)
                \/ /\ r.at = "refresh.findSession"
                   /\ r.from \in Token /\ rtoken[r.from].state = "live"
                \/ r.at \in {"theft.revokeTokens", "revoke.update"}
                \/ /\ r.at = "verify.mark" /\ r.user \in User
                   /\ r.secret = factor[r.user].secret
          \/ /\ UNCHANGED factor
             /\ r.at = "revoke.fanout"
             /\ \A s \in r.purging : Active(s)
             /\ sessions' = Revoked(r.purging)
          \/ /\ UNCHANGED sessions
             /\ r.at = "enroll.deleteCodes" /\ r.user \in User
             /\ factor' = [factor EXCEPT ![r.user] = [state |-> "pending",
                              secret |-> factor[r.user].secret + 1,
                              proved |-> factor[r.user].proved]]

Looks(q) ==
    /\ UNCHANGED Tables
    /\ LET r == req[q]
           rN == req'[q]
       IN /\ r.at \in Minting
          /\ \/ rN.at = "idle"
             \/ /\ rN.user = r.user /\ rN.sid = r.sid /\ rN.from = r.from
                /\ \/ <<r.at, rN.at>> \in
                        {<<"login.findFactor", "issue.sign">>,
                         <<"challenge.findUser", "challenge.findFactor">>,
                         <<"challenge.findFactor", "issue.sign">>,
                         <<"recover.findUser", "recover.findCode">>,
                         <<"refresh.findUser", "refresh.findFactor">>,
                         <<"refresh.findFactor", "refresh.createRefresh">>}
                   \/ /\ r.at = "recover.findCode" /\ rN.at = "recover.markUsed"
                      /\ codes[r.from].state = "unused"
                   \/ /\ r.at = "refresh.findSession" /\ rN.at = "refresh.rotate"
                      /\ Active(r.sid)
                   \/ /\ r.at = "issue.sign" /\ rN.at = "issue.createRefresh"
                      /\ rN.lag = SignLag(q)

LEMMA FanoutFields ==
  ASSUME NEW S
  PROVE  /\ Fanout(S).at = "revoke.fanout" /\ Fanout(S).listing = S
         /\ Fanout(S).purging = S
  BY DEF Fanout, Idle

LEMMA ArriveShape ==
  ASSUME IInv, NEW q \in Req, Arrive(q)
  PROVE  Arrives(q)
  <1>0. TypeOK
    BY DEF IInv
  <1>b. ASSUME NEW r, Become(q, r) PROVE req'[q] = r
    BY <1>0, <1>b, BecomeMoves
  <1>1. ASSUME NEW u \in User, LoginStart(q, u) PROVE Arrives(q)
    BY <1>b, <1>1 DEF LoginStart, Begin, Tables, Arrives, Idle
  <1>2. ASSUME NEW s \in Session, ChallengeStart(q, s) PROVE Arrives(q)
    <2>1. req'[q] = SecondFactor(q, s, "challenge.findUser", "challenge")
      BY <1>b, <1>2 DEF ChallengeStart, Begin
    <2>2. /\ req'[q].at = "challenge.findUser" /\ req'[q].sid = s
          /\ req'[q].from = "challenge"
      BY <2>1 DEF SecondFactor, Idle
    <2> QED BY <1>2, <2>2 DEF ChallengeStart, Begin, Tables, Arrives
  <1>3. ASSUME NEW s \in Session, NEW c \in Code, RecoverStart(q, s, c) PROVE Arrives(q)
    <2>1. req'[q] = SecondFactor(q, s, "recover.findUser", c)
      BY <1>b, <1>3 DEF RecoverStart, Begin
    <2>2. req'[q].at = "recover.findUser" /\ req'[q].sid = s /\ req'[q].from = c
      BY <2>1 DEF SecondFactor, Idle
    <2> QED BY <1>3, <2>2 DEF RecoverStart, Begin, Tables, Arrives
  <1>4. ASSUME NEW t \in Token, RefreshStart(q, t) PROVE Arrives(q)
    <2>1. req'[q] = Presented(t, "refresh.findSession")
      BY <1>b, <1>4 DEF RefreshStart, Begin
    <2>2. req'[q].at = "refresh.findSession" /\ req'[q].from = t
      BY <2>1 DEF Presented, Idle
    <2> QED BY <1>4, <2>2 DEF RefreshStart, Begin, Tables, Arrives
  <1>5. ASSUME NEW t \in Token, ReuseStart(q, t) PROVE Arrives(q)
    <2>1. req'[q] = Presented(t, "theft.revokeTokens")
      BY <1>b, <1>5 DEF ReuseStart, Begin
    <2>2. req'[q].at = "theft.revokeTokens" /\ req'[q].from = t
      BY <2>1 DEF Presented, Idle
    <2> QED BY <1>5, <2>2 DEF ReuseStart, Begin, Tables, Arrives
  <1>6. ASSUME NEW a \in access, NEW s \in Session, RevokeStart(q, a, s) PROVE Arrives(q)
    BY <1>b, <1>6 DEF RevokeStart, Begin, Tables, Arrives, Idle
  <1>7. ASSUME NEW S, NEW op, RevokeAll(q, op, S), \A s \in S : Active(s)
        PROVE  Arrives(q)
    BY <1>b, <1>7, FanoutFields DEF RevokeAll, Begin, Arrives
  <1>8. ASSUME NEW a \in access, RevokeAllOthers(q, a) PROVE Arrives(q)
    BY <1>7, <1>8 DEF RevokeAllOthers, ActiveSessionsOf
  <1>9. ASSUME NEW a \in access, NEW u \in User, AdminRevokeAll(q, a, u) PROVE Arrives(q)
    BY <1>7, <1>9 DEF AdminRevokeAll, ActiveSessionsOf
  <1>10. ASSUME NEW a \in access PROVE UserOf(a) \in User
    BY DEF IInv, TypeOK, RowsOK, UserOf
  <1>11. ASSUME NEW a \in access, EnrollStart(q, a) PROVE Arrives(q)
    <2>1. req'[q] = [Idle EXCEPT !.at = "enroll.deleteCodes", !.user = UserOf(a)]
      BY <1>b, <1>11 DEF EnrollStart, Begin
    <2>2. req'[q].at = "enroll.deleteCodes" /\ req'[q].user = UserOf(a)
      BY <2>1 DEF Idle
    <2> QED BY <1>10, <1>11, <2>2 DEF EnrollStart, Begin, Arrives
  <1>12. ASSUME NEW a \in access, VerifyStart(q, a) PROVE Arrives(q)
    <2>1. req'[q] = [Idle EXCEPT !.at = "verify.mark", !.user = UserOf(a),
                                 !.secret = factor[UserOf(a)].secret]
      BY <1>b, <1>12 DEF VerifyStart, Begin
    <2>2. /\ req'[q].at = "verify.mark" /\ req'[q].user = UserOf(a)
          /\ req'[q].secret = factor[UserOf(a)].secret
      BY <2>1 DEF Idle
    <2> QED BY <1>10, <1>12, <2>2 DEF VerifyStart, Begin, Tables, Arrives
  <1> QED BY <1>1, <1>2, <1>3, <1>4, <1>5, <1>6, <1>8, <1>9, <1>11, <1>12 DEF Arrive

LEMMA LookShape ==
  ASSUME IInv, NEW q \in Req,
         \/ LoginFindFactor(q) \/ IssueSign(q) \/ ChallengeFindUser(q)
         \/ ChallengeFindFactor(q) \/ RecoverFindUser(q) \/ RecoverFindCode(q)
         \/ RefreshFindSession(q) \/ RefreshFindUser(q) \/ RefreshFindFactor(q)
  PROVE  Looks(q)
  <1>0. TypeOK /\ req[q] \in Local
    BY DEF IInv, TypeOK
  <1>f. ASSUME Finish(q), UNCHANGED Tables, req[q].at \in Minting PROVE Looks(q)
    BY <1>0, <1>f, FinishMoves DEF Looks
  <1>1. CASE LoginFindFactor(q) \/ ChallengeFindUser(q) \/ ChallengeFindFactor(q)
             \/ RecoverFindUser(q) \/ RefreshFindUser(q) \/ RefreshFindSession(q)
    BY <1>0, <1>f, <1>1, GotoMoves DEF LoginFindFactor, ChallengeFindUser,
       ChallengeFindFactor, RecoverFindUser, RefreshFindUser, RefreshFindSession,
       Looks, At, Minting
  <1>2. CASE RecoverFindCode(q)
    BY <1>0, <1>f, <1>2, GotoMoves DEF RecoverFindCode, Looks, At, Minting
  <1>3. CASE IssueSign(q)
    <2>1. req'[q] = [req[q] EXCEPT !.at = "issue.createRefresh", !.iat = now,
                                   !.lag = SignLag(q)]
      BY <1>0, <1>3, BecomeMoves DEF IssueSign
    <2>2. /\ req'[q].at = "issue.createRefresh" /\ req'[q].lag = SignLag(q)
          /\ req'[q].user = req[q].user /\ req'[q].sid = req[q].sid
          /\ req'[q].from = req[q].from
      BY <1>0, <2>1 DEF Local
    <2> QED BY <1>3, <2>2 DEF IssueSign, Looks, At, Minting
  <1>4. CASE RefreshFindFactor(q)
    <2>1. req'[q] = [req[q] EXCEPT !.at = "refresh.createRefresh",
                                   !.mfa = Verified(req[q].user)]
      BY <1>0, <1>4, BecomeMoves DEF RefreshFindFactor
    <2>2. /\ req'[q].at = "refresh.createRefresh"
          /\ req'[q].user = req[q].user /\ req'[q].sid = req[q].sid
          /\ req'[q].from = req[q].from
      BY <1>0, <2>1 DEF Local
    <2> QED BY <1>4, <2>2 DEF RefreshFindFactor, Looks, At, Minting
  <1> QED BY <1>1, <1>2, <1>3, <1>4

LEMMA ListedRefused == IInv => RevokedTokensRefused
  <1> SUFFICES ASSUME IInv, NEW a \in access, a.lag = "fresh", listedUntil[a.sid] # 0
               PROVE  ~Accepts(a)
    BY DEF RevokedTokensRefused
  <1>1. a.sid \in Session /\ a.iat \in Nat /\ now \in Nat /\ listedUntil[a.sid] \in Nat
    BY DEF IInv, TypeOK
  <1>2. a.iat + AccessTTL <= listedUntil[a.sid]
    BY DEF IInv, RowsSafe, Covered
  <1> QED BY <1>1, <1>2, TTLAssumption DEF Accepts, Listed

-----------------------------------------------------------------------------
(* A session that a request minted tokens for stays active until the end.   *)

LEMMA ActiveStep ==
  ASSUME Serial, NEW q \in Req, ActiveInv, access' = access,
         req'[q].at \in Holding => Active(req[q].sid)',
         req'[q].at = "issue.createRefresh" => req'[q].lag = "fresh"
  PROVE  ActiveInv'
  BY DEF Serial, ActiveInv, At

LEMMA LookActive ==
  ASSUME IInv, Serial, NEW q \in Req, ActiveInv, Looks(q)
  PROVE  ActiveInv'
  <1>1. /\ req[q].at \in Holding => Active(req[q].sid)
        /\ ~req[q].dead \/ req[q].at \notin Holding
    BY DEF ActiveInv, IInv, LocalSafe, Holding, Minting
  <1>2. \A s : Active(s)' = Active(s)
    BY DEF Looks, Tables, Active
  <1>3. req'[q].at \in Holding => Active(req'[q].sid)
    BY <1>1 DEF Looks, Holding, Minting
  <1>4. req'[q].at = "issue.createRefresh" => req'[q].lag = "fresh"
    BY <1>1 DEF Looks, Holding, Minting, SignLag
  <1>5. req'[q].at \in Holding => Active(req[q].sid)'
    BY <1>3 DEF Looks, Tables, Active
  <1> QED BY <1>4, <1>5, ActiveStep DEF Looks, Tables

\* The statements after which a handler mints nothing more.
LEMMA TailShape ==
  ASSUME IInv, NEW q \in Req,
         \/ TheftRevokeTokens(q) \/ TheftRevokeSession(q) \/ TheftList(q)
         \/ RevokeUpdate(q) \/ EnrollDeleteCodes(q) \/ EnrollInsertCodes(q)
         \/ VerifyMark(q) \/ \E s \in Session : FanoutList(q, s) \/ FanoutPurge(q, s)
  PROVE  /\ req'[q].at \in {"idle", "theft.revokeSession", "theft.list",
                            "revoke.fanout", "enroll.insertCodes"}
         /\ req'[q].at = "enroll.insertCodes" => EnrollDeleteCodes(q)
         /\ access' = access /\ held' = held
  <1>0. TypeOK /\ req[q] \in Local
    BY DEF IInv, TypeOK
  <1>1. CASE TheftRevokeTokens(q) \/ TheftRevokeSession(q) \/ EnrollDeleteCodes(q)
    BY <1>0, <1>1, GotoMoves DEF TheftRevokeTokens, TheftRevokeSession, EnrollDeleteCodes
  <1>2. CASE TheftList(q) \/ EnrollInsertCodes(q) \/ VerifyMark(q)
    BY <1>0, <1>2, FinishMoves DEF TheftList, EnrollInsertCodes, VerifyMark
  <1>3. CASE RevokeUpdate(q)
    <2>1. CASE Finish(q)
      BY <1>0, <1>3, <2>1, FinishMoves DEF RevokeUpdate
    <2>2. CASE Become(q, Fanout({req[q].sid}))
      <3>1. req'[q].at = "revoke.fanout"
        BY <1>0, <2>2, BecomeMoves, FanoutFields
      <3> QED BY <1>3, <3>1 DEF RevokeUpdate
    <2> QED BY <1>3, <2>1, <2>2 DEF RevokeUpdate
  <1>4. ASSUME NEW s \in Session, FanoutList(q, s) \/ FanoutPurge(q, s)
        PROVE  /\ req'[q].at \in {"idle", "revoke.fanout"}
               /\ access' = access /\ held' = held
    <2>1. PICK L, P : FanoutNext(q, L, P) /\ At(q, "revoke.fanout")
      BY <1>4 DEF FanoutList, FanoutPurge
    <2>2. req'[q] = IF L \cup P = {} THEN Idle
                    ELSE [req[q] EXCEPT !.listing = L, !.purging = P]
      BY <1>0, <2>1, BecomeMoves DEF FanoutNext
    <2>3. req'[q].at \in {"idle", "revoke.fanout"}
      BY <1>0, <2>1, <2>2 DEF Idle, Local, At
    <2> QED BY <1>4, <2>3 DEF FanoutList, FanoutPurge
  <1> QED BY <1>1, <1>2, <1>3, <1>4

LEMMA ResumeActive ==
  ASSUME IInv, Serial, NEW q \in Req, ActiveInv, Resume(q)
  PROVE  ActiveInv'
  <1>0. /\ TypeOK /\ req[q] \in Local
        /\ req[q].at \in Holding => Active(req[q].sid) /\ ~req[q].dead
        /\ At(q, "issue.createRefresh") => req[q].lag = "fresh"
    BY DEF IInv, TypeOK, ActiveInv, LocalSafe, Holding, Minting
  <1>1. CASE \/ LoginFindFactor(q) \/ IssueSign(q) \/ ChallengeFindUser(q)
             \/ ChallengeFindFactor(q) \/ RecoverFindUser(q) \/ RecoverFindCode(q)
             \/ RefreshFindSession(q) \/ RefreshFindUser(q) \/ RefreshFindFactor(q)
    BY <1>1, LookShape, LookActive
  <1>2. CASE LoginCreateSession(q)
    <2>1. PICK s \in Session :
            /\ sessions' = [sessions EXCEPT ![s] = [state |-> "active",
                                user |-> req[q].user, revokedAt |-> 0]]
            /\ Become(q, [req[q] EXCEPT !.at = "login.findFactor", !.sid = s])
      BY <1>2 DEF LoginCreateSession
    <2>2. req'[q].at = "login.findFactor" /\ req'[q].sid = s
      <3>1. req'[q] = [req[q] EXCEPT !.at = "login.findFactor", !.sid = s]
        BY <1>0, <2>1, BecomeMoves
      <3> QED BY <1>0, <3>1 DEF Local
    <2>3. Active(req[q].sid)'
      BY <1>0, <2>1, <2>2 DEF TypeOK, Active
    <2> QED BY <1>2, <2>2, <2>3, ActiveStep DEF LoginCreateSession
  <1>3. CASE IssueCreateRefresh(q) \/ RefreshSign(q)
    <2>1. req'[q].at = "idle"
      BY <1>0, <1>3, FinishMoves DEF IssueCreateRefresh, RefreshSign
    <2>2. \A a \in access' : a.lag = "fresh"
      BY <1>0, <1>3 DEF IssueCreateRefresh, RefreshSign, ActiveInv, At, SignLag, Holding
    <2> QED BY <2>1, <2>2 DEF ActiveInv, Serial, At, Holding, Minting
  <1>4. CASE RecoverMarkUsed(q) \/ RefreshRotate(q)
    <2>1. /\ req'[q].at \in {"issue.sign", "refresh.findUser"}
          /\ req'[q].sid = req[q].sid
      BY <1>0, <1>4, GotoMoves DEF RecoverMarkUsed, RefreshRotate
    <2>2. Active(req[q].sid)' /\ access' = access
      BY <1>0, <1>4, <2>1 DEF RecoverMarkUsed, RefreshRotate, At, Holding, Minting, Active
    <2> QED BY <2>1, <2>2, ActiveStep
  <1>5. CASE RefreshCreateRefresh(q)
    <2>1. PICK t : req'[q] = [req[q] EXCEPT !.at = "refresh.sign", !.made = t]
      BY <1>0, <1>5, BecomeMoves DEF RefreshCreateRefresh
    <2>2. req'[q].at = "refresh.sign" /\ req'[q].sid = req[q].sid
      BY <1>0, <2>1 DEF Local
    <2>3. Active(req[q].sid)' /\ access' = access
      BY <1>0, <1>5, <2>2 DEF RefreshCreateRefresh, At, Holding, Minting, Active
    <2> QED BY <2>2, <2>3, ActiveStep
  <1>6. CASE \/ TheftRevokeTokens(q) \/ TheftRevokeSession(q) \/ TheftList(q)
             \/ RevokeUpdate(q) \/ EnrollDeleteCodes(q) \/ EnrollInsertCodes(q)
             \/ VerifyMark(q) \/ \E s \in Session : FanoutList(q, s) \/ FanoutPurge(q, s)
    BY <1>6, TailShape, ActiveStep DEF Holding, Minting
  <1> QED BY <1>1, <1>2, <1>3, <1>4, <1>5, <1>6 DEF Resume

LEMMA NextActive ==
  ASSUME Serial, IInv, ActiveInv, [Next]_vars
  PROVE  ActiveInv'
  <1>0. TypeOK
    BY DEF IInv
  <1>1. ASSUME UNCHANGED <<sessions, access, req>> PROVE ActiveInv'
    BY <1>1 DEF ActiveInv, Active, At
  <1>2. ASSUME NEW q \in Req, Arrive(q) PROVE ActiveInv'
    <2>1. Arrives(q)
      BY <1>2, ArriveShape
    <2>2. req'[q].at \in Holding => Active(req[q].sid)'
      BY <2>1 DEF Arrives, Holding, Minting, Active
    <2>3. req'[q].at # "issue.createRefresh" /\ access' = access
      BY <2>1 DEF Arrives
    <2> QED BY <2>2, <2>3, ActiveStep
  <1>3. ASSUME NEW q \in Req, Fail(q) PROVE ActiveInv'
    BY <1>0, <1>3, FinishMoves, ActiveStep DEF Fail, Tables, Holding, Minting
  <1>4. CASE \/ \E t \in Token : Logout(t)
             \/ \E u \in User : UpdateUserStatus(u)
             \/ Tick \/ UNCHANGED vars
    BY <1>1, <1>4 DEF Logout, UpdateUserStatus, Tick, vars, Tables
  <1> QED BY <1>2, <1>3, <1>4, ResumeActive DEF Next

LEMMA InitActive == Init => ActiveInv
  BY DEF Init, ActiveInv, Idle, At, Holding, Minting

\* One request at a time, a token is refused from the moment the revocation of
\* its session reaches Redis, without exception.
THEOREM SerialRevocationIsImmediate ==
  ASSUME Serial
  PROVE  Spec => []RevocationIsImmediate
  <1>1. IInv /\ ActiveInv /\ [Next]_vars => ActiveInv'
    BY NextActive
  <1>2. IInv /\ ActiveInv => RevocationIsImmediate
    BY ListedRefused DEF ActiveInv, RevokedTokensRefused, RevocationIsImmediate
  <1> QED BY <1>1, <1>2, InitInv, NextInv, InitActive, PTL DEF Spec

-----------------------------------------------------------------------------
(* A revoked session keeps no live refresh token, except while the handler  *)
(* that revoked it still has them to revoke.                                *)

LEMMA PurgeStep ==
  ASSUME Serial, NEW q \in Req, PurgeInv, IInv',
         \A s \in Session : sessions'[s].state = "revoked" =>
                                sessions[s].state = "revoked",
         \A t \in Token : rtoken'[t].state = "live" =>
             \/ rtoken[t].state = "live" /\ rtoken'[t].sid = rtoken[t].sid
             \/ sessions'[rtoken'[t].sid].state # "revoked",
         req[q].at # "revoke.fanout", req'[q].at # "theft.revokeSession"
  PROVE  PurgeInv'
  BY DEF Serial, PurgeInv, At, LiveTokensOf

LEMMA ResumePurge ==
  ASSUME IInv, IInv', Serial, NEW q \in Req, ActiveInv, PurgeInv, Resume(q)
  PROVE  PurgeInv'
  <1>0. /\ TypeOK /\ req[q] \in Local /\ LocalOK(req[q])
        /\ req[q].at \in Holding => Active(req[q].sid)
    BY DEF IInv, TypeOK, ActiveInv
  <1>1. CASE \/ LoginFindFactor(q) \/ IssueSign(q) \/ ChallengeFindUser(q)
             \/ ChallengeFindFactor(q) \/ RecoverFindUser(q) \/ RecoverFindCode(q)
             \/ RefreshFindSession(q) \/ RefreshFindUser(q) \/ RefreshFindFactor(q)
    <2>1. Looks(q)
      BY <1>1, LookShape
    <2>2. UNCHANGED <<sessions, rtoken>> /\ req[q].at \in Minting
          /\ req'[q].at # "theft.revokeSession"
      BY <2>1 DEF Looks, Tables
    <2> QED BY <2>2, PurgeStep DEF Minting
  <1>2. CASE LoginCreateSession(q)
    <2>1. PICK s \in Session :
            /\ sessions' = [sessions EXCEPT ![s] = [state |-> "active",
                                user |-> req[q].user, revokedAt |-> 0]]
            /\ Become(q, [req[q] EXCEPT !.at = "login.findFactor", !.sid = s])
      BY <1>2 DEF LoginCreateSession
    <2>2. req'[q].at = "login.findFactor"
      <3>1. req'[q] = [req[q] EXCEPT !.at = "login.findFactor", !.sid = s]
        BY <1>0, <2>1, BecomeMoves
      <3> QED BY <1>0, <3>1 DEF Local
    <2>3. \A v \in Session : sessions'[v].state = "revoked" => sessions[v].state = "revoked"
      BY <1>0, <2>1 DEF TypeOK
    <2>4. rtoken' = rtoken /\ req[q].at = "login.createSession"
      BY <1>2 DEF LoginCreateSession, At
    <2> QED BY <2>2, <2>3, <2>4, PurgeStep
  <1>3. ASSUME NEW t \in Token, InsertToken(q, t), sessions' = sessions,
               req[q].at \in {"issue.createRefresh", "refresh.createRefresh"},
               req'[q].at # "theft.revokeSession"
        PROVE  PurgeInv'
    <2>1. /\ \A u \in Token \ {t} : rtoken'[u] = rtoken[u]
          /\ rtoken'[t].sid = req[q].sid
      BY <1>0, <1>3 DEF InsertToken, TypeOK
    <2>2. sessions'[req[q].sid].state # "revoked"
      BY <1>0, <1>3 DEF Holding, Minting, Active
    <2> QED BY <1>3, <2>1, <2>2, PurgeStep
  <1>4. CASE IssueCreateRefresh(q)
    <2>1. req'[q].at = "idle"
      BY <1>0, <1>4, FinishMoves DEF IssueCreateRefresh
    <2> QED BY <1>3, <1>4, <2>1 DEF IssueCreateRefresh, At
  <1>5. CASE RefreshCreateRefresh(q)
    <2>1. PICK t \in Token : /\ InsertToken(q, t)
                             /\ req'[q] = [req[q] EXCEPT !.at = "refresh.sign", !.made = t]
      BY <1>0, <1>5, BecomeMoves DEF RefreshCreateRefresh
    <2>2. req'[q].at = "refresh.sign"
      BY <1>0, <2>1 DEF Local
    <2> QED BY <1>3, <1>5, <2>1, <2>2 DEF RefreshCreateRefresh, At
  <1>6. CASE \/ RecoverMarkUsed(q) \/ RefreshSign(q) \/ TheftList(q)
             \/ EnrollDeleteCodes(q) \/ EnrollInsertCodes(q) \/ VerifyMark(q)
    <2>1. req'[q].at \in {"issue.sign", "idle", "enroll.insertCodes"}
      BY <1>0, <1>6, GotoMoves, FinishMoves DEF RecoverMarkUsed, RefreshSign, TheftList,
         EnrollDeleteCodes, EnrollInsertCodes, VerifyMark
    <2>2. UNCHANGED <<sessions, rtoken>> /\ req[q].at # "revoke.fanout"
      BY <1>6 DEF RecoverMarkUsed, RefreshSign, TheftList,
         EnrollDeleteCodes, EnrollInsertCodes, VerifyMark, At
    <2> QED BY <2>1, <2>2, PurgeStep
  <1>7. CASE RefreshRotate(q)
    <2>1. req'[q].at = "refresh.findUser"
      BY <1>0, <1>7, GotoMoves DEF RefreshRotate
    <2>2. \A t \in Token : rtoken'[t].state = "live" => rtoken'[t] = rtoken[t]
      BY <1>0, <1>7, TokensUpdated DEF RefreshRotate, At, LocalOK
    <2> QED BY <1>7, <2>1, <2>2, PurgeStep DEF RefreshRotate, At
  <1>8. CASE TheftRevokeTokens(q)
    <2>1. req'[q].at = "theft.revokeSession" /\ req'[q].sid = req[q].sid
      BY <1>0, <1>8, GotoMoves DEF TheftRevokeTokens
    <2>2. \A t \in Token : rtoken'[t].state = "live" =>
              rtoken'[t] = rtoken[t] /\ t \notin LiveTokensOf(req[q].sid)
      BY <1>0, <1>8, TokensUpdated DEF TheftRevokeTokens, LiveTokensOf
    <2>3. sessions' = sessions /\ req[q].at = "theft.revokeTokens"
      BY <1>8 DEF TheftRevokeTokens, At
    <2> QED BY <2>1, <2>2, <2>3 DEF Serial, PurgeInv, At, LiveTokensOf
  <1>9. CASE TheftRevokeSession(q)
    <2>1. req'[q].at = "theft.list" /\ rtoken' = rtoken
          /\ req[q].at = "theft.revokeSession"
      BY <1>0, <1>9, GotoMoves DEF TheftRevokeSession, At
    <2>2. \A s \in Session \ {req[q].sid} : sessions'[s] = sessions[s]
      BY <1>9 DEF TheftRevokeSession, Revoked
    <2> QED BY <2>1, <2>2 DEF Serial, PurgeInv, At, LiveTokensOf
  <1>10. CASE RevokeUpdate(q)
    <2>1. req[q].at = "revoke.update" /\ rtoken' = rtoken
      BY <1>10 DEF RevokeUpdate, At
    <2>2. CASE Finish(q) /\ UNCHANGED sessions
      <3>1. req'[q].at = "idle"
        BY <1>0, <2>2, FinishMoves
      <3> QED BY <2>1, <2>2, <3>1, PurgeStep
    <2>3. CASE sessions' = Revoked({req[q].sid}) /\ Become(q, Fanout({req[q].sid}))
      <3>1. req'[q].at = "revoke.fanout" /\ req'[q].purging = {req[q].sid}
        BY <1>0, <2>3, BecomeMoves, FanoutFields
      <3>2. \A s \in Session \ {req[q].sid} : sessions'[s] = sessions[s]
        BY <2>3 DEF Revoked
      <3> QED BY <2>1, <3>1, <3>2 DEF Serial, PurgeInv, At, LiveTokensOf
    <2> QED BY <1>10, <2>2, <2>3 DEF RevokeUpdate
  <1>11. ASSUME NEW s \in Session, FanoutList(q, s) \/ FanoutPurge(q, s)
         PROVE  PurgeInv'
    <2>1. PICK L, P : /\ FanoutNext(q, L, P) /\ At(q, "revoke.fanout")
                      /\ \/ P = req[q].purging /\ rtoken' = rtoken
                         \/ /\ P = req[q].purging \ {s}
                            /\ rtoken' = RevokedTokens(LiveTokensOf(s))
      BY <1>11 DEF FanoutList, FanoutPurge
    <2>2. sessions' = sessions
      BY <1>11 DEF FanoutList, FanoutPurge
    <2>3. req'[q] = IF L \cup P = {} THEN Idle
                    ELSE [req[q] EXCEPT !.listing = L, !.purging = P]
      BY <1>0, <2>1, BecomeMoves DEF FanoutNext
    <2>4. \/ req'[q].at = "idle" /\ P = {}
          \/ req'[q].at = "revoke.fanout" /\ req'[q].purging = P
      BY <1>0, <2>1, <2>3 DEF Idle, Local, At
    <2>5. \A t \in Token : rtoken'[t].state = "live" =>
              /\ rtoken'[t] = rtoken[t]
              /\ rtoken[t].sid = s => P = req[q].purging
      BY <1>0, <2>1, TokensUpdated DEF LiveTokensOf
    <2>6. ASSUME NEW v \in Session, sessions[v].state = "revoked"
          PROVE  LiveTokensOf(v)' = {} \/ v \in P
      <3>1. LiveTokensOf(v) = {} \/ v \in req[q].purging
        BY <2>6 DEF PurgeInv, Serial
      <3> QED BY <2>1, <2>5, <3>1 DEF LiveTokensOf
    <2> QED BY <2>2, <2>4, <2>6 DEF Serial, PurgeInv, At
  <1> QED BY <1>1, <1>2, <1>4, <1>5, <1>6, <1>7, <1>8, <1>9, <1>10, <1>11 DEF Resume

LEMMA NextPurge ==
  ASSUME Serial, ~Failures, IInv, IInv', ActiveInv, PurgeInv, [Next]_vars
  PROVE  PurgeInv'
  <1>0. TypeOK
    BY DEF IInv
  <1>1. ASSUME UNCHANGED <<sessions, rtoken, req>> PROVE PurgeInv'
    BY <1>1 DEF PurgeInv, LiveTokensOf, At
  <1>2. ASSUME NEW q \in Req, Arrive(q) PROVE PurgeInv'
    <2>1. Arrives(q)
      BY <1>2, ArriveShape
    <2>2. rtoken' = rtoken /\ req[q].at = "idle" /\ req'[q].at # "theft.revokeSession"
      BY <2>1 DEF Arrives, At
    <2>3. CASE sessions' = sessions
      BY <2>2, <2>3, PurgeStep
    <2>4. CASE req'[q].at = "revoke.fanout" /\ sessions' = Revoked(req'[q].purging)
      <3>1. \A s \in Session \ req'[q].purging : sessions'[s] = sessions[s]
        BY <2>4 DEF Revoked
      <3> QED BY <2>2, <2>4, <3>1 DEF Serial, PurgeInv, At, LiveTokensOf
    <2> QED BY <2>1, <2>3, <2>4 DEF Arrives
  <1>3. ASSUME NEW t \in Token, Logout(t) PROVE PurgeInv'
    <2>1. \A u \in Token : rtoken'[u].state = "live" => rtoken'[u] = rtoken[u]
      <3>1. {t} \in SUBSET Token /\ rtoken' = RevokedTokens({t})
        BY <1>3 DEF Logout
      <3>2. PICK T \in SUBSET Token : rtoken' = RevokedTokens(T)
        BY <3>1
      <3>3. \A u \in Token : \/ rtoken'[u].state = "revoked"
                             \/ rtoken'[u] = rtoken[u]
        BY <1>0, <3>2, TokensUpdated
      <3> QED BY <3>3
    <2>2. UNCHANGED <<sessions, req>>
      BY <1>3 DEF Logout
    <2> QED BY <2>1, <2>2 DEF PurgeInv, At, LiveTokensOf
  <1>4. CASE (\E u \in User : UpdateUserStatus(u)) \/ Tick \/ UNCHANGED vars
    BY <1>1, <1>4 DEF UpdateUserStatus, Tick, vars, Tables
  <1> QED BY <1>2, <1>3, <1>4, ResumePurge DEF Next, Fail

LEMMA InitPurge == Init => PurgeInv
  BY DEF Init, PurgeInv, NoSession, Idle, At

\* One request at a time and none dying half way, a session that was revoked
\* keeps no refresh token that is not revoked itself.
THEOREM SerialRevocationIsComplete ==
  ASSUME Serial, ~Failures
  PROVE  Spec => []RevokedSessionHasNoLiveToken
  <1>1. IInv /\ ActiveInv /\ [Next]_vars => ActiveInv'
    BY NextActive
  <1>2. IInv /\ IInv' /\ ActiveInv /\ PurgeInv /\ [Next]_vars => PurgeInv'
    BY NextPurge
  <1>3. PurgeInv => RevokedSessionHasNoLiveToken
    BY DEF PurgeInv, RevokedSessionHasNoLiveToken, At
  <1> QED BY <1>1, <1>2, <1>3, InitInv, NextInv, InitActive, InitPurge, PTL DEF Spec

-----------------------------------------------------------------------------
(* Enrolment.                                                               *)

EnrolLocal(q) ==
    /\ At(q, "verify.mark") => req[q].secret = factor[req[q].user].secret
    /\ At(q, "enroll.insertCodes") => CodesOf(req[q].user) = {}

\* A step that leaves factors and the owners of codes alone.
LEMMA EnrolStep ==
  ASSUME Serial, NEW q \in Req, EnrolInv, factor' = factor,
         \A u \in User : CodesOf(u)' = CodesOf(u), EnrolLocal(q)'
  PROVE  EnrolInv'
  BY DEF Serial, EnrolInv, EnrolLocal, EnrolmentWhole, Verified

LEMMA ResumeEnrol ==
  ASSUME IInv, Serial, NEW q \in Req, EnrolInv, Resume(q)
  PROVE  EnrolInv'
  <1>0. /\ TypeOK /\ req[q] \in Local /\ LocalOK(req[q]) /\ EnrolLocal(q)
        /\ codes' = codes => \A u \in User : CodesOf(u)' = CodesOf(u)
    BY DEF IInv, TypeOK, EnrolInv, EnrolLocal, CodesOf
  <1>1. ASSUME req'[q].at \notin {"verify.mark", "enroll.insertCodes"},
               UNCHANGED <<factor, codes>>
        PROVE  EnrolInv'
    BY <1>0, <1>1, EnrolStep DEF EnrolLocal, At
  <1>2. CASE \/ LoginFindFactor(q) \/ IssueSign(q) \/ ChallengeFindUser(q)
             \/ ChallengeFindFactor(q) \/ RecoverFindUser(q) \/ RecoverFindCode(q)
             \/ RefreshFindSession(q) \/ RefreshFindUser(q) \/ RefreshFindFactor(q)
    <2>1. Looks(q)
      BY <1>2, LookShape
    <2> QED BY <1>1, <2>1 DEF Looks, Tables
  <1>3. CASE LoginCreateSession(q)
    <2>1. PICK s : req'[q] = [req[q] EXCEPT !.at = "login.findFactor", !.sid = s]
      BY <1>0, <1>3, BecomeMoves DEF LoginCreateSession
    <2>2. req'[q].at = "login.findFactor"
      BY <1>0, <2>1 DEF Local
    <2> QED BY <1>1, <1>3, <2>2 DEF LoginCreateSession
  <1>4. CASE RefreshCreateRefresh(q)
    <2>1. PICK t : req'[q] = [req[q] EXCEPT !.at = "refresh.sign", !.made = t]
      BY <1>0, <1>4, BecomeMoves DEF RefreshCreateRefresh
    <2>2. req'[q].at = "refresh.sign"
      BY <1>0, <2>1 DEF Local
    <2> QED BY <1>1, <1>4, <2>2 DEF RefreshCreateRefresh
  <1>5. CASE IssueCreateRefresh(q) \/ RefreshSign(q)
    <2>1. req'[q].at = "idle"
      BY <1>0, <1>5, FinishMoves DEF IssueCreateRefresh, RefreshSign
    <2> QED BY <1>1, <1>5, <2>1 DEF IssueCreateRefresh, RefreshSign
  <1>6. CASE RefreshRotate(q)
    <2>1. req'[q].at = "refresh.findUser"
      BY <1>0, <1>6, GotoMoves DEF RefreshRotate
    <2> QED BY <1>1, <1>6, <2>1 DEF RefreshRotate
  <1>7. CASE RecoverMarkUsed(q)
    <2>1. req'[q].at = "issue.sign" /\ factor' = factor
      BY <1>0, <1>7, GotoMoves DEF RecoverMarkUsed
    <2>2. ASSUME NEW c \in Code
          PROVE  /\ codes'[c].user = codes[c].user
                 /\ codes'[c].state = "absent" <=> codes[c].state = "absent"
      <3>1. codes[c] \in [state : {"absent", "unused", "used"}, user : User \cup {None}]
        BY <1>0 DEF TypeOK
      <3>2. CASE c = req[q].from
        <4>1. codes'[c] = [codes[c] EXCEPT !.state = IF @ = "absent" THEN @ ELSE "used"]
          BY <1>0, <1>7, <3>2 DEF RecoverMarkUsed, TypeOK
        <4>2. CASE codes[c].state = "absent"
          BY <3>1, <4>1, <4>2
        <4>3. CASE codes[c].state # "absent"
          BY <3>1, <4>1, <4>3
        <4> QED BY <4>2, <4>3
      <3>3. CASE c # req[q].from
        BY <1>0, <1>7, <3>3 DEF RecoverMarkUsed, TypeOK
      <3> QED BY <3>2, <3>3
    <2>3. \A u \in User : CodesOf(u)' = CodesOf(u)
      BY <2>2 DEF CodesOf
    <2> QED BY <2>1, <2>3, EnrolStep DEF EnrolLocal, At
  <1>8. CASE \/ TheftRevokeTokens(q) \/ TheftRevokeSession(q) \/ TheftList(q)
             \/ RevokeUpdate(q) \/ \E s \in Session : FanoutList(q, s) \/ FanoutPurge(q, s)
    <2>1. UNCHANGED <<factor, codes>> /\ req[q].at # "enroll.deleteCodes"
      BY <1>8 DEF TheftRevokeTokens, TheftRevokeSession, TheftList, RevokeUpdate,
                  FanoutList, FanoutPurge, Tables, At
    <2>2. req'[q].at # "verify.mark"
      BY <1>8, TailShape
    <2>3. req'[q].at # "enroll.insertCodes"
      BY <1>8, <2>1, TailShape DEF EnrollDeleteCodes, At
    <2> QED BY <1>1, <2>1, <2>2, <2>3
  <1>9. CASE EnrollDeleteCodes(q)
    <2>1. /\ req'[q].at = "enroll.insertCodes" /\ req'[q].user = req[q].user
          /\ factor' = factor /\ req[q].user \in User
      BY <1>0, <1>9, GotoMoves DEF EnrollDeleteCodes, LocalOK, At
    <2>2. PICK owner \in User : owner = req[q].user
      BY <2>1
    <2>3. ASSUME NEW c \in Code
          PROVE  codes'[c] = IF codes[c].user = owner THEN NoCode ELSE codes[c]
      BY <1>9, <2>2 DEF EnrollDeleteCodes
    <2>4. CodesOf(owner)' = {}
      BY <2>3 DEF CodesOf, NoCode
    <2>5. ASSUME NEW u \in User \ {owner} PROVE CodesOf(u)' = CodesOf(u)
      <3>1. ASSUME NEW c \in Code
            PROVE  codes'[c].state # "absent" /\ codes'[c].user = u
                      <=> codes[c].state # "absent" /\ codes[c].user = u
        BY <2>3 DEF NoCode
      <3> QED BY <3>1 DEF CodesOf
    <2>6. \A u \in User : Cardinality(CodesOf(u))' <= CodeCount
      BY <2>4, <2>5, FS_EmptySet, CodeCountAssumption DEF EnrolInv, EnrolmentWhole
    <2>7. EnrolLocal(q)'
      BY <2>1, <2>2, <2>4 DEF EnrolLocal, At, CodesOf
    <2> QED BY <2>1, <2>6, <2>7 DEF Serial, EnrolInv, EnrolLocal, EnrolmentWhole, Verified
  <1>10. CASE EnrollInsertCodes(q)
    <2>1. /\ req'[q].at = "idle" /\ factor' = factor /\ req[q].user \in User
          /\ CodesOf(req[q].user) = {}
      BY <1>0, <1>10, FinishMoves DEF EnrollInsertCodes, LocalOK, At, EnrolLocal
    <2>2. PICK C \in SUBSET {c \in Code : codes[c].state = "absent"} :
            /\ Cardinality(C) = CodeCount
            /\ codes' = [c \in Code |-> IF c \in C
                                        THEN [state |-> "unused", user |-> req[q].user]
                                        ELSE codes[c]]
      BY <1>10 DEF EnrollInsertCodes
    <2>3. PICK owner \in User : owner = req[q].user /\ CodesOf(owner) = {}
      BY <2>1
    <2>4. ASSUME NEW c \in Code
          PROVE  IF c \in C THEN codes'[c].state = "unused" /\ codes'[c].user = owner
                 ELSE codes'[c] = codes[c]
      BY <2>2, <2>3
    <2>5. CodesOf(owner)' = C
      BY <2>3, <2>4 DEF CodesOf
    <2>6. ASSUME NEW u \in User \ {owner} PROVE CodesOf(u)' = CodesOf(u)
      <3>1. ASSUME NEW c \in Code
            PROVE  codes'[c].state # "absent" /\ codes'[c].user = u
                      <=> codes[c].state # "absent" /\ codes[c].user = u
        BY <2>2, <2>4
      <3> QED BY <3>1 DEF CodesOf
    <2>7. \A u \in User : Cardinality(CodesOf(u))' <= CodeCount
      BY <2>2, <2>5, <2>6, CodeCountAssumption DEF EnrolInv, EnrolmentWhole
    <2> QED BY <2>1, <2>7 DEF Serial, EnrolInv, EnrolmentWhole, Verified, At
  <1>11. CASE VerifyMark(q)
    <2>1. /\ req'[q].at = "idle" /\ codes' = codes /\ req[q].user \in User
          /\ req[q].secret = factor[req[q].user].secret
      BY <1>0, <1>11, FinishMoves DEF VerifyMark, LocalOK, At, EnrolLocal
    <2>2. ASSUME NEW u \in User PROVE Verified(u)' => factor'[u].proved = factor'[u].secret
      <3>1. CASE u = req[q].user
        <4>1. factor'[u] = [factor[u] EXCEPT !.state = "verified", !.proved = req[q].secret]
          BY <1>0, <1>11, <2>1, <3>1 DEF VerifyMark, TypeOK
        <4>2. factor'[u].proved = req[q].secret /\ factor'[u].secret = factor[u].secret
          BY <1>0, <4>1 DEF TypeOK
        <4> QED BY <2>1, <3>1, <4>2
      <3>2. CASE u # req[q].user
        <4>1. factor'[u] = factor[u]
          BY <1>0, <1>11, <2>1, <3>2 DEF VerifyMark, TypeOK
        <4> QED BY <4>1 DEF EnrolInv, EnrolmentWhole, Verified
      <3> QED BY <3>1, <3>2
    <2> QED BY <1>0, <2>1, <2>2 DEF Serial, EnrolInv, EnrolmentWhole, At
  <1> QED BY <1>2, <1>3, <1>4, <1>5, <1>6, <1>7, <1>8, <1>9, <1>10, <1>11 DEF Resume

LEMMA NextEnrol ==
  ASSUME Serial, IInv, EnrolInv, [Next]_vars
  PROVE  EnrolInv'
  <1>0. /\ TypeOK
        /\ codes' = codes => \A u \in User : CodesOf(u)' = CodesOf(u)
    BY DEF IInv, CodesOf
  <1>1. ASSUME UNCHANGED <<factor, codes, req>> PROVE EnrolInv'
    BY <1>0, <1>1 DEF EnrolInv, EnrolmentWhole, Verified, CodesOf, At
  <1>2. ASSUME NEW q \in Req, Arrive(q) PROVE EnrolInv'
    <2>1. Arrives(q)
      BY <1>2, ArriveShape
    <2>2. codes' = codes /\ req'[q].at # "enroll.insertCodes"
      BY <2>1 DEF Arrives
    <2>3. CASE factor' = factor
      <3>1. req'[q].at = "verify.mark" => req'[q].secret = factor'[req'[q].user].secret
        BY <2>1, <2>3 DEF Arrives
      <3>2. EnrolLocal(q)'
        BY <2>2, <3>1 DEF EnrolLocal, At
      <3> QED BY <1>0, <2>2, <2>3, <3>2, EnrolStep
    <2>4. CASE /\ req'[q].at = "enroll.deleteCodes" /\ req'[q].user \in User
               /\ factor' = [factor EXCEPT ![req'[q].user] = [state |-> "pending",
                              secret |-> factor[req'[q].user].secret + 1,
                              proved |-> factor[req'[q].user].proved]]
      <3>1. \A u \in User : Verified(u)' => factor'[u] = factor[u] /\ Verified(u)
        BY <1>0, <2>4 DEF TypeOK, Verified
      <3> QED BY <1>0, <2>2, <2>4, <3>1 DEF Serial, EnrolInv, EnrolmentWhole, At
    <2> QED BY <2>1, <2>3, <2>4 DEF Arrives
  <1>3. ASSUME NEW q \in Req, Fail(q) PROVE EnrolInv'
    <2>1. req'[q].at = "idle" /\ factor' = factor /\ codes' = codes
      BY <1>0, <1>3, FinishMoves DEF Fail, Tables
    <2> QED BY <1>0, <2>1, EnrolStep DEF EnrolLocal, At
  <1>4. CASE \/ \E t \in Token : Logout(t)
             \/ \E u \in User : UpdateUserStatus(u)
             \/ Tick \/ UNCHANGED vars
    BY <1>1, <1>4 DEF Logout, UpdateUserStatus, Tick, vars, Tables
  <1> QED BY <1>2, <1>3, <1>4, ResumeEnrol DEF Next

LEMMA InitEnrol == Init => EnrolInv
  <1> SUFFICES ASSUME Init PROVE EnrolInv
    OBVIOUS
  <1>1. \A u \in User : Verified(u) => factor[u].proved = factor[u].secret
    BY DEF Init, Verified, NoFactor
  <1>2. ASSUME NEW u \in User PROVE Cardinality(CodesOf(u)) <= CodeCount
    <2>1. CASE u \in Enrolled
      BY <2>1 DEF Init
    <2>2. CASE u \notin Enrolled
      <3>1. CodesOf(u) = {}
        BY <2>2 DEF Init, CodesOf, NoCode
      <3> QED BY <3>1, FS_EmptySet, CodeCountAssumption
    <2> QED BY <2>1, <2>2
  <1> QED BY <1>1, <1>2 DEF Init, EnrolInv, EnrolmentWhole, Idle, At

\* One request at a time, a factor counts as verified only for the secret its
\* owner gave a code for, and a user holds one enrolment's recovery codes.
THEOREM SerialEnrolmentWhole ==
  ASSUME Serial
  PROVE  Spec => []EnrolmentWhole
  <1>1. IInv /\ EnrolInv /\ [Next]_vars => EnrolInv'
    BY NextEnrol
  <1>2. EnrolInv => EnrolmentWhole
    BY DEF EnrolInv
  <1> QED BY <1>1, <1>2, InitInv, NextInv, InitEnrol, PTL DEF Spec

-----------------------------------------------------------------------------
(* What bought a token is spent.                                            *)

\* A step that inserts no token and brings back no code.
LEMMA SpentStep ==
  ASSUME Serial, NEW q \in Req, SpentInv, Grows, GrantUnspent(req[q])',
         \A t \in Token : /\ rtoken'[t].from = rtoken[t].from
                          /\ rtoken[t].state = "absent" <=> rtoken'[t].state = "absent",
         \A c \in Code : codes'[c].state = "unused" => codes[c].state = "unused"
  PROVE  SpentInv'
  <1>1. SpentOnce'
    BY DEF SpentInv, SpentOnce, RefreshTokenSpentOnce
  <1>2. ASSUME NEW t \in Token
        PROVE  LET f == rtoken'[t].from
               IN /\ rtoken'[t].state = "absent" => f = None
                  /\ f \in Token => rtoken'[f].state = "revoked"
                  /\ f \in Code => codes'[f].state # "unused"
    BY DEF SpentInv, Grows
  <1>3. \A p \in Req : GrantUnspent(req[p])'
    BY DEF Serial
  <1> QED BY <1>1, <1>2, <1>3 DEF SpentInv

LEMMA LookSpent ==
  ASSUME Serial, NEW q \in Req, SpentInv, Grows, Looks(q)
  PROVE  SpentInv'
  <1>0. GrantUnspent(req[q]) /\ UNCHANGED <<rtoken, codes>>
    BY DEF SpentInv, Looks, Tables
  <1>1. GrantUnspent(req[q])'
    <2>1. CASE req'[q].at = "idle"
      BY <2>1 DEF GrantUnspent
    <2>2. CASE req'[q].at # "idle" /\ req'[q].from = req[q].from
      BY <1>0, <2>2 DEF Looks, GrantUnspent, Unspent
    <2> QED BY <2>1, <2>2 DEF Looks
  <1> QED BY <1>0, <1>1, SpentStep

LEMMA InsertSpent ==
  ASSUME IInv, SpentInv, NEW q \in Req, NEW t \in Token, InsertToken(q, t),
         codes' = codes, At(q, "issue.createRefresh") \/ At(q, "refresh.createRefresh"),
         \A p \in Req : GrantUnspent(req[p])'
  PROVE  SpentInv'
  <1> DEFINE f == req[q].from
  <1>1. /\ rtoken[t].state = "absent"
        /\ rtoken'[t].from = f /\ rtoken'[t].state = "live"
        /\ \A u \in Token \ {t} : rtoken'[u] = rtoken[u]
    BY DEF IInv, TypeOK, InsertToken
  <1>2. \/ f \in {"login", "challenge"}
        \/ f \in Token /\ rtoken[f].state = "revoked" /\ Unspent(f)
        \/ f \in Code /\ codes[f].state # "unused" /\ Unspent(f)
    BY DEF SpentInv, GrantUnspent, At
  <1>3. f \in Token \cup Code => Unspent(f)
    BY <1>2, GrantAssumption
  <1>4. SpentOnce'
    <2>1. ASSUME NEW t1 \in Token, NEW t2 \in Token,
                 rtoken'[t1].from \in Token \cup Code,
                 rtoken'[t1].from = rtoken'[t2].from
          PROVE  t1 = t2
      <3>1. CASE t1 = t
        BY <1>1, <1>3, <2>1, <3>1 DEF Unspent
      <3>2. CASE t2 = t
        BY <1>1, <1>3, <2>1, <3>2 DEF Unspent
      <3>3. CASE t1 # t /\ t2 # t
        BY <1>1, <2>1, <3>3 DEF SpentInv, SpentOnce, RefreshTokenSpentOnce
      <3> QED BY <3>1, <3>2, <3>3
    <2> QED BY <2>1 DEF SpentOnce, RefreshTokenSpentOnce
  <1>5. ASSUME NEW u \in Token
        PROVE  LET g == rtoken'[u].from
               IN /\ rtoken'[u].state = "absent" => g = None
                  /\ g \in Token => rtoken'[g].state = "revoked"
                  /\ g \in Code => codes'[g].state # "unused"
    <2>1. CASE u = t
      BY <1>1, <1>2, <2>1, GrantAssumption
    <2>2. CASE u # t
      <3>1. /\ rtoken[u].state = "absent" => rtoken[u].from = None
            /\ rtoken[u].from \in Token => rtoken[rtoken[u].from].state = "revoked"
            /\ rtoken[u].from \in Code => codes[rtoken[u].from].state # "unused"
        BY DEF SpentInv
      <3> QED BY <1>1, <2>2, <3>1
    <2> QED BY <2>1, <2>2
  <1> QED BY <1>4, <1>5 DEF SpentInv

LEMMA ResumeSpent ==
  ASSUME IInv, Serial, Grows, NEW q \in Req, SpentInv, Resume(q)
  PROVE  SpentInv'
  <1>0. /\ TypeOK /\ req[q] \in Local /\ LocalOK(req[q]) /\ GrantUnspent(req[q])
    BY DEF IInv, TypeOK, SpentInv
  <1>1. CASE \/ LoginFindFactor(q) \/ IssueSign(q) \/ ChallengeFindUser(q)
             \/ ChallengeFindFactor(q) \/ RecoverFindUser(q) \/ RecoverFindCode(q)
             \/ RefreshFindSession(q) \/ RefreshFindUser(q) \/ RefreshFindFactor(q)
    BY <1>1, LookShape, LookSpent
  <1>2. CASE LoginCreateSession(q)
    <2>1. PICK s : req'[q] = [req[q] EXCEPT !.at = "login.findFactor", !.sid = s]
      BY <1>0, <1>2, BecomeMoves DEF LoginCreateSession
    <2>2. req'[q].at = "login.findFactor" /\ req'[q].from = req[q].from
      BY <1>0, <2>1 DEF Local
    <2>3. GrantUnspent(req[q])'
      BY <1>0, <1>2, <2>2 DEF LoginCreateSession, At, GrantUnspent
    <2> QED BY <1>2, <2>3, SpentStep DEF LoginCreateSession
  <1>3. CASE IssueCreateRefresh(q)
    <2>1. req'[q].at = "idle"
      BY <1>0, <1>3, FinishMoves DEF IssueCreateRefresh
    <2>2. \A p \in Req : GrantUnspent(req[p])'
      BY <2>1 DEF Serial, GrantUnspent
    <2> QED BY <1>3, <2>2, InsertSpent DEF IssueCreateRefresh
  <1>4. CASE RefreshCreateRefresh(q)
    <2>1. PICK t \in Token : /\ InsertToken(q, t)
                             /\ req'[q] = [req[q] EXCEPT !.at = "refresh.sign", !.made = t]
      BY <1>0, <1>4, BecomeMoves DEF RefreshCreateRefresh
    <2>2. req'[q].at = "refresh.sign"
      BY <1>0, <2>1 DEF Local
    <2>3. \A p \in Req : GrantUnspent(req[p])'
      BY <2>2 DEF Serial, GrantUnspent
    <2> QED BY <1>4, <2>1, <2>3, InsertSpent DEF RefreshCreateRefresh
  <1>5. CASE RefreshSign(q)
    <2>1. req'[q].at = "idle" /\ UNCHANGED <<rtoken, codes>>
      BY <1>0, <1>5, FinishMoves DEF RefreshSign
    <2>2. GrantUnspent(req[q])'
      BY <2>1 DEF GrantUnspent
    <2> QED BY <2>1, <2>2, SpentStep
  <1>6. CASE RefreshRotate(q)
    <2>1. req'[q].at = "refresh.findUser" /\ req'[q].from = req[q].from
      BY <1>0, <1>6, GotoMoves DEF RefreshRotate
    <2>2. PICK f \in Token : f = req[q].from /\ Unspent(f)
      BY <1>0, <1>6 DEF RefreshRotate, At, LocalOK, GrantUnspent
    <2>3. ASSUME NEW t \in Token
          PROVE  IF t = f
                 THEN rtoken'[t].state = "revoked" /\ rtoken'[t].from = rtoken[t].from
                 ELSE rtoken'[t] = rtoken[t]
      <3>1. {f} \in SUBSET Token /\ rtoken' = RevokedTokens({f})
        BY <1>6, <2>2 DEF RefreshRotate
      <3>2. t \in {f} <=> t = f
        OBVIOUS
      <3> QED BY <1>0, <3>1, <3>2, TokensUpdated
    <2>4. rtoken[f].state # "absent"
      BY <1>0, <1>6, <2>2 DEF RefreshRotate, At, LocalOK
    <2>5. GrantUnspent(req[q])'
      BY <2>1, <2>2, <2>3 DEF GrantUnspent, Unspent
    <2> QED BY <1>6, <2>3, <2>4, <2>5, SpentStep DEF RefreshRotate
  <1>7. CASE RecoverMarkUsed(q)
    <2>1. /\ req'[q].at = "issue.sign" /\ req'[q].from = req[q].from /\ rtoken' = rtoken
      BY <1>0, <1>7, GotoMoves DEF RecoverMarkUsed
    <2>2. PICK f \in Code : f = req[q].from /\ codes[f].state = "unused"
      BY <1>0, <1>7 DEF RecoverMarkUsed, At, GrantUnspent
    <2>3. Unspent(f)
      BY <2>2 DEF SpentInv, Unspent
    <2>4. codes' = [codes EXCEPT ![f] = [codes[f] EXCEPT !.state = "used"]]
      BY <1>7, <2>2 DEF RecoverMarkUsed
    <2>5. codes'[f].state = "used" /\ \A c \in Code \ {f} : codes'[c] = codes[c]
      BY <1>0, <2>4 DEF TypeOK
    <2>6. GrantUnspent(req[q])'
      BY <2>1, <2>2, <2>3, <2>5 DEF GrantUnspent, Unspent
    <2> QED BY <2>1, <2>5, <2>6, SpentStep
  <1>8. ASSUME \/ TheftRevokeTokens(q) \/ TheftRevokeSession(q) \/ TheftList(q)
               \/ RevokeUpdate(q) \/ EnrollDeleteCodes(q) \/ VerifyMark(q)
               \/ \E s \in Session : FanoutList(q, s) \/ FanoutPurge(q, s)
        PROVE  SpentInv'
    <2>1. GrantUnspent(req[q])'
      <3>1. req'[q].at \in {"idle", "theft.revokeSession", "theft.list",
                            "revoke.fanout", "enroll.insertCodes"}
        BY <1>8, TailShape
      <3> QED BY <3>1 DEF GrantUnspent
    <2>2. \/ rtoken' = rtoken
          \/ \E s : rtoken' = RevokedTokens(LiveTokensOf(s))
      <3>1. CASE TheftRevokeTokens(q)
        BY <3>1 DEF TheftRevokeTokens
      <3>2. CASE TheftRevokeSession(q) \/ TheftList(q) \/ EnrollDeleteCodes(q) \/ VerifyMark(q)
        BY <3>2 DEF TheftRevokeSession, TheftList, EnrollDeleteCodes, VerifyMark
      <3>3. CASE RevokeUpdate(q)
        BY <3>3 DEF RevokeUpdate
      <3>4. CASE \E s \in Session : FanoutList(q, s) \/ FanoutPurge(q, s)
        <4>1. PICK s \in Session : FanoutList(q, s) \/ FanoutPurge(q, s)
          BY <3>4
        <4>2. CASE FanoutList(q, s)
          BY <4>2 DEF FanoutList
        <4>3. CASE FanoutPurge(q, s)
          BY <4>3 DEF FanoutPurge
        <4> QED BY <4>1, <4>2, <4>3
      <3> QED BY <1>8, <3>1, <3>2, <3>3, <3>4
    <2>3. ASSUME NEW t \in Token
          PROVE  /\ rtoken'[t].from = rtoken[t].from
                 /\ rtoken[t].state = "absent" <=> rtoken'[t].state = "absent"
      <3>1. CASE rtoken' = rtoken
        BY <3>1
      <3>2. CASE \E s : rtoken' = RevokedTokens(LiveTokensOf(s))
        <4>1. PICK s : rtoken' = RevokedTokens(LiveTokensOf(s))
          BY <3>2
        <4> QED BY <1>0, <4>1, TokensUpdated DEF LiveTokensOf
      <3> QED BY <2>2, <3>1, <3>2
    <2>4. \A c \in Code : codes'[c].state = "unused" => codes[c].state = "unused"
      <3>1. CASE EnrollDeleteCodes(q)
        BY <3>1 DEF EnrollDeleteCodes, NoCode
      <3>2. CASE ~EnrollDeleteCodes(q)
        <4>1. CASE \E s \in Session : FanoutList(q, s) \/ FanoutPurge(q, s)
          <5>1. PICK s \in Session : FanoutList(q, s) \/ FanoutPurge(q, s)
            BY <4>1
          <5>2. codes' = codes
            BY <5>1 DEF FanoutList, FanoutPurge
          <5> QED BY <5>2
        <4>2. CASE \/ TheftRevokeTokens(q) \/ TheftRevokeSession(q) \/ TheftList(q)
                   \/ RevokeUpdate(q) \/ VerifyMark(q)
          <5>1. codes' = codes
            BY <4>2 DEF TheftRevokeTokens, TheftRevokeSession, TheftList, RevokeUpdate,
               VerifyMark
          <5> QED BY <5>1
        <4> QED BY <1>8, <3>2, <4>1, <4>2
      <3> QED BY <3>1, <3>2
    <2> QED BY <2>1, <2>3, <2>4, SpentStep
  <1>9. CASE EnrollInsertCodes(q)
    <2>1. req'[q].at = "idle" /\ rtoken' = rtoken
      BY <1>0, <1>9, FinishMoves DEF EnrollInsertCodes
    <2>2. \A c \in Code : codes'[c] = codes[c] \/ Unspent(c)
      BY <1>9 DEF EnrollInsertCodes, Unspent
    <2>3. \A p \in Req : GrantUnspent(req[p])'
      BY <2>1 DEF Serial, GrantUnspent
    <2>4. ASSUME NEW t \in Token, rtoken[t].from \in Code
          PROVE  codes'[rtoken[t].from].state # "unused"
      BY <2>2, <2>4 DEF SpentInv, Unspent
    <2> QED BY <2>1, <2>3, <2>4 DEF SpentInv, SpentOnce, RefreshTokenSpentOnce
  <1> QED BY <1>1, <1>2, <1>3, <1>4, <1>5, <1>6, <1>7, <1>8, <1>9 DEF Resume

LEMMA NextSpent ==
  ASSUME Serial, IInv, SpentInv, [Next]_vars
  PROVE  SpentInv'
  <1>0. TypeOK /\ Grows
    BY NextGrows DEF IInv
  <1>1. ASSUME UNCHANGED <<rtoken, codes, req>> PROVE SpentInv'
    BY <1>1 DEF SpentInv, SpentOnce, RefreshTokenSpentOnce, GrantUnspent, Unspent
  <1>2. ASSUME NEW q \in Req, Arrive(q) PROVE SpentInv'
    <2>1. Arrives(q)
      BY <1>2, ArriveShape
    <2>2. rtoken' = rtoken /\ codes' = codes
      BY <2>1 DEF Arrives
    <2>3. req'[q].at = "refresh.findSession" => Unspent(req'[q].from)
      BY <2>1 DEF Arrives, SpentInv, Unspent
    <2>4. GrantUnspent(req[q])'
      BY <2>1, <2>2, <2>3 DEF Arrives, GrantUnspent, Unspent
    <2> QED BY <1>0, <2>2, <2>4, SpentStep
  <1>3. ASSUME NEW q \in Req, Fail(q) PROVE SpentInv'
    <2>1. req'[q].at = "idle" /\ rtoken' = rtoken /\ codes' = codes
      BY <1>0, <1>3, FinishMoves DEF Fail, Tables
    <2> QED BY <1>0, <2>1, SpentStep DEF GrantUnspent
  <1>4. ASSUME NEW t \in Token, Logout(t) PROVE SpentInv'
    <2>1. PICK T \in SUBSET Token : rtoken' = RevokedTokens(T) /\ T = {t}
      BY <1>4 DEF Logout
    <2>2. UNCHANGED <<codes, req>> /\ rtoken[t].state # "absent"
      BY <1>4 DEF Logout, IInv, RowsOK
    <2>3. ASSUME NEW u \in Token
          PROVE  /\ rtoken'[u].from = rtoken[u].from
                 /\ rtoken[u].state = "absent" <=> rtoken'[u].state = "absent"
                 /\ rtoken[u].state = "revoked" => rtoken'[u].state = "revoked"
      BY <1>0, <2>1, <2>2, TokensUpdated
    <2>4. SpentOnce'
      BY <2>3 DEF SpentInv, SpentOnce, RefreshTokenSpentOnce
    <2>5. ASSUME NEW u \in Token
          PROVE  LET f == rtoken'[u].from
                 IN /\ rtoken'[u].state = "absent" => f = None
                    /\ f \in Token => rtoken'[f].state = "revoked"
                    /\ f \in Code => codes'[f].state # "unused"
      BY <2>2, <2>3 DEF SpentInv
    <2>6. ASSUME NEW p \in Req PROVE GrantUnspent(req[p])'
      <3>1. GrantUnspent(req[p])
        BY DEF SpentInv
      <3>2. \A f : Unspent(f) => Unspent(f)'
        BY <2>3 DEF Unspent
      <3> QED BY <2>2, <2>3, <3>1, <3>2 DEF GrantUnspent, Unspent
    <2> QED BY <2>4, <2>5, <2>6 DEF SpentInv
  <1>5. CASE (\E u \in User : UpdateUserStatus(u)) \/ Tick \/ UNCHANGED vars
    BY <1>1, <1>5 DEF UpdateUserStatus, Tick, vars, Tables
  <1> QED BY <1>0, <1>2, <1>3, <1>4, <1>5, ResumeSpent DEF Next

LEMMA InitSpent == Init => SpentInv
  <1> SUFFICES ASSUME Init PROVE SpentInv
    OBVIOUS
  <1>1. \A t \in Token : rtoken[t].state = "absent" /\ rtoken[t].from = None
    BY DEF Init, NoToken
  <1>2. None \notin Token \cup Code
    BY NoneAssumption
  <1>3. \A q \in Req : GrantUnspent(req[q])
    BY DEF Init, Idle, GrantUnspent
  <1> QED BY <1>1, <1>2, <1>3 DEF SpentInv, SpentOnce, RefreshTokenSpentOnce

\* One request at a time, a refresh token or a recovery code buys one successor.
THEOREM SerialSpentOnce ==
  ASSUME Serial
  PROVE  Spec => []SpentOnce
  <1>1. IInv /\ SpentInv /\ [Next]_vars => SpentInv'
    BY NextSpent
  <1>2. SpentInv => SpentOnce
    BY DEF SpentInv
  <1> QED BY <1>1, <1>2, InitInv, NextInv, InitSpent, PTL DEF Spec
=============================================================================
