---------------------------- MODULE Impersonation ----------------------------
(***************************************************************************)
(* The impersonation sessions of one idempotency key in one firm           *)
(* (modules/impersonation): starts that are repeated and race, ends, and   *)
(* the access tokens that are signed on the way.  A call executes one      *)
(* statement per step.                                                     *)
(***************************************************************************)
EXTENDS Naturals, Sequences

CONSTANTS
    Call, User,      \* callers; users who may be acted for
    Durations,       \* duration_minutes
    MaxMinutes       \* bound of the model

VARIABLES
    minute,
    rows,       \* rows of the key: target, expires_at, ended_at (0 for NULL)
    senior,     \* users with one of BLOCKED_ROLES
    call,       \* what each caller does next
    tokens      \* tokens signed: session, time of the request, roles

vars == <<minute, rows, senior, call, tokens>>

Idle == [op |-> "idle"]
Goto(c, to) == call' = [call EXCEPT ![c] = to]

Init ==
    /\ minute = 1 /\ rows = <<>> /\ tokens = {}
    /\ senior \in SUBSET User
    /\ call = [c \in Call |-> Idle]

StartFind_AnyAge(c) ==
    /\ call[c] = Idle
    /\ Goto(c, IF rows # <<>> THEN [op |-> "roles", asked |-> minute, session |-> 1]
               ELSE CHOOSE x \in {[op |-> "check", asked |-> minute, target |-> u, lasts |-> 1] :
                                     u \in User} : TRUE)
    /\ UNCHANGED <<minute, rows, senior, tokens>>
\* findByIdempotencyKey: a session that is there is the one to sign for, unless it
\* has ended or expired.
StartFind(c) ==
    /\ call[c] = Idle
    /\ \/ /\ rows # <<>> /\ rows[1].ended = 0 /\ rows[1].expires >= minute
          /\ Goto(c, [op |-> "roles", asked |-> minute, session |-> 1])
       \/ /\ rows = <<>>
          /\ \E u \in User, n \in Durations :
                Goto(c, [op |-> "check", asked |-> minute, target |-> u, lasts |-> n])
    /\ UNCHANGED <<minute, rows, senior, tokens>>

\* The roles of the target of the existing session.
ReadRoles(c) ==
    /\ call[c].op = "roles"
    /\ Goto(c, [op |-> "sign", asked |-> call[c].asked, session |-> call[c].session,
                first |-> FALSE, senior |-> rows[call[c].session].target \in senior])
    /\ UNCHANGED <<minute, rows, senior, tokens>>

\* The roles of the target of a new one, which the token will carry, and its end.
CheckTarget(c) ==
    LET targetRoles == call[c].target \in senior IN
    /\ call[c].op = "check"
    /\ Goto(c, IF targetRoles THEN Idle
               ELSE [op |-> "create", asked |-> call[c].asked, target |-> call[c].target,
                     expires |-> minute + call[c].lasts, senior |-> targetRoles])
    /\ UNCHANGED <<minute, rows, senior, tokens>>

\* UNIQUE (firm_id, idempotency_key) refuses the second of two inserts.
Create(c) ==
    /\ call[c].op = "create"
    /\ IF rows = <<>>
       THEN /\ rows' = Append(rows, [target |-> call[c].target, expires |-> call[c].expires,
                                     ended |-> 0])
            /\ Goto(c, [op |-> "sign", asked |-> call[c].asked, session |-> 1,
                        first |-> TRUE, senior |-> call[c].senior])
       ELSE Goto(c, Idle) /\ UNCHANGED rows
    /\ UNCHANGED <<minute, senior, tokens>>

Sign(c) ==
    /\ call[c].op = "sign"
    /\ tokens' = tokens \cup {[asked |-> call[c].asked, session |-> call[c].session,
                               first |-> call[c].first, senior |-> call[c].senior]}
    /\ Goto(c, Idle)
    /\ UNCHANGED <<minute, rows, senior>>

\* endImpersonation: another end may have come in between.
EndFind(c) ==
    /\ call[c] = Idle
    /\ \E s \in DOMAIN rows : rows[s].ended = 0 /\ Goto(c, [op |-> "end", session |-> s])
    /\ UNCHANGED <<minute, rows, senior, tokens>>
End(c) ==
    /\ call[c].op = "end"
    /\ rows' = [rows EXCEPT ![call[c].session].ended = minute]
    /\ Goto(c, Idle)
    /\ UNCHANGED <<minute, senior, tokens>>

Fail(c) ==
    /\ call[c] # Idle /\ Goto(c, Idle)
    /\ UNCHANGED <<minute, rows, senior, tokens>>

\* assignRoles of another administrator.
ChangeRoles ==
    /\ senior' \in SUBSET User
    /\ UNCHANGED <<minute, rows, call, tokens>>

Pass ==
    /\ minute < MaxMinutes /\ minute' = minute + 1
    /\ UNCHANGED <<rows, senior, call, tokens>>

Next ==
    \/ \E c \in Call :
        \/ StartFind(c) \/ ReadRoles(c) \/ CheckTarget(c) \/ Create(c) \/ Sign(c)
        \/ EndFind(c) \/ End(c) \/ Fail(c)
    \/ ChangeRoles \/ Pass

------------------------------------------------------------------------------
(* Properties *)

\* However starts and ends of a key race: all tokens are for one session, so for one
\* user; none is signed for a request that came in after that session had ended or
\* expired; and the first does not carry the roles nobody may borrow.
TokensHonest ==
    /\ Len(rows) <= 1
    /\ \A t \in tokens :
        LET row == rows[t.session] IN
        /\ t.asked <= row.expires
        /\ row.ended # 0 => t.asked <= row.ended
        /\ t.first => ~t.senior

------------------------------------------------------------------------------
(* The inductive invariant.                                                 *)

Row == [target : User, expires : Nat, ended : Nat]
SignedToken == [asked : Nat, session : {1}, first : BOOLEAN, senior : BOOLEAN]
Plan == {Idle} \cup [op : {"roles"}, asked : Nat, session : {1}]
               \cup [op : {"check"}, asked : Nat, target : User, lasts : Durations]
               \cup [op : {"create"}, asked : Nat, target : User, expires : Nat,
                     senior : BOOLEAN]
               \cup [op : {"sign"}, asked : Nat, session : {1}, first : BOOLEAN,
                     senior : BOOLEAN]
               \cup [op : {"end"}, session : {1}]
TypeOK ==
    /\ minute \in Nat \ {0}
    /\ rows \in Seq(Row)
    /\ senior \subseteq User
    /\ call \in [Call -> Plan]
    /\ tokens \subseteq SignedToken

\* The session of the key was running when the request came in.
Running(asked) ==
    /\ rows # <<>> /\ asked <= rows[1].expires
    /\ rows[1].ended # 0 => asked <= rows[1].ended
IInv ==
    /\ TypeOK
    /\ Len(rows) <= 1
    /\ \A c \in Call :
        /\ call[c].op \in {"roles", "check", "create", "sign"} => call[c].asked <= minute
        /\ call[c].op \in {"roles", "sign"} => Running(call[c].asked)
        /\ call[c].op = "create" => call[c].asked <= call[c].expires /\ ~call[c].senior
        /\ call[c].op = "sign" => ~(call[c].first /\ call[c].senior)
        /\ call[c].op = "end" => rows # <<>>
    /\ \A t \in tokens : t.asked <= minute /\ Running(t.asked) /\ ~(t.first /\ t.senior)
==============================================================================
