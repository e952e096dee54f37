--------------------------- MODULE UserInvitations ---------------------------
(***************************************************************************)
(* How one e-mail address joins a firm (modules/users): inviteUser,        *)
(* register, resendInvitation, and the status changes of updateUser.       *)
(* Addresses do not interact, so the rows are those of one address.        *)
(*                                                                         *)
(* As in AuthSessions a handler q \in Req executes one SQL statement per   *)
(* step and req[q].at names the statement it executes next.  A behaviour   *)
(* is either serial, as the unit tests are - one request at a time, and    *)
(* none fails - or racing: requests interleave, and die anywhere.          *)
(***************************************************************************)
EXTENDS Naturals, FiniteSets

CONSTANTS
    Invitation, Token, Req, None,
    TTL,         \* INVITATION_TTL_HOURS
    MaxTime      \* bound of the model: the clock

ASSUME InvitationAssumption == TTL \in Nat /\ None \notin Invitation \cup Token

VARIABLES
    now,
    user,          \* the row of users: its status, the token it registered with
    invitation,    \* rows of the table invitations
    issued,        \* the tokens that were ever generated
    registrations, \* history: how many register calls activated the user
    mode,          \* "serial" or "racing", from the start
    req

vars == <<now, user, invitation, issued, registrations, mode, req>>

NoInvitation == [state |-> "absent", token |-> None, exp |-> 0]
Idle == [at |-> "idle", inv |-> None, token |-> None]

TypeOK ==
    /\ now \in Nat
    /\ user \in [state : {"absent", "invited", "active", "disabled"},
                 by : Token \cup {None}]
    /\ invitation \in [Invitation ->
          [state : {"absent", "pending", "accepted", "expired"},
           token : Token \cup {None}, exp : Nat]]
    /\ issued \in SUBSET Token
    /\ registrations \in Nat
    /\ mode \in {"serial", "racing"}
    /\ req \in [Req -> [at : {"idle", "invite.findUser", "invite.createUser",
                              "invite.createInvitation", "register.expire",
                              "register.findUser", "register.activate",
                              "register.accept", "resend.update"},
                        inv : Invitation \cup {None}, token : Token \cup {None}]]

Init ==
    /\ now = 0
    /\ user = [state |-> "absent", by |-> None]
    /\ invitation = [i \in Invitation |-> NoInvitation]
    /\ issued = {}
    /\ registrations = 0
    /\ mode \in {"serial", "racing"}
    /\ req = [q \in Req |-> Idle]

At(q, label) == req[q].at = label
Goto(q, label) == req' = [req EXCEPT ![q].at = label]
Finish(q) == req' = [req EXCEPT ![q] = Idle]
Free(q) == /\ At(q, "idle")
           /\ mode = "serial" => \A p \in Req : At(p, "idle")
Begin(q, label, i, t) ==
    /\ Free(q)
    /\ req' = [req EXCEPT ![q] = [at |-> label, inv |-> i, token |-> t]]

Pending == {i \in Invitation : invitation[i].state = "pending"}

\* generateToken never repeats itself.
Fresh(t) == t \notin issued /\ issued' = issued \cup {t}

\* UPDATE invitations SET status WHERE id, whatever the row says by now.
SetStatus(i, st) == invitation' = [invitation EXCEPT ![i].state = st]

-----------------------------------------------------------------------------
(* inviteUser: with an invitation pending it returns that one.             *)

InviteStart(q) ==
    /\ Pending = {}
    /\ Begin(q, "invite.findUser", None, None)
    /\ UNCHANGED <<now, user, invitation, issued, registrations, mode>>

InviteFindUser(q) ==
    /\ At(q, "invite.findUser")
    /\ \/ user.state = "absent" /\ Goto(q, "invite.createUser")
       \/ user.state # "absent" /\ Finish(q)
    /\ UNCHANGED <<now, user, invitation, issued, registrations, mode>>

\* UNIQUE (firm_id, email) stops the second of two inserts.
InviteCreateUser_Upserts(q) ==
    /\ At(q, "invite.createUser")
    /\ user' = [state |-> "invited", by |-> None]
    /\ Goto(q, "invite.createInvitation")
    /\ UNCHANGED <<now, invitation, issued, registrations, mode>>
InviteCreateUser(q) ==
    /\ At(q, "invite.createUser")
    /\ \/ /\ user.state = "absent"
          /\ user' = [state |-> "invited", by |-> None]
          /\ Goto(q, "invite.createInvitation")
       \/ user.state # "absent" /\ Finish(q) /\ UNCHANGED user
    /\ UNCHANGED <<now, invitation, issued, registrations, mode>>

\* idx_invitations_pending_email: at most one pending row.
InviteCreateInvitation(q) ==
    /\ At(q, "invite.createInvitation")
    /\ Pending = {}
    /\ \E i \in Invitation, t \in Token :
        /\ invitation[i].state = "absent"
        /\ Fresh(t)
        /\ invitation' = [invitation EXCEPT
                            ![i] = [state |-> "pending", token |-> t, exp |-> now + TTL]]
    /\ Finish(q)
    /\ UNCHANGED <<now, user, registrations, mode>>

-----------------------------------------------------------------------------
(* register, for a token whose invitation is pending.                      *)

RegisterStart(q, t) ==
    /\ t \in issued
    /\ \E i \in Pending :
        /\ invitation[i].token = t
        /\ Begin(q, IF now > invitation[i].exp THEN "register.expire"
                                               ELSE "register.findUser", i, t)
    /\ UNCHANGED <<now, user, invitation, issued, registrations, mode>>

RegisterExpire(q) ==
    /\ At(q, "register.expire")
    /\ SetStatus(req[q].inv, "expired")
    /\ Finish(q)
    /\ UNCHANGED <<now, user, issued, registrations, mode>>

RegisterFindUser_AnyStatus(q) ==
    /\ At(q, "register.findUser")
    /\ Goto(q, "register.activate")
    /\ UNCHANGED <<now, user, invitation, issued, registrations, mode>>
RegisterFindUser(q) ==
    /\ At(q, "register.findUser")
    /\ \/ user.state = "invited" /\ Goto(q, "register.activate")
       \/ user.state # "invited" /\ Finish(q)
    /\ UNCHANGED <<now, user, invitation, issued, registrations, mode>>

RegisterActivate(q) ==
    /\ At(q, "register.activate")
    /\ user' = [state |-> "active", by |-> req[q].token]
    /\ registrations' = registrations + 1
    /\ Goto(q, "register.accept")
    /\ UNCHANGED <<now, invitation, issued, mode>>

RegisterAccept_Dropped(q) ==
    /\ At(q, "register.accept")
    /\ Finish(q)
    /\ UNCHANGED <<now, user, invitation, issued, registrations, mode>>
RegisterAccept(q) ==
    /\ At(q, "register.accept")
    /\ SetStatus(req[q].inv, "accepted")
    /\ Finish(q)
    /\ UNCHANGED <<now, user, issued, registrations, mode>>

-----------------------------------------------------------------------------
(* resendInvitation *)

ResendStart_AnyStatus(q, i) ==
    /\ invitation[i].state # "absent"
    /\ Begin(q, "resend.update", i, None)
    /\ UNCHANGED <<now, user, invitation, issued, registrations, mode>>
ResendStart(q, i) ==
    /\ i \in Pending
    /\ Begin(q, "resend.update", i, None)
    /\ UNCHANGED <<now, user, invitation, issued, registrations, mode>>

\* The UPDATE sets status = 'pending' again; the index only forbids a second
\* pending row.
ResendUpdate(q) ==
    /\ At(q, "resend.update")
    /\ Pending \subseteq {req[q].inv}
    /\ \E t \in Token :
        /\ Fresh(t)
        /\ invitation' = [invitation EXCEPT ![req[q].inv] =
                            [state |-> "pending", token |-> t, exp |-> now + TTL]]
    /\ Finish(q)
    /\ UNCHANGED <<now, user, registrations, mode>>

-----------------------------------------------------------------------------
(* updateUser; a statement that fails (the index, the database, the end of *)
(* the process); the clock.                                                *)

UpdateUser(q, st) ==
    /\ Free(q)
    /\ user.state \notin {"absent", st}
    /\ user' = [user EXCEPT !.state = st]
    /\ UNCHANGED <<now, invitation, issued, registrations, mode, req>>

Fail(q) ==
    /\ mode = "racing"
    /\ ~At(q, "idle")
    /\ Finish(q)
    /\ UNCHANGED <<now, user, invitation, issued, registrations, mode>>

Tick ==
    /\ now < MaxTime
    /\ now' = now + 1
    /\ UNCHANGED <<user, invitation, issued, registrations, mode, req>>

Next ==
    \/ \E q \in Req :
        \/ InviteStart(q) \/ InviteFindUser(q) \/ InviteCreateUser(q)
        \/ InviteCreateInvitation(q)
        \/ \E t \in Token : RegisterStart(q, t)
        \/ RegisterExpire(q) \/ RegisterFindUser(q) \/ RegisterActivate(q)
        \/ RegisterAccept(q)
        \/ \E i \in Invitation : ResendStart(q, i)
        \/ ResendUpdate(q)
        \/ \E st \in {"active", "disabled"} : UpdateUser(q, st)
        \/ Fail(q)
    \/ Tick

Spec == Init /\ [][Next]_vars

-----------------------------------------------------------------------------
(* Properties *)

\* An address is invited once: however invitations race, its users row is the
\* only one ever inserted, and only the handler that inserted it invites.
OneInvitation ==
    \A i, j \in Invitation :
        invitation[i].state # "absent" /\ invitation[j].state # "absent" => i = j

Serial == mode = "serial"

\* One request at a time, an accepted invitation stays accepted, and a registration
\* never re-enables an account that was disabled, whatever its invitations.
JoinsOnce ==
    [][Serial =>
        /\ \A i \in Invitation :
              invitation[i].state = "accepted" => invitation'[i].state = "accepted"
        /\ user.state = "disabled" => registrations' = registrations]_vars

\* One request at a time, an invitation can be redeemed only for a user that has
\* not registered.
PendingMeansUnregistered ==
    Serial /\ (\A q \in Req : At(q, "idle")) /\ Pending # {} => user.by = None

\* When nothing is in flight and nothing failed, an invited user can still join:
\* an invitation is pending that register or resendInvitation takes.
InvitedCanJoin ==
    Serial /\ (\A q \in Req : At(q, "idle")) /\ user.state = "invited" => Pending # {}

\* The inductive invariant behind OneInvitation: the right to insert the
\* invitation goes to one handler, and it is used up by the insert.
Inviting == {q \in Req : At(q, "invite.createInvitation")}
IInv ==
    /\ TypeOK
    /\ OneInvitation
    /\ \A q \in Inviting : /\ \A i \in Invitation : invitation[i].state = "absent"
                           /\ Inviting = {q}
                           /\ user.state # "absent"
    /\ \A i \in Invitation : invitation[i].state # "absent" => user.state # "absent"
    /\ \A q \in Req : req[q].at \in {"register.expire", "register.accept",
                                     "register.findUser", "register.activate",
                                     "resend.update"}
            => /\ req[q].inv \in Invitation
               /\ invitation[req[q].inv].state # "absent"

\* Behind JoinsOnce and PendingMeansUnregistered: one request at a time, what a
\* handler has read is still so when it writes.
SerialInv ==
    Serial =>
        /\ \A p, q \in Req : At(p, "idle") \/ At(q, "idle") \/ p = q
        /\ Pending # {} /\ (\A q \in Req : ~At(q, "register.accept")) => user.by = None
        /\ \A q \in Req :
            /\ req[q].at \in {"register.expire", "register.findUser", "register.activate",
                              "register.accept", "resend.update"} => req[q].inv \in Pending
            /\ At(q, "invite.createInvitation") => user.by = None
            /\ At(q, "register.activate") => user.state = "invited"
=============================================================================
