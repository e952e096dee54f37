---------------------------- MODULE RecordsProofs ----------------------------
(***************************************************************************)
(* The components of Records keep their promises, for any number of        *)
(* callers and any values of their constants.  Each has an inductive       *)
(* invariant of its own (IInv of its module); a step of Records is one of  *)
(* the component or leaves its variables alone.                            *)
(***************************************************************************)
EXTENDS Records, FiniteSetTheorems, SequenceTheorems, TLAPS

------------------------------------------------------------------------------
(* UserInvitations.  The unique index on users decides which handler inserts the row;
   that handler alone stands before the insert of the invitation, and nobody stands
   there again once the row exists.  That an address has a user of its own only once it
   was redeemed, and once only, is shown of handlers that do not overlap: those that do
   can break it (UserInvitations.tla). *)

USE InvitationAssumption DEF InvitationAssumption

Row == [state : {"absent", "pending", "accepted", "expired"},
        token : Token \cup {None}, exp : Nat]
Holding == {"register.expire", "register.accept", "register.findUser",
            "register.activate", "resend.update"}

LEMMA InitInv == Init => IInv
  BY DEF Init, IInv, TypeOK, OneInvitation, Inviting, At, Idle, NoInvitation

\* Steps of handlers that neither insert nor approach the insert.
LEMMA OtherSteps ==
  ASSUME IInv, TypeOK', NEW q \in Req,
         \A p \in Req \ {q} : req'[p] = req[p],
         req'[q].at # "invite.createInvitation",
         req'[q].at \in Holding =>
             req'[q].inv \in Invitation /\ invitation'[req'[q].inv].state # "absent",
         \A i \in Invitation : invitation'[i].state = "absent"
                                   <=> invitation[i].state = "absent",
         user.state # "absent" => user'.state # "absent"
  PROVE  IInv'
  <1>1. OneInvitation'
    BY DEF IInv, OneInvitation
  <1>2. Inviting' \subseteq Inviting
    BY DEF Inviting, At
  <1>3. \A p \in Inviting' : /\ \A i \in Invitation : invitation'[i].state = "absent"
                             /\ Inviting' = {p}
                             /\ user'.state # "absent"
    BY <1>2 DEF IInv
  <1>4. \A p \in Req : req'[p].at \in Holding =>
            req'[p].inv \in Invitation /\ invitation'[req'[p].inv].state # "absent"
    BY DEF IInv, Holding
  <1> QED BY <1>1, <1>3, <1>4 DEF IInv, Holding

LEMMA InviteSteps ==
  ASSUME IInv, NEW q \in Req,
         \/ InviteStart(q) \/ InviteFindUser(q) \/ InviteCreateUser(q)
         \/ InviteCreateInvitation(q)
  PROVE  IInv'
  <1>1. ASSUME InviteStart(q) PROVE IInv'
    BY <1>1, OtherSteps DEF InviteStart, Begin, IInv, TypeOK, Holding
  <1>2. ASSUME InviteFindUser(q) PROVE IInv'
    BY <1>2, OtherSteps DEF InviteFindUser, Goto, Finish, Idle, IInv, TypeOK, Holding
  <1>3. ASSUME InviteCreateUser(q) PROVE IInv'
    <2>1. CASE user.state # "absent" /\ Finish(q) /\ UNCHANGED user
      BY <1>3, <2>1, OtherSteps DEF InviteCreateUser, Finish, Idle, IInv, TypeOK, Holding
    <2>2. CASE /\ user.state = "absent" /\ user' = [state |-> "invited", by |-> None]
               /\ Goto(q, "invite.createInvitation")
      <3>1. Inviting = {} /\ \A i \in Invitation : invitation[i].state = "absent"
        BY <2>2 DEF IInv
      <3>2. /\ req'[q].at = "invite.createInvitation"
            /\ \A p \in Req \ {q} : req'[p] = req[p]
        BY <2>2 DEF Goto, IInv, TypeOK
      <3>3. Inviting' = {q}
        BY <3>1, <3>2 DEF Inviting, At
      <3>4. TypeOK'
        BY <1>3, <2>2 DEF InviteCreateUser, Goto, IInv, TypeOK
      <3>5. OneInvitation' /\ \A i \in Invitation : invitation'[i].state = "absent"
        BY <1>3, <3>1 DEF InviteCreateUser, OneInvitation
      <3>6. \A p \in Req : req'[p].at \notin Holding
        BY <3>1, <3>2 DEF IInv, Holding
      <3> QED BY <2>2, <3>3, <3>4, <3>5, <3>6 DEF IInv, Holding
    <2> QED BY <1>3, <2>1, <2>2 DEF InviteCreateUser
  <1>4. ASSUME InviteCreateInvitation(q) PROVE IInv'
    <2>1. PICK i \in Invitation, t \in Token :
            invitation' = [invitation EXCEPT
                             ![i] = [state |-> "pending", token |-> t, exp |-> now + TTL]]
      BY <1>4 DEF InviteCreateInvitation
    <2>2. /\ \A j \in Invitation : invitation[j].state = "absent"
          /\ Inviting = {q} /\ user.state # "absent"
      BY <1>4 DEF InviteCreateInvitation, Inviting, At, IInv
    <2>3. TypeOK'
      BY <1>4, <2>1 DEF InviteCreateInvitation, Finish, Fresh, Idle, IInv, TypeOK
    <2>4. OneInvitation' /\ user'.state # "absent"
      BY <1>4, <2>1, <2>2 DEF InviteCreateInvitation, OneInvitation, IInv, TypeOK
    <2>5. req'[q].at = "idle" /\ \A p \in Req \ {q} : req'[p] = req[p]
      BY <1>4 DEF InviteCreateInvitation, Finish, Idle, IInv, TypeOK
    <2>6. Inviting' = {}
      BY <2>2, <2>5 DEF Inviting, At
    <2>7. \A p \in Req : req'[p].at \notin Holding
      BY <2>2, <2>5 DEF IInv, Holding
    <2> QED BY <2>3, <2>4, <2>6, <2>7 DEF IInv, Holding
  <1> QED BY <1>1, <1>2, <1>3, <1>4

LEMMA RegisterSteps ==
  ASSUME IInv, NEW q \in Req,
         \/ \E t \in Token : RegisterStart(q, t)
         \/ RegisterExpire(q) \/ RegisterFindUser(q) \/ RegisterActivate(q)
         \/ RegisterAccept(q)
  PROVE  IInv'
  <1>1. ASSUME NEW t \in Token, RegisterStart(q, t) PROVE IInv'
    BY <1>1, OtherSteps DEF RegisterStart, Pending, Begin, IInv, TypeOK, Holding
  <1>2. ASSUME RegisterExpire(q) PROVE IInv'
    BY <1>2, OtherSteps DEF RegisterExpire, SetStatus, Finish, Idle, At, IInv, TypeOK,
                            Holding
  <1>3. ASSUME RegisterFindUser(q) PROVE IInv'
    BY <1>3, OtherSteps DEF RegisterFindUser, Goto, Finish, Idle, At, IInv, TypeOK,
                            Holding
  <1>4. ASSUME RegisterActivate(q) PROVE IInv'
    BY <1>4, OtherSteps DEF RegisterActivate, Goto, At, IInv, TypeOK, Holding
  <1>5. ASSUME RegisterAccept(q) PROVE IInv'
    BY <1>5, OtherSteps DEF RegisterAccept, SetStatus, Finish, Idle, At, IInv, TypeOK,
                            Holding
  <1> QED BY <1>1, <1>2, <1>3, <1>4, <1>5

LEMMA ResendSteps ==
  ASSUME IInv, NEW q \in Req,
         (\E i \in Invitation : ResendStart(q, i)) \/ ResendUpdate(q)
  PROVE  IInv'
  <1>1. ASSUME NEW i \in Invitation, ResendStart(q, i) PROVE IInv'
    BY <1>1, OtherSteps DEF ResendStart, Pending, Begin, IInv, TypeOK, Holding
  <1>2. ASSUME ResendUpdate(q) PROVE IInv'
    BY <1>2, OtherSteps DEF ResendUpdate, Fresh, Finish, Idle, At, IInv, TypeOK, Holding
  <1> QED BY <1>1, <1>2

LEMMA NextInv == IInv /\ [Next]_vars => IInv'
  <1> SUFFICES ASSUME IInv, [Next]_vars PROVE IInv'
    OBVIOUS
  <1>1. ASSUME NEW q \in Req, NEW st \in {"active", "disabled"}, UpdateUser(q, st)
        PROVE  IInv'
    BY <1>1, OtherSteps DEF UpdateUser, Free, At, IInv, TypeOK, Holding
  <1>2. ASSUME NEW q \in Req, Fail(q) PROVE IInv'
    BY <1>2, OtherSteps DEF Fail, Finish, Idle, IInv, TypeOK, Holding
  <1>3. CASE Tick \/ UNCHANGED vars
    BY <1>3 DEF Tick, vars, IInv, TypeOK, OneInvitation, Inviting, At
  <1> QED BY <1>1, <1>2, <1>3, InviteSteps, RegisterSteps, ResendSteps DEF Next

\* Rows and locals keep their types, and an address is invited at most once,
\* whatever handlers of inviteUser, register and resendInvitation interleave.
THEOREM InvitedOnce == Spec => []OneInvitation
  <1>1. IInv => OneInvitation
    BY DEF IInv
  <1> QED BY <1>1, InitInv, NextInv, PTL DEF Spec

------------------------------------------------------------------------------
(* One request at a time.                                                   *)

\* A handler that begins finds the others idle, and one in progress is the only
\* one: what holds of it after its step holds of them all.
LEMMA SerialStep ==
  ASSUME Serial, SerialInv, NEW q \in Req,
         ~At(q, "idle") \/ Free(q),
         \A p \in Req \ {q} : req'[p] = req[p],
         req'[q].at \in Holding => req'[q].inv \in Pending',
         req'[q].at = "invite.createInvitation" => user'.by = None,
         req'[q].at = "register.activate" => user'.state = "invited",
         Pending' # {} => user'.by = None \/ req'[q].at = "register.accept"
  PROVE  SerialInv'
  <1>1. \A p \in Req \ {q} : req'[p].at = "idle"
    BY DEF SerialInv, Free, At, Serial
  <1> QED BY <1>1 DEF SerialInv, At, Holding

\* A step that leaves the rows alone.
LEMMA SerialRead ==
  ASSUME Serial, SerialInv, NEW q \in Req,
         ~At(q, "idle") \/ Free(q), UNCHANGED <<user, invitation>>,
         \A p \in Req \ {q} : req'[p] = req[p],
         ~At(q, "register.accept"),
         req'[q].at \in Holding => req'[q].inv \in Pending,
         req'[q].at = "invite.createInvitation" => user.by = None,
         req'[q].at = "register.activate" => user.state = "invited"
  PROVE  SerialInv'
  <1>1. Pending' = Pending
    BY DEF Pending
  <1>2. Pending # {} => user.by = None
    BY DEF SerialInv, Free, At, Serial
  <1> QED BY <1>1, <1>2, SerialStep

LEMMA SerialInvites ==
  ASSUME IInv, Serial, SerialInv, NEW q \in Req,
         \/ InviteStart(q) \/ InviteFindUser(q) \/ InviteCreateUser(q)
         \/ InviteCreateInvitation(q)
  PROVE  SerialInv'
  <1>1. ASSUME InviteStart(q) PROVE SerialInv'
    BY <1>1, SerialRead DEF InviteStart, Begin, Free, At, IInv, TypeOK, Holding
  <1>2. ASSUME InviteFindUser(q) PROVE SerialInv'
    BY <1>2, SerialRead DEF InviteFindUser, Goto, Finish, At, Idle, IInv, TypeOK, Holding
  <1>3. ASSUME InviteCreateUser(q) PROVE SerialInv'
    <2>1. CASE user.state # "absent" /\ Finish(q) /\ UNCHANGED user
      BY <1>3, <2>1, SerialRead DEF InviteCreateUser, Finish, At, Idle, IInv, TypeOK, Holding
    <2>2. CASE /\ user.state = "absent" /\ user' = [state |-> "invited", by |-> None]
               /\ Goto(q, "invite.createInvitation")
      BY <1>3, <2>2, SerialStep DEF InviteCreateUser, Goto, At, IInv, TypeOK, Holding
    <2> QED BY <1>3, <2>1, <2>2 DEF InviteCreateUser
  <1>4. ASSUME InviteCreateInvitation(q) PROVE SerialInv'
    BY <1>4, SerialStep DEF InviteCreateInvitation, Finish, Idle, At, IInv, TypeOK, Holding,
       SerialInv
  <1> QED BY <1>1, <1>2, <1>3, <1>4

LEMMA SerialRegisters ==
  ASSUME IInv, Serial, SerialInv, NEW q \in Req,
         \/ \E t \in Token : RegisterStart(q, t)
         \/ RegisterExpire(q) \/ RegisterFindUser(q) \/ RegisterActivate(q)
         \/ RegisterAccept(q)
  PROVE  SerialInv'
  <1>1. ASSUME NEW t \in Token, RegisterStart(q, t) PROVE SerialInv'
    BY <1>1, SerialRead DEF RegisterStart, Begin, Free, At, IInv, TypeOK, Holding
  <1>2. ASSUME RegisterExpire(q) PROVE SerialInv'
    <2>1. user.by = None /\ req[q].at = "register.expire" /\ Pending' \subseteq Pending
      BY <1>2 DEF RegisterExpire, SetStatus, SerialInv, At, Pending, IInv, TypeOK
    <2> QED BY <1>2, <2>1, SerialStep DEF RegisterExpire, Finish, Idle, At, IInv, TypeOK, Holding
  <1>3. ASSUME RegisterFindUser(q) PROVE SerialInv'
    BY <1>3, SerialRead DEF RegisterFindUser, Goto, Finish, Idle, At, IInv, TypeOK, Holding,
       SerialInv
  <1>4. ASSUME RegisterActivate(q) PROVE SerialInv'
    <2>1. req[q].inv \in Pending /\ Pending' = Pending
      BY <1>4 DEF RegisterActivate, SerialInv, At, Pending
    <2> QED BY <1>4, <2>1, SerialStep DEF RegisterActivate, Goto, At, IInv, TypeOK, Holding
  <1>5. ASSUME RegisterAccept(q) PROVE SerialInv'
    <2>1. \A i \in Pending : i = req[q].inv
      BY <1>5 DEF RegisterAccept, SerialInv, At, Pending, IInv, OneInvitation
    <2>2. Pending' = {}
      BY <1>5, <2>1 DEF RegisterAccept, SetStatus, Pending, IInv, TypeOK
    <2> QED BY <1>5, <2>2, SerialStep DEF RegisterAccept, Finish, Idle, At, IInv, TypeOK, Holding
  <1> QED BY <1>1, <1>2, <1>3, <1>4, <1>5

LEMMA SerialResends ==
  ASSUME IInv, Serial, SerialInv, NEW q \in Req,
         (\E i \in Invitation : ResendStart(q, i)) \/ ResendUpdate(q)
  PROVE  SerialInv'
  <1>1. ASSUME NEW i \in Invitation, ResendStart(q, i) PROVE SerialInv'
    BY <1>1, SerialRead DEF ResendStart, Begin, Free, At, IInv, TypeOK, Holding
  <1>2. ASSUME ResendUpdate(q) PROVE SerialInv'
    <2>1. user.by = None
      BY <1>2 DEF ResendUpdate, SerialInv, At
    <2> QED BY <1>2, <2>1, SerialStep DEF ResendUpdate, Finish, Idle, At, IInv, TypeOK, Holding
  <1> QED BY <1>1, <1>2

LEMMA NextSerial == IInv /\ SerialInv /\ [Next]_vars => SerialInv'
  <1> SUFFICES ASSUME IInv, Serial, SerialInv, [Next]_vars PROVE SerialInv'
    <2>1. [Next]_vars => Serial' = Serial
      BY DEF Next, vars, Serial, InviteStart, InviteFindUser, InviteCreateUser,
         InviteCreateInvitation, RegisterStart, RegisterExpire, RegisterFindUser,
         RegisterActivate, RegisterAccept, ResendStart, ResendUpdate, UpdateUser, Fail, Tick
    <2> QED BY <2>1 DEF SerialInv
  <1>1. ASSUME NEW q \in Req, NEW st \in {"active", "disabled"}, UpdateUser(q, st)
        PROVE  SerialInv'
    BY <1>1 DEF UpdateUser, Free, SerialInv, Serial, At, Pending, IInv, TypeOK
  <1>2. ASSUME NEW q \in Req, Fail(q) PROVE SerialInv'
    BY <1>2 DEF Fail, Serial
  <1>3. CASE Tick \/ UNCHANGED vars
    BY <1>3 DEF Tick, vars, SerialInv, Serial, At, Pending
  <1> QED BY <1>1, <1>2, <1>3, SerialInvites, SerialRegisters, SerialResends DEF Next

LEMMA InitSerial == Init => SerialInv
  BY DEF Init, SerialInv, Serial, At, Idle, Pending, NoInvitation

\* One request at a time, an invitation that register or resendInvitation would take
\* is one for a user that has not registered.
THEOREM UnregisteredUntilRedeemed == Spec => []PendingMeansUnregistered
  <1>1. SerialInv => PendingMeansUnregistered
    BY DEF SerialInv, PendingMeansUnregistered, At
  <1> QED BY <1>1, InitInv, NextInv, InitSerial, NextSerial, PTL DEF Spec

\* What a step of Spec does to an accepted invitation and a disabled user.
LEMMA JoinStep ==
  ASSUME IInv, SerialInv, Next, Serial
  PROVE  /\ \A i \in Invitation :
              invitation[i].state = "accepted" => invitation'[i].state = "accepted"
         /\ user.state = "disabled" => registrations' = registrations
  <1>1. ASSUME NEW q \in Req, RegisterActivate(q)
        PROVE  user.state # "disabled" /\ invitation' = invitation
    BY <1>1 DEF RegisterActivate, SerialInv, At
  <1>2. ASSUME NEW q \in Req, RegisterExpire(q) \/ RegisterAccept(q) \/ ResendUpdate(q)
        PROVE  /\ registrations' = registrations
               /\ \A i \in Invitation : invitation[i].state = "accepted"
                                            => invitation'[i].state = "accepted"
    <2>1. req[q].inv \in Pending
      BY <1>2 DEF RegisterExpire, RegisterAccept, ResendUpdate, SerialInv, At
    <2>2. \A i \in Invitation : i # req[q].inv => invitation'[i] = invitation[i]
      BY <1>2 DEF RegisterExpire, RegisterAccept, ResendUpdate, SetStatus, IInv, TypeOK
    <2>3. registrations' = registrations
      BY <1>2 DEF RegisterExpire, RegisterAccept, ResendUpdate
    <2> QED BY <2>1, <2>2, <2>3 DEF Pending
  <1>3. ASSUME NEW q \in Req, InviteCreateInvitation(q)
        PROVE  /\ registrations' = registrations
               /\ \A i \in Invitation : invitation[i].state = "accepted"
                                            => invitation'[i].state = "accepted"
    BY <1>3 DEF InviteCreateInvitation, IInv, TypeOK
  <1>4. ASSUME \/ \E q \in Req :
                    \/ InviteStart(q) \/ InviteFindUser(q) \/ InviteCreateUser(q)
                    \/ RegisterFindUser(q) \/ Fail(q)
                    \/ \E t \in Token : RegisterStart(q, t)
                    \/ \E i \in Invitation : ResendStart(q, i)
                    \/ \E st \in {"active", "disabled"} : UpdateUser(q, st)
               \/ Tick
        PROVE  UNCHANGED <<invitation, registrations>>
    BY <1>4 DEF InviteStart, InviteFindUser, InviteCreateUser, RegisterFindUser, Fail,
       RegisterStart, ResendStart, UpdateUser, Tick
  <1> QED BY <1>1, <1>2, <1>3, <1>4 DEF Next

\* One request at a time, an invitation is accepted once and for all, and register
\* never activates a user whom an administrator disabled.
THEOREM RedeemedOnce == Spec => JoinsOnce
  <1> DEFINE Step == Serial =>
        /\ \A i \in Invitation :
              invitation[i].state = "accepted" => invitation'[i].state = "accepted"
        /\ user.state = "disabled" => registrations' = registrations
  <1>1. IInv /\ SerialInv /\ [Next]_vars => [Step]_vars
    BY JoinStep
  <1>2. JoinsOnce <=> [][Step]_vars
    BY DEF JoinsOnce
  <1> HIDE DEF Step
  <1> QED BY <1>1, <1>2, InitInv, NextInv, InitSerial, NextSerial, PTL DEF Spec

HIDE InvitationAssumption DEF InvitationAssumption

------------------------------------------------------------------------------
(* ServiceAccounts *)

LEMMA KeysNumbers == Grace \in Nat \ {0} /\ MaxKeys \in Nat \ {0} /\ MaxHours \in Nat
  BY RecordsAssumption DEF RecordsAssumption

USE KeysNumbers

LEMMA KeysIdle == Keys!Idle \in Keys!Plan /\ Keys!Idle.op = "idle"
  BY DEF Keys!Idle, Keys!Plan, Keys!NoKey

LEMMA KeysInitInv ==
  Keys!Init => Keys!IInv
  <1> SUFFICES ASSUME Keys!Init PROVE Keys!IInv
    OBVIOUS
  <1>1. 1 \in Keys!Key /\ MaxHours + Grace \in Nat
    BY DEF Keys!Key
  <1>2. account \in Keys!Row /\ account.key = 1 /\ account.previous = Keys!NoKey
    BY <1>1 DEF Keys!Init, Keys!Row, Keys!NoKey
  <1>3. call \in [Call -> Keys!Plan] /\ \A c \in Call : call[c].op = "idle"
    BY KeysIdle DEF Keys!Init
  <1>4. replaced \in [Keys!Key -> Nat] /\ \A k \in Keys!Key : replaced[k] = MaxHours + Grace
    BY <1>1 DEF Keys!Init, Keys!Key
  <1>5. hour = 0 /\ newest = 1 /\ revoked = FALSE /\ 0 \in 0..MaxHours
    BY DEF Keys!Init
  <1>6. Keys!TypeOK
    BY <1>1, <1>2, <1>3, <1>4, <1>5 DEF Keys!TypeOK
  <1> QED BY <1>2, <1>3, <1>4, <1>5, <1>6 DEF Keys!IInv

LEMMA KeysStep ==
  Keys!IInv /\ [Keys!Next]_keyVars => Keys!IInv'
  <1> SUFFICES ASSUME Keys!IInv, [Keys!Next]_keyVars PROVE Keys!IInv'
    OBVIOUS
  <1> USE DEF Keys!IInv
  <1>0. Keys!TypeOK'
    <2>1. ASSUME NEW c \in Call, Keys!RotateRead(c) PROVE Keys!TypeOK'
      <3>1. newest' \in Keys!Key /\ hour + Grace \in Nat
        BY <2>1 DEF Keys!RotateRead, Keys!TypeOK, Keys!Key
      <3>2. [op |-> "rotate", key |-> newest', until |-> hour + Grace] \in Keys!Plan
        BY <3>1 DEF Keys!Plan
      <3> QED BY <2>1, <3>1, <3>2 DEF Keys!RotateRead, Keys!TypeOK
    <2>2. ASSUME NEW c \in Call, Keys!RotateUpdate(c) PROVE Keys!TypeOK'
      <3>1. call[c].key \in Keys!Key /\ call[c].until \in Nat
        BY <2>2 DEF Keys!RotateUpdate, Keys!TypeOK, Keys!Plan
      <3>2. [account EXCEPT !.key = call[c].key, !.previous = account.key,
                            !.until = call[c].until] \in Keys!Row
        BY <3>1 DEF Keys!TypeOK, Keys!Row
      <3>3. hour \in Nat
        BY DEF Keys!TypeOK
      <3> QED BY <2>2, <3>2, <3>3, KeysIdle DEF Keys!RotateUpdate, Keys!TypeOK
    <2>3. ASSUME NEW c \in Call, Keys!RevokeRead(c) PROVE Keys!TypeOK'
      <3>1. [call[c] EXCEPT !.op = "revoke"] \in Keys!Plan
        BY <2>3 DEF Keys!TypeOK, Keys!Plan
      <3> QED BY <2>3, <3>1 DEF Keys!RevokeRead, Keys!TypeOK
    <2>4. ASSUME NEW c \in Call, Keys!RevokeUpdate(c) PROVE Keys!TypeOK'
      <3>1. [account EXCEPT !.status = "revoked", !.previous = Keys!NoKey, !.until = 0] \in Keys!Row
        BY DEF Keys!TypeOK, Keys!Row
      <3> QED BY <2>4, <3>1, KeysIdle DEF Keys!RevokeUpdate, Keys!TypeOK
    <2>5. ASSUME NEW c \in Call, Keys!Fail(c) PROVE Keys!TypeOK'
      BY <2>5, KeysIdle DEF Keys!Fail, Keys!TypeOK
    <2>6. CASE Keys!Pass
      BY <2>6 DEF Keys!Pass, Keys!TypeOK
    <2>7. CASE UNCHANGED keyVars
      BY <2>7 DEF keyVars, Keys!TypeOK
    <2> QED BY <2>1, <2>2, <2>3, <2>4, <2>5, <2>6, <2>7 DEF Keys!Next
  <1>1. ASSUME NEW c \in Call, Keys!RotateRead(c) PROVE Keys!IInv'
    <2>1. /\ newest' = newest + 1 /\ newest' \in Keys!Key
          /\ call' = [call EXCEPT ![c] = [op |-> "rotate", key |-> newest', until |-> hour + Grace]]
          /\ UNCHANGED <<hour, account, replaced, revoked>>
      BY <1>1 DEF Keys!RotateRead, Keys!TypeOK, Keys!Key
    <2>2. \A d \in Call \ {c} : call'[d] = call[d]
      BY <2>1 DEF Keys!TypeOK
    <2>3. call'[c] = [op |-> "rotate", key |-> newest', until |-> hour + Grace]
      BY <2>1 DEF Keys!TypeOK
    <2>4. newest \in Nat /\ account.key \in Nat /\ newest' > newest
      BY <2>1 DEF Keys!TypeOK, Keys!Row, Keys!Key
    <2>5. \A d \in Call \ {c} : call[d].op = "rotate" => call[d].key # newest' /\ call[d].key <= newest'
      BY <2>4, <2>1 DEF Keys!Key
    <2>6. account.key # newest' /\ account.key <= newest'
      BY <2>1, <2>4
    <2>7. \A k \in Keys!Key : k = account'.key \/ k > newest' => replaced'[k] = MaxHours + Grace
      BY <2>1, <2>4 DEF Keys!Key
    <2>8. replaced'[newest'] = MaxHours + Grace
      BY <2>1, <2>4
    <2>9. \A d \in Call : call'[d].op = "rotate" =>
            /\ call'[d].key \in Keys!Key /\ call'[d].key <= newest' /\ call'[d].key # account'.key
            /\ replaced'[call'[d].key] = MaxHours + Grace
            /\ call'[d].until <= hour' + Grace
            /\ \A e \in Call \ {d} : call'[e].op = "rotate" => call'[e].key # call'[d].key
      <3>1. ASSUME NEW d \in Call, call'[d].op = "rotate", d # c
            PROVE  /\ call'[d].key \in Keys!Key /\ call'[d].key <= newest' /\ call'[d].key # account'.key
                   /\ replaced'[call'[d].key] = MaxHours + Grace
                   /\ call'[d].until <= hour' + Grace
                   /\ \A e \in Call \ {d} : call'[e].op = "rotate" => call'[e].key # call'[d].key
        BY <3>1, <2>1, <2>2, <2>3, <2>5
      <3>2. /\ call'[c].key = newest' /\ call'[c].until = hour + Grace
        BY <2>3
      <3>3. hour + Grace <= hour' + Grace
        BY <2>1 DEF Keys!TypeOK
      <3> QED BY <3>1, <3>2, <3>3, <2>1, <2>2, <2>5, <2>6, <2>8
    <2> QED BY <1>0, <2>1, <2>6, <2>7, <2>9
  <1>2. ASSUME NEW c \in Call, Keys!RotateUpdate(c) PROVE Keys!IInv'
    <2>1. /\ call[c].op = "rotate"
          /\ account' = [account EXCEPT !.key = call[c].key, !.previous = account.key,
                                        !.until = call[c].until]
          /\ replaced' = [replaced EXCEPT ![account.key] = hour]
          /\ call'[c].op = "idle"
          /\ \A d \in Call \ {c} : call'[d] = call[d]
          /\ UNCHANGED <<hour, newest, revoked>>
      BY <1>2, KeysIdle DEF Keys!RotateUpdate, Keys!TypeOK
    <2>2. /\ \A k \in Keys!Key : k # account.key => replaced'[k] = replaced[k]
          /\ replaced'[account.key] = hour
      <3>1. account.key \in Keys!Key /\ replaced \in [Keys!Key -> Nat]
        BY DEF Keys!TypeOK, Keys!Row
      <3> QED BY <2>1, <3>1
    <2>3. /\ account'.status = account.status /\ account'.key = call[c].key
          /\ account'.previous = account.key /\ account'.until = call[c].until
      BY <2>1 DEF Keys!TypeOK, Keys!Row
    <2>4. call[c].key # account.key /\ call[c].key <= newest /\ account.key \in Keys!Key
      BY <2>1 DEF Keys!TypeOK, Keys!Row
    <2>5. \A k \in Keys!Key : k = account'.key \/ k > newest' => replaced'[k] = MaxHours + Grace
      <3>1. replaced[call[c].key] = MaxHours + Grace /\ call[c].key \in Keys!Key
        BY <2>1
      <3>2. \A k \in Keys!Key : k > newest => k # account.key /\ replaced[k] = MaxHours + Grace
        BY DEF Keys!TypeOK, Keys!Key, Keys!Row
      <3> QED BY <2>1, <2>2, <2>3, <2>4, <3>1, <3>2
    <2>6. account'.until <= replaced'[account'.previous] + Grace
      BY <2>1, <2>2, <2>3
    <2>7. \A d \in Call : call'[d].op = "rotate" =>
            /\ d # c /\ call'[d] = call[d] /\ call[d].key \in Keys!Key
            /\ call[d].key # account.key /\ call[d].key # account'.key
      BY <2>1, <2>3
    <2>8. \A d \in Call : call'[d].op = "rotate" => replaced'[call'[d].key] = MaxHours + Grace
      BY <2>2, <2>7
    <2> QED BY <1>0, <2>1, <2>3, <2>4, <2>5, <2>6, <2>7, <2>8
  <1>3. ASSUME NEW c \in Call, Keys!RevokeRead(c) \/ Keys!RevokeUpdate(c) \/ Keys!Fail(c) PROVE Keys!IInv'
    <2>1. \A d \in Call : call'[d].op = "rotate" => call'[d] = call[d]
      <3>1. CASE Keys!RevokeRead(c)
        <4>1. call'[c] = [call[c] EXCEPT !.op = "revoke"] /\ call[c] \in Keys!Plan
          BY <3>1 DEF Keys!RevokeRead, Keys!TypeOK
        <4>2. call'[c].op = "revoke"
          BY <4>1 DEF Keys!Plan
        <4> QED BY <3>1, <4>2 DEF Keys!RevokeRead, Keys!TypeOK
      <3>2. CASE Keys!RevokeUpdate(c) \/ Keys!Fail(c)
        BY <3>2, KeysIdle DEF Keys!RevokeUpdate, Keys!Fail, Keys!TypeOK
      <3> QED BY <1>3, <3>1, <3>2
    <2>2. /\ account'.key = account.key
          /\ account' # account => account'.previous = Keys!NoKey
          /\ revoked' => account'.status = "revoked"
      <3>1. CASE Keys!RevokeUpdate(c)
        BY <3>1 DEF Keys!RevokeUpdate, Keys!TypeOK, Keys!Row
      <3>2. CASE Keys!RevokeRead(c) \/ Keys!Fail(c)
        BY <3>2 DEF Keys!RevokeRead, Keys!Fail
      <3> QED BY <1>3, <3>1, <3>2
    <2>3. UNCHANGED <<hour, newest, replaced>>
      BY <1>3 DEF Keys!RevokeRead, Keys!RevokeUpdate, Keys!Fail
    <2> QED BY <1>0, <2>1, <2>2, <2>3
  <1>4. CASE Keys!Pass
    <2>1. hour \in Nat /\ hour' = hour + 1 /\ UNCHANGED <<account, newest, call, replaced, revoked>>
      BY <1>4 DEF Keys!Pass, Keys!TypeOK
    <2>2. \A d \in Call : call[d].op = "rotate" => call[d].until <= hour' + Grace
      BY <2>1 DEF Keys!TypeOK, Keys!Plan
    <2> QED BY <1>0, <2>1, <2>2
  <1>5. CASE UNCHANGED keyVars
    BY <1>0, <1>5 DEF keyVars, Keys!TypeOK
  <1> QED BY <1>1, <1>2, <1>3, <1>4, <1>5 DEF Keys!Next

\* However rotations and revocations race (modules/service-accounts/service.ts), a key
\* that was replaced is dead when its grace period is over, and every key is when a
\* revocation was answered.
THEOREM ReplacedKeysDie == RecordsSpec => []KeysDie
  <1>1. Keys!IInv => KeysDie
    BY DEF Keys!IInv, Keys!TypeOK, KeysDie, Keys!KeysDie, Keys!FindByKeyHash, Keys!Row,
       Keys!Key, Keys!NoKey
  <1>2. RecordsInit => Keys!IInv
    BY KeysInitInv DEF RecordsInit
  <1>3. [RecordsNext]_recordsVars => [Keys!Next]_keyVars
    BY DEF RecordsNext, recordsVars
  <1> QED BY <1>1, <1>2, <1>3, KeysStep, PTL DEF RecordsSpec

HIDE KeysNumbers

------------------------------------------------------------------------------
(* Households *)

LEMMA HousePlans ==
  /\ House!Idle.op = "idle" /\ [op |-> "update"].op = "update"
  /\ \A o \in House!Moving, n \in House!Status :
        /\ [op |-> o, next |-> n].op = o /\ [op |-> o, next |-> n].next = n
        /\ [op |-> o, next |-> n] # House!Idle
  BY DEF House!Idle, House!Moving, House!Status

\* What call c makes of its plan.
LEMMA HouseGoto ==
  ASSUME House!TypeOK, NEW c \in Call, NEW to, House!Goto(c, to)
  PROVE  changes'[c] = to /\ \A d \in Call \ {c} : changes'[d] = changes[d]
  BY DEF House!TypeOK, House!Goto

\* A transition under way goes on or ends.
LEMMA HouseMove ==
  ASSUME House!IInv, House!TypeOK', NEW c \in Call,
         changes[c].op \in House!Moving, ~sealed, crossed' = crossed,
         \A d \in Call \ {c} : changes'[d] = changes[d],
         changes'[c].op = "announce" => changes'[c].next = status',
         \/ crossed
         \/ changes'[c].op = "announce"
         \/ changes'[c].op # "announce" /\ changes[c].op # "announce"
              /\ UNCHANGED <<status, heard>> /\ (lost => lost')
         \/ heard' = status'
         \/ lost',
         sealed' <=> status' = "closed" /\ House!Quiet'
  PROVE  House!IInv'
  <1>1. sealed' => status' = "closed" /\ \A d \in Call : changes'[d].op \notin House!Moving
    BY HousePlans DEF House!Quiet, House!Moving
  <1>2. ASSUME ~crossed
        PROVE  /\ \A d \in Call \ {c} : changes'[d].op \notin House!Moving
               /\ heard' = status' \/ lost' \/ \E d \in Call : changes'[d].op = "announce"
    BY <1>2 DEF House!IInv, House!Moving
  <1> QED BY <1>1, <1>2 DEF House!IInv, House!Moving

HousePlan == {House!Idle, [op |-> "update"]}
                \cup [op : House!Moving, next : House!Status]

LEMMA HouseTypes ==
  ASSUME House!TypeOK, House!Next
  PROVE  House!TypeOK'
  <1> DEFINE Rest == /\ {status', heard'} \subseteq House!Status
                     /\ {crossed', lost'} \subseteq BOOLEAN
  <1>0. sealed' \in BOOLEAN
    BY DEF House!Next, House!TypeOK
  <1>1. ASSUME NEW c \in Call, NEW to \in HousePlan, House!Goto(c, to), Rest
        PROVE  House!TypeOK'
    BY <1>0, <1>1 DEF House!Goto, House!TypeOK, HousePlan
  <1>2. PICK c \in Call :
          \/ \E next \in House!Status : House!Read(c, next)
          \/ House!Count(c) \/ House!Write(c) \/ House!Announce(c)
          \/ House!UpdateRead(c) \/ House!UpdateWrite(c) \/ House!Fail(c)
    BY DEF House!Next, House!Status
  <1>3. House!Idle \in HousePlan /\ [op |-> "update"] \in HousePlan
        /\ changes[c] \in HousePlan
    BY DEF HousePlan, House!TypeOK
  <1>4. changes[c].op \in House!Moving => changes[c].next \in House!Status
    BY <1>3 DEF HousePlan, House!Moving, House!Idle
  <1>5. ASSUME NEW next \in House!Status, House!Read(c, next) PROVE House!TypeOK'
    <2>1. PICK o \in {"count", "write"} : House!Goto(c, [op |-> o, next |-> next])
      BY <1>5 DEF House!Read
    <2>2. [op |-> o, next |-> next] \in HousePlan
      BY DEF HousePlan, House!Moving
    <2> QED BY <1>1, <1>5, <2>1, <2>2 DEF House!Read, House!TypeOK
  <1>6. ASSUME House!Count(c) PROVE House!TypeOK'
    <2>1. [op |-> "write", next |-> "closed"] \in HousePlan
      BY DEF HousePlan, House!Moving, House!Status
    <2> QED BY <1>1, <1>3, <1>6, <2>1 DEF House!Count, House!TypeOK
  <1>7. ASSUME House!Write(c) PROVE House!TypeOK'
    <2>1. changes[c].next \in House!Status
      BY <1>4, <1>7 DEF House!Write, House!Moving
    <2>2. [op |-> "announce", next |-> changes[c].next] \in HousePlan
      BY <2>1 DEF HousePlan, House!Moving
    <2> QED BY <1>1, <1>7, <2>1, <2>2 DEF House!Write, House!TypeOK
  <1>8. ASSUME House!Announce(c) PROVE House!TypeOK'
    <2>1. changes[c].next \in House!Status
      BY <1>4, <1>8 DEF House!Announce, House!Moving
    <2> QED BY <1>1, <1>3, <1>8, <2>1 DEF House!Announce, House!TypeOK
  <1>9. ASSUME House!UpdateRead(c) \/ House!UpdateWrite(c) \/ House!Fail(c)
        PROVE  House!TypeOK'
    BY <1>1, <1>3, <1>9 DEF House!UpdateRead, House!UpdateWrite, House!Fail, House!TypeOK
  <1> QED BY <1>2, <1>5, <1>6, <1>7, <1>8, <1>9

LEMMA HouseStep == House!IInv /\ [House!Next]_houseVars => House!IInv'
  <1> SUFFICES ASSUME House!IInv, House!Next PROVE House!IInv'
    BY DEF houseVars, House!IInv, House!TypeOK
  <1>1. House!TypeOK /\ House!TypeOK'
    BY HouseTypes DEF House!IInv
  <1>2. sealed' = (sealed \/ (status' = "closed" /\ House!Quiet'))
    BY DEF House!Next
  <1>3. sealed' /\ ~sealed => \A d \in Call : changes'[d].op = "idle"
    BY <1>1, <1>2 DEF House!TypeOK, House!Quiet, House!Idle
  <1>4. ASSUME NEW c \in Call, NEW next \in House!Status, House!Read(c, next)
        PROVE  House!IInv'
    <2>1. ~sealed
      BY <1>4 DEF House!Read, House!MayBecome, House!IInv, House!Status
    <2>2. PICK o \in {"count", "write"} : House!Goto(c, [op |-> o, next |-> next])
      BY <1>4 DEF House!Read
    <2>3. changes'[c].op = o /\ \A d \in Call \ {c} : changes'[d] = changes[d]
      BY <1>1, <2>2, HouseGoto
    <2>4. ~sealed'
      BY <1>3, <2>1, <2>3
    <2>5. changes[c].op = "idle" /\ UNCHANGED <<status, heard, lost>>
      BY <1>4 DEF House!Read, House!Idle
    <2>6. ~crossed' => ~crossed /\ \A d \in Call : changes[d].op \notin House!Moving
      BY <1>4 DEF House!Read, House!Moving
    <2> QED BY <1>1, <2>3, <2>4, <2>5, <2>6 DEF House!IInv, House!Moving
  <1>5. ASSUME NEW c \in Call,
               House!Count(c) \/ House!Write(c) \/ House!Announce(c)
                 \/ (House!Fail(c) /\ changes[c].op \in House!Moving)
        PROVE  House!IInv'
    <2>1. changes[c].op \in House!Moving /\ ~sealed /\ crossed' = crossed
      BY <1>5 DEF House!Count, House!Write, House!Announce, House!Fail, House!Moving,
         House!IInv
    <2>2. sealed' <=> status' = "closed" /\ House!Quiet'
      BY <1>1, <1>2, <2>1 DEF House!TypeOK
    <2>3. PICK to : House!Goto(c, to)
      BY <1>5 DEF House!Count, House!Write, House!Announce, House!Fail
    <2>4. \A d \in Call \ {c} : changes'[d] = changes[d]
      BY <1>1, <2>3, HouseGoto
    <2>5. CASE House!Count(c)
      <3>1. changes'[c].op \in {"idle", "write"}
        BY <1>1, <2>5, HouseGoto, HousePlans DEF House!Count
      <3> QED BY <1>1, <2>1, <2>2, <2>4, <2>5, <3>1, HouseMove DEF House!Count
    <2>6. CASE House!Write(c)
      <3>1. changes'[c].op = "announce" /\ changes'[c].next = status'
        BY <1>1, <2>6, HouseGoto DEF House!Write
      <3> QED BY <1>1, <2>1, <2>2, <2>4, <3>1, HouseMove
    <2>7. CASE House!Announce(c)
      <3>1. changes'[c].op = "idle" /\ status' = status
        BY <1>1, <2>7, HouseGoto, HousePlans DEF House!Announce
      <3>2. crossed \/ heard' = status' \/ lost'
        BY <2>7, <3>1 DEF House!Announce, House!IInv
      <3> QED BY <1>1, <2>1, <2>2, <2>4, <3>1, <3>2, HouseMove
    <2>8. CASE House!Fail(c)
      <3>1. changes'[c].op = "idle" /\ lost'
        BY <1>1, <2>8, HouseGoto, HousePlans DEF House!Fail
      <3> QED BY <1>1, <2>1, <2>2, <2>4, <3>1, HouseMove
    <2> QED BY <1>5, <2>5, <2>6, <2>7, <2>8
  <1>6. ASSUME NEW c \in Call,
               House!UpdateRead(c) \/ House!UpdateWrite(c)
                 \/ (House!Fail(c) /\ changes[c].op \notin House!Moving)
        PROVE  House!IInv'
    <2>1. changes[c].op \notin House!Moving /\ UNCHANGED <<status, heard, crossed>>
          /\ (lost => lost')
      BY <1>6, HousePlans DEF House!UpdateRead, House!UpdateWrite, House!Fail, House!Moving
    <2>2. /\ changes'[c].op \in {"idle", "update"}
          /\ \A d \in Call \ {c} : changes'[d] = changes[d]
      BY <1>1, <1>6, HouseGoto, HousePlans DEF House!UpdateRead, House!UpdateWrite, House!Fail
    <2>3. \A d \in Call : changes'[d].op \in House!Moving
                             => d # c /\ changes[d].op \in House!Moving
      BY <2>2 DEF House!Moving
    <2>4. sealed' => status' = "closed" /\ \A d \in Call : changes'[d].op \notin House!Moving
      <3>1. CASE sealed
        BY <2>1, <2>3, <3>1 DEF House!IInv
      <3>2. CASE ~sealed
        BY <1>2, <1>3, <3>2 DEF House!Moving
      <3> QED BY <3>1, <3>2
    <2>5. ASSUME ~crossed
          PROVE  heard' = status' \/ lost' \/ \E d \in Call : changes'[d].op = "announce"
      BY <2>1, <2>2, <2>5 DEF House!IInv, House!Moving
    <2> QED BY <1>1, <2>1, <2>2, <2>3, <2>4, <2>5 DEF House!IInv, House!Moving
  <1> QED BY <1>4, <1>5, <1>6 DEF House!Next, House!Status

\* A household that was closed while nobody was calling stays closed, and once calls
\* are over the last household.status_changed tells its status, unless transitions
\* crossed or one failed (modules/households/service.ts).
THEOREM ClosedStaysClosed == RecordsSpec => []HouseholdSettled
  <1>1. House!IInv => HouseholdSettled
    BY HousePlans DEF House!IInv, HouseholdSettled, House!HouseholdSettled, House!Quiet
  <1>2. RecordsInit => House!IInv
    BY HousePlans DEF RecordsInit, House!Init, House!IInv, House!TypeOK, House!Status,
       House!Moving
  <1>3. [RecordsNext]_recordsVars => [House!Next]_houseVars
    BY DEF RecordsNext, recordsVars
  <1> QED BY <1>1, <1>2, <1>3, HouseStep, PTL DEF RecordsSpec

------------------------------------------------------------------------------
(* Impersonation *)

LEMMA ActingNumbers == Durations \subseteq Nat
  BY RecordsAssumption DEF RecordsAssumption

LEMMA ActingGoto ==
  ASSUME Acting!TypeOK, NEW c \in Call, NEW to, Acting!Goto(c, to)
  PROVE  starts'[c] = to /\ \A d \in Call \ {c} : starts'[d] = starts[d]
  BY DEF Acting!TypeOK, Acting!Goto

\* What the fields of a plan are, by what the caller does next.
LEMMA ActingPlans ==
  ASSUME NEW p \in Acting!Plan
  PROVE  /\ p.op \in {"idle", "roles", "check", "create", "sign", "end"}
         /\ p.op = "idle" <=> p = Acting!Idle
         /\ p.op \in {"roles", "check", "create", "sign"} => p.asked \in Nat
         /\ p.op \in {"roles", "sign", "end"} => p.session = 1
         /\ p.op \in {"check", "create"} => p.target \in User
         /\ p.op = "check" => p.lasts \in Durations
         /\ p.op = "create" => p.expires \in Nat /\ p.senior \in BOOLEAN
         /\ p.op = "sign" => p.first \in BOOLEAN /\ p.senior \in BOOLEAN
  BY DEF Acting!Plan, Acting!Idle

LEMMA ActingIdle == Acting!Idle \in Acting!Plan /\ Acting!Idle.op = "idle"
  BY DEF Acting!Idle, Acting!Plan

\* What IInv says of one caller.
ActingOK(p) ==
    /\ p.op \in {"roles", "check", "create", "sign"} => p.asked <= minute
    /\ p.op \in {"roles", "sign"} => Acting!Running(p.asked)
    /\ p.op = "create" => p.asked <= p.expires /\ ~p.senior
    /\ p.op = "sign" => ~(p.first /\ p.senior)
    /\ p.op = "end" => rows # <<>>

\* A step of caller c that creates no session and ends none.
LEMMA ActingMove ==
  ASSUME Acting!IInv, NEW c \in Call, NEW to \in Acting!Plan, Acting!Goto(c, to),
         UNCHANGED <<minute, rows, senior>>,
         tokens' = tokens \/ \E t \in Acting!SignedToken :
             /\ tokens' = tokens \cup {t}
             /\ t.asked <= minute /\ Acting!Running(t.asked) /\ ~(t.first /\ t.senior),
         ActingOK(to)
  PROVE  Acting!IInv'
  <1>1. Acting!TypeOK'
    BY DEF Acting!IInv, Acting!TypeOK, Acting!Goto
  <1>2. \A a : Acting!Running(a)' <=> Acting!Running(a)
    BY DEF Acting!Running
  <1>3. starts'[c] = to /\ \A d \in Call \ {c} : starts'[d] = starts[d]
    BY ActingGoto DEF Acting!IInv
  <1>4. ASSUME NEW d \in Call PROVE ActingOK(starts[d])'
    <2>1. starts'[d] = to \/ starts'[d] = starts[d]
      BY <1>3
    <2>2. ActingOK(starts[d])
      BY DEF Acting!IInv, ActingOK
    <2> QED BY <1>2, <2>1, <2>2 DEF ActingOK
  <1>5. \A t \in tokens' : t.asked <= minute /\ Acting!Running(t.asked) /\ ~(t.first /\ t.senior)
    BY DEF Acting!IInv
  <1> QED BY <1>1, <1>2, <1>4, <1>5 DEF Acting!IInv, ActingOK

\* The session there is.
LEMMA ActingRow ==
  ASSUME Acting!IInv, rows # <<>>
  PROVE  /\ Len(rows) = 1 /\ DOMAIN rows = {1} /\ rows[1] \in Acting!Row
         /\ rows[1].expires \in Nat /\ rows[1].ended \in Nat /\ rows[1].target \in User
  <1>2. rows \in Seq(Acting!Row) /\ Len(rows) <= 1
    BY DEF Acting!IInv, Acting!TypeOK
  <1>1. Len(rows) = 1
    <2>1. Len(rows) \in Nat /\ Len(rows) # 0
      BY <1>2, LenProperties, EmptySeq
    <2>2. \A n \in Nat : n # 0 /\ n <= 1 => n = 1
      OBVIOUS
    <2> QED BY <1>2, <2>1, <2>2
  <1>3. DOMAIN rows = {1} /\ rows[1] \in Acting!Row
    BY <1>1, <1>2
  <1> QED BY <1>1, <1>3 DEF Acting!Row

LEMMA ActingReads ==
  ASSUME Acting!IInv, NEW c \in Call,
         \/ Acting!StartFind(c) \/ Acting!ReadRoles(c) \/ Acting!CheckTarget(c)
         \/ Acting!EndFind(c) \/ Acting!Fail(c)
  PROVE  Acting!IInv'
  <1> DEFINE p == starts[c]
  <1>0. p \in Acting!Plan /\ ActingOK(p) /\ minute \in Nat /\ ActingOK(Acting!Idle)
    BY ActingIdle DEF Acting!IInv, Acting!TypeOK, ActingOK
  <1> HIDE DEF p
  <1>1. CASE Acting!StartFind(c)
    <2>1. CASE /\ rows # <<>> /\ rows[1].ended = 0 /\ rows[1].expires >= minute
               /\ Acting!Goto(c, [op |-> "roles", asked |-> minute, session |-> 1])
      <3>1. [op |-> "roles", asked |-> minute, session |-> 1] \in Acting!Plan
        BY <1>0 DEF Acting!Plan
      <3>2. ActingOK([op |-> "roles", asked |-> minute, session |-> 1])
        BY <1>0, <2>1, ActingRow DEF ActingOK, Acting!Running
      <3> QED BY <1>1, <2>1, <3>1, <3>2, ActingMove DEF Acting!StartFind
    <2>2. ASSUME NEW u \in User, NEW n \in Durations,
                 Acting!Goto(c, [op |-> "check", asked |-> minute, target |-> u, lasts |-> n])
          PROVE  Acting!IInv'
      <3>1. [op |-> "check", asked |-> minute, target |-> u, lasts |-> n] \in Acting!Plan
        BY <1>0 DEF Acting!Plan
      <3>2. ActingOK([op |-> "check", asked |-> minute, target |-> u, lasts |-> n])
        BY <1>0 DEF ActingOK
      <3> QED BY <1>1, <2>2, <3>1, <3>2, ActingMove DEF Acting!StartFind
    <2> QED BY <1>1, <2>1, <2>2 DEF Acting!StartFind
  <1>2. CASE Acting!ReadRoles(c)
    <2>1. PICK to : to = [op |-> "sign", asked |-> p.asked, session |-> p.session,
                first |-> FALSE, senior |-> rows[p.session].target \in senior]
      OBVIOUS
    <2>2. p.op = "roles" /\ Acting!Goto(c, to)
      BY <1>2, <2>1 DEF Acting!ReadRoles, p
    <2>3. to \in Acting!Plan
      BY <1>0, <2>1, <2>2, ActingPlans DEF Acting!Plan
    <2>4. ActingOK(to)
      BY <1>0, <2>1, <2>2 DEF ActingOK
    <2> QED BY <1>2, <2>2, <2>3, <2>4, ActingMove DEF Acting!ReadRoles
  <1>3. CASE Acting!CheckTarget(c)
    <2> DEFINE roles == p.target \in senior
               to == [op |-> "create", asked |-> p.asked, target |-> p.target,
                      expires |-> minute + p.lasts, senior |-> roles]
    <2>1. p.op = "check" /\ Acting!Goto(c, IF roles THEN Acting!Idle ELSE to)
      BY <1>3, Zenon DEF Acting!CheckTarget, p
    <2> HIDE DEF to
    <2>2. /\ p.op = "check"
          /\ (Acting!Goto(c, to) /\ p.target \notin senior) \/ Acting!Goto(c, Acting!Idle)
      BY <2>1, Zenon
    <2> USE DEF to
    <2>3. p.asked \in Nat /\ p.target \in User /\ p.lasts \in Nat
      BY <1>0, <2>2, ActingPlans, ActingNumbers
    <2>4. to \in Acting!Plan
      BY <1>0, <2>1, <2>3 DEF Acting!Plan
    <2> HIDE DEF to
    <2>7. to.op = "create" /\ to.asked = p.asked /\ to.expires = minute + p.lasts
          /\ (p.target \notin senior => ~to.senior)
      BY DEF to
    <2>5. p.target \notin senior => ActingOK(to)
      BY <1>0, <2>2, <2>3, <2>7 DEF ActingOK
    <2>6. UNCHANGED <<minute, rows, senior, tokens>>
      BY <1>3 DEF Acting!CheckTarget
    <2> QED BY <1>0, <2>2, <2>4, <2>5, <2>6, ActingMove, ActingIdle
  <1>4. CASE Acting!EndFind(c)
    <2>1. PICK s \in DOMAIN rows : Acting!Goto(c, [op |-> "end", session |-> s])
      BY <1>4 DEF Acting!EndFind
    <2>2. rows # <<>>
      BY <2>1
    <2>3. [op |-> "end", session |-> s] \in Acting!Plan
      BY <2>1, <2>2, ActingRow DEF Acting!Plan
    <2>4. ActingOK([op |-> "end", session |-> s])
      BY <2>2 DEF ActingOK
    <2> QED BY <1>4, <2>1, <2>3, <2>4, ActingMove DEF Acting!EndFind
  <1>5. CASE Acting!Fail(c)
    BY <1>0, <1>5, ActingMove, ActingIdle DEF Acting!Fail
  <1> QED BY <1>1, <1>2, <1>3, <1>4, <1>5

LEMMA ActingSign ==
  ASSUME Acting!IInv, NEW c \in Call, Acting!Sign(c)
  PROVE  Acting!IInv'
  <1>1. starts[c] \in Acting!Plan /\ starts[c].op = "sign"
    BY DEF Acting!Sign, Acting!IInv, Acting!TypeOK
  <1>2. PICK t : t = [asked |-> starts[c].asked, session |-> starts[c].session,
                      first |-> starts[c].first, senior |-> starts[c].senior]
    OBVIOUS
  <1>3. t \in Acting!SignedToken
    BY <1>1, <1>2, ActingPlans DEF Acting!SignedToken
  <1>4. t.asked <= minute /\ Acting!Running(t.asked) /\ ~(t.first /\ t.senior)
    BY <1>1, <1>2 DEF Acting!IInv
  <1>5. ActingOK(Acting!Idle)
    BY ActingIdle DEF ActingOK
  <1>6. /\ tokens' = tokens \cup {t} /\ Acting!Goto(c, Acting!Idle)
        /\ UNCHANGED <<minute, rows, senior>>
    BY <1>2 DEF Acting!Sign
  <1> QED BY <1>3, <1>4, <1>5, <1>6, ActingIdle, ActingMove

\* A session that is there when the step began runs for the same requests after it.
LEMMA ActingRows ==
  ASSUME Acting!IInv, Acting!TypeOK', Len(rows') <= 1, minute <= minute', tokens' = tokens,
         \A a \in Nat : a <= minute /\ Acting!Running(a) => Acting!Running(a)',
         rows # <<>> => rows' # <<>>,
         \A d \in Call : \/ starts'[d] = starts[d]
                          \/ \E p \in Acting!Plan : starts'[d] = p /\ ActingOK(p)'
  PROVE  Acting!IInv'
  <1>0. minute \in Nat /\ minute' \in Nat
    BY DEF Acting!IInv, Acting!TypeOK
  <1>1. ASSUME NEW d \in Call PROVE ActingOK(starts[d])'
    <2>1. CASE starts'[d] = starts[d]
      <3>1. starts[d] \in Acting!Plan /\ ActingOK(starts[d])
        BY DEF Acting!IInv, Acting!TypeOK, ActingOK
      <3>2. starts[d].op \in {"roles", "check", "create", "sign"} => starts[d].asked \in Nat
        BY <3>1, ActingPlans
      <3> QED BY <1>0, <2>1, <3>1, <3>2 DEF ActingOK
    <2>2. ASSUME NEW p \in Acting!Plan, starts'[d] = p, ActingOK(p)'
          PROVE  ActingOK(starts[d])'
      BY <2>2 DEF ActingOK
    <2> QED BY <2>1, <2>2
  <1>2. \A t \in tokens' : t.asked <= minute' /\ Acting!Running(t.asked)' /\ ~(t.first /\ t.senior)
    BY <1>0 DEF Acting!IInv, Acting!TypeOK, Acting!SignedToken
  <1> QED BY <1>1, <1>2 DEF Acting!IInv, ActingOK

LEMMA ActingCreate ==
  ASSUME Acting!IInv, NEW c \in Call, Acting!Create(c)
  PROVE  Acting!IInv'
  <1> DEFINE p == starts[c]
  <1>0. p \in Acting!Plan /\ ActingOK(p) /\ p.op = "create" /\ minute \in Nat
    BY DEF Acting!IInv, Acting!TypeOK, ActingOK, Acting!Create
  <1>1. p.asked \in Nat /\ p.target \in User /\ p.expires \in Nat /\ p.asked <= p.expires
        /\ p.asked <= minute /\ p.senior = FALSE
    BY <1>0, ActingPlans DEF ActingOK
  <1> HIDE DEF p
  <1>2. CASE rows # <<>>
    <2>1. Acting!Goto(c, Acting!Idle) /\ UNCHANGED <<minute, rows, senior, tokens>>
      BY <1>2 DEF Acting!Create
    <2>2. ActingOK(Acting!Idle)
      BY ActingIdle DEF ActingOK
    <2> QED BY <2>1, <2>2, ActingMove, ActingIdle
  <1>3. CASE rows = <<>>
    <2>1. PICK row : row = [target |-> p.target, expires |-> p.expires, ended |-> 0]
      OBVIOUS
    <2>2. PICK to : to = [op |-> "sign", asked |-> p.asked, session |-> 1,
                          first |-> TRUE, senior |-> p.senior]
      OBVIOUS
    <2>3. /\ rows' = Append(rows, row) /\ Acting!Goto(c, to)
          /\ UNCHANGED <<minute, senior, tokens>>
      BY <1>3, <2>1, <2>2 DEF Acting!Create, p
    <2>4. row \in Acting!Row
      BY <1>1, <2>1 DEF Acting!Row
    <2>5. to \in Acting!Plan
      BY <1>1, <2>2 DEF Acting!Plan
    <2>6. rows' = <<row>> /\ rows' \in Seq(Acting!Row) /\ Len(rows') = 1
      BY <1>3, <2>3, <2>4
    <2>7. Acting!TypeOK'
      BY <2>3, <2>5, <2>6 DEF Acting!TypeOK, Acting!IInv, Acting!Goto
    <2>8. Acting!Running(to.asked)'
      BY <1>1, <2>1, <2>2, <2>6 DEF Acting!Running
    <2>9. ActingOK(to)'
      <3>1. to.op = "sign" /\ to.asked = p.asked /\ ~to.senior
        BY <1>1, <2>2
      <3>2. to.asked <= minute' /\ Acting!Running(to.asked)'
        BY <1>1, <2>2, <2>3, <2>8, <3>1
      <3> QED BY <3>1, <3>2 DEF ActingOK
    <2>10. starts'[c] = to /\ \A d \in Call \ {c} : starts'[d] = starts[d]
      BY <2>3, ActingGoto DEF Acting!IInv
    <2>11. \A a \in Nat : ~Acting!Running(a)
      BY <1>3 DEF Acting!Running
    <2> QED BY <1>0, <1>3, <2>3, <2>5, <2>6, <2>7, <2>9, <2>10, <2>11, ActingRows
  <1> QED BY <1>2, <1>3

LEMMA ExceptOne ==
  ASSUME NEW S, NEW s \in Seq(S), Len(s) = 1, NEW e \in S
  PROVE  /\ [s EXCEPT ![1] = e] \in Seq(S)
         /\ Len([s EXCEPT ![1] = e]) = 1 /\ [s EXCEPT ![1] = e][1] = e
  OBVIOUS

LEMMA ActingEnd ==
  ASSUME Acting!IInv, NEW c \in Call, Acting!End(c)
  PROVE  Acting!IInv'
  <1>1. starts[c] \in Acting!Plan /\ starts[c].op = "end" /\ rows # <<>>
        /\ minute \in Nat \ {0}
    BY DEF Acting!End, Acting!IInv, Acting!TypeOK
  <1>2. starts[c].session = 1 /\ rows \in Seq(Acting!Row)
    BY <1>1, ActingPlans DEF Acting!IInv, Acting!TypeOK
  <1>3. PICK row : row = [rows[1] EXCEPT !.ended = minute]
    OBVIOUS
  <1>4. row \in Acting!Row /\ row.expires = rows[1].expires /\ row.ended = minute
    BY <1>1, <1>3, ActingRow DEF Acting!Row
  <1>5. rows' = [rows EXCEPT ![1] = row]
    BY <1>2, <1>3 DEF Acting!End
  <1>6. Len(rows') = 1 /\ rows'[1] = row /\ rows' \in Seq(Acting!Row)
    <2>1. Len(rows) = 1 /\ 1 \in 1..Len(rows)
      BY <1>1, ActingRow
    <2> QED BY <1>2, <1>4, <1>5, <2>1, ExceptOne
  <1>7. Acting!Goto(c, Acting!Idle) /\ UNCHANGED <<minute, senior, tokens>>
    BY DEF Acting!End
  <1>8. Acting!TypeOK'
    <2>1. starts' \in [Call -> Acting!Plan]
      BY <1>7, ActingIdle DEF Acting!TypeOK, Acting!IInv, Acting!Goto
    <2> QED BY <1>1, <1>6, <1>7, <2>1 DEF Acting!TypeOK, Acting!IInv
  <1>9. \A a \in Nat : a <= minute /\ Acting!Running(a) => Acting!Running(a)'
    <2>1. rows' # <<>>
      BY <1>6
    <2>2. /\ rows'[1].expires = rows[1].expires /\ rows'[1].ended = minute
      BY <1>4, <1>6
    <2> QED BY <2>1, <2>2 DEF Acting!Running
  <1>10. ActingOK(Acting!Idle)'
    BY ActingIdle DEF ActingOK
  <1>11. starts'[c] = Acting!Idle /\ \A d \in Call \ {c} : starts'[d] = starts[d]
    BY <1>7, ActingGoto DEF Acting!IInv
  <1>12. rows' # <<>>
    BY <1>6
  <1> QED BY <1>1, <1>6, <1>7, <1>8, <1>9, <1>10, <1>11, <1>12, ActingIdle, ActingRows

LEMMA ActingStep == Acting!IInv /\ [Acting!Next]_actVars => Acting!IInv'
  <1> SUFFICES ASSUME Acting!IInv, [Acting!Next]_actVars PROVE Acting!IInv'
    OBVIOUS
  <1>1. CASE Acting!ChangeRoles \/ Acting!Pass \/ UNCHANGED actVars
    <2>1. UNCHANGED <<rows, starts, tokens>> /\ minute <= minute' /\ Acting!TypeOK'
      BY <1>1 DEF Acting!ChangeRoles, Acting!Pass, actVars, Acting!IInv, Acting!TypeOK
    <2>2. \A a \in Nat : Acting!Running(a)' <=> Acting!Running(a)
      BY <2>1 DEF Acting!Running
    <2> QED BY <2>1, <2>2, ActingRows DEF Acting!IInv
  <1> QED BY <1>1, ActingReads, ActingSign, ActingCreate, ActingEnd DEF Acting!Next

\* However starts and ends of one idempotency key race, its tokens are for one session
\* that was running when each was asked for, and the first never carries a role of
\* BLOCKED_ROLES (modules/impersonation/service.ts).
THEOREM TokensOfOneSession == RecordsSpec => []TokensHonest
  <1>1. ASSUME Acting!IInv PROVE TokensHonest
    BY <1>1 DEF Acting!IInv, Acting!TypeOK, Acting!SignedToken, TokensHonest, Acting!TokensHonest,
       Acting!Running
  <1>2. RecordsInit => Acting!IInv
    <2> SUFFICES ASSUME Acting!Init PROVE Acting!IInv
      BY DEF RecordsInit
    <2>1. Acting!TypeOK /\ Len(rows) <= 1 /\ tokens = {} /\ \A c \in Call : starts[c].op = "idle"
      BY ActingIdle DEF Acting!Init, Acting!TypeOK
    <2> QED BY <2>1 DEF Acting!IInv
  <1>3. [RecordsNext]_recordsVars => [Acting!Next]_actVars
    BY DEF RecordsNext, recordsVars
  <1> QED BY <1>1, <1>2, <1>3, ActingStep, PTL DEF RecordsSpec

------------------------------------------------------------------------------
(* RateLimiter *)

LEMMA SeqUpdate ==
  ASSUME NEW S, NEW s \in Seq(S), NEW i \in DOMAIN s, NEW e \in S
  PROVE  LET u == [s EXCEPT ![i] = e] IN
         /\ u \in Seq(S) /\ Len(u) = Len(s) /\ DOMAIN u = DOMAIN s
         /\ u[i] = e /\ \A j \in DOMAIN s \ {i} : u[j] = s[j]
  OBVIOUS

\* The instance has a Cardinality of its own.
LEMMA LimitsCardinality == \A S : Limits!Cardinality(S) = Cardinality(S)
  BY DEF Limits!Cardinality, Cardinality

LEMMA LimitsNumbers ==
  /\ Limits!Key = DOMAIN Limit /\ \A k \in Limits!Key : Limit[k] \in Nat
  /\ Window \in Nat \ {0}
  BY RecordsAssumption DEF RecordsAssumption, Limits!Key

\* A request of checks, and what has come of it so far.
Request == [keys : KeysOf, at : Seq(Nat), is : {"checking", "passed", "refused", "open"}]
CheckedIn(c, k) == \E n \in DOMAIN c.at : c.keys[n] = k
ScoreIn(c, k) == c.at[CHOOSE n \in DOMAIN c.at : c.keys[n] = k]
ScoreFrom(at, keys, k) == at[CHOOSE n \in DOMAIN at : keys[n] = k]

LEMMA RequestFields ==
  ASSUME NEW c \in Request, Len(c.at) <= Len(c.keys)
  PROVE  /\ c.at \in Seq(Nat) /\ DOMAIN c.at = 1..Len(c.at) /\ Len(c.at) \in Nat
         /\ c.keys \in KeysOf /\ c.keys \in Seq(Limits!Key)
         /\ DOMAIN c.keys = 1..Len(c.keys) /\ Len(c.keys) \in Nat
         /\ DOMAIN c.at \subseteq DOMAIN c.keys
         /\ \A m, n \in DOMAIN c.keys : c.keys[m] = c.keys[n] => m = n
         /\ \A n \in DOMAIN c.keys : c.keys[n] \in Limits!Key
  <1>1. c.at \in Seq(Nat) /\ c.keys \in KeysOf
    BY DEF Request
  <1>2. /\ c.keys \in Seq(Limits!Key)
        /\ \A m, n \in DOMAIN c.keys : c.keys[m] = c.keys[n] => m = n
    BY <1>1, RecordsAssumption DEF RecordsAssumption, Limits!Key
  <1>3. /\ DOMAIN c.at = 1..Len(c.at) /\ Len(c.at) \in Nat
        /\ DOMAIN c.keys = 1..Len(c.keys) /\ Len(c.keys) \in Nat
    BY <1>1, <1>2
  <1>4. \A n \in DOMAIN c.keys : c.keys[n] \in Limits!Key
    BY <1>2
  <1>5. DOMAIN c.at \subseteq DOMAIN c.keys
    BY <1>3
  <1> QED BY <1>1, <1>2, <1>3, <1>4, <1>5

\* A request is checked against a key once, so it has one score there.
LEMMA ScoreAt ==
  ASSUME NEW c \in Request, Len(c.at) <= Len(c.keys), NEW n \in DOMAIN c.at
  PROVE  CheckedIn(c, c.keys[n]) /\ ScoreIn(c, c.keys[n]) = c.at[n]
  <1>1. \A m \in DOMAIN c.at : c.keys[m] = c.keys[n] => m = n
    BY RequestFields
  <1>2. (CHOOSE m \in DOMAIN c.at : c.keys[m] = c.keys[n]) = n
    BY <1>1
  <1> QED BY <1>2 DEF CheckedIn, ScoreIn

LEMMA ScoreOf ==
  ASSUME NEW c \in Request, Len(c.at) <= Len(c.keys), NEW k, CheckedIn(c, k)
  PROVE  k \in Limits!Key /\ \E n \in DOMAIN c.at : c.keys[n] = k /\ ScoreIn(c, k) = c.at[n]
  BY ScoreAt, RequestFields DEF CheckedIn

\* The next check of a request adds its score for the next key, and nothing else.
AfterCheck(c, d, k, s, f) ==
    /\ d \in Request /\ d.keys = c.keys /\ d.is = f
    /\ Len(d.at) = Len(c.at) + 1 /\ Len(d.at) <= Len(d.keys) /\ d.keys[Len(d.at)] = k
    /\ \A n \in DOMAIN d.at : d.at[n] = s \/ (n \in DOMAIN c.at /\ d.at[n] = c.at[n])
    /\ k \in Limits!Key
    /\ CheckedIn(d, k) /\ ScoreIn(d, k) = s /\ ~CheckedIn(c, k)
    /\ \A k2 : k2 # k =>
          /\ CheckedIn(d, k2) <=> CheckedIn(c, k2)
          /\ CheckedIn(c, k2) => ScoreIn(d, k2) = ScoreIn(c, k2)

LEMMA NextScore ==
  ASSUME NEW c \in Request, Len(c.at) < Len(c.keys), NEW s \in Nat,
         NEW f \in {"checking", "passed", "refused", "open"},
         NEW k, k = c.keys[Len(c.at) + 1],
         NEW d, d = [c EXCEPT !.at = Append(@, s), !.is = f]
  PROVE  AfterCheck(c, d, k, s, f)
  <1>1. c.at \in Seq(Nat) /\ Len(c.at) \in Nat /\ DOMAIN c.at = 1..Len(c.at)
    BY RequestFields DEF Request
  <1>2. /\ d.keys = c.keys /\ d.is = f /\ d.at = Append(c.at, s)
        /\ d \in Request
    <2>1. PICK a \in Seq(Nat) : a = Append(c.at, s)
      <3>1. Append(c.at, s) \in Seq(Nat)
        BY <1>1
      <3> QED BY <3>1
    <2>2. d = [c EXCEPT !.at = a, !.is = f]
      BY <2>1
    <2> QED BY <2>1, <2>2 DEF Request
  <1>3. /\ Len(d.at) = Len(c.at) + 1 /\ DOMAIN d.at = 1..(Len(c.at) + 1)
        /\ d.at[Len(c.at) + 1] = s /\ \A n \in DOMAIN c.at : d.at[n] = c.at[n]
    BY <1>1, <1>2
  <1>4. Len(c.keys) \in Nat /\ Len(d.at) <= Len(d.keys)
    BY <1>1, <1>2, <1>3, RequestFields
  <1>5. Len(d.at) \in DOMAIN d.at /\ d.keys[Len(d.at)] = k /\ d.at[Len(d.at)] = s
    BY <1>1, <1>2, <1>3
  <1>6. CheckedIn(d, k) /\ ScoreIn(d, k) = s /\ k \in Limits!Key
    <2>1. PICK n \in DOMAIN d.at : n = Len(d.at)
      BY <1>5
    <2>2. CheckedIn(d, d.keys[n]) /\ ScoreIn(d, d.keys[n]) = d.at[n]
      BY <1>2, <1>4, ScoreAt
    <2>3. CheckedIn(d, k) /\ ScoreIn(d, k) = s
      BY <1>5, <2>1, <2>2
    <2> QED BY <1>2, <1>4, <2>3, ScoreOf
  <1>7. ~CheckedIn(c, k)
    <2>1. Len(c.at) + 1 \in DOMAIN c.keys /\ DOMAIN c.at \subseteq DOMAIN c.keys
          /\ Len(c.at) + 1 \notin DOMAIN c.at
      BY <1>1, <1>4, RequestFields
    <2> QED BY <2>1, RequestFields, <1>1, <1>4 DEF CheckedIn
  <1>8. ASSUME NEW k2, k2 # k
        PROVE  /\ CheckedIn(d, k2) <=> CheckedIn(c, k2)
               /\ CheckedIn(c, k2) => ScoreIn(d, k2) = ScoreIn(c, k2)
    <2>1. \A n \in DOMAIN d.at : d.keys[n] = k2 => n \in DOMAIN c.at
      BY <1>1, <1>2, <1>3, <1>5, <1>8
    <2>2. ASSUME NEW n \in DOMAIN c.at, c.keys[n] = k2
          PROVE  /\ CheckedIn(d, k2) /\ ScoreIn(d, k2) = c.at[n]
                 /\ ScoreIn(c, k2) = c.at[n]
      <3>1. n \in DOMAIN d.at /\ d.keys[n] = k2 /\ d.at[n] = c.at[n]
        BY <1>1, <1>2, <1>3, <2>2
      <3>2. CheckedIn(d, d.keys[n]) /\ ScoreIn(d, d.keys[n]) = d.at[n]
        BY <1>2, <1>4, <3>1, ScoreAt
      <3>3. Len(c.at) <= Len(c.keys)
        BY <1>1, <1>4
      <3>4. ScoreIn(c, c.keys[n]) = c.at[n]
        BY <3>3, ScoreAt
      <3> QED BY <2>2, <3>1, <3>2, <3>4
    <2> QED BY <1>2, <2>1, <2>2 DEF CheckedIn
  <1>9. \A n \in DOMAIN d.at : d.at[n] = s \/ (n \in DOMAIN c.at /\ d.at[n] = c.at[n])
    BY <1>1, <1>3
  <1> QED BY <1>2, <1>3, <1>4, <1>5, <1>6, <1>7, <1>8, <1>9 DEF AfterCheck

LEMMA LimitsRequests ==
  ASSUME Limits!IInv, NEW i \in DOMAIN checks
  PROVE  /\ checks[i] \in Request /\ Len(checks[i].at) <= Len(checks[i].keys)
         /\ \A k : /\ Limits!Checked(i, k) <=> CheckedIn(checks[i], k)
                  /\ Limits!Score(i, k) = ScoreIn(checks[i], k)
  <1>1. checks[i] \in Request /\ Len(checks[i].at) <= Len(checks[i].keys)
    <2>1. checks \in Seq(Request)
      BY DEF Limits!IInv, Limits!TypeOK, Request
    <2>2. checks[i] \in Request
      BY <2>1
    <2> QED BY <2>2 DEF Limits!IInv
  <1>2. ASSUME NEW k
        PROVE  /\ Limits!Checked(i, k) <=> CheckedIn(checks[i], k)
               /\ Limits!Score(i, k) = ScoreIn(checks[i], k)
    BY DEF Limits!Checked, Limits!Score, CheckedIn, ScoreIn
  <1> QED BY <1>1, <1>2

LEMMA LimitsChecks ==
  ASSUME Limits!IInv, NEW i \in DOMAIN checks
  PROVE  /\ Len(checks[i].at) <= Len(checks[i].keys)
         /\ checks[i].is = "checking" => Len(checks[i].at) < Len(checks[i].keys)
         /\ checks[i].is = "refused" => Len(checks[i].at) > 0
         /\ \A n \in DOMAIN checks[i].at : checks[i].at[n] <= second
  BY DEF Limits!IInv

LEMMA LimitsScores ==
  ASSUME Limits!IInv, NEW i \in DOMAIN checks, NEW k, Limits!Checked(i, k)
  PROVE  k \in Limits!Key /\ Limits!Score(i, k) \in 0..second
  <1>1. /\ checks[i] \in Request /\ Len(checks[i].at) <= Len(checks[i].keys)
        /\ CheckedIn(checks[i], k) /\ Limits!Score(i, k) = ScoreIn(checks[i], k)
    BY LimitsRequests
  <1>2. PICK n \in DOMAIN checks[i].at : ScoreIn(checks[i], k) = checks[i].at[n]
    BY <1>1, ScoreOf
  <1>3. checks[i].at[n] \in Nat /\ checks[i].at[n] <= second
    BY <1>1, <1>2, RequestFields DEF Limits!IInv
  <1> QED BY <1>1, <1>2, <1>3, ScoreOf DEF Limits!IInv, Limits!TypeOK

\* zremrangebyscore leaves the window of now.
LEMMA KeptWithin ==
  ASSUME Limits!IInv, NEW k \in Limits!Key
  PROVE  Limits!Kept(k) = Limits!Within(k, second)
  <1>1. second \in Nat /\ log[k] \subseteq DOMAIN checks
    BY DEF Limits!IInv, Limits!TypeOK
  <1>2. ASSUME NEW i \in Limits!Kept(k) PROVE i \in Limits!Within(k, second)
    <2>1. i \in log[k] /\ Limits!Score(i, k) > second - Window /\ Limits!Checked(i, k)
      BY <1>2 DEF Limits!Kept, Limits!IInv
    <2>2. Limits!Score(i, k) \in 0..second
      BY <1>1, <2>1, LimitsScores
    <2> QED BY <1>1, <2>1, <2>2, LimitsNumbers DEF Limits!Within
  <1>3. ASSUME NEW i \in Limits!Within(k, second) PROVE i \in Limits!Kept(k)
    <2>1. i \in log[k]
      BY <1>3 DEF Limits!IInv
    <2>2. Limits!Score(i, k) > second - Window
      BY <1>1, <1>3, LimitsNumbers DEF Limits!Within
    <2> QED BY <2>1, <2>2 DEF Limits!Kept
  <1> QED BY <1>2, <1>3

LEMMA RequestsFinite ==
  ASSUME Limits!TypeOK, NEW S \in SUBSET DOMAIN checks
  PROVE  IsFiniteSet(S) /\ Cardinality(S) \in Nat
  <1>1. DOMAIN checks = 1..Len(checks) /\ Len(checks) \in Nat
    BY DEF Limits!TypeOK
  <1>2. IsFiniteSet(DOMAIN checks)
    BY <1>1, FS_Interval
  <1>3. IsFiniteSet(S)
    BY <1>2, FS_Subset
  <1> QED BY <1>3, FS_CardinalityType

LEMMA FewerRequests ==
  ASSUME Limits!TypeOK, NEW S \in SUBSET DOMAIN checks, NEW T \in SUBSET S
  PROVE  /\ Cardinality(S) \in Nat /\ Cardinality(T) \in Nat
         /\ Cardinality(T) <= Cardinality(S)
  BY RequestsFinite, FS_Subset

\* What is left to show of a step: the number of requests a window lets through.
LEMMA LimitsBound ==
  ASSUME Limits!TypeOK, NEW k \in Limits!Key, NEW t \in Nat,
         Cardinality(Limits!Admitted(k, t)) <= Limit[k]
  PROVE  Cardinality({i \in Limits!Within(k, t) : checks[i].is = "passed"}) <= Limit[k]
  <1>1. Limits!Admitted(k, t) \in SUBSET DOMAIN checks
    BY DEF Limits!Admitted, Limits!Within
  <1>2. {i \in Limits!Within(k, t) : checks[i].is = "passed"} \in SUBSET Limits!Admitted(k, t)
    BY DEF Limits!Admitted
  <1> QED BY <1>1, <1>2, FewerRequests, LimitsNumbers

\* What is left to show of a step, besides the types: how many requests a window has
\* let through so far, and how many one that refused had counted.
LEMMA LimitsExactNext ==
  ASSUME Limits!TypeOK',
         \A k \in Limits!Key, t \in 0..second' : Cardinality(Limits!Admitted(k, t)') <= Limit[k],
         \A i \in DOMAIN checks' : checks'[i].is = "refused" =>
             \E k, s : /\ k = checks'[i].keys[Len(checks'[i].at)] /\ s = Limits!Score(i, k)'
                      /\ Cardinality(Limits!Within(k, s)') > Limit[k]
  PROVE  Limits!LimitExact'
  <1>1. DOMAIN checks' = 1..Len(checks') /\ Len(checks') \in Nat
    BY DEF Limits!TypeOK
  <1>2. IsFiniteSet(DOMAIN checks')
    BY <1>1, FS_Interval
  <1>3. ASSUME NEW k \in Limits!Key, NEW t \in 0..second'
        PROVE  Cardinality({i \in Limits!Within(k, t)' : checks'[i].is = "passed"}) <= Limit[k]
    <2>1. PICK A : A = Limits!Admitted(k, t)' /\ Cardinality(A) <= Limit[k]
      OBVIOUS
    <2>2. PICK P : P = {i \in Limits!Within(k, t)' : checks'[i].is = "passed"}
      OBVIOUS
    <2>3. A \subseteq DOMAIN checks' /\ P \subseteq A
      BY <2>1, <2>2 DEF Limits!Admitted, Limits!Within
    <2>4. IsFiniteSet(A)
      BY <1>2, <2>3, FS_Subset
    <2>5. IsFiniteSet(P) /\ Cardinality(P) <= Cardinality(A)
      BY <2>3, <2>4, FS_Subset
    <2>6. Cardinality(P) \in Nat /\ Cardinality(A) \in Nat
      BY <2>4, <2>5, FS_CardinalityType
    <2> QED BY <2>1, <2>2, <2>5, <2>6, LimitsNumbers
  <1>4. ASSUME NEW i \in DOMAIN checks', checks'[i].is = "refused",
               NEW k, k = checks'[i].keys[Len(checks'[i].at)]
        PROVE  Cardinality(Limits!Within(k, Limits!Score(i, k))') > Limit[k]
    BY <1>4
  <1> QED BY <1>3, <1>4, LimitsCardinality DEF Limits!LimitExact

\* A check that Redis executes.
LEMMA LimitsExecute ==
  ASSUME Limits!IInv, NEW i \in DOMAIN checks, checks[i].is = "checking",
         NEW f \in {"checking", "passed", "refused", "open"}, Limits!Execute(i, f),
         f = "checking" => Len(checks[i].at) + 1 < Len(checks[i].keys),
         f \in {"checking", "passed"} =>
             Cardinality(Limits!Counted(i)) <= Limit[Limits!NextKey(i)],
         f = "refused" => Cardinality(Limits!Counted(i)) > Limit[Limits!NextKey(i)]
  PROVE  Limits!IInv'
  <1>0. /\ second \in Nat /\ second' = second /\ checks \in Seq(Request)
        /\ Limits!TypeOK
    BY DEF Limits!IInv, Limits!TypeOK, Limits!Execute, Request
  <1>1. PICK k : k = Limits!NextKey(i)
    OBVIOUS
  <1>2. PICK d : d = [checks[i] EXCEPT !.at = Append(@, second), !.is = f]
    OBVIOUS
  <1>3. /\ checks' = [checks EXCEPT ![i] = d]
        /\ log' = [log EXCEPT ![k] = Limits!Counted(i)]
        /\ lapses' = [lapses EXCEPT ![k] = second + Window]
    BY <1>1, <1>2 DEF Limits!Execute
  <1>4. /\ checks[i] \in Request /\ Len(checks[i].at) < Len(checks[i].keys)
        /\ k = checks[i].keys[Len(checks[i].at) + 1]
    BY <1>1, LimitsRequests, LimitsChecks DEF Limits!NextKey
  <1>a. AfterCheck(checks[i], d, k, second, f)
    <2>1. PICK c \in Request : c = checks[i]
      BY <1>4
    <2>2. /\ Len(c.at) < Len(c.keys) /\ k = c.keys[Len(c.at) + 1]
          /\ d = [c EXCEPT !.at = Append(@, second), !.is = f]
      BY <1>2, <1>4, <2>1
    <2>3. AfterCheck(c, d, k, second, f)
      BY <1>0, <2>2, NextScore
    <2> QED BY <2>1, <2>3
  <1>5. /\ d \in Request /\ d.keys = checks[i].keys /\ d.is = f
        /\ Len(d.at) = Len(checks[i].at) + 1 /\ Len(d.at) <= Len(d.keys)
        /\ d.keys[Len(d.at)] = k
        /\ \A n \in DOMAIN d.at : d.at[n] = second
                                 \/ (n \in DOMAIN checks[i].at /\ d.at[n] = checks[i].at[n])
        /\ k \in Limits!Key
        /\ CheckedIn(d, k) /\ ScoreIn(d, k) = second /\ ~CheckedIn(checks[i], k)
        /\ \A k2 : k2 # k =>
              /\ CheckedIn(d, k2) <=> CheckedIn(checks[i], k2)
              /\ CheckedIn(checks[i], k2) => ScoreIn(d, k2) = ScoreIn(checks[i], k2)
    BY <1>a DEF AfterCheck
  <1>6. /\ checks' \in Seq(Request) /\ DOMAIN checks' = DOMAIN checks /\ checks'[i] = d
        /\ \A j \in DOMAIN checks \ {i} : checks'[j] = checks[j]
    BY <1>0, <1>3, <1>5, SeqUpdate
  <1>7. \A k2 : \A j \in DOMAIN checks :
          /\ Limits!Checked(j, k2)' <=> CheckedIn(checks'[j], k2)
          /\ Limits!Score(j, k2)' = ScoreIn(checks'[j], k2)
    BY DEF Limits!Checked, Limits!Score, CheckedIn, ScoreIn
  <1>8. /\ Limits!Checked(i, k)' /\ Limits!Score(i, k)' = second /\ ~Limits!Checked(i, k)
    BY <1>5, <1>6, <1>7, LimitsRequests
  <1>9. ASSUME NEW j \in DOMAIN checks, NEW k2, j # i \/ k2 # k
        PROVE  /\ Limits!Checked(j, k2)' <=> Limits!Checked(j, k2)
               /\ Limits!Checked(j, k2) => Limits!Score(j, k2)' = Limits!Score(j, k2)
    <2>1. /\ Limits!Checked(j, k2) <=> CheckedIn(checks[j], k2)
          /\ Limits!Score(j, k2) = ScoreIn(checks[j], k2)
      BY LimitsRequests
    <2> QED BY <1>5, <1>6, <1>7, <1>9, <2>1
  \* The windows: only the one of k that ends now has changed.
  <1>10. ASSUME NEW k2, NEW u \in Nat, k2 # k \/ u < second
         PROVE  Limits!Within(k2, u)' = Limits!Within(k2, u)
    <2>1. i \in Limits!Within(k2, u)' => i \in Limits!Within(k2, u)
      BY <1>0, <1>6, <1>8, <1>9, <1>10, LimitsNumbers DEF Limits!Within
    <2>2. i \in Limits!Within(k2, u) => i \in Limits!Within(k2, u)'
      BY <1>0, <1>6, <1>8, <1>9, <1>10, LimitsNumbers DEF Limits!Within
    <2>3. \A j : j # i => (j \in Limits!Within(k2, u)' <=> j \in Limits!Within(k2, u))
      BY <1>6, <1>9 DEF Limits!Within
    <2> QED BY <2>1, <2>2, <2>3
  <1>11. Limits!Within(k, second)' = Limits!Counted(i)
    <2>1. Limits!Counted(i) = Limits!Within(k, second) \cup {i}
      BY <1>1, <1>5, KeptWithin DEF Limits!Counted
    <2>2. i \in Limits!Within(k, second)'
      BY <1>0, <1>6, <1>8, LimitsNumbers DEF Limits!Within
    <2>3. \A j : j # i => (j \in Limits!Within(k, second)' <=> j \in Limits!Within(k, second))
      BY <1>0, <1>6, <1>9 DEF Limits!Within
    <2> QED BY <2>1, <2>2, <2>3
  <1>12. Limits!Within(k, second) \subseteq Limits!Counted(i)
    BY <1>1, <1>5, KeptWithin DEF Limits!Counted
  <1>13. Limits!TypeOK'
    <2>1. checks' \in Seq([keys : KeysOf, at : Seq(Nat),
                           is : {"checking", "passed", "refused", "open"}])
      BY <1>6 DEF Request
    <2>2. Limits!Counted(i) \subseteq DOMAIN checks
      BY <1>0, <1>1, <1>5 DEF Limits!Counted, Limits!Kept, Limits!TypeOK
    <2>3. PICK L \in SUBSET DOMAIN checks : L = Limits!Counted(i)
      BY <2>2
    <2>4. PICK t \in Nat : t = second + Window
      BY <1>0, LimitsNumbers
    <2>5. log' = [log EXCEPT ![k] = L] /\ lapses' = [lapses EXCEPT ![k] = t]
      BY <1>3, <2>3, <2>4
    <2>6. log' \in [Limits!Key -> SUBSET DOMAIN checks] /\ lapses' \in [Limits!Key -> Nat]
      BY <1>0, <2>5 DEF Limits!TypeOK
    <2> QED BY <1>0, <1>6, <2>1, <2>6 DEF Limits!TypeOK
  <1>14. ASSUME NEW j \in DOMAIN checks'
         PROVE  /\ Len(checks'[j].at) <= Len(checks'[j].keys)
                /\ checks'[j].is = "checking" => Len(checks'[j].at) < Len(checks'[j].keys)
                /\ checks'[j].is = "refused" => Len(checks'[j].at) > 0
                /\ \A n \in DOMAIN checks'[j].at : checks'[j].at[n] <= second'
    <2>1. CASE j # i
      BY <1>0, <1>6, <2>1, LimitsChecks
    <2>2. CASE j = i
      <3>1. Len(checks[i].at) \in Nat
        BY <1>4, LimitsChecks, RequestFields
      <3>2. \A n \in DOMAIN checks[i].at : checks[i].at[n] <= second
        BY LimitsChecks
      <3>3. \A n \in DOMAIN d.at : d.at[n] <= second'
        BY <1>0, <1>5, <3>2
      <3> QED BY <1>5, <1>6, <2>2, <3>1, <3>3
    <2> QED BY <2>1, <2>2
  <1>15. ASSUME NEW k2 \in Limits!Key
         PROVE  /\ \A j \in log'[k2] : Limits!Checked(j, k2)'
                /\ \A j \in Limits!Within(k2, second)' :
                      j \in log'[k2] /\ Limits!Score(j, k2)' + Window <= lapses'[k2]
    <2>0. /\ log'[k] = Limits!Counted(i) /\ lapses'[k] = second + Window
          /\ k2 # k => log'[k2] = log[k2] /\ lapses'[k2] = lapses[k2]
          /\ log[k2] \subseteq DOMAIN checks
      BY <1>0, <1>3, <1>5 DEF Limits!TypeOK
    <2>1. CASE k2 # k
      <3>1. ASSUME NEW j \in log'[k2] PROVE Limits!Checked(j, k2)'
        BY <1>9, <2>0, <2>1, <3>1 DEF Limits!IInv
      <3>2. ASSUME NEW j \in Limits!Within(k2, second)'
            PROVE  j \in log'[k2] /\ Limits!Score(j, k2)' + Window <= lapses'[k2]
        <4>1. j \in Limits!Within(k2, second)
          BY <1>0, <1>10, <2>1, <3>2
        <4>2. j \in DOMAIN checks /\ Limits!Checked(j, k2)
          BY <4>1 DEF Limits!Within
        <4>3. Limits!Score(j, k2)' = Limits!Score(j, k2)
          BY <1>9, <2>1, <4>2
        <4> QED BY <2>0, <2>1, <4>1, <4>3 DEF Limits!IInv
      <3> QED BY <3>1, <3>2
    <2>2. CASE k2 = k
      <3>1. \A j \in log'[k] : j \in Limits!Within(k, second)'
        BY <1>11, <2>0
      <3>2. \A j \in Limits!Within(k, second)' : Limits!Checked(j, k)'
                                               /\ Limits!Score(j, k)' \in second - Window + 1..second
        BY <1>0 DEF Limits!Within
      <3> QED BY <1>0, <1>11, <2>0, <2>2, <3>1, <3>2, LimitsNumbers
    <2> QED BY <2>1, <2>2
  <1>16. ASSUME NEW k2 \in Limits!Key, NEW u \in 0..second
         PROVE  Cardinality(Limits!Admitted(k2, u)') <= Limit[k2]
    <2>0. /\ Limits!Admitted(k2, u) \in SUBSET DOMAIN checks
          /\ Limits!Counted(i) \in SUBSET DOMAIN checks /\ u \in Nat
      BY <1>0, <1>1, <1>5 DEF Limits!Admitted, Limits!Within, Limits!Counted, Limits!Kept, Limits!TypeOK
    <2>c. Cardinality(Limits!Admitted(k2, u)) <= Limit[k2]
      BY LimitsCardinality DEF Limits!IInv
    <2>1. CASE k2 = k /\ u = second /\ f \in {"checking", "passed"}
      <3>1. Limits!Admitted(k2, u)' \in SUBSET Limits!Counted(i)
        BY <1>0, <1>11, <2>1 DEF Limits!Admitted
      <3> QED BY <1>0, <1>1, <2>0, <2>1, <3>1, FewerRequests, LimitsNumbers
    <2>2. CASE ~(k2 = k /\ u = second /\ f \in {"checking", "passed"})
      <3>1. ASSUME NEW j \in Limits!Admitted(k2, u)' PROVE j \in Limits!Admitted(k2, u)
        <4>1. /\ j \in Limits!Within(k2, u)' /\ checks'[j].is \in {"checking", "passed"}
              /\ j \in DOMAIN checks
          BY <1>6, <3>1 DEF Limits!Admitted, Limits!Within
        <4>2. checks[j].is \in {"checking", "passed"}
          BY <1>6, <4>1
        <4>3. j \in Limits!Within(k2, u)
          <5>1. CASE k2 # k \/ u < second
            BY <1>10, <2>0, <4>1, <5>1
          <5>2. CASE k2 = k /\ u = second
            <6>1. j # i
              BY <1>5, <1>6, <2>2, <4>1, <5>2
            <6> QED BY <1>9, <4>1, <5>2, <6>1 DEF Limits!Within
          <5> QED BY <1>0, <5>1, <5>2
        <4> QED BY <4>2, <4>3 DEF Limits!Admitted
      <3> QED BY <1>0, <2>0, <2>c, <3>1, FewerRequests, LimitsNumbers
    <2> QED BY <2>1, <2>2
  <1>17. ASSUME NEW j \in DOMAIN checks', checks'[j].is = "refused"
         PROVE  \E k2, s : /\ k2 = checks'[j].keys[Len(checks'[j].at)]
                           /\ s = Limits!Score(j, k2)'
                           /\ Cardinality(Limits!Within(k2, s)') > Limit[k2]
    <2>1. CASE j = i
      <3>1. PICK t \in Nat : t = second
        BY <1>0
      <3>2. k = checks'[j].keys[Len(checks'[j].at)]
        BY <1>5, <1>6, <2>1
      <3>3. Limits!Score(j, k)' = ScoreIn(d, k) /\ ScoreIn(d, k) = t
        BY <1>5, <1>6, <1>7, <2>1, <3>1
      <3>4. Limits!Within(k, t)' = Limits!Within(k, second)'
        BY <1>0, <3>1 DEF Limits!Within
      <3>5. Cardinality(Limits!Within(k, t)') > Limit[k]
        BY <1>1, <1>5, <1>6, <1>11, <1>17, <2>1, <3>4
      <3> QED BY <3>2, <3>3, <3>5
    <2>2. CASE j # i
      <3>1. PICK k2 : k2 = checks[j].keys[Len(checks[j].at)]
        OBVIOUS
      <3>2. PICK s : s = Limits!Score(j, k2)
        OBVIOUS
      <3>3. j \in DOMAIN checks /\ checks'[j] = checks[j] /\ checks[j].is = "refused"
        BY <1>6, <1>17, <2>2
      <3>4. Limits!Checked(j, k2)
        <4>1. Len(checks[j].at) \in DOMAIN checks[j].at
          BY <3>3, LimitsRequests, LimitsChecks, RequestFields
        <4> QED BY <3>1, <4>1 DEF Limits!Checked
      <3>5. k2 \in Limits!Key /\ s \in 0..second /\ s \in Nat
        BY <1>0, <3>2, <3>3, <3>4, LimitsScores
      <3>6. Cardinality(Limits!Within(k2, s)) > Limit[k2]
        BY <3>1, <3>2, <3>3, LimitsCardinality DEF Limits!IInv, Limits!LimitExact
      <3>7. Limits!Score(j, k2)' = s
        BY <1>9, <2>2, <3>2, <3>3, <3>4
      <3>8. Limits!Within(k2, s) \subseteq Limits!Within(k2, s)'
        BY <1>0, <1>10, <1>11, <1>12, <3>5
      <3>9. Limits!Within(k2, s)' \in SUBSET DOMAIN checks
        BY <1>6 DEF Limits!Within
      <3>10. PICK V \in SUBSET DOMAIN checks : V = Limits!Within(k2, s)'
        BY <3>9
      <3>11. Cardinality(Limits!Within(k2, s)) <= Cardinality(V)
             /\ Cardinality(V) \in Nat /\ Cardinality(Limits!Within(k2, s)) \in Nat
        BY <1>0, <3>8, <3>10, FewerRequests
      <3>12. Cardinality(V) > Limit[k2]
        BY <3>5, <3>6, <3>11, LimitsNumbers
      <3> QED BY <3>1, <3>3, <3>7, <3>10, <3>12
    <2> QED BY <2>1, <2>2
  <1>18. Limits!LimitExact'
    BY <1>0, <1>13, <1>16, <1>17, LimitsExactNext
  <1> QED BY <1>0, <1>13, <1>14, <1>15, <1>16, <1>18, LimitsCardinality DEF Limits!IInv

\* A step that adds no check and drops no request.
NoCheck ==
    /\ second' = second \/ second' = second + 1
    /\ DOMAIN checks \subseteq DOMAIN checks'
    /\ \A i \in DOMAIN checks :
          /\ checks'[i].at = checks[i].at /\ checks'[i].keys = checks[i].keys
          /\ checks'[i].is = checks[i].is \/ checks'[i].is = "open"
    /\ \A i \in DOMAIN checks' \ DOMAIN checks :
          /\ checks'[i].at = <<>> /\ checks'[i].is # "refused"
          /\ checks'[i].is = "checking" => Len(checks'[i].keys) > 0
    /\ lapses' = lapses
    /\ \A k \in Limits!Key :
          \/ log'[k] = log[k]
          \/ log'[k] = {} /\ lapses[k] <= second' /\ second' = second + 1

LEMMA LimitsSame ==
  ASSUME Limits!IInv, Limits!TypeOK', NoCheck
  PROVE  Limits!IInv'
  <1> USE DEF NoCheck
  <1>0. /\ second \in Nat /\ second' \in Nat /\ second <= second' /\ Limits!TypeOK
        /\ checks' \in Seq(Request)
    BY DEF Limits!IInv, Limits!TypeOK, Request
  <1>1. ASSUME NEW i, NEW k
        PROVE  /\ i \in DOMAIN checks' /\ Limits!Checked(i, k)' =>
                      i \in DOMAIN checks /\ Limits!Checked(i, k)
               /\ i \in DOMAIN checks =>
                      /\ Limits!Checked(i, k)' <=> Limits!Checked(i, k)
                      /\ Limits!Score(i, k)' = Limits!Score(i, k)
    <2>1. /\ Limits!Score(i, k) = ScoreFrom(checks[i].at, checks[i].keys, k)
          /\ Limits!Score(i, k)' = ScoreFrom(checks'[i].at, checks'[i].keys, k)
      BY DEF Limits!Score, ScoreFrom
    <2>2. i \in DOMAIN checks => Limits!Score(i, k)' = Limits!Score(i, k)
      BY <2>1
    <2>3. i \in DOMAIN checks => (Limits!Checked(i, k)' <=> Limits!Checked(i, k))
      BY DEF Limits!Checked
    <2>4. i \in DOMAIN checks' \ DOMAIN checks => ~Limits!Checked(i, k)'
      BY DEF Limits!Checked
    <2> QED BY <2>2, <2>3, <2>4
  <1>2. ASSUME NEW k, NEW t
        PROVE  Limits!Within(k, t)' = Limits!Within(k, t)
    BY <1>1 DEF Limits!Within
  <1>3. ASSUME NEW i \in DOMAIN checks'
        PROVE  /\ Len(checks'[i].at) <= Len(checks'[i].keys)
               /\ checks'[i].is = "checking" => Len(checks'[i].at) < Len(checks'[i].keys)
               /\ checks'[i].is = "refused" => Len(checks'[i].at) > 0
               /\ \A n \in DOMAIN checks'[i].at : checks'[i].at[n] <= second'
    <2>1. CASE i \in DOMAIN checks
      <3>1. \A n \in DOMAIN checks[i].at : checks[i].at[n] \in Nat /\ checks[i].at[n] <= second
        BY <2>1, LimitsRequests, LimitsChecks, RequestFields
      <3> QED BY <1>0, <2>1, <3>1, LimitsChecks
    <2>2. CASE i \notin DOMAIN checks
      <3>1. checks'[i] \in Request
        BY <1>0
      <3>2. checks'[i].keys \in KeysOf
        BY <3>1 DEF Request
      <3>3. Len(checks'[i].keys) \in Nat
        BY <3>2, RecordsAssumption DEF RecordsAssumption
      <3> QED BY <2>2, <3>3
    <2> QED BY <2>1, <2>2
  \* A window that ends a second later holds what a window of now does.
  <1>4. ASSUME NEW k, NEW i \in Limits!Within(k, second')
        PROVE  i \in Limits!Within(k, second)
    <2>1. i \in DOMAIN checks /\ Limits!Checked(i, k) /\ Limits!Score(i, k) > second' - Window
      BY <1>0, <1>4, LimitsNumbers DEF Limits!Within
    <2>2. Limits!Score(i, k) \in 0..second
      BY <2>1, LimitsScores
    <2> QED BY <1>0, <2>1, <2>2, LimitsNumbers DEF Limits!Within
  <1>5. ASSUME NEW k \in Limits!Key
        PROVE  /\ \A i \in log'[k] : Limits!Checked(i, k)'
               /\ \A i \in Limits!Within(k, second)' :
                     i \in log'[k] /\ Limits!Score(i, k)' + Window <= lapses'[k]
    <2>1. \A i \in log'[k] : i \in DOMAIN checks /\ Limits!Checked(i, k)
      BY <1>0 DEF Limits!IInv, Limits!TypeOK
    <2>2. ASSUME NEW i \in Limits!Within(k, second)'
          PROVE  i \in log'[k] /\ Limits!Score(i, k)' + Window <= lapses'[k]
      <3>0. PICK t : t = second'
        OBVIOUS
      <3>a. i \in Limits!Within(k, t)'
        BY <2>2, <3>0 DEF Limits!Within
      <3>1. i \in Limits!Within(k, second') /\ i \in Limits!Within(k, second)
        BY <1>2, <1>4, <3>0, <3>a
      <3>2. /\ i \in log[k] /\ Limits!Score(i, k) + Window <= lapses[k]
            /\ i \in DOMAIN checks /\ Limits!Checked(i, k)
            /\ Limits!Score(i, k) > second' - Window
        BY <1>0, <3>1, LimitsNumbers DEF Limits!IInv, Limits!Within
      <3>3. Limits!Score(i, k) \in 0..second /\ lapses[k] \in Nat
        BY <1>0, <3>2, LimitsScores DEF Limits!TypeOK
      <3>4. ~(lapses[k] <= second')
        BY <1>0, <3>2, <3>3, LimitsNumbers
      <3>5. log'[k] = log[k]
        BY <3>4
      <3> QED BY <1>1, <3>2, <3>5
    <2> QED BY <1>1, <2>1, <2>2
  <1>6. ASSUME NEW k \in Limits!Key, NEW t \in 0..second'
        PROVE  Cardinality(Limits!Admitted(k, t)') <= Limit[k]
    <2>1. t \in 0..second \/ t = second + 1
      BY <1>0
    <2>2. PICK u \in 0..second : Limits!Within(k, t) \subseteq Limits!Within(k, u)
      BY <1>0, <1>4, <2>1
    <2>3. Limits!Admitted(k, t)' \subseteq Limits!Admitted(k, u)
      BY <1>2, <2>2 DEF Limits!Admitted, Limits!Within
    <2>4. /\ Limits!Admitted(k, u) \in SUBSET DOMAIN checks
          /\ Cardinality(Limits!Admitted(k, u)) <= Limit[k]
      BY LimitsCardinality DEF Limits!Admitted, Limits!Within, Limits!IInv
    <2> QED BY <1>0, <2>3, <2>4, FewerRequests, LimitsNumbers
  <1>7. ASSUME NEW i \in DOMAIN checks', checks'[i].is = "refused"
        PROVE  \E k, s : /\ k = checks'[i].keys[Len(checks'[i].at)]
                         /\ s = Limits!Score(i, k)'
                         /\ Cardinality(Limits!Within(k, s)') > Limit[k]
    <2>1. PICK k : k = checks[i].keys[Len(checks[i].at)]
      OBVIOUS
    <2>2. PICK s : s = Limits!Score(i, k)
      OBVIOUS
    <2>3. i \in DOMAIN checks /\ checks[i].is = "refused"
      BY <1>7
    <2>4. Cardinality(Limits!Within(k, s)) > Limit[k]
      BY <2>1, <2>2, <2>3, LimitsCardinality DEF Limits!IInv, Limits!LimitExact
    <2> QED BY <1>1, <1>2, <2>1, <2>2, <2>3, <2>4
  <1>8. Limits!LimitExact'
    BY <1>6, <1>7, LimitsExactNext
  <1> QED BY <1>3, <1>5, <1>6, <1>8, LimitsCardinality DEF Limits!IInv

LEMMA LimitsStep ==
  Limits!IInv /\ [Limits!Next]_limitVars => Limits!IInv'
  <1> SUFFICES ASSUME Limits!IInv, [Limits!Next]_limitVars PROVE Limits!IInv'
    OBVIOUS
  <1>0. /\ second \in Nat /\ Limits!TypeOK /\ checks \in Seq(Request)
        /\ log \in [Limits!Key -> SUBSET DOMAIN checks] /\ lapses \in [Limits!Key -> Nat]
        /\ DOMAIN checks = 1..Len(checks) /\ Len(checks) \in Nat
    BY DEF Limits!IInv, Limits!TypeOK, Request
  <1>1. ASSUME NEW keys \in KeysOf, Limits!Arrive(keys) PROVE Limits!IInv'
    <2>1. PICK c : c = [keys |-> keys, at |-> <<>>,
                        is |-> IF keys = <<>> THEN "passed" ELSE "checking"]
      OBVIOUS
    <2>2. /\ c \in Request /\ c.keys = keys /\ c.at = <<>> /\ c.is # "refused"
          /\ c.is = "checking" => keys # <<>>
      BY <2>1 DEF Request
    <2>3. checks' = Append(checks, c) /\ UNCHANGED <<second, log, lapses>>
      BY <1>1, <2>1 DEF Limits!Arrive
    <2>4. /\ checks' \in Seq(Request) /\ DOMAIN checks' = 1..(Len(checks) + 1)
          /\ checks'[Len(checks) + 1] = c /\ \A i \in DOMAIN checks : checks'[i] = checks[i]
      BY <1>0, <2>2, <2>3
    <2>5. keys # <<>> => Len(keys) > 0
      BY RecordsAssumption DEF RecordsAssumption
    <2>6. DOMAIN checks \subseteq DOMAIN checks' /\ \A i \in DOMAIN checks' \ DOMAIN checks : checks'[i] = c
      BY <1>0, <2>4
    <2>7. Limits!TypeOK'
      <3>1. log' \in [Limits!Key -> SUBSET DOMAIN checks']
        BY <1>0, <2>3, <2>6
      <3>2. checks' \in Seq([keys : KeysOf, at : Seq(Nat),
                             is : {"checking", "passed", "refused", "open"}])
        BY <2>4 DEF Request
      <3> QED BY <1>0, <2>3, <3>1, <3>2 DEF Limits!TypeOK
    <2>8. NoCheck
      BY <2>2, <2>3, <2>4, <2>5, <2>6 DEF NoCheck
    <2> QED BY <2>7, <2>8, LimitsSame
  <1>2. ASSUME NEW i \in DOMAIN checks, Limits!Check(i) PROVE Limits!IInv'
    <2>1. PICK f : f = IF Cardinality(Limits!Counted(i)) > Limit[Limits!NextKey(i)] THEN "refused"
                    ELSE IF Len(checks[i].at) + 1 < Len(checks[i].keys) THEN "checking"
                    ELSE "passed"
      OBVIOUS
    <2>2. checks[i].is = "checking" /\ Limits!Execute(i, f)
      BY <1>2, <2>1, LimitsCardinality DEF Limits!Check
    <2>3. /\ Cardinality(Limits!Counted(i)) \in Nat /\ Limit[Limits!NextKey(i)] \in Nat
      <3>1. checks[i] \in Request /\ Len(checks[i].at) < Len(checks[i].keys)
        BY <2>2, LimitsRequests, LimitsChecks
      <3>2. Len(checks[i].at) + 1 \in DOMAIN checks[i].keys
        BY <3>1, LimitsRequests, RequestFields
      <3>3. Limits!NextKey(i) \in Limits!Key
        BY <3>1, <3>2, LimitsRequests, RequestFields DEF Limits!NextKey
      <3>4. Limits!Counted(i) \in SUBSET DOMAIN checks
        BY <1>0, <3>3 DEF Limits!Counted, Limits!Kept
      <3> QED BY <1>0, <3>3, <3>4, RequestsFinite, LimitsNumbers
    <2>4. /\ f \in {"checking", "passed", "refused"}
          /\ f = "checking" => Len(checks[i].at) + 1 < Len(checks[i].keys)
          /\ f = "refused" <=> Cardinality(Limits!Counted(i)) > Limit[Limits!NextKey(i)]
      BY <2>1
    <2>5. f # "refused" => Cardinality(Limits!Counted(i)) <= Limit[Limits!NextKey(i)]
      BY <2>3, <2>4
    <2> QED BY <2>2, <2>4, <2>5, LimitsExecute
  <1>3. ASSUME NEW i \in DOMAIN checks, Limits!FailOpen(i) PROVE Limits!IInv'
    <2>1. CASE Limits!Execute(i, "open")
      BY <1>3, <2>1, LimitsExecute DEF Limits!FailOpen
    <2>2. CASE checks' = [checks EXCEPT ![i].is = "open"] /\ UNCHANGED <<second, log, lapses>>
      <3>1. PICK c \in Request : c = checks[i]
        BY <1>0
      <3>2. PICK d : d = [c EXCEPT !.is = "open"]
        OBVIOUS
      <3>3. d \in Request /\ d.at = c.at /\ d.keys = c.keys /\ d.is = "open"
        BY <3>2 DEF Request
      <3>4. checks' = [checks EXCEPT ![i] = d]
        BY <2>2, <3>1, <3>2
      <3>5. /\ checks' \in Seq(Request) /\ DOMAIN checks' = DOMAIN checks /\ checks'[i] = d
            /\ \A j \in DOMAIN checks \ {i} : checks'[j] = checks[j]
        BY <1>0, <3>3, <3>4, SeqUpdate
      <3>6. checks' \in Seq([keys : KeysOf, at : Seq(Nat),
                             is : {"checking", "passed", "refused", "open"}])
        BY <3>5 DEF Request
      <3>7. Limits!TypeOK'
        BY <1>0, <2>2, <3>5, <3>6 DEF Limits!TypeOK
      <3>8. NoCheck
        BY <1>0, <2>2, <3>1, <3>3, <3>5 DEF NoCheck
      <3> QED BY <3>7, <3>8, LimitsSame
    <2> QED BY <1>3, <2>1, <2>2 DEF Limits!FailOpen
  <1>4. CASE Limits!Pass
    <2>1. /\ second' = second + 1 /\ UNCHANGED <<lapses, checks>>
          /\ \A k \in Limits!Key : log'[k] = IF lapses[k] <= second' THEN {} ELSE log[k]
          /\ DOMAIN log' = Limits!Key
          /\ log' = [k \in Limits!Key |-> IF lapses[k] <= second' THEN {} ELSE log[k]]
      BY <1>4 DEF Limits!Pass
    <2>2. Limits!TypeOK'
      <3>1. log' \in [Limits!Key -> SUBSET DOMAIN checks]
        BY <1>0, <2>1
      <3>2. second' \in Nat
        BY <1>0, <2>1
      <3> QED BY <1>0, <2>1, <3>1, <3>2 DEF Limits!TypeOK
    <2>3. NoCheck
      BY <1>0, <2>1 DEF NoCheck
    <2> QED BY <2>2, <2>3, LimitsSame
  <1>5. CASE UNCHANGED limitVars
    <2>1. UNCHANGED <<second, log, lapses, checks>>
      BY <1>5 DEF limitVars
    <2>2. Limits!TypeOK'
      BY <1>0, <2>1 DEF Limits!TypeOK
    <2>3. NoCheck
      BY <1>0, <2>1 DEF NoCheck
    <2> QED BY <2>2, <2>3, LimitsSame
  <1> QED BY <1>1, <1>2, <1>3, <1>4, <1>5 DEF Limits!Next

LEMMA LimitsInitInv ==
  Limits!Init => Limits!IInv
  <1> SUFFICES ASSUME Limits!Init PROVE Limits!IInv
    OBVIOUS
  <1>1. /\ second = 0 /\ checks = <<>> /\ DOMAIN checks = {}
        /\ log = [k \in Limits!Key |-> {}] /\ lapses = [k \in Limits!Key |-> 0]
    BY DEF Limits!Init
  <1>2. Limits!TypeOK
    BY <1>1 DEF Limits!TypeOK
  <1>3. \A k, t : Limits!Within(k, t) = {} /\ Limits!Admitted(k, t) = {}
    BY <1>1 DEF Limits!Within, Limits!Admitted
  <1>4. Cardinality({}) = 0
    BY FS_EmptySet
  <1>5. \A k \in Limits!Key, t \in 0..second : Cardinality(Limits!Admitted(k, t)) <= Limit[k]
    BY <1>3, <1>4, LimitsNumbers
  <1>6. Limits!LimitExact
    BY <1>1, <1>2, <1>5, LimitsBound, LimitsCardinality DEF Limits!LimitExact
  <1> QED BY <1>1, <1>2, <1>3, <1>5, <1>6, LimitsCardinality DEF Limits!IInv

\* However requests are interleaved between the checks of their keys
\* (http/middleware/rate-limit.ts), no window of any key lets more than its limit
\* through while Redis answers, and none is refused that did not come on top of it.
THEOREM WindowsHold == RecordsSpec => []LimitExact
  <1>1. Limits!IInv => LimitExact
    BY DEF Limits!IInv, LimitExact
  <1>2. RecordsInit => Limits!IInv
    BY LimitsInitInv DEF RecordsInit
  <1>3. [RecordsNext]_recordsVars => [Limits!Next]_limitVars
    BY DEF RecordsNext, recordsVars
  <1> QED BY <1>1, <1>2, <1>3, LimitsStep, PTL DEF RecordsSpec
==============================================================================
