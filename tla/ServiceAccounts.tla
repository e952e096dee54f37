--------------------------- MODULE ServiceAccounts ---------------------------
(***************************************************************************)
(* The key of one service account (modules/service-accounts): created with *)
(* its first key, rotated and revoked by calls that read the row and then  *)
(* update it, others in between.  Keys are numbered as they are generated. *)
(***************************************************************************)
EXTENDS Naturals

CONSTANTS
    Call, Grace,         \* callers; hours a replaced key still works
    MaxKeys, MaxHours    \* bounds of the model

VARIABLES
    hour,
    account,    \* its row: status, key, the key before, until when that one works
    newest,     \* the last key generated
    call,       \* what each caller is about to write
    replaced,   \* history: when a rotation replaced each key
    revoked     \* history: a revocation has been answered

vars == <<hour, account, newest, call, replaced, revoked>>

NoKey == 0
Idle == [op |-> "idle", key |-> NoKey, until |-> 0]

Init ==
    /\ hour = 0
    /\ account = [status |-> "active", key |-> 1, previous |-> NoKey, until |-> 0]
    /\ newest = 1
    /\ call = [c \in Call |-> Idle]
    /\ replaced = [k \in 1..MaxKeys |-> MaxHours + Grace]
    /\ revoked = FALSE

\* rotateKey reads the row, makes a key and says until when the old one works.
RotateRead(c) ==
    /\ call[c] = Idle /\ account.status = "active" /\ newest < MaxKeys
    /\ newest' = newest + 1
    /\ call' = [call EXCEPT ![c] = [op |-> "rotate", key |-> newest', until |-> hour + Grace]]
    /\ UNCHANGED <<hour, account, replaced, revoked>>

RotateUpdate_KeepsOldest(c) ==
    LET running == account.previous # NoKey /\ account.until > hour IN
    /\ call[c].op = "rotate"
    /\ account' = [account EXCEPT !.key = call[c].key, !.until = call[c].until,
                                  !.previous = IF running THEN @ ELSE account.key]
    /\ replaced' = [replaced EXCEPT ![account.key] = hour]
    /\ call' = [call EXCEPT ![c] = Idle]
    /\ UNCHANGED <<hour, newest, revoked>>
RotateUpdate(c) ==
    /\ call[c].op = "rotate"
    /\ account' = [account EXCEPT !.key = call[c].key, !.previous = account.key,
                                  !.until = call[c].until]
    /\ replaced' = [replaced EXCEPT ![account.key] = hour]
    /\ call' = [call EXCEPT ![c] = Idle]
    /\ UNCHANGED <<hour, newest, revoked>>

RevokeRead(c) ==
    /\ call[c] = Idle /\ account.status = "active"
    /\ call' = [call EXCEPT ![c].op = "revoke"]
    /\ UNCHANGED <<hour, account, newest, replaced, revoked>>

RevokeUpdate(c) ==
    /\ call[c].op = "revoke"
    /\ account' = [account EXCEPT !.status = "revoked", !.previous = NoKey, !.until = 0]
    /\ call' = [call EXCEPT ![c] = Idle]
    /\ revoked' = TRUE
    /\ UNCHANGED <<hour, newest, replaced>>

\* The database refuses the update, or the process ends.
Fail(c) ==
    /\ call[c] # Idle
    /\ call' = [call EXCEPT ![c] = Idle]
    /\ UNCHANGED <<hour, account, newest, replaced, revoked>>

Pass ==
    /\ hour < MaxHours /\ hour' = hour + 1
    /\ UNCHANGED <<account, newest, call, replaced, revoked>>

Next ==
    \/ \E c \in Call : RotateRead(c) \/ RotateUpdate(c) \/ RevokeRead(c) \/ RevokeUpdate(c) \/ Fail(c)
    \/ Pass

\* findByKeyHash
FindByKeyHash(k) ==
    /\ account.status = "active"
    /\ \/ account.key = k
       \/ account.previous = k /\ account.until > hour

------------------------------------------------------------------------------
(* Properties *)

\* However rotations and revocations race, a key that was replaced is dead when its
\* grace period is over, at the latest, and every key is when a revocation was answered.
KeysDie ==
    \A k \in 1..MaxKeys : FindByKeyHash(k) => ~revoked /\ hour < replaced[k] + Grace

-------------------------------------------------------------------------------
(* The inductive invariant.                                                  *)

Key == 1..MaxKeys
Row == [status : {"active", "revoked"}, key : Key, previous : Key \cup {NoKey}, until : Nat]
Plan == [op : {"idle", "rotate", "revoke"}, key : Key \cup {NoKey}, until : Nat]

TypeOK ==
    /\ hour \in 0..MaxHours
    /\ newest \in Key
    /\ account \in Row
    /\ call \in [Call -> Plan]
    /\ replaced \in [Key -> Nat]
    /\ revoked \in BOOLEAN

\* The key that is current was never replaced, the one before dies in time, and the
\* keys on their way are new: each rotation carries one of its own, and an end for
\* the key it will replace that is no later than the grace period from now.
IInv ==
    /\ TypeOK
    /\ revoked => account.status = "revoked"
    /\ account.key <= newest
    /\ \A k \in Key : k = account.key \/ k > newest => replaced[k] = MaxHours + Grace
    /\ account.previous # NoKey => account.until <= replaced[account.previous] + Grace
    /\ \A c \in Call : call[c].op = "rotate" =>
        /\ call[c].key \in Key /\ call[c].key <= newest /\ call[c].key # account.key
        /\ replaced[call[c].key] = MaxHours + Grace
        /\ call[c].until <= hour + Grace
        /\ \A d \in Call \ {c} : call[d].op = "rotate" => call[d].key # call[c].key
===============================================================================
