------------------------------- MODULE Records -------------------------------
(***************************************************************************)
(* The components of the API that share no state with each other.  The     *)
(* variable part says which of them a behaviour is about; the others stay  *)
(* in an initial state, so that what holds of a component alone is what    *)
(* holds of it here, and the runs add up instead of multiplying.           *)
(***************************************************************************)
EXTENDS UserInvitations, Sequences

CONSTANTS
    Parts,
    Call,                                         \* callers of one component
    Limit, KeysOf, Window, MaxRequests, MaxSeconds,    \* of RateLimiter
    Grace, MaxKeys, MaxHours,                          \* of ServiceAccounts
    User, Durations, MaxMinutes                        \* of Impersonation

\* A request is checked against a key once (rate-limit.ts), and limits, windows
\* and durations are numbers; a replaced key works for some hours.
ASSUME RecordsAssumption ==
    /\ Limit \in [DOMAIN Limit -> Nat] /\ Window \in Nat \ {0}
    /\ \A keys \in KeysOf :
        /\ keys \in Seq(DOMAIN Limit)
        /\ \A m, n \in DOMAIN keys : keys[m] = keys[n] => m = n
    /\ Grace \in Nat \ {0} /\ MaxKeys \in Nat \ {0} /\ MaxHours \in Nat
    /\ Durations \subseteq Nat

VARIABLES
    part,
    second, log, lapses, checks,                            \* of RateLimiter
    hour, account, newest, call, replaced, revoked,         \* of ServiceAccounts
    minute, rows, senior, starts, tokens,                   \* of Impersonation
    status, heard, changes, sealed, crossed, lost           \* of Households

limitVars == <<second, log, lapses, checks>>
keyVars == <<hour, account, newest, call, replaced, revoked>>
actVars == <<minute, rows, senior, starts, tokens>>
houseVars == <<status, heard, changes, sealed, crossed, lost>>
recordsVars == <<part, vars, limitVars, keyVars, actVars, houseVars>>

Limits == INSTANCE RateLimiter
Keys == INSTANCE ServiceAccounts
Acting == INSTANCE Impersonation WITH call <- starts
House == INSTANCE Households WITH call <- changes

RecordsInit ==
    /\ part \in Parts
    /\ Init /\ (part # "invitations" => mode = "serial")
    /\ Limits!Init /\ Keys!Init /\ House!Init
    /\ Acting!Init /\ (part # "impersonation" => senior = {})

RecordsNext ==
    /\ UNCHANGED part
    /\ \/ part = "invitations" /\ Next /\ UNCHANGED <<limitVars, keyVars, actVars, houseVars>>
       \/ part = "limits" /\ Limits!Next /\ UNCHANGED <<vars, keyVars, actVars, houseVars>>
       \/ part = "keys" /\ Keys!Next /\ UNCHANGED <<vars, limitVars, actVars, houseVars>>
       \/ part = "impersonation" /\ Acting!Next /\ UNCHANGED <<vars, limitVars, keyVars, houseVars>>
       \/ part = "households" /\ House!Next /\ UNCHANGED <<vars, limitVars, keyVars, actVars>>

RecordsSpec == RecordsInit /\ [][RecordsNext]_recordsVars

------------------------------------------------------------------------------
(* The properties of the components; the others are those of UserInvitations. *)

\* The limits hold exactly while Redis answers.
LimitExact == Limits!LimitExact
\* A replaced or revoked key stops to work.
KeysDie == Keys!KeysDie
\* One session per idempotency key, and no token for it once it is over.
TokensHonest == Acting!TokensHonest
\* A closed household stays closed, and what was announced is so.
HouseholdSettled == House!HouseholdSettled
==============================================================================
