------------------------------ MODULE Households ------------------------------
(***************************************************************************)
(* The status of one household (modules/households): calls of              *)
(* transitionStatus and updateHousehold that read the row, write it and    *)
(* announce it, others in between.                                         *)
(***************************************************************************)
CONSTANTS Call

VARIABLES
    status,     \* of the row
    heard,      \* the last one announced (household.status_changed)
    call,       \* what each caller does next
    sealed,     \* history: was closed while nobody was calling
    crossed,    \* history: two transitions have been under way at once
    lost        \* history: a call failed, or an announcement did

vars == <<status, heard, call, sealed, crossed, lost>>

Idle == [op |-> "idle"]
Goto(c, to) == call' = [call EXCEPT ![c] = to]
Quiet == \A c \in Call : call[c] = Idle

Init ==
    /\ status = "active" /\ heard = "active"
    /\ call = [c \in Call |-> Idle]
    /\ sealed = FALSE /\ crossed = FALSE /\ lost = FALSE

MayBecome_Unchecked(next) == status # next
\* the checks of transitionStatus
MayBecome(next) ==
    /\ status # next
    /\ next = "inactive" => status = "active"
    /\ next = "active" => status = "inactive"

\* The household is read; for closing the blocking accounts are counted next.
Read(c, next) ==
    /\ call[c] = Idle /\ MayBecome(next)
    /\ Goto(c, [op |-> IF next = "closed" THEN "count" ELSE "write", next |-> next])
    /\ crossed' = (crossed \/ \E d \in Call : call[d].op \in {"count", "write", "announce"})
    /\ UNCHANGED <<status, heard, lost>>

\* countBlockingAccounts
Count(c) ==
    /\ call[c].op = "count"
    /\ \E blocked \in BOOLEAN :
          Goto(c, IF blocked THEN Idle ELSE [op |-> "write", next |-> "closed"])
    /\ UNCHANGED <<status, heard, crossed, lost>>

\* updateStatus: by id, whatever the status is by now
Write(c) ==
    /\ call[c].op = "write"
    /\ status' = call[c].next
    /\ Goto(c, [op |-> "announce", next |-> call[c].next])
    /\ UNCHANGED <<heard, crossed, lost>>

\* auditFromContext raises, publishDomainEvent swallows what goes wrong.
Announce(c) ==
    /\ call[c].op = "announce"
    /\ \/ heard' = call[c].next /\ UNCHANGED lost
       \/ lost' = TRUE /\ UNCHANGED heard
    /\ Goto(c, Idle)
    /\ UNCHANGED <<status, crossed>>

\* updateHousehold reads, writes the other columns and announces them elsewhere.
UpdateRead(c) ==
    /\ call[c] = Idle /\ Goto(c, [op |-> "update"])
    /\ UNCHANGED <<status, heard, crossed, lost>>
UpdateWrite(c) ==
    /\ call[c].op = "update" /\ Goto(c, Idle)
    /\ UNCHANGED <<status, heard, crossed, lost>>

Fail(c) ==
    /\ call[c] # Idle /\ Goto(c, Idle) /\ lost' = TRUE
    /\ UNCHANGED <<status, heard, crossed>>

Next ==
    /\ \E c \in Call :
        \/ \E next \in {"active", "inactive", "closed"} : Read(c, next)
        \/ Count(c) \/ Write(c) \/ Announce(c)
        \/ UpdateRead(c) \/ UpdateWrite(c) \/ Fail(c)
    /\ sealed' = (sealed \/ (status' = "closed" /\ Quiet'))

------------------------------------------------------------------------------
(* Properties *)

\* A household that was closed when nobody was calling stays closed, whoever calls
\* then; and once calls are over, the last announcement is its status, unless two
\* transitions crossed or one of them failed.
HouseholdSettled ==
    /\ sealed => status = "closed"
    /\ Quiet /\ ~crossed /\ ~lost => heard = status

-------------------------------------------------------------------------------
(* The inductive invariant.                                                  *)

Moving == {"count", "write", "announce"}      \* in a transition
Status == {"active", "inactive", "closed"}
TypeOK ==
    /\ {status, heard} \subseteq Status
    /\ call \in [Call -> {Idle, [op |-> "update"]} \cup [op : Moving, next : Status]]
    /\ {sealed, crossed, lost} \subseteq BOOLEAN

\* Once sealed, no transition begins; while none have crossed, there is one at most,
\* and what it has written it is about to announce.
IInv ==
    /\ TypeOK
    /\ sealed => status = "closed" /\ \A c \in Call : call[c].op \notin Moving
    /\ ~crossed =>
        /\ \A c, d \in Call : {call[c].op, call[d].op} \subseteq Moving => c = d
        /\ \A c \in Call : call[c].op = "announce" => call[c].next = status
        /\ heard = status \/ lost \/ \E c \in Call : call[c].op = "announce"
===============================================================================
