------------------------------ MODULE ToolCalls ------------------------------
(***************************************************************************)
(* One batch of tool calls (services/tool_orchestrator.py): the read-only  *)
(* calls run together, a few at a time, then the others one by one in the  *)
(* order of the request.  Hooks never fail (services/hooks.py); the        *)
(* progress callback may.                                                  *)
(***************************************************************************)
EXTENDS Integers, Sequences, FiniteSets

CONSTANTS
    Requests,        \* the calls, in order
    ReadOnly,        \* those that may run together
    MaxConcurrent    \* slots of the semaphore

VARIABLES
    st,       \* where each call is
    out,      \* its outcome, as it will be reported
    phase,    \* of the batch
    abort     \* argument of the call: abort_on_error

vars == <<st, out, phase, abort>>

Call == {Requests[i] : i \in DOMAIN Requests}
Running(c) == st[c] \in {"starting", "running", "reporting"}
Over(c) == st[c] \in {"done", "raised", "cancelled"}
Errors == {c \in Call : out[c] = "error" /\ Over(c)}

TypeOK ==
    /\ st \in [Call -> {"waiting", "starting", "running", "reporting", "done", "raised", "cancelled"}]
    /\ out \in [Call -> {"none", "ok", "error", "cancelled"}]
    /\ phase \in {"reading", "aborting", "writing", "returned", "raised"}
    /\ abort \in BOOLEAN

Init ==
    /\ st = [c \in Call |-> "waiting"]
    /\ out = [c \in Call |-> "none"]
    /\ phase = "reading"
    /\ abort \in BOOLEAN

Step(c, from, to) == st[c] = from /\ st' = [st EXCEPT ![c] = to]

\* is_concurrency_safe, the partition, and the turn of a call: a slot of the
\* semaphore, or the end of every call before it.
Safe(c) == c \in ReadOnly
\* the others are started together, too
InTurn_Unordered(c) == Safe(c) \/ phase = "writing"
InTurn(c) ==
    IF Safe(c)
    THEN Cardinality({d \in Call : Safe(d) /\ Running(d)}) < MaxConcurrent
    ELSE /\ phase = "writing"
         /\ \A i, k \in DOMAIN Requests :
               Requests[k] = c /\ i < k /\ ~Safe(Requests[i]) => Over(Requests[i])

\* PRE_TOOL_CALL and tool.start
Begin(c) ==
    /\ phase \in {"reading", "writing", "raised"} /\ (phase = "raised" => Safe(c))
    /\ InTurn(c)
    /\ Step(c, "waiting", "starting")
    /\ UNCHANGED <<out, phase, abort>>
Execute(c) == Step(c, "starting", "running") /\ UNCHANGED <<out, phase, abort>>

\* _execute_single: the tool's exception becomes a result
Answer(c) ==
    /\ Step(c, "running", "reporting")
    /\ \E o \in {"ok", "error"} : out' = [out EXCEPT ![c] = o]
    /\ UNCHANGED <<phase, abort>>

\* tool.result or tool.error, and POST_TOOL_CALL
Report(c) == Step(c, "reporting", "done") /\ UNCHANGED <<out, phase, abort>>

\* The progress callback raises, before or after the tool: among reads that may
\* abort, it is the call's outcome; else the exception leaves the batch at once,
\* and the other reads run on.
CallbackFails(c) ==
    /\ \/ Step(c, "starting", "raised") \/ Step(c, "reporting", "raised")
    /\ out' = [out EXCEPT ![c] = "error"]
    /\ phase' = IF Safe(c) /\ abort THEN phase ELSE "raised"
    /\ UNCHANGED abort

\* asyncio.wait(FIRST_EXCEPTION), or gather: the reads are over, or one of them has
\* raised; an error that is a result ends no wait.
ReadsOver == \A c \in Call : Safe(c) => Over(c)
Waited == ReadsOver \/ (abort /\ \E c \in Call : st[c] = "raised")
ReadsDone ==
    /\ phase = "reading" /\ Waited
    /\ phase' = IF ReadsOver THEN "writing" ELSE "aborting"
    /\ UNCHANGED <<st, out, abort>>

\* Cancelled at the semaphore, at a hook or at the callback a call is gone;
\* _execute_single turns the cancellation of a running tool into a result, which is reported.
Cancel(c) ==
    /\ phase = "aborting" /\ Safe(c)
    /\ \/ /\ st[c] \in {"waiting", "starting", "reporting"} /\ out[c] # "cancelled"
          /\ st' = [st EXCEPT ![c] = "cancelled"]
       \/ Step(c, "running", "reporting")
    /\ out' = [out EXCEPT ![c] = "cancelled"]
    /\ UNCHANGED <<phase, abort>>
AbortDone ==
    /\ phase = "aborting" /\ ReadsOver
    /\ phase' = "writing"
    /\ UNCHANGED <<st, out, abort>>

Return ==
    /\ phase = "writing" /\ \A c \in Call : Over(c)
    /\ phase' = "returned"
    /\ UNCHANGED <<st, out, abort>>

Next ==
    \/ \E c \in Call : Begin(c) \/ Execute(c) \/ Answer(c) \/ Report(c)
                       \/ CallbackFails(c) \/ Cancel(c)
    \/ ReadsDone \/ AbortDone \/ Return

Spec == Init /\ [][Next]_vars

------------------------------------------------------------------------------
(* Properties *)

\* A call that may change something runs alone: no read-only call of its batch and
\* no other such call is in progress, also when callbacks fail and reads are
\* cancelled.
WritersAlone == \A c, d \in Call : Running(c) /\ ~Safe(c) /\ Running(d) => c = d

\* Sibling abort: once a call has reported an error, no other read starts.
SiblingsAborted ==
    [][abort /\ Errors # {} => \A c \in Call : st[c] = "waiting" => st'[c] # "starting"]_vars
==============================================================================
