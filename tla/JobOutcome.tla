------------------------------ MODULE JobOutcome ------------------------------
(***************************************************************************)
(* What the job queue promises to whoever enqueues a job: it ends once, as *)
(* done or failed, after a bounded number of runs, and the dead-letter set *)
(* only names jobs that were run.                                          *)
(***************************************************************************)
EXTENDS Naturals

CONSTANTS Job, MaxTries

VARIABLES
    outcome,   \* "none" until the job is submitted, then pending, then its end
    runs,      \* how many times the job has been started
    letters    \* its entries in the dead-letter set

vars == <<outcome, runs, letters>>

Init ==
    /\ outcome = [j \in Job |-> "none"]
    /\ runs = [j \in Job |-> 0]
    /\ letters = [j \in Job |-> 0]

Submit(j) ==
    /\ outcome[j] = "none" /\ outcome' = [outcome EXCEPT ![j] = "pending"]
    /\ UNCHANGED <<runs, letters>>

Run(j) ==
    /\ outcome[j] = "pending" /\ runs[j] < MaxTries
    /\ runs' = [runs EXCEPT ![j] = @ + 1]
    /\ UNCHANGED <<outcome, letters>>

Note(j) ==
    /\ outcome[j] = "pending" /\ runs[j] > 0
    /\ letters' = [letters EXCEPT ![j] = @ + 1]
    /\ UNCHANGED <<outcome, runs>>

End(j) ==
    /\ outcome[j] = "pending"
    /\ \E r \in {"done", "failed"} :
        /\ r = "done" => runs[j] > 0
        /\ outcome' = [outcome EXCEPT ![j] = r]
    /\ UNCHANGED <<runs, letters>>

Next == \E j \in Job : Submit(j) \/ Run(j) \/ Note(j) \/ End(j)

Spec == Init /\ [][Next]_vars

\* A submitted job ends.
FairSpec == Spec /\ \A j \in Job : WF_vars(End(j))
==============================================================================
