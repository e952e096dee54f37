------------------------------ MODULE JobWorker ------------------------------
(***************************************************************************)
(* The job queue of the sidecar: arq's worker loop as jobs/worker.py       *)
(* configures it, and the retry wrapper around every job                   *)
(* (jobs/retry.py).  What a job does is left to the modules that extend    *)
(* this one; here it returns, raises, is timed out or dies with the worker.*)
(*                                                                         *)
(* arq counts the runs of a job (job_try) before it calls it, so a run     *)
(* that a crash cuts short counts; it refuses the run after MaxTries       *)
(* without calling the wrapper.                                            *)
(***************************************************************************)
EXTENDS JobPolicy, FiniteSets

CONSTANTS
    Job,        \* ids of the jobs that are ever enqueued
    Submitted,  \* the names they are enqueued under
    MaxTries,   \* WorkerSettings.max_tries
    MaxJobs     \* WorkerSettings.max_jobs

ASSUME WorkerAssumption ==
    /\ Submitted \subseteq Name
    /\ MaxTries \in Nat \ {0}
    /\ MaxJobs \in Nat \ {0}

VARIABLES
    kind,      \* the function name the job was enqueued under
    st,        \* where the job is
    tries,     \* job_try of its last run
    todo,      \* wrappers that have still to write a dead letter
    letters,   \* its entries in sidecar:dead_letter
    why,       \* history: category of the exception that ended its last run
    crashed    \* history: the worker has died at least once

queue == <<kind, st, tries, todo, letters, why, crashed>>

Active(j) == st[j] \in {"running", "failing"}

WorkerTypeOK ==
    /\ kind \in [Job -> Name \cup {"-"}]
    /\ st \in [Job -> {"none", "queued", "running", "failing", "done", "failed"}]
    /\ tries \in [Job -> 0..MaxTries]
    /\ todo \in [Job -> 0..2]
    /\ letters \in [Job -> Nat]
    /\ why \in [Job -> Category \cup {"-"}]
    /\ crashed \in BOOLEAN

WorkerInit ==
    /\ kind = [j \in Job |-> "-"]
    /\ st = [j \in Job |-> "none"]
    /\ tries = [j \in Job |-> 0]
    /\ todo = [j \in Job |-> 0]
    /\ letters = [j \in Job |-> 0]
    /\ why = [j \in Job |-> "-"]
    /\ crashed = FALSE

\* enqueue_job under the name k.
Enqueue(j, k) ==
    /\ st[j] = "none"
    /\ st' = [st EXCEPT ![j] = "queued"]
    /\ kind' = [kind EXCEPT ![j] = k]
    /\ UNCHANGED <<tries, todo, letters, why, crashed>>

\* arq takes the job off the queue and calls its function.
Start(j) ==
    /\ st[j] = "queued" /\ kind[j] \in Registered /\ tries[j] < MaxTries
    /\ Cardinality({i \in Job : Active(i)}) < MaxJobs
    /\ st' = [st EXCEPT ![j] = "running"]
    /\ tries' = [tries EXCEPT ![j] = @ + 1]
    /\ UNCHANGED <<kind, todo, letters, why, crashed>>

Refuse_Never(j) ==
    /\ st[j] = "queued" /\ kind[j] \notin Registered
    /\ st' = [st EXCEPT ![j] = "failed"]
    /\ UNCHANGED <<kind, tries, todo, letters, why, crashed>>
\* arq knows no function of that name, or the tries are used up.
Refuse(j) ==
    /\ st[j] = "queued" /\ (kind[j] \notin Registered \/ tries[j] >= MaxTries)
    /\ st' = [st EXCEPT ![j] = "failed"]
    /\ UNCHANGED <<kind, tries, todo, letters, why, crashed>>

\* The function returns.
Return(j) ==
    /\ st[j] = "running"
    /\ st' = [st EXCEPT ![j] = "done"]
    /\ UNCHANGED <<kind, tries, todo, letters, why, crashed>>

\* a wrapper that writes its letter on every exception
Raise_Eager(j, e) ==
    /\ st[j] = "running"
    /\ why' = [why EXCEPT ![j] = ClassifyError(e)]
    /\ IF Retries(ClassifyError(e), tries[j] - 1)
       THEN /\ st' = [st EXCEPT ![j] = "queued"]
            /\ letters' = [letters EXCEPT ![j] = @ + 1]
            /\ UNCHANGED todo
       ELSE /\ st' = [st EXCEPT ![j] = "failing"]
            /\ todo' = [todo EXCEPT ![j] = Wraps(kind[j])]
            /\ UNCHANGED letters
    /\ UNCHANGED <<kind, tries, crashed>>
\* with_retry_policy: the exception becomes arq's Retry, or every wrapper writes
\* a dead letter and raises it again.
Raise(j, e) ==
    LET c == ClassifyError(e) IN
    /\ st[j] = "running"
    /\ why' = [why EXCEPT ![j] = c]
    /\ IF Retries(c, tries[j] - 1)
       THEN /\ st' = [st EXCEPT ![j] = "queued"]
            /\ UNCHANGED todo
       ELSE /\ st' = [st EXCEPT ![j] = "failing"]
            /\ todo' = [todo EXCEPT ![j] = Wraps(kind[j])]
    /\ UNCHANGED <<kind, tries, letters, crashed>>

\* _dead_letter; a Redis error is logged and swallowed (and the history then
\* forgets why the job failed).
WriteLetter(j) ==
    /\ st[j] = "failing" /\ todo[j] > 0
    /\ todo' = [todo EXCEPT ![j] = @ - 1]
    /\ \/ letters' = [letters EXCEPT ![j] = @ + 1] /\ UNCHANGED why
       \/ why' = [why EXCEPT ![j] = "-"] /\ UNCHANGED letters
    /\ UNCHANGED <<kind, st, tries, crashed>>

\* The exception reaches arq.
GiveUp(j) ==
    /\ st[j] = "failing" /\ todo[j] = 0
    /\ st' = [st EXCEPT ![j] = "failed"]
    /\ UNCHANGED <<kind, tries, todo, letters, why, crashed>>

\* arq cancels the run at job_timeout: CancelledError passes the wrapper by, and
\* arq does not run the job again.
TimeOut(j) ==
    /\ Active(j)
    /\ st' = [st EXCEPT ![j] = "failed"]
    /\ why' = [why EXCEPT ![j] = "-"]
    /\ todo' = [todo EXCEPT ![j] = 0]
    /\ UNCHANGED <<kind, tries, letters, crashed>>

\* The worker dies or is shut down; arq (retry_jobs) runs its jobs again.
Crash ==
    /\ \E j \in Job : Active(j)
    /\ st' = [j \in Job |-> IF Active(j) THEN "queued" ELSE st[j]]
    /\ why' = [j \in Job |-> IF Active(j) THEN "-" ELSE why[j]]
    /\ todo' = [j \in Job |-> IF Active(j) THEN 0 ELSE todo[j]]
    /\ crashed' = TRUE
    /\ UNCHANGED <<kind, tries, letters>>

WorkerNext ==
    \/ \E j \in Job :
        \/ \E k \in Submitted : Enqueue(j, k)
        \/ Start(j) \/ Refuse(j) \/ Return(j) \/ TimeOut(j)
        \/ \E e \in Exception : Raise(j, e)
        \/ WriteLetter(j) \/ GiveUp(j)
    \/ Crash

WorkerSpec == WorkerInit /\ [][WorkerNext]_queue

\* arq polls the queue, and a job that is called returns, raises or is timed
\* out; the place of one job may be taken by others, but not for ever.
WorkerFairSpec ==
    /\ WorkerSpec
    /\ \A j \in Job :
        /\ SF_queue(Start(j)) /\ WF_queue(Refuse(j))
        /\ WF_queue(Return(j) \/ TimeOut(j) \/ \E e \in Exception : Raise(j, e))
        /\ WF_queue(WriteLetter(j)) /\ WF_queue(GiveUp(j))

------------------------------------------------------------------------------
(* Properties *)

Outcome == INSTANCE JobOutcome WITH
    outcome <- [j \in Job |->
                  CASE st[j] \in {"queued", "running", "failing"} -> "pending"
                    [] OTHER -> st[j]],
    runs <- tries

\* The queue keeps its promise: whatever fails, times out or crashes, a job ends
\* once, after at most MaxTries runs, and it does end.
KeepsPromise == Outcome!FairSpec

\* A job in the dead-letter set has failed, or is about to; only a worker that
\* dies between the letter and arq's own record brings such a job back.
LetterIsFinal == \A j \in Job : letters[j] > 0 /\ ~crashed => st[j] \in {"failing", "failed"}

\* How the wrapper's counters bear it out.
WorkerIInv ==
    /\ WorkerTypeOK
    /\ LetterIsFinal
    /\ \A j \in Job :
        /\ st[j] \in {"running", "failing", "done"} => tries[j] > 0
        /\ st[j] # "none" => kind[j] \in Submitted

\* A job that failed for one of the categories of the retry table is in the
\* dead-letter set.
FailureIsLettered == \A j \in Job : st[j] = "failed" /\ why[j] # "-" => letters[j] > 0
==============================================================================
