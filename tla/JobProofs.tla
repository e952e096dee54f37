------------------------------- MODULE JobProofs -------------------------------
(***************************************************************************)
(* What the job queue keeps to for any jobs, limits and crashes: a dead    *)
(* letter is final, and the queue implements the safety part of what       *)
(* JobOutcome promises to whoever enqueues a job.  And what the jobs do on *)
(* top of it: a run that no other run of its family overlaps has its keys  *)
(* to itself, so that every write of it builds on the one before.          *)
(***************************************************************************)
EXTENDS JobHandlers, FiniteSetTheorems, TLAPS

USE WorkerAssumption DEF WorkerAssumption

LEMMA Policy ==
  /\ \A e \in Exception : ClassifyError(e) \in Category
  /\ \A k : Wraps(k) \in 0..2
  <1>1. ASSUME NEW e \in Exception PROVE ClassifyError(e) \in Category
    BY DEF ClassifyError, Category
  <1>2. ASSUME NEW k PROVE Wraps(k) \in 0..2
    BY DEF Wraps
  <1> QED BY <1>1, <1>2

LEMMA InitInv == WorkerInit => WorkerIInv
  <1> SUFFICES ASSUME WorkerInit PROVE WorkerIInv
    OBVIOUS
  <1>1. tries \in [Job -> 0..MaxTries] /\ todo \in [Job -> 0..2] /\ letters \in [Job -> Nat]
    BY DEF WorkerInit
  <1>2. WorkerTypeOK
    BY <1>1 DEF WorkerInit, WorkerTypeOK
  <1> QED BY <1>2 DEF WorkerInit, WorkerIInv, LetterIsFinal

LEMMA TypeStep == WorkerTypeOK /\ [WorkerNext]_queue => WorkerTypeOK'
  <1> SUFFICES ASSUME WorkerTypeOK, [WorkerNext]_queue PROVE WorkerTypeOK'
    OBVIOUS
  <1> USE DEF WorkerTypeOK, Active
  <1>1. ASSUME NEW j \in Job, NEW k \in Submitted, Enqueue(j, k) PROVE WorkerTypeOK'
    BY <1>1 DEF Enqueue
  <1>2. ASSUME NEW j \in Job, Start(j) PROVE WorkerTypeOK'
    BY <1>2 DEF Start
  <1>3. ASSUME NEW j \in Job, Refuse(j) \/ Return(j) \/ TimeOut(j) \/ GiveUp(j)
        PROVE  WorkerTypeOK'
    BY <1>3 DEF Refuse, Return, TimeOut, GiveUp
  <1>4. ASSUME NEW j \in Job, NEW e \in Exception, Raise(j, e) PROVE WorkerTypeOK'
    BY <1>4, Policy DEF Raise
  <1>5. ASSUME NEW j \in Job, WriteLetter(j) PROVE WorkerTypeOK'
    BY <1>5 DEF WriteLetter
  <1>6. ASSUME Crash PROVE WorkerTypeOK'
    BY <1>6 DEF Crash
  <1>7. ASSUME UNCHANGED queue PROVE WorkerTypeOK'
    BY <1>7 DEF queue
  <1> QED BY <1>1, <1>2, <1>3, <1>4, <1>5, <1>6, <1>7 DEF WorkerNext

\* A step of one job that leaves the others alone.
LEMMA OneJob ==
  ASSUME WorkerIInv, WorkerTypeOK', NEW j \in Job, crashed' = crashed,
         \A i \in Job \ {j} : /\ st'[i] = st[i] /\ kind'[i] = kind[i]
                              /\ tries'[i] = tries[i] /\ letters'[i] = letters[i],
         letters'[j] > 0 /\ ~crashed => st'[j] \in {"failing", "failed"},
         st'[j] \in {"running", "failing", "done"} => tries'[j] > 0,
         st'[j] # "none" => kind'[j] \in Submitted
  PROVE  WorkerIInv'
  BY DEF WorkerIInv, LetterIsFinal

LEMMA Step == WorkerIInv /\ [WorkerNext]_queue => WorkerIInv'
  <1> SUFFICES ASSUME WorkerIInv, [WorkerNext]_queue PROVE WorkerIInv'
    OBVIOUS
  <1>0. WorkerTypeOK' /\ WorkerTypeOK
    BY TypeStep DEF WorkerIInv
  <1> USE <1>0 DEF WorkerTypeOK, Active
  <1>1. ASSUME NEW j \in Job, NEW k \in Submitted, Enqueue(j, k) PROVE WorkerIInv'
    BY <1>1, OneJob DEF Enqueue, WorkerIInv, LetterIsFinal
  <1>2. ASSUME NEW j \in Job, Start(j) PROVE WorkerIInv'
    BY <1>2, OneJob DEF Start, WorkerIInv, LetterIsFinal
  <1>3. ASSUME NEW j \in Job, Refuse(j) \/ Return(j) \/ TimeOut(j) \/ GiveUp(j)
        PROVE  WorkerIInv'
    BY <1>3, OneJob DEF Refuse, Return, TimeOut, GiveUp, WorkerIInv, LetterIsFinal
  <1>4. ASSUME NEW j \in Job, NEW e \in Exception, Raise(j, e) PROVE WorkerIInv'
    BY <1>4, OneJob DEF Raise, WorkerIInv, LetterIsFinal
  <1>5. ASSUME NEW j \in Job, WriteLetter(j) PROVE WorkerIInv'
    BY <1>5, OneJob DEF WriteLetter, WorkerIInv, LetterIsFinal
  <1>6. ASSUME Crash PROVE WorkerIInv'
    BY <1>6 DEF Crash, WorkerIInv, LetterIsFinal
  <1>7. ASSUME UNCHANGED queue PROVE WorkerIInv'
    BY <1>7 DEF queue, WorkerIInv, LetterIsFinal
  <1> QED BY <1>1, <1>2, <1>3, <1>4, <1>5, <1>6, <1>7 DEF WorkerNext

\* The counters of the wrapper and of arq agree with where a job is.
THEOREM WorkerInvariance == WorkerSpec => []WorkerIInv
  BY InitInv, Step, PTL DEF WorkerSpec

\* Whatever fails, is retried or times out (jobs/retry.py): until a worker dies, a
\* job in the dead-letter set is not run again.
THEOREM LettersAreFinal == WorkerSpec => []LetterIsFinal
  <1>1. WorkerIInv => LetterIsFinal
    BY DEF WorkerIInv
  <1> QED BY <1>1, WorkerInvariance, PTL

------------------------------------------------------------------------------
(* Refinement *)

\* What becomes of a job, as JobOutcome sees it.
View(j) == CASE st[j] \in {"queued", "running", "failing"} -> "pending" [] OTHER -> st[j]
Views == [j \in Job |-> View(j)]

LEMMA InitMaps == WorkerInit => Outcome!Init
  BY DEF WorkerInit, Outcome!Init

\* A step in which no job's outcome changes is a stutter.
LEMMA Stutters ==
  ASSUME \A j \in Job : View(j)' = View(j), UNCHANGED <<tries, letters>>
  PROVE  UNCHANGED Outcome!vars
  <1>1. Views' = Views
    BY DEF Views
  <1> QED BY <1>1 DEF Outcome!vars, Views, View

\* A step in which the outcome of one job becomes v.
LEMMA Becomes ==
  ASSUME NEW j \in Job, NEW v, \A i \in Job : View(i)' = IF i = j THEN v ELSE View(i)
  PROVE  Views' = [Views EXCEPT ![j] = v]
  BY DEF Views

LEMMA StepMaps ==
  WorkerIInv /\ [WorkerNext]_queue => Outcome!Next \/ UNCHANGED Outcome!vars
  <1> SUFFICES ASSUME WorkerIInv, [WorkerNext]_queue
               PROVE  Outcome!Next \/ UNCHANGED Outcome!vars
    OBVIOUS
  <1> USE DEF Active
  <1>0. WorkerTypeOK
    BY DEF WorkerIInv
  <1>1. ASSUME NEW j \in Job, NEW k \in Submitted, Enqueue(j, k) PROVE Outcome!Submit(j)
    <2>1. Views' = [Views EXCEPT ![j] = "pending"] /\ Views[j] = "none"
      BY <1>0, <1>1, Becomes DEF Enqueue, Views, View, WorkerTypeOK
    <2> QED BY <1>1, <2>1 DEF Enqueue, Outcome!Submit, Views, View
  <1>2. ASSUME NEW j \in Job, Start(j) PROVE Outcome!Run(j)
    <2>1. Views' = Views /\ Views[j] = "pending"
      BY <1>0, <1>2, SMT DEF Start, Views, View, WorkerTypeOK
    <2> QED BY <1>2, <2>1 DEF Start, Outcome!Run, Views, View
  <1>3. ASSUME NEW j \in Job, Refuse(j) \/ Return(j) \/ TimeOut(j) \/ GiveUp(j)
        PROVE  Outcome!End(j)
    <2>1. /\ st[j] \in {"queued", "running", "failing"} /\ UNCHANGED <<tries, letters>>
          /\ \E r \in {"done", "failed"} : /\ st' = [st EXCEPT ![j] = r]
                                           /\ r = "done" => tries[j] > 0
      BY <1>0, <1>3 DEF Refuse, Return, TimeOut, GiveUp, WorkerIInv
    <2>2. PICK r \in {"done", "failed"} : /\ st' = [st EXCEPT ![j] = r]
                                          /\ r = "done" => tries[j] > 0
      BY <2>1
    <2>3. Views' = [Views EXCEPT ![j] = r] /\ Views[j] = "pending"
      BY <1>0, <2>1, <2>2, Becomes DEF Views, View, WorkerTypeOK
    <2> QED BY <2>1, <2>2, <2>3 DEF Outcome!End, Views, View
  <1>4. ASSUME NEW j \in Job, NEW e \in Exception, Raise(j, e)
        PROVE  UNCHANGED Outcome!vars
    BY <1>0, <1>4, Stutters DEF Raise, View, WorkerTypeOK
  <1>5. ASSUME NEW j \in Job, WriteLetter(j)
        PROVE  Outcome!Note(j) \/ UNCHANGED Outcome!vars
    <2>1. CASE letters' = letters
      BY <1>0, <1>5, <2>1, Stutters DEF WriteLetter, View
    <2>2. CASE letters' = [letters EXCEPT ![j] = @ + 1]
      <3>1. Views' = Views /\ Views[j] = "pending" /\ tries[j] > 0
        BY <1>0, <1>5 DEF WriteLetter, Views, View, WorkerIInv, WorkerTypeOK
      <3> QED BY <1>5, <2>2, <3>1 DEF WriteLetter, Outcome!Note, Views, View
    <2> QED BY <1>5, <2>1, <2>2 DEF WriteLetter
  <1>6. ASSUME Crash PROVE UNCHANGED Outcome!vars
    BY <1>0, <1>6, Stutters DEF Crash, View, WorkerTypeOK
  <1>7. ASSUME UNCHANGED queue PROVE UNCHANGED Outcome!vars
    BY <1>7, Stutters DEF queue, View
  <1> QED BY <1>1, <1>2, <1>3, <1>4, <1>5, <1>6, <1>7 DEF WorkerNext, Outcome!Next

\* For whoever enqueues a job (jobs/enqueue.py) the queue behaves as JobOutcome says:
\* a job is started at most MaxTries times, ends once, and only a job that was
\* started is done or in the dead-letter set.
THEOREM ImplementsOutcome == WorkerSpec => Outcome!Spec
  BY InitMaps, StepMaps, WorkerInvariance, PTL DEF WorkerSpec, Outcome!Spec

HIDE WorkerAssumption DEF WorkerAssumption

------------------------------------------------------------------------------
(* What the jobs do (JobHandlers)                                           *)

LEMMA HandlerNames ==
  /\ Submitted \subseteq Name /\ "run_meeting_summary" \in Name
  /\ \A k \in Sweeps : SweepOf(k) \in Name /\ SweepOf(k) # "run_meeting_summary"
  BY WorkerAssumption DEF WorkerAssumption, Name, Registered, Sweeps, BySweeps, SweepOf

LEMMA HandlerErrors ==
  /\ Errors \subseteq Exception /\ MaxMail \in Nat
  /\ Chunks \in Seq(Nat) /\ DOMAIN Chunks = 1..Len(Chunks) /\ Len(Chunks) \in Nat
  /\ \A v \in DOMAIN Chunks : Chunks[v] \in Nat
  BY HandlersAssumption DEF HandlersAssumption

LEMMA MaxUpTo ==
  ASSUME NEW m \in Nat \ {0}
  PROVE  Max(1..m) = m
  <1>1. m \in 1..m /\ \A n \in 1..m : m >= n
    OBVIOUS
  <1>2. \A x \in 1..m : (\A n \in 1..m : x >= n) => x = m
    OBVIOUS
  <1> QED BY <1>1, <1>2 DEF Max

\* The part of a run that its next step reads.
SameRun(i) ==
    /\ kind'[i] = kind[i] /\ arg'[i] = arg[i] /\ pc'[i] = pc[i]
    /\ seen'[i] = seen[i] /\ at'[i] = at[i]

\* What a step leaves to a run that it is not a step of.
Spares(i) ==
    /\ alone'[i] => alone[i] /\ st'[i] = "running"
    /\ st'[i] = "running" => st[i] = "running" /\ SameRun(i)
    /\ alone'[i] => \A h \in Job \ {i} :
          Active(h)' => (Active(h) /\ kind'[h] = kind[h]) \/ ~Related(h, i)'
    /\ mail <= mail'
    /\ Recorded => Recorded'
    /\ <<results, cursor, omitted>>' # <<results, cursor, omitted>> =>
          \E h \in Job \ {i} : st[h] = "running" /\ kind[h] = "run_email_triage"
    /\ <<store, skipped>>' # <<store, skipped>> =>
          \E h \in Job \ {i} : st[h] = "running" /\ kind[h] = "run_rag_index_update"

\* A run that is alone has its keys to itself.
LEMMA HandlersSpared ==
  ASSUME IInv, TypeOK', NEW i \in Job, Spares(i)
  PROVE  RunInv(i)'
  <1> USE DEF Spares, SameRun
  <1>0. mail \in Nat /\ mail' \in Nat /\ cursor \in Nat
    BY HandlerErrors DEF IInv, TypeOK
  <1>1. ASSUME alone'[i]
        PROVE  /\ st'[i] = "running"
               /\ \A h \in Job \ {i} : Active(h)' => ~Related(h, i)'
    <2>1. alone[i] /\ st[i] = "running" /\ st'[i] = "running" /\ kind'[i] = kind[i]
      BY <1>1
    <2>2. \A h \in Job \ {i} : Active(h) => ~Related(h, i)
      BY <2>1 DEF IInv, RunInv
    <2> QED BY <1>1, <2>1, <2>2 DEF Related
  \* The job that writes is of another family.
  <1>2. ASSUME st'[i] = "running", alone'[i]
        PROVE  /\ kind[i] = "run_email_triage" => UNCHANGED <<results, cursor, omitted>>
               /\ kind[i] = "run_rag_index_update" => UNCHANGED <<store, skipped>>
    <2>1. \A h \in Job \ {i} : Active(h) => ~Related(h, i)
      BY <1>2 DEF IInv, RunInv
    <2>2. \A h \in Job \ {i} : st[h] = "running" => kind[h] # kind[i]
      BY <2>1 DEF Related, Active
    <2> QED BY <2>2
  <1>3. ASSUME st'[i] = "running", kind'[i] = "run_email_triage"
        PROVE  TriageInv(i)'
    <2>1. TriageInv(i) /\ SameRun(i)
      BY <1>3 DEF IInv, RunInv
    <2>2. alone'[i] => alone[i] /\ UNCHANGED <<results, cursor, omitted>>
      BY <1>2, <1>3
    <2>3. ASSUME pc'[i] \in {"store", "cursor"}
          PROVE  \E m \in 1..mail' :
                    /\ seen'[i] = 1..m
                    /\ pc'[i] = "cursor" /\ alone'[i] => 1..m \subseteq results' \cup omitted'
      <3>1. PICK m \in 1..mail :
              /\ seen[i] = 1..m
              /\ pc[i] = "cursor" /\ alone[i] => 1..m \subseteq results \cup omitted
        BY <2>1, <2>3 DEF TriageInv
      <3>2. m \in 1..mail'
        BY <1>0
      <3> QED BY <2>1, <2>2, <3>1, <3>2
    <2>4. pc'[i] = "end" /\ alone'[i] => 1..cursor' \subseteq results' \cup omitted'
      BY <2>1, <2>2 DEF TriageInv
    <2> QED BY <2>3, <2>4 DEF TriageInv
  <1>4. ASSUME st'[i] = "running", kind'[i] = "run_rag_index_update"
        PROVE  IndexInv(i)'
    <2>1. IndexInv(i) /\ SameRun(i)
      BY <1>4 DEF IInv, RunInv
    <2>2. alone'[i] => alone[i] /\ UNCHANGED <<store, skipped>>
      BY <1>2, <1>4
    <2>3. ASSUME pc'[i] \in {"clear", "upsert"}
          PROVE  \E v \in DOMAIN Chunks :
                    /\ seen'[i] = {v} /\ at'[i] \in 1..Chunks[v]
                    /\ pc'[i] = "clear" => at'[i] = 1
                    /\ pc'[i] = "upsert" /\ alone'[i] /\ arg'[i] = "updated" =>
                          Indexed(v, at[i])'
      <3>1. PICK v \in DOMAIN Chunks :
              /\ seen[i] = {v} /\ at[i] \in 1..Chunks[v]
              /\ pc[i] = "clear" => at[i] = 1
              /\ pc[i] = "upsert" /\ alone[i] /\ arg[i] = "updated" =>
                    Indexed(v, at[i])
        BY <2>1, <2>3 DEF IndexInv
      <3>2. pc'[i] = "upsert" /\ alone'[i] /\ arg'[i] = "updated" => Indexed(v, at[i])'
        <4>1. at'[i] = at[i]
          BY <2>1 DEF SameRun
        <4> QED BY <2>1, <2>2, <3>1, <4>1 DEF Indexed, SameRun
      <3> QED BY <2>1, <3>1, <3>2 DEF SameRun
    <2>4. pc'[i] = "end" /\ alone'[i] /\ arg'[i] = "updated" =>
             \A v \in seen'[i] : Chunks[v] > 0 => Indexed(v, Chunks[v] + 1)'
      BY <2>1, <2>2 DEF IndexInv, Indexed
    <2> QED BY <2>3, <2>4 DEF IndexInv
  <1>5. ASSUME st'[i] = "running", kind'[i] = "run_transcription"
        PROVE  TranscriptInv(i)'
    <2>1. TranscriptInv(i) /\ SameRun(i)
      BY <1>5 DEF IInv, RunInv
    <2> QED BY <2>1 DEF TranscriptInv
  <1>6. ASSUME st'[i] = "running", kind'[i] = "run_firm_report"
        PROVE  ReportInv(i)'
    BY <1>6 DEF IInv, RunInv, ReportInv
  <1> QED BY <1>1, <1>3, <1>4, <1>5, <1>6 DEF RunInv

\* A run starts with nothing read.
LEMMA HandlersStarted ==
  ASSUME IInv, TypeOK', NEW j \in Job, pc'[j] \in {"start", "-"},
         alone'[j] => /\ st'[j] = "running"
                      /\ \A h \in Job \ {j} : Active(h)' => ~Related(h, j)'
  PROVE  RunInv(j)'
  BY DEF RunInv, TriageInv, IndexInv, TranscriptInv, ReportInv

\* The step of a running job that other runs can only see in the keys it writes.
Runs(j) ==
    /\ st[j] = "running" /\ UNCHANGED <<arg, alone>>
    /\ \A i \in Job \ {j} :
          /\ st'[i] = "running" => st[i] = "running" /\ SameRun(i)
          /\ Active(i) <=> Active(i)'
          /\ Active(i) => kind'[i] = kind[i] /\ st'[i] = st[i]
    /\ st'[j] = "running" /\ kind'[j] = kind[j]
    /\ mail' = mail
    /\ Recorded => Recorded'
    /\ <<results, cursor, omitted>>' # <<results, cursor, omitted>> => kind[j] = "run_email_triage"
    /\ <<store, skipped>>' # <<store, skipped>> => kind[j] = "run_rag_index_update"
    /\ kind[j] = "run_email_triage" => TriageInv(j)'
    /\ kind[j] = "run_rag_index_update" => IndexInv(j)'
    /\ kind[j] = "run_transcription" => TranscriptInv(j)'
    /\ kind[j] = "run_firm_report" => ReportInv(j)'

LEMMA HandlersRuns ==
  ASSUME IInv, TypeOK', NEW j \in Job, Runs(j)
  PROVE  \A i \in Job : RunInv(i)'
  <1> USE DEF Runs
  <1>1. ASSUME NEW i \in Job \ {j} PROVE RunInv(i)'
    <2>1. alone'[i] => alone[i] /\ st[i] = "running"
      BY DEF IInv, RunInv
    <2>2. alone'[i] => st'[i] = "running"
      BY <2>1 DEF Active
    <2>3. ASSUME NEW h \in Job \ {i}, Active(h)' PROVE Active(h) /\ kind'[h] = kind[h]
      BY <2>3 DEF Active
    <2>4. mail <= mail'
      BY HandlerErrors DEF IInv, TypeOK
    <2>5. Spares(i)
      BY <2>1, <2>2, <2>3, <2>4 DEF Spares
    <2> QED BY <2>5, HandlersSpared
  <1>2. RunInv(j)'
    <2>1. \A h \in Job \ {j} : Active(h)' => Active(h) /\ kind'[h] = kind[h]
      OBVIOUS
    <2>2. alone[j] => \A h \in Job \ {j} : Active(h) => ~Related(h, j)
      BY DEF IInv, RunInv
    <2>3. alone'[j] => \A h \in Job \ {j} : Active(h)' => ~Related(h, j)'
      BY <2>1, <2>2 DEF Related
    <2> QED BY <2>3 DEF RunInv
  <1> QED BY <1>1, <1>2

\* TypeOK in two halves.
RunType ==
    /\ WorkerTypeOK
    /\ arg \in [Job -> {"-", "created", "updated", "deleted"}]
    /\ pc \in [Job -> Steps] /\ at \in [Job -> Nat]
    /\ seen = [j \in Job |-> seen[j]]
    /\ alone \in [Job -> BOOLEAN]
KeysType ==
    /\ mail \in 0..MaxMail /\ cursor \in 0..MaxMail
    /\ results \subseteq 0..MaxMail /\ omitted \subseteq 1..MaxMail
    /\ digest \in {"none", DigestKey} /\ style \in {"none", "old", "fresh"}
    /\ transcript \in {"none", "text", "silent"}
    /\ summary \in BOOLEAN /\ missing \in BOOLEAN /\ expired \in BOOLEAN
    /\ report \subseteq Accounts
    /\ doc \in 0..Len(Chunks) /\ store \in [1..Widest -> 0..Len(Chunks)] /\ skipped \subseteq Nat
    /\ progress \in {"none", "job_enqueued", "job_failed", "job_completed"}

LEMMA TypeHalves ==
  /\ TypeOK <=> RunType /\ KeysType
  /\ TypeOK' <=> RunType' /\ KeysType'
  BY DEF TypeOK, RunType, KeysType

\* The run of j goes on to a step, with what it has read and its next chunk.
Moved(j, step, x, n) ==
    /\ Stay /\ st[j] = "running"
    /\ pc' = [pc EXCEPT ![j] = step]
    /\ seen' = [seen EXCEPT ![j] = x]
    /\ at' = [at EXCEPT ![j] = n]

LEMMA HandlersMoved ==
  ASSUME IInv, NEW j \in Job, NEW step \in Steps, NEW x, NEW n \in Nat, Moved(j, step, x, n)
  PROVE  /\ RunType'
         /\ pc'[j] = step /\ seen'[j] = x /\ at'[j] = n
         /\ \A i \in Job \ {j} : SameRun(i)
         /\ UNCHANGED <<queue, arg, alone>> /\ st' = st /\ kind' = kind
  <1>1. RunType /\ UNCHANGED <<queue, arg, alone>>
    BY TypeHalves DEF IInv, Moved, Stay
  <1>2. UNCHANGED <<kind, st, tries, todo, letters, why, crashed, arg, alone>>
    BY <1>1 DEF queue
  <1>3. WorkerTypeOK'
    BY <1>1, <1>2 DEF RunType, WorkerTypeOK
  <1>4. pc' \in [Job -> Steps] /\ at' \in [Job -> Nat] /\ seen' = [i \in Job |-> seen'[i]]
    BY <1>1 DEF Moved, RunType
  <1>5. pc'[j] = step /\ seen'[j] = x /\ at'[j] = n
    BY <1>1 DEF Moved, RunType
  <1>6. \A i \in Job \ {j} : pc'[i] = pc[i] /\ seen'[i] = seen[i] /\ at'[i] = at[i]
    BY <1>1 DEF Moved, RunType
  <1> QED BY <1>1, <1>2, <1>3, <1>4, <1>5, <1>6 DEF RunType, SameRun

\* What is left to show of a step that moves a run.
LEMMA HandlersMove ==
  ASSUME IInv, NEW j \in Job, NEW step \in Steps, NEW x, NEW n \in Nat, Moved(j, step, x, n),
         KeysType', KeysInv', mail' = mail, Recorded => Recorded',
         <<results, cursor, omitted>>' # <<results, cursor, omitted>> => kind[j] = "run_email_triage",
         <<store, skipped>>' # <<store, skipped>> => kind[j] = "run_rag_index_update",
         kind[j] = "run_email_triage" => TriageInv(j)',
         kind[j] = "run_rag_index_update" => IndexInv(j)',
         kind[j] = "run_transcription" => TranscriptInv(j)',
         kind[j] = "run_firm_report" => ReportInv(j)'
  PROVE  IInv'
  <1>1. /\ RunType' /\ \A i \in Job \ {j} : SameRun(i)
        /\ UNCHANGED <<queue, arg, alone>> /\ st' = st /\ kind' = kind /\ st[j] = "running"
    BY HandlersMoved DEF Moved
  <1>2. TypeOK'
    BY <1>1, TypeHalves
  <1>3. Runs(j)
    BY <1>1 DEF Runs, Active
  <1> QED BY <1>2, <1>3, HandlersRuns DEF IInv

\* The jobs that nothing is claimed of.
LEMMA HandlersOther ==
  ASSUME IInv, NEW j \in Job, NEW step \in Steps, NEW x, Moved(j, step, x, at[j]),
         kind[j] \notin {"run_email_triage", "run_rag_index_update", "run_transcription"},
         KeysType', UNCHANGED <<triage, transcript, expired, index>>,
         missing' => missing \/ expired,
         kind[j] = "run_firm_report" => ReportInv(j)'
  PROVE  IInv'
  <1>1. at[j] \in Nat /\ kind' = kind
    BY HandlersMoved DEF IInv, TypeOK, Moved, Stay, queue
  <1>2. UNCHANGED <<mail, results, cursor, omitted, transcript, expired, store, skipped>>
    BY DEF triage, index
  <1>3. KeysInv'
    BY <1>1, <1>2 DEF IInv, KeysInv, Recorded
  <1> QED BY <1>1, <1>2, <1>3, HandlersMove DEF Recorded

LEMMA HandlersKept ==
  ASSUME IInv, NEW j \in Job
  PROVE  /\ seen = [seen EXCEPT ![j] = seen[j]] /\ at = [at EXCEPT ![j] = at[j]]
         /\ at[j] \in Nat /\ pc[j] \in Steps
  BY DEF IInv, TypeOK

LEMMA HandlersGoes ==
  ASSUME IInv, NEW j \in Job, Stay, st[j] = "running", UNCHANGED at,
         NEW step \in Steps, Goto(j, step), UNCHANGED seen \/ \E x : Reads(j, x)
  PROVE  \E x : Moved(j, step, x, at[j])
  <1>1. at' = [at EXCEPT ![j] = at[j]] /\ pc' = [pc EXCEPT ![j] = step]
    BY HandlersKept DEF Goto
  <1>2. PICK x : seen' = [seen EXCEPT ![j] = x]
    BY HandlersKept DEF Reads
  <1> QED BY <1>1, <1>2 DEF Moved

LEMMA HandlersPlain ==
  ASSUME IInv, NEW j \in Job,
         \/ DigestCheck(j) \/ DigestStore(j) \/ StyleCheck(j) \/ StyleStore(j)
         \/ SummaryRead(j) \/ SummaryStore(j) \/ SummaryNotify(j)
         \/ ReportRead(j) \/ ReportStore(j) \/ PortfolioStart(j) \/ PortfolioStore(j)
  PROVE  IInv'
  <1>0. KeysType
    BY TypeHalves DEF IInv
  <1>1. CASE DigestCheck(j)
    <2>a. PICK step \in {"store", "notify", "end"} : Goto(j, step)
      BY <1>1 DEF DigestCheck
    <2>b. /\ Stay /\ st[j] = "running" /\ UNCHANGED at
          /\ UNCHANGED seen \/ \E x : Reads(j, x)
      BY <1>1 DEF DigestCheck, At, keys, Gather
    <2>c. step \in Steps
      BY <2>a DEF Steps
    <2>1. PICK x : Moved(j, step, x, at[j])
      BY <2>a, <2>b, <2>c, HandlersGoes
    <2>2. KeysType'
      BY <1>0, <1>1 DEF DigestCheck, KeysType, keys, triage, cached, meeting, index
    <2>3. /\ UNCHANGED <<triage, transcript, expired, index>>
          /\ missing' => missing \/ expired
      BY <1>1 DEF DigestCheck, keys, meeting
    <2>4. kind[j] = "run_daily_digest"
      BY <1>1 DEF DigestCheck, At
    <2> QED BY <2>1, <2>2, <2>3, <2>4, <2>c, HandlersOther
  <1>2. CASE DigestStore(j)
    <2>a. PICK step \in {"store", "notify", "end"} : Goto(j, step)
      BY <1>2 DEF DigestStore
    <2>b. /\ Stay /\ st[j] = "running" /\ UNCHANGED at
          /\ UNCHANGED seen \/ \E x : Reads(j, x)
      BY <1>2 DEF DigestStore, At, keys
    <2>c. step \in Steps
      BY <2>a DEF Steps
    <2>1. PICK x : Moved(j, step, x, at[j])
      BY <2>a, <2>b, <2>c, HandlersGoes
    <2>2. KeysType'
      BY <1>0, <1>2 DEF DigestStore, KeysType, keys, triage, cached, meeting, index
    <2>3. /\ UNCHANGED <<triage, transcript, expired, index>>
          /\ missing' => missing \/ expired
      BY <1>2 DEF DigestStore, keys, meeting
    <2>4. kind[j] = "run_daily_digest"
      BY <1>2 DEF DigestStore, At
    <2> QED BY <2>1, <2>2, <2>3, <2>4, <2>c, HandlersOther
  <1>3. CASE StyleCheck(j)
    <2>a. PICK step \in {"store", "notify", "end"} : Goto(j, step)
      BY <1>3 DEF StyleCheck
    <2>b. /\ Stay /\ st[j] = "running" /\ UNCHANGED at
          /\ UNCHANGED seen \/ \E x : Reads(j, x)
      BY <1>3 DEF StyleCheck, At, keys
    <2>c. step \in Steps
      BY <2>a DEF Steps
    <2>1. PICK x : Moved(j, step, x, at[j])
      BY <2>a, <2>b, <2>c, HandlersGoes
    <2>2. KeysType'
      BY <1>0, <1>3 DEF StyleCheck, KeysType, keys, triage, cached, meeting, index
    <2>3. /\ UNCHANGED <<triage, transcript, expired, index>>
          /\ missing' => missing \/ expired
      BY <1>3 DEF StyleCheck, keys, meeting
    <2>4. kind[j] = "run_style_profile_refresh"
      BY <1>3 DEF StyleCheck, At
    <2> QED BY <2>1, <2>2, <2>3, <2>4, <2>c, HandlersOther
  <1>4. CASE StyleStore(j)
    <2>a. PICK step \in {"store", "notify", "end"} : Goto(j, step)
      BY <1>4 DEF StyleStore
    <2>b. /\ Stay /\ st[j] = "running" /\ UNCHANGED at
          /\ UNCHANGED seen \/ \E x : Reads(j, x)
      BY <1>4 DEF StyleStore, At, keys
    <2>c. step \in Steps
      BY <2>a DEF Steps
    <2>1. PICK x : Moved(j, step, x, at[j])
      BY <2>a, <2>b, <2>c, HandlersGoes
    <2>2. KeysType'
      BY <1>0, <1>4 DEF StyleStore, KeysType, keys, triage, cached, meeting, index
    <2>3. /\ UNCHANGED <<triage, transcript, expired, index>>
          /\ missing' => missing \/ expired
      BY <1>4 DEF StyleStore, keys, meeting
    <2>4. kind[j] = "run_style_profile_refresh"
      BY <1>4 DEF StyleStore, At
    <2> QED BY <2>1, <2>2, <2>3, <2>4, <2>c, HandlersOther
  <1>5. CASE SummaryRead(j)
    <2>a. PICK step \in {"store", "notify", "end"} : Goto(j, step)
      BY <1>5 DEF SummaryRead
    <2>b. /\ Stay /\ st[j] = "running" /\ UNCHANGED at
          /\ UNCHANGED seen \/ \E x : Reads(j, x)
      BY <1>5 DEF SummaryRead, At, keys
    <2>c. step \in Steps
      BY <2>a DEF Steps
    <2>1. PICK x : Moved(j, step, x, at[j])
      BY <2>a, <2>b, <2>c, HandlersGoes
    <2>2. KeysType'
      BY <1>0, <1>5 DEF SummaryRead, KeysType, keys, triage, cached, meeting, index
    <2>3. /\ UNCHANGED <<triage, transcript, expired, index>>
          /\ missing' => missing \/ expired
      BY <1>5 DEF SummaryRead, At, keys, meeting, IInv, KeysInv, Recorded
    <2>4. kind[j] = "run_meeting_summary"
      BY <1>5 DEF SummaryRead, At
    <2> QED BY <2>1, <2>2, <2>3, <2>4, <2>c, HandlersOther
  <1>6. CASE SummaryStore(j)
    <2>a. PICK step \in {"store", "notify", "end"} : Goto(j, step)
      BY <1>6 DEF SummaryStore
    <2>b. /\ Stay /\ st[j] = "running" /\ UNCHANGED at
          /\ UNCHANGED seen \/ \E x : Reads(j, x)
      BY <1>6 DEF SummaryStore, At, keys
    <2>c. step \in Steps
      BY <2>a DEF Steps
    <2>1. PICK x : Moved(j, step, x, at[j])
      BY <2>a, <2>b, <2>c, HandlersGoes
    <2>2. KeysType'
      BY <1>0, <1>6 DEF SummaryStore, KeysType, keys, triage, cached, meeting, index
    <2>3. /\ UNCHANGED <<triage, transcript, expired, index>>
          /\ missing' => missing \/ expired
      BY <1>6 DEF SummaryStore, keys, meeting
    <2>4. kind[j] = "run_meeting_summary"
      BY <1>6 DEF SummaryStore, At
    <2> QED BY <2>1, <2>2, <2>3, <2>4, <2>c, HandlersOther
  <1>7. CASE SummaryNotify(j)
    <2>a. PICK step \in {"store", "notify", "end"} : Goto(j, step)
      BY <1>7 DEF SummaryNotify
    <2>b. /\ Stay /\ st[j] = "running" /\ UNCHANGED at
          /\ UNCHANGED seen \/ \E x : Reads(j, x)
      BY <1>7 DEF SummaryNotify, At, keys
    <2>c. step \in Steps
      BY <2>a DEF Steps
    <2>1. PICK x : Moved(j, step, x, at[j])
      BY <2>a, <2>b, <2>c, HandlersGoes
    <2>2. KeysType'
      BY <1>0, <1>7 DEF SummaryNotify, KeysType, keys, triage, cached, meeting, index
    <2>3. /\ UNCHANGED <<triage, transcript, expired, index>>
          /\ missing' => missing \/ expired
      BY <1>7 DEF SummaryNotify, keys, meeting
    <2>4. kind[j] = "run_meeting_summary"
      BY <1>7 DEF SummaryNotify, At
    <2> QED BY <2>1, <2>2, <2>3, <2>4, <2>c, HandlersOther
  <1>8. CASE ReportRead(j)
    <2>a. PICK step \in {"store", "notify", "end"} : Goto(j, step)
      BY <1>8 DEF ReportRead
    <2>b. /\ Stay /\ st[j] = "running" /\ UNCHANGED at
          /\ UNCHANGED seen \/ \E x : Reads(j, x)
      BY <1>8 DEF ReportRead, At, keys, Analyse
    <2>c. step \in Steps
      BY <2>a DEF Steps
    <2>1. PICK x : Moved(j, step, x, at[j])
      BY <2>a, <2>b, <2>c, HandlersGoes
    <2>2. KeysType'
      BY <1>0, <1>8 DEF ReportRead, KeysType, keys, triage, cached, meeting, index
    <2>3. /\ UNCHANGED <<triage, transcript, expired, index>>
          /\ missing' => missing \/ expired
      BY <1>8 DEF ReportRead, keys, meeting
    <2>4. kind[j] = "run_firm_report"
      BY <1>8 DEF ReportRead, At
    <2>5. ReportInv(j)'
      BY <1>8, <2>1 DEF ReportRead, Analyse, Reads, ReportInv, IInv, TypeOK
    <2> QED BY <2>1, <2>2, <2>3, <2>4, <2>5, <2>c, HandlersOther
  <1>9. CASE ReportStore(j)
    <2>a. PICK step \in {"store", "notify", "end"} : Goto(j, step)
      BY <1>9 DEF ReportStore
    <2>b. /\ Stay /\ st[j] = "running" /\ UNCHANGED at
          /\ UNCHANGED seen \/ \E x : Reads(j, x)
      BY <1>9 DEF ReportStore, At, keys
    <2>c. step \in Steps
      BY <2>a DEF Steps
    <2>1. PICK x : Moved(j, step, x, at[j])
      BY <2>a, <2>b, <2>c, HandlersGoes
    <2>2. KeysType'
      BY <1>0, <1>9 DEF ReportStore, At, IInv, RunInv, ReportInv, KeysType, keys, triage, cached, meeting, index
    <2>3. /\ UNCHANGED <<triage, transcript, expired, index>>
          /\ missing' => missing \/ expired
      BY <1>9 DEF ReportStore, keys, meeting
    <2>4. kind[j] = "run_firm_report"
      BY <1>9 DEF ReportStore, At
    <2>5. ReportInv(j)'
      BY <1>9 DEF ReportStore, Goto, ReportInv, IInv, TypeOK
    <2> QED BY <2>1, <2>2, <2>3, <2>4, <2>5, <2>c, HandlersOther
  <1>10. CASE PortfolioStart(j)
    <2>a. PICK step \in {"store", "notify", "end"} : Goto(j, step)
      BY <1>10 DEF PortfolioStart
    <2>b. /\ Stay /\ st[j] = "running" /\ UNCHANGED at
          /\ UNCHANGED seen \/ \E x : Reads(j, x)
      BY <1>10 DEF PortfolioStart, At, keys
    <2>c. step \in Steps
      BY <2>a DEF Steps
    <2>1. PICK x : Moved(j, step, x, at[j])
      BY <2>a, <2>b, <2>c, HandlersGoes
    <2>2. KeysType'
      BY <1>0, <1>10 DEF PortfolioStart, KeysType, keys, triage, cached, meeting, index
    <2>3. /\ UNCHANGED <<triage, transcript, expired, index>>
          /\ missing' => missing \/ expired
      BY <1>10 DEF PortfolioStart, keys, meeting
    <2>4. kind[j] = "run_portfolio_construction"
      BY <1>10 DEF PortfolioStart, At
    <2> QED BY <2>1, <2>2, <2>3, <2>4, <2>c, HandlersOther
  <1>11. CASE PortfolioStore(j)
    <2>a. PICK step \in {"store", "notify", "end"} : Goto(j, step)
      BY <1>11 DEF PortfolioStore
    <2>b. /\ Stay /\ st[j] = "running" /\ UNCHANGED at
          /\ UNCHANGED seen \/ \E x : Reads(j, x)
      BY <1>11 DEF PortfolioStore, At, keys
    <2>c. step \in Steps
      BY <2>a DEF Steps
    <2>1. PICK x : Moved(j, step, x, at[j])
      BY <2>a, <2>b, <2>c, HandlersGoes
    <2>2. KeysType'
      BY <1>0, <1>11 DEF PortfolioStore, KeysType, keys, triage, cached, meeting, index
    <2>3. /\ UNCHANGED <<triage, transcript, expired, index>>
          /\ missing' => missing \/ expired
      BY <1>11 DEF PortfolioStore, keys, meeting
    <2>4. kind[j] = "run_portfolio_construction"
      BY <1>11 DEF PortfolioStore, At
    <2> QED BY <2>1, <2>2, <2>3, <2>4, <2>c, HandlersOther
  <1> QED BY <1>1, <1>2, <1>3, <1>4, <1>5, <1>6, <1>7, <1>8, <1>9, <1>10, <1>11

LEMMA HandlersTriage ==
  ASSUME IInv, NEW j \in Job, TriageRead(j) \/ TriageStore(j) \/ TriageCursor(j)
  PROVE  IInv'
  <1>0. /\ KeysType /\ TriageInv(j) /\ mail \in Nat /\ cursor \in Nat /\ cursor <= mail
        /\ kind[j] = "run_email_triage"
    BY TypeHalves, HandlerErrors
    DEF IInv, KeysInv, TypeOK, RunInv, TriageRead, TriageStore, TriageCursor, At
  <1>1. UNCHANGED <<mail, transcript, expired, store, skipped, missing, kind, alone>>
    BY DEF TriageRead, TriageStore, TriageCursor, keys, triage, meeting, index, Stay, queue
  <1>2. CASE TriageRead(j)
    <2>1. PICK step \in {"store", "end"} : Goto(j, step) /\ step = IF mail = 0 THEN "end" ELSE "store"
      BY <1>2 DEF TriageRead
    <2>2. step \in Steps /\ at[j] \in Nat
      BY <2>1, HandlersKept DEF Steps
    <2>3. Moved(j, step, 1..mail, at[j])
      BY <1>2, <2>1, HandlersKept DEF TriageRead, Moved, Goto, Reads, At
    <2>4. pc'[j] = step /\ seen'[j] = 1..mail
      BY <2>2, <2>3, HandlersMoved
    <2>5. KeysType' /\ KeysInv' /\ UNCHANGED <<results, cursor, omitted>>
      BY <1>0, <1>1, <1>2 DEF TriageRead, keys, triage, cached, meeting, index, KeysType,
         KeysInv, IInv, Recorded
    <2>6. TriageInv(j)'
      BY <1>0, <1>1, <2>1, <2>4, <2>5 DEF TriageInv
    <2> QED BY <1>0, <1>1, <2>2, <2>3, <2>5, <2>6, HandlersMove DEF Recorded
  <1>3. CASE TriageStore(j)
    <2>1. PICK m \in 1..mail : seen[j] = 1..m
      BY <1>0, <1>3 DEF TriageStore, At, TriageInv
    <2>2. "cursor" \in Steps /\ at[j] \in Nat
      BY HandlersKept DEF Steps
    <2>3. Moved(j, "cursor", seen[j], at[j])
      BY <1>3, HandlersKept DEF TriageStore, Moved, Goto, At
    <2>4. pc'[j] = "cursor" /\ seen'[j] = 1..m
      BY <2>1, <2>2, <2>3, HandlersMoved
    <2>5. PICK answer \in SUBSET (0..MaxMail) : results' = answer /\ omitted' = (1..m) \ answer
      BY <1>3, <2>1 DEF TriageStore
    <2>a. 1..m \subseteq results' \cup omitted' /\ m \in 1..mail'
      BY <1>1, <2>1, <2>5
    <2>6. KeysType'
      BY <1>0, <1>1, <1>3, <2>1, <2>5, HandlerErrors DEF TriageStore, cached, meeting, index, KeysType
    <2>7. KeysInv'
      BY <1>0, <1>1, <1>3 DEF TriageStore, KeysInv, IInv, Recorded
    <2>8. TriageInv(j)'
      BY <2>4, <2>a DEF TriageInv
    <2> QED BY <1>0, <1>1, <2>2, <2>3, <2>6, <2>7, <2>8, HandlersMove DEF Recorded
  <1>4. CASE TriageCursor(j)
    <2>1. PICK m \in 1..mail : seen[j] = 1..m /\ (alone[j] => 1..m \subseteq results \cup omitted)
      BY <1>0, <1>4 DEF TriageCursor, At, TriageInv
    <2>2. "end" \in Steps /\ at[j] \in Nat
      BY HandlersKept DEF Steps
    <2>3. Moved(j, "end", seen[j], at[j])
      BY <1>4, HandlersKept DEF TriageCursor, Moved, Goto, At
    <2>4. pc'[j] = "end"
      BY <2>2, <2>3, HandlersMoved
    <2>5. cursor' = m /\ UNCHANGED <<results, omitted>>
      <3>1. m \in Nat \ {0}
        BY <1>0
      <3> QED BY <1>4, <2>1, <3>1, MaxUpTo DEF TriageCursor
    <2>6. KeysType'
      BY <1>0, <1>1, <1>4, <2>1, <2>5, HandlerErrors DEF TriageCursor, cached, meeting, index, KeysType
    <2>7. KeysInv'
      BY <1>0, <1>1, <2>5 DEF KeysInv, IInv, Recorded
    <2>8. TriageInv(j)'
      BY <1>1, <2>1, <2>4, <2>5 DEF TriageInv
    <2> QED BY <1>0, <1>1, <2>2, <2>3, <2>6, <2>7, <2>8, HandlersMove DEF Recorded
  <1> QED BY <1>2, <1>3, <1>4

LEMMA HandlersTranscribe ==
  ASSUME IInv, NEW j \in Job, Transcribe(j) \/ TranscriptStore(j)
  PROVE  IInv'
  <1>0. KeysType /\ TranscriptInv(j) /\ kind[j] = "run_transcription"
    BY TypeHalves DEF IInv, RunInv, Transcribe, TranscriptStore, At
  <1>1. UNCHANGED <<mail, results, cursor, omitted, store, skipped, missing, expired, kind>>
    BY DEF Transcribe, TranscriptStore, keys, triage, meeting, index, Stay, queue
  <1>2. CASE Transcribe(j)
    <2>1. PICK t \in {"text", "silent"} : Reads(j, {t})
      BY <1>2 DEF Transcribe
    <2>2. "store" \in Steps /\ at[j] \in Nat
      BY HandlersKept DEF Steps
    <2>3. Moved(j, "store", {t}, at[j])
      BY <1>2, <2>1, HandlersKept DEF Transcribe, Moved, Goto, Reads, At
    <2>4. TranscriptInv(j)'
      BY <2>2, <2>3, HandlersMoved DEF TranscriptInv
    <2>5. KeysType' /\ KeysInv' /\ UNCHANGED transcript
      BY <1>0, <1>1, <1>2 DEF Transcribe, keys, triage, cached, meeting, index, KeysType,
         KeysInv, IInv, Recorded
    <2> QED BY <1>0, <1>1, <2>2, <2>3, <2>4, <2>5, HandlersMove DEF Recorded
  <1>3. CASE TranscriptStore(j)
    <2>1. transcript' \in {"text", "silent"}
      BY <1>0, <1>3 DEF TranscriptStore, At, TranscriptInv
    <2>2. "chain" \in Steps /\ at[j] \in Nat
      BY HandlersKept DEF Steps
    <2>3. Moved(j, "chain", seen[j], at[j])
      BY <1>3, HandlersKept DEF TranscriptStore, Moved, Goto, At
    <2>4. TranscriptInv(j)' /\ Recorded'
      BY <2>1, <2>2, <2>3, HandlersMoved DEF TranscriptInv, Recorded
    <2>5. KeysType'
      BY <1>0, <1>1, <1>3, <2>1 DEF TranscriptStore, triage, cached, index, KeysType
    <2>6. KeysInv'
      BY <1>1, <2>4 DEF KeysInv, IInv
    <2> QED BY <1>0, <1>1, <2>2, <2>3, <2>4, <2>5, <2>6, HandlersMove
  <1> QED BY <1>2, <1>3

LEMMA HandlersIndex ==
  ASSUME IInv, NEW j \in Job,
         IndexDelete(j) \/ IndexFetch(j) \/ IndexClear(j) \/ IndexUpsert(j)
  PROVE  IInv'
  <1>0. KeysType /\ IndexInv(j) /\ kind[j] = "run_rag_index_update"
    BY TypeHalves DEF IInv, RunInv, IndexDelete, IndexFetch, IndexClear, IndexUpsert, At
  <1>1. UNCHANGED <<triage, mail, results, cursor, omitted, transcript, expired, missing, kind, arg, alone>>
    BY DEF IndexDelete, IndexFetch, IndexClear, IndexUpsert, keys, triage, meeting, Stay, queue
  <1>2. KeysInv' /\ (Recorded => Recorded')
    BY <1>1 DEF IInv, KeysInv, Recorded
  <1>4. Empty \in [1..Widest -> 0..Len(Chunks)]
    BY HandlerErrors DEF Empty
  <1>5. CASE IndexDelete(j)
    <2>1. "end" \in Steps /\ at[j] \in Nat
      BY HandlersKept DEF Steps
    <2>2. Moved(j, "end", seen[j], at[j])
      BY <1>5, HandlersKept DEF IndexDelete, Moved, Goto, At
    <2>3. IndexInv(j)'
      BY <1>1, <1>5, <2>1, <2>2, HandlersMoved DEF IndexDelete, IndexInv
    <2>4. store' \in [1..Widest -> 0..Len(Chunks)] /\ skipped' \subseteq Nat
      <3>1. store \in [1..Widest -> 0..Len(Chunks)] /\ skipped \subseteq Nat /\ 0 \in Nat
        BY <1>0 DEF KeysType
      <3>2. (store' = Empty \/ store' = store) /\ (skipped' = skipped \/ skipped' = skipped \cup {0})
        BY <1>5 DEF IndexDelete, DeleteSourceChunks
      <3> QED BY <1>4, <3>1, <3>2
    <2>5. UNCHANGED <<triage, cached, meeting, doc>>
      BY <1>5 DEF IndexDelete
    <2>6. KeysType'
      BY <1>0, <1>1, <2>4, <2>5 DEF triage, cached, meeting, KeysType
    <2> QED BY <1>0, <1>1, <1>2, <2>1, <2>2, <2>3, <2>6, HandlersMove
  <1>6. CASE IndexFetch(j)
    <2>1. doc \in DOMAIN Chunks /\ Reads(j, {doc}) /\ Chunks[doc] \in Nat
      BY <1>0, <1>6, HandlerErrors DEF IndexFetch, FetchContent, KeysType
    <2>2. PICK step \in {"end", "clear", "upsert"} :
            /\ Goto(j, step)
            /\ step = IF Chunks[doc] = 0 THEN "end" ELSE IF arg[j] = "updated" THEN "clear" ELSE "upsert"
      BY <1>6 DEF IndexFetch
    <2>3. step \in Steps /\ 1 \in Nat
      BY <2>2 DEF Steps
    <2>4. Moved(j, step, {doc}, 1)
      BY <1>6, <2>1, <2>2 DEF IndexFetch, Moved, Goto, Reads, At
    <2>5. pc'[j] = step /\ seen'[j] = {doc} /\ at'[j] = 1
      BY <2>3, <2>4, HandlersMoved
    <2>6. IndexInv(j)'
      BY <1>1, <2>1, <2>2, <2>5 DEF IndexInv
    <2>7. KeysType'
      BY <1>0, <1>6 DEF IndexFetch, triage, cached, meeting, KeysType
    <2> QED BY <1>0, <1>1, <1>2, <2>3, <2>4, <2>6, <2>7, HandlersMove
  <1>7. CASE IndexClear(j)
    <2>1. PICK v \in DOMAIN Chunks : seen[j] = {v} /\ at[j] = 1 /\ 1 \in 1..Chunks[v]
      BY <1>0, <1>7 DEF IndexClear, At, IndexInv
    <2>2. "upsert" \in Steps /\ at[j] \in Nat
      BY HandlersKept DEF Steps
    <2>3. Moved(j, "upsert", seen[j], at[j])
      BY <1>7, HandlersKept DEF IndexClear, Moved, Goto, At
    <2>4. pc'[j] = "upsert" /\ seen'[j] = {v} /\ at'[j] = 1
      BY <2>1, <2>2, <2>3, HandlersMoved
    <2>5. Indexed(v, 1)'
      <3>1. CASE store' = Empty
        BY <3>1 DEF Indexed, Empty
      <3>2. CASE skipped' = skipped \cup {0}
        BY <3>2 DEF Indexed
      <3> QED BY <1>7, <3>1, <3>2 DEF IndexClear, DeleteSourceChunks
    <2>6. IndexInv(j)'
      BY <2>1, <2>4, <2>5 DEF IndexInv
    <2>7. KeysType'
      <3>1. store' \in [1..Widest -> 0..Len(Chunks)] /\ skipped' \subseteq Nat
        <4>1. store \in [1..Widest -> 0..Len(Chunks)] /\ skipped \subseteq Nat
          BY <1>0 DEF KeysType
        <4>2. CASE store' = Empty /\ UNCHANGED skipped
          BY <1>4, <4>1, <4>2
        <4>3. CASE skipped' = skipped \cup {0} /\ UNCHANGED store
          BY <4>1, <4>3
        <4> QED BY <1>7, <4>2, <4>3 DEF IndexClear, DeleteSourceChunks
      <3> QED BY <1>0, <1>7, <3>1 DEF IndexClear, triage, cached, meeting, KeysType
    <2> QED BY <1>0, <1>1, <1>2, <2>2, <2>3, <2>6, <2>7, HandlersMove
  <1>8. CASE IndexUpsert(j)
    <2>1. PICK v \in DOMAIN Chunks :
            /\ seen[j] = {v} /\ at[j] \in 1..Chunks[v]
            /\ alone[j] /\ arg[j] = "updated" => Indexed(v, at[j])
      BY <1>0, <1>8 DEF IndexUpsert, At, IndexInv
    <2>2. PICK n \in 1..Chunks[v] : n = at[j]
      BY <2>1
    <2>3. /\ UpsertChunk(n, v)
          /\ Goto(j, IF n = Chunks[v] THEN "end" ELSE "upsert")
      BY <1>8, <2>1, <2>2 DEF IndexUpsert
    <2>4. PICK step \in {"end", "upsert"} :
            Goto(j, step) /\ step = IF n = Chunks[v] THEN "end" ELSE "upsert"
      BY <2>3
    <2>5. step \in Steps /\ n + 1 \in Nat /\ Chunks[v] \in Nat /\ v \in 0..Len(Chunks)
      BY <2>1, <2>4, HandlerErrors DEF Steps
    <2>6. Moved(j, step, seen[j], n + 1)
      BY <1>8, <2>2, <2>4, HandlersKept DEF IndexUpsert, Moved, Goto, At
    <2>7. pc'[j] = step /\ seen'[j] = {v} /\ at'[j] = n + 1
      BY <2>1, <2>5, <2>6, HandlersMoved
    <2>8. alone'[j] /\ arg'[j] = "updated" => Indexed(v, n + 1)'
      <3>1. ASSUME Indexed(v, n), NEW i \in 1..Widest
            PROVE  IF i < n + 1 /\ i \notin skipped' THEN store'[i] = v
                                                     ELSE 0 \notin skipped' => store'[i] = 0
        <4>1. IF i < n /\ i \notin skipped THEN store[i] = v ELSE 0 \notin skipped => store[i] = 0
          BY <3>1 DEF Indexed
        <4>2. CASE store' = [store EXCEPT ![n] = v] /\ skipped' = skipped \ {n}
          <5>1. store'[i] = IF i = n THEN v ELSE store[i]
            BY <1>0, <4>2 DEF KeysType
          <5>2. i \in Int /\ n \in Int /\ n # 0
            BY <2>5, <3>1
          <5>3. i < n + 1 <=> i < n \/ i = n
            BY <5>2
          <5> QED BY <4>1, <4>2, <5>1, <5>2, <5>3
        <4>3. CASE skipped' = skipped \cup {n} /\ UNCHANGED store
          BY <2>5, <4>1, <4>3
        <4> QED BY <2>3, <4>2, <4>3 DEF UpsertChunk
      <3> QED BY <1>1, <2>1, <2>2, <3>1 DEF Indexed
    <2>9. IndexInv(j)'
      BY <2>4, <2>5, <2>7, <2>8 DEF IndexInv
    <2>10. KeysType'
      <3>1. store \in [1..Widest -> 0..Len(Chunks)] /\ skipped \subseteq Nat /\ n \in Nat
        BY <1>0, <2>5 DEF KeysType
      <3>2. CASE store' = [store EXCEPT ![n] = v] /\ skipped' = skipped \ {n}
        BY <1>0, <1>8, <2>5, <3>1, <3>2 DEF IndexUpsert, triage, cached, meeting, KeysType
      <3>3. CASE skipped' = skipped \cup {n} /\ UNCHANGED store
        BY <1>0, <1>8, <2>5, <3>1, <3>3 DEF IndexUpsert, triage, cached, meeting, KeysType
      <3> QED BY <2>3, <3>2, <3>3 DEF UpsertChunk
    <2> QED BY <1>0, <1>1, <1>2, <2>5, <2>6, <2>9, <2>10, HandlersMove
  <1> QED BY <1>5, <1>6, <1>7, <1>8

LEMMA HandlersEnqueue ==
  ASSUME IInv, NEW i \in Job, NEW k \in Name, Enqueue(i, k)
  PROVE  /\ WorkerTypeOK' /\ st[i] = "none" /\ st'[i] = "queued" /\ kind'[i] = k
         /\ \A h \in Job \ {i} : st'[h] = st[h] /\ kind'[h] = kind[h]
  BY DEF IInv, TypeOK, WorkerTypeOK, Enqueue

\* The job goes on, and another may have been enqueued.
Queues(j) ==
    /\ WorkerTypeOK' /\ st'[j] = "running" /\ kind'[j] = kind[j]
    /\ \A i \in Job :
          \/ st'[i] = st[i] /\ kind'[i] = kind[i]
          \/ /\ st[i] = "none" /\ st'[i] = "queued"
             /\ kind'[i] = "run_meeting_summary" => Recorded

\* A job that enqueues another.
LEMMA HandlersChain ==
  ASSUME IInv, NEW j \in Job, Sweep(j) \/ TranscriptChain(j)
  PROVE  IInv'
  <1>0. /\ RunType /\ KeysType /\ st[j] = "running"
        /\ UNCHANGED <<arg, seen, at, alone, keys>> /\ pc' = [pc EXCEPT ![j] = "end"]
        /\ UNCHANGED <<triage, cached, meeting, index>>
        /\ kind[j] \in Sweeps \cup {"run_transcription"}
    BY TypeHalves DEF IInv, Sweep, TranscriptChain, At, Goto, keys
  <1>1. UNCHANGED queue \/ \E i \in Job, k \in Name :
          Enqueue(i, k) /\ (k = "run_meeting_summary" => Recorded)
    <2>1. CASE Sweep(j)
      BY <2>1, HandlerNames DEF Sweep
    <2>2. CASE TranscriptChain(j)
      BY <2>2, HandlerNames DEF TranscriptChain, At, IInv, RunInv, TranscriptInv
    <2> QED BY <2>1, <2>2
  <1>2. Queues(j)
    <2>1. CASE UNCHANGED queue
      <3>1. UNCHANGED <<kind, st, tries, todo, letters, why, crashed>>
        BY <2>1 DEF queue
      <3> QED BY <1>0, <3>1 DEF RunType, WorkerTypeOK, Queues
    <2>2. ASSUME NEW i \in Job, NEW k \in Name, Enqueue(i, k), k = "run_meeting_summary" => Recorded
          PROVE  Queues(j)
      BY <1>0, <2>2, HandlersEnqueue DEF Queues
    <2> QED BY <1>1, <2>1, <2>2
  <1>3. /\ pc' \in [Job -> Steps] /\ pc'[j] = "end" /\ \A i \in Job \ {j} : pc'[i] = pc[i]
    BY <1>0 DEF RunType, Steps
  <1>4. RunType'
    BY <1>0, <1>2, <1>3 DEF RunType, Queues
  <1>5. KeysType' /\ UNCHANGED <<mail, results, cursor, omitted, store, skipped, transcript, expired, missing>>
    BY <1>0 DEF KeysType, triage, cached, meeting, index
  <1>6. KeysInv'
    BY <1>2, <1>5 DEF IInv, KeysInv, Recorded, Queues
  <1>7. /\ kind[j] \notin {"run_email_triage", "run_rag_index_update", "run_firm_report"}
        /\ TranscriptInv(j)'
    BY <1>0, <1>3 DEF Sweeps, TranscriptInv
  <1>8. Runs(j)
    BY <1>0, <1>2, <1>3, <1>5, <1>7 DEF Runs, SameRun, Active, Recorded, Queues
  <1> QED BY <1>4, <1>5, <1>6, <1>8, TypeHalves, HandlersRuns DEF IInv

LEMMA HandlersStep ==
  ASSUME IInv, NEW j \in Job, Handler(j)
  PROVE  IInv'
  BY HandlersPlain, HandlersTriage, HandlersTranscribe, HandlersIndex, HandlersChain DEF Handler

\* A step of the queue, the platform or Redis: no run does anything.
Quiet ==
    /\ \A i \in Job :
          /\ alone'[i] => alone[i] /\ st'[i] = "running"
          /\ st'[i] = "running" => st[i] = "running" /\ SameRun(i)
          /\ Active(i)' => Active(i) /\ kind'[i] = kind[i]
    /\ UNCHANGED <<results, cursor, omitted, store, skipped>>
    /\ mail <= mail' /\ (Recorded => Recorded')

LEMMA HandlersQuiet ==
  ASSUME IInv, TypeOK', KeysInv', Quiet
  PROVE  IInv'
  <1>1. ASSUME NEW i \in Job PROVE RunInv(i)'
    <2>1. Spares(i)
      BY DEF Quiet, Spares
    <2> QED BY <2>1, HandlersSpared
  <1> QED BY <1>1 DEF IInv

\* The queue and its runs as they are types of, a step of arq or the wrapper apart.
LEMMA HandlersQueue ==
  ASSUME IInv, NEW j \in Job,
         \/ \E e \in Errors : Raise(j, e)
         \/ Return(j) \/ Refuse(j) \/ WriteLetter(j) \/ GiveUp(j) \/ TimeOut(j)
         \/ Crash
  PROVE  /\ WorkerTypeOK' /\ kind' = kind
         /\ \A i \in Job :
               /\ st'[i] = "running" => st[i] = "running"
               /\ Active(i)' => Active(i)
  <1>0. WorkerTypeOK
    BY DEF IInv, TypeOK
  <1>1. WorkerTypeOK'
    <2>1. WorkerNext
      BY HandlerErrors DEF WorkerNext
    <2> QED BY <1>0, <2>1, TypeStep
  <1>2. kind' = kind
    BY DEF Raise, Return, Refuse, WriteLetter, GiveUp, TimeOut, Crash
  <1>3. ASSUME NEW i \in Job
        PROVE  /\ st'[i] = "running" => st[i] = "running"
               /\ Active(i)' => Active(i)
    <2>1. CASE \E e \in Errors : Raise(j, e)
      BY <1>0, <2>1 DEF Raise, WorkerTypeOK, Active
    <2>2. CASE Return(j) \/ Refuse(j) \/ WriteLetter(j) \/ GiveUp(j) \/ TimeOut(j)
      BY <1>0, <2>2 DEF Return, Refuse, WriteLetter, GiveUp, TimeOut, WorkerTypeOK, Active
    <2>3. CASE Crash
      BY <1>0, <2>3 DEF Crash, WorkerTypeOK, Active
    <2> QED BY <2>1, <2>2, <2>3
  <1> QED BY <1>1, <1>2, <1>3

LEMMA HandlersForget ==
  ASSUME IInv, Forget, WorkerTypeOK'
  PROVE  /\ RunType'
         /\ \A i \in Job :
               /\ st'[i] = "running" =>
                     pc'[i] = pc[i] /\ seen'[i] = seen[i] /\ at'[i] = at[i] /\ arg'[i] = arg[i]
               /\ alone'[i] => alone[i] /\ st'[i] = "running"
  <1>1. /\ pc' = [i \in Job |-> IF st'[i] = "running" THEN pc[i] ELSE "-"]
        /\ seen' = [i \in Job |-> IF st'[i] = "running" THEN seen[i] ELSE {}]
        /\ at' = [i \in Job |-> IF st'[i] = "running" THEN at[i] ELSE 0]
        /\ alone' = [i \in Job |-> IF st'[i] = "running" THEN alone[i] ELSE FALSE]
        /\ arg' = arg
    BY DEF Forget
  <1>2. RunType
    BY TypeHalves DEF IInv
  <1>3. /\ pc' \in [Job -> Steps] /\ at' \in [Job -> Nat] /\ alone' \in [Job -> BOOLEAN]
        /\ seen' = [i \in Job |-> seen'[i]]
    BY <1>1, <1>2 DEF RunType, Steps
  <1> QED BY <1>1, <1>2, <1>3 DEF RunType

LEMMA HandlersNext ==
  IInv /\ [Next]_vars => IInv'
  <1> SUFFICES ASSUME IInv, [Next]_vars PROVE IInv'
    OBVIOUS
  <1>0. /\ RunType /\ KeysType /\ KeysInv /\ mail \in Nat /\ MaxMail \in Nat
        /\ \A i \in Job : alone[i] => st[i] = "running"
    BY TypeHalves, HandlerErrors DEF IInv, KeysType, RunInv
  <1>1. ASSUME NEW j \in Job, NEW k \in Submitted \ {"run_meeting_summary"}, Submit(j, k)
        PROVE  IInv'
    <2>1. PICK a \in {"-", "created", "updated", "deleted"} : arg' = [arg EXCEPT ![j] = a]
      BY <1>1 DEF Submit
    <2>2. k \in Name /\ Enqueue(j, k) /\ UNCHANGED <<pc, seen, at, alone, keys>>
      BY <1>1, HandlerNames DEF Submit
    <2>3. /\ WorkerTypeOK' /\ st[j] = "none" /\ st'[j] = "queued" /\ kind'[j] = k
          /\ \A h \in Job \ {j} : st'[h] = st[h] /\ kind'[h] = kind[h]
      BY <2>2, HandlersEnqueue
    <2>4. UNCHANGED <<triage, cached, meeting, index>>
      BY <2>2 DEF keys
    <2>5. RunType' /\ KeysType'
      BY <1>0, <2>1, <2>2, <2>3, <2>4 DEF RunType, KeysType, triage, cached, meeting, index
    <2>6. KeysInv'
      BY <1>0, <1>1, <2>3, <2>4 DEF KeysInv, Recorded, triage, meeting
    <2>7. Quiet
      BY <1>0, <2>1, <2>2, <2>3, <2>4 DEF Quiet, SameRun, Active, Recorded, RunType, triage, meeting, index
    <2> QED BY <2>5, <2>6, <2>7, TypeHalves, HandlersQuiet
  <1>2. ASSUME NEW j \in Job, Begin(j) PROVE IInv'
    <2>1. PICK others : /\ others = {i \in Job : Active(i) /\ Related(i, j)}
                        /\ alone' = [i \in Job |-> IF i = j THEN others = {}
                                                   ELSE alone[i] /\ i \notin others]
      BY <1>2 DEF Begin
    <2>2. /\ Start(j) /\ pc' = [pc EXCEPT ![j] = "start"] /\ seen' = [seen EXCEPT ![j] = {}]
          /\ at' = [at EXCEPT ![j] = 0] /\ UNCHANGED <<arg, triage, cached, meeting, index>>
      BY <1>2 DEF Begin, keys
    <2>3. /\ st[j] = "queued" /\ st' = [st EXCEPT ![j] = "running"] /\ kind' = kind
          /\ WorkerTypeOK'
      BY <1>0, <2>2, TypeStep DEF Start, WorkerNext, RunType
    <2>4. RunType' /\ KeysType'
      BY <1>0, <2>1, <2>2, <2>3 DEF RunType, KeysType, Steps, triage, cached, meeting, index
    <2>5. KeysInv'
      BY <1>0, <2>2, <2>3 DEF KeysInv, Recorded, triage, meeting
    <2>6. /\ st'[j] = "running" /\ pc'[j] = "start"
          /\ \A i \in Job \ {j} : st'[i] = st[i] /\ pc'[i] = pc[i] /\ seen'[i] = seen[i] /\ at'[i] = at[i]
      BY <1>0, <2>2, <2>3 DEF RunType, WorkerTypeOK
    <2>7. \A i, h : Related(i, h)' <=> Related(i, h)
      BY <2>3 DEF Related
    <2>8. ASSUME NEW i \in Job \ {j} PROVE RunInv(i)'
      <3>1. alone'[i] => alone[i] /\ i \notin others /\ st[i] = "running"
        BY <1>0, <2>1 DEF RunType
      <3>2. alone'[i] => ~Related(i, j)
        BY <2>1, <3>1 DEF Active
      <3>3. alone'[i] => ~Related(j, i)'
        BY <2>7, <3>2 DEF Related
      <3>4. \A h \in Job \ {j} : Active(h)' => Active(h)
        BY <2>6 DEF Active
      <3>5. Spares(i)
        BY <1>0, <2>2, <2>3, <2>6, <3>1, <3>3, <3>4
        DEF Spares, SameRun, Recorded, triage, meeting, index
      <3> QED BY <2>4, <3>5, TypeHalves, HandlersSpared
    <2>9. RunInv(j)'
      <3>1. \A h \in Job \ {j} : Active(h)' => Active(h)
        BY <2>6 DEF Active
      <3>2. alone'[j] => others = {}
        BY <2>1
      <3>3. alone'[j] => \A h \in Job \ {j} : Active(h)' => ~Related(h, j)'
        BY <2>1, <2>7, <3>1, <3>2
      <3> QED BY <2>4, <2>6, <3>3, TypeHalves, HandlersStarted
    <2> QED BY <2>4, <2>5, <2>8, <2>9, TypeHalves DEF IInv
  <1>3. CASE (\E j \in Job : Fails(j) \/ Ends(j)) \/ QueueStep
    <2>1. /\ Forget /\ UNCHANGED <<triage, meeting, index, digest, style, report>>
          /\ progress' \in {progress, "job_failed"}
      BY <1>3 DEF Fails, Ends, QueueStep, keys, cached
    <2>2. PICK i \in Job :
            \/ \E e \in Errors : Raise(i, e)
            \/ Return(i) \/ Refuse(i) \/ WriteLetter(i) \/ GiveUp(i) \/ TimeOut(i)
            \/ Crash
      BY <1>3 DEF Fails, Ends, QueueStep, Crash
    <2>3. /\ WorkerTypeOK' /\ kind' = kind
          /\ \A h \in Job :
                /\ st'[h] = "running" => st[h] = "running"
                /\ Active(h)' => Active(h)
      BY <2>2, HandlersQueue
    <2>4. /\ RunType'
          /\ \A h \in Job :
                /\ st'[h] = "running" =>
                      pc'[h] = pc[h] /\ seen'[h] = seen[h] /\ at'[h] = at[h] /\ arg'[h] = arg[h]
                /\ alone'[h] => alone[h] /\ st'[h] = "running"
      BY <2>1, <2>3, HandlersForget
    <2>5. KeysType' /\ KeysInv'
      BY <1>0, <2>1, <2>3 DEF KeysType, KeysInv, Recorded, triage, meeting, index
    <2>6. Quiet
      BY <1>0, <2>1, <2>3, <2>4 DEF Quiet, SameRun, Recorded, triage, meeting, index
    <2> QED BY <2>4, <2>5, <2>6, TypeHalves, HandlersQuiet
  <1>4. CASE MailArrives \/ DocChanges \/ Expire \/ UNCHANGED vars
    <2>1. UNCHANGED <<queue, run, results, cursor, omitted, store, skipped, missing, summary, report, progress>>
      BY <1>4 DEF MailArrives, DocChanges, Expire, vars, keys, triage, cached, meeting, index
    <2>2. UNCHANGED <<kind, st, tries, todo, letters, why, crashed, arg, pc, seen, at, alone>>
      BY <2>1 DEF queue, run
    <2>3. RunType'
      BY <1>0, <2>2 DEF RunType, WorkerTypeOK
    <2>4. /\ mail' \in 0..MaxMail /\ mail <= mail'
          /\ doc' \in 0..Len(Chunks)
          /\ transcript' \in {"none", transcript} /\ (transcript' # transcript => expired')
          /\ expired' \in BOOLEAN /\ (expired => expired')
          /\ digest' \in {"none", digest} /\ style' \in {"none", "old", style}
      <3>1. CASE MailArrives
        BY <1>0, <3>1 DEF MailArrives, KeysType, cached, meeting, index
      <3>2. CASE DocChanges
        BY <1>0, <3>2, HandlerErrors DEF DocChanges, KeysType, triage, cached, meeting
      <3>3. CASE Expire
        <4>1. UNCHANGED <<mail, doc>>
          BY <3>3 DEF Expire, triage, index
        <4>2. CASE digest' = "none" /\ UNCHANGED <<style, transcript, expired>>
          BY <1>0, <4>1, <4>2 DEF KeysType
        <4>3. CASE /\ style' = (IF style = "fresh" THEN "old" ELSE "none")
                   /\ UNCHANGED <<digest, transcript, expired>>
          BY <1>0, <4>1, <4>3 DEF KeysType
        <4>4. CASE transcript' = "none" /\ expired' = TRUE /\ UNCHANGED <<digest, style>>
          BY <1>0, <4>1, <4>4 DEF KeysType
        <4> QED BY <3>3, <4>2, <4>3, <4>4 DEF Expire
      <3>4. CASE UNCHANGED vars
        BY <1>0, <3>4 DEF vars, keys, triage, cached, meeting, index, KeysType
      <3> QED BY <1>4, <3>1, <3>2, <3>3, <3>4
    <2>5. KeysType'
      BY <1>0, <2>1, <2>4 DEF KeysType
    <2>6. Recorded => Recorded'
      BY <2>4 DEF Recorded
    <2>7. KeysInv'
      BY <1>0, <2>1, <2>2, <2>4, <2>5, <2>6 DEF KeysInv, KeysType
    <2>8. Quiet
      BY <1>0, <2>1, <2>2, <2>4, <2>6 DEF Quiet, SameRun, Active
    <2> QED BY <2>3, <2>5, <2>7, <2>8, TypeHalves, HandlersQuiet
  <1> QED BY <1>1, <1>2, <1>3, <1>4, HandlersStep DEF Next

LEMMA HandlersInit == Init => IInv
  <1> SUFFICES ASSUME Init PROVE IInv
    OBVIOUS
  <1>1. WorkerTypeOK /\ kind = [j \in Job |-> "-"] /\ st = [j \in Job |-> "none"]
    BY InitInv DEF Init, WorkerIInv, WorkerInit
  <1>2. Empty \in [1..Widest -> 0..Len(Chunks)]
    BY HandlerErrors DEF Empty
  <1>3. KeysType
    <2>1. /\ mail = 0 /\ cursor = 0 /\ results = {} /\ doc = 0 /\ report = {}
          /\ 0 \in 0..MaxMail /\ 0 \in 0..Len(Chunks) /\ store = Empty /\ omitted = {} /\ skipped = {}
      BY HandlerErrors DEF Init
    <2>2. /\ digest = "none" /\ style = "none" /\ transcript = "none" /\ progress = "none"
          /\ summary = FALSE /\ missing = FALSE /\ expired = FALSE
      BY DEF Init
    <2> QED BY <1>2, <2>1, <2>2 DEF KeysType
  <1>4. RunType
    BY <1>1 DEF Init, RunType, Steps
  <1>5. KeysInv /\ \A j \in Job : RunInv(j)
    BY <1>1 DEF Init, KeysInv, RunInv
  <1> QED BY <1>3, <1>4, <1>5, TypeHalves DEF IInv

\* However jobs fail, time out, are run again and interleave, an index job for an update
\* that no other overlapped leaves the chunks of the version it fetched and nothing older,
\* but for what the vector store refused it in that very run without its noticing
\* (jobs/rag_index.py).
THEOREM UpdatesRepair == Spec => []UpdateRepairs
  <1>1. IInv => UpdateRepairs
    BY DEF IInv, RunInv, IndexInv, UpdateRepairs, At
  <1> QED BY <1>1, HandlersInit, HandlersNext, PTL DEF Spec

\* A triage run that no other overlapped has asked the model about every email up to the
\* cursor and stored what it answered of each (jobs/email_triage.py), whatever the runs
\* before it left: the emails without a result are those that the answer left out.
THEOREM EmailsTriaged == Spec => []NoEmailSkipped
  <1>1. IInv => NoEmailSkipped
    BY DEF IInv, RunInv, TriageInv, NoEmailSkipped, At
  <1> QED BY <1>1, HandlersInit, HandlersNext, PTL DEF Spec

\* The job that summarises a meeting is enqueued after the transcript was stored
\* (jobs/transcription.py): it finds none only when that has expired.
THEOREM TranscriptFirst == Spec => []SummaryFindsTranscript
  <1>1. IInv => SummaryFindsTranscript
    BY DEF IInv, KeysInv, SummaryFindsTranscript
  <1> QED BY <1>1, HandlersInit, HandlersNext, PTL DEF Spec
==============================================================================
