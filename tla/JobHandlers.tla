----------------------------- MODULE JobHandlers -----------------------------
(***************************************************************************)
(* What the jobs of the sidecar do between their awaits, on top of the     *)
(* queue and the retry wrapper of JobWorker: the digest, triage, style,    *)
(* transcription, summary, report, index and portfolio jobs of jobs/*.py,  *)
(* each for one advisor, meeting, account book or document of one tenant.  *)
(*                                                                         *)
(* A run keeps nothing from an earlier run of the same job: after a retry  *)
(* or a crash it starts again, whatever it had already written.  Between   *)
(* two writes of a run any other job may write.  Prompts, model calls and  *)
(* tracing are left out: a model call is an await that may raise.          *)
(***************************************************************************)
EXTENDS JobWorker, Sequences, FiniteSetsExt

CONSTANTS
    Errors,      \* the exceptions that jobs meet
    MaxMail,     \* bound: emails that ever arrive
    Chunks,      \* chunks of each version of the document; 0 for an empty text
    Accounts,    \* the firm's accounts
    Sections     \* what a digest is made of: calendar, tasks, emails, ...

ASSUME HandlersAssumption ==
    /\ Errors \subseteq Exception
    /\ MaxMail \in Nat
    /\ Chunks \in Seq(Nat)

VARIABLES
    arg,         \* argument of the job: the event of an index update
    pc,          \* next step of the run
    seen,        \* what the run has read, or is about to write
    at,          \* next chunk to upsert
    alone,       \* history: no other run of the same family overlapped this run
    mail,        \* the advisor's mailbox holds emails 1..mail
    results,     \* sidecar:email_triage:results
    cursor,      \* sidecar:email_triage:cursor
    omitted,     \* history: emails that the model was asked about and left out of its answer
    digest,      \* the key under which a digest is cached, "none" when there is none
    style,       \* sidecar:style_profile: none, old (half its life over), fresh
    transcript,  \* sidecar:transcript: none, text, silent (no text)
    summary,     \* sidecar:meeting_summary is set
    missing,     \* history: a summary job found no transcript
    expired,     \* history: the transcript has outlived its TTL
    report,      \* sidecar:firm_report: the accounts it covers, {} when not set
    doc,         \* version of the document on the platform, 0 when deleted
    store,       \* vector store: version of every chunk, 0 when there is none
    skipped,     \* history: what an index run swallowed the failure of: chunks, 0 for the delete
    progress     \* last event on the portfolio job's stream

run == <<arg, pc, seen, at, alone>>
triage == <<mail, results, cursor, omitted>>
cached == <<digest, style, report, progress>>
meeting == <<transcript, summary, missing, expired>>
index == <<doc, store, skipped>>
keys == <<triage, cached, meeting, index>>
vars == <<queue, run, keys>>

Widest == Max({Chunks[v] : v \in DOMAIN Chunks})
Empty == [i \in 1..Widest |-> 0]

\* The job caches the digest under one key, GET /digest/latest reads another.
DigestKey == "sidecar:digest:tenant:advisor"
LatestKey == "digest:tenant:advisor:latest"

Steps == {"-", "start", "store", "cursor", "chain", "notify", "clear", "upsert", "end"}

TypeOK ==
    /\ WorkerTypeOK
    /\ arg \in [Job -> {"-", "created", "updated", "deleted"}]
    /\ pc \in [Job -> Steps] /\ at \in [Job -> Nat]
    /\ seen = [j \in Job |-> seen[j]]    \* sets of what the jobs read
    /\ alone \in [Job -> BOOLEAN]
    /\ mail \in 0..MaxMail /\ cursor \in 0..MaxMail
    /\ results \subseteq 0..MaxMail /\ omitted \subseteq 1..MaxMail
    /\ digest \in {"none", DigestKey} /\ style \in {"none", "old", "fresh"}
    /\ transcript \in {"none", "text", "silent"}
    /\ summary \in BOOLEAN /\ missing \in BOOLEAN /\ expired \in BOOLEAN
    /\ report \subseteq Accounts
    /\ doc \in 0..Len(Chunks) /\ store \in [1..Widest -> 0..Len(Chunks)] /\ skipped \subseteq Nat
    /\ progress \in {"none", "job_enqueued", "job_failed", "job_completed"}

Init ==
    /\ WorkerInit
    /\ arg = [j \in Job |-> "-"] /\ pc = [j \in Job |-> "-"]
    /\ seen = [j \in Job |-> {}] /\ at = [j \in Job |-> 0]
    /\ alone = [j \in Job |-> FALSE]
    /\ mail = 0 /\ results = {} /\ cursor = 0 /\ omitted = {}
    /\ digest = "none" /\ style = "none"
    /\ transcript = "none" /\ summary = FALSE /\ missing = FALSE /\ expired = FALSE
    /\ report = {}
    /\ doc = 0 /\ store = Empty /\ skipped = {}
    /\ progress = "none"

\* Jobs that share no key do not meet: an instance has jobs of one family.
Family(k) ==
    CASE k \in {"run_transcription", "run_meeting_summary"} -> "meeting"
      [] k \in {"run_daily_digest", "daily_digest", "daily-digest-sweep", "run_digest"} -> "digest"
      [] k \in {"run_email_triage", "email_triage", "email-triage-sweep"} -> "triage"
      [] k \in {"run_style_profile_refresh", "style_profile_refresh", "style-profile-weekly"} -> "style"
      [] OTHER -> k
Present(f) == \E j \in Job : st[j] # "none" /\ Family(kind[j]) = f
Related(j, i) == Family(kind[j]) = Family(kind[i])

------------------------------------------------------------------------------
(* The queue *)

\* A route enqueues a job; the document's events carry what happened to it.
Submit(j, k) ==
    /\ \A i \in Job : st[i] # "none" => Family(k) = Family(kind[i])
    /\ Enqueue(j, k)
    /\ \E a \in (IF k = "run_rag_index_update" THEN {"created", "updated", "deleted"} ELSE {"-"}) :
          arg' = [arg EXCEPT ![j] = a]
    /\ UNCHANGED <<pc, seen, at, alone, keys>>

\* The run begins; it and the runs it overlaps with are not alone.
Begin(j) ==
    LET others == {i \in Job : Active(i) /\ Related(i, j)} IN
    /\ Start(j)
    /\ pc' = [pc EXCEPT ![j] = "start"]
    /\ seen' = [seen EXCEPT ![j] = {}]
    /\ at' = [at EXCEPT ![j] = 0]
    /\ alone' = [i \in Job |-> IF i = j THEN others = {}
                               ELSE alone[i] /\ i \notin others]
    /\ UNCHANGED <<arg, keys>>

\* What a run has read dies with it.
Forget ==
    LET Keep(f, none) == [j \in Job |-> IF st'[j] = "running" THEN f[j] ELSE none] IN
    /\ pc' = Keep(pc, "-") /\ seen' = Keep(seen, {}) /\ at' = Keep(at, 0)
    /\ alone' = Keep(alone, FALSE)
    /\ UNCHANGED arg

\* The run raises at an await; run_portfolio_construction tells its stream first.
Fails(j) ==
    /\ \E e \in Errors : Raise(j, e)
    /\ progress' = IF kind[j] = "run_portfolio_construction" THEN "job_failed" ELSE progress
    /\ Forget
    /\ UNCHANGED <<triage, digest, style, report, meeting, index>>

Ends(j) ==
    /\ pc[j] = "end" /\ Return(j)
    /\ Forget
    /\ UNCHANGED keys

QueueStep ==
    /\ \/ \E j \in Job : Refuse(j) \/ WriteLetter(j) \/ GiveUp(j) \/ TimeOut(j)
       \/ Crash
    /\ Forget
    /\ UNCHANGED keys

At(j, k, step) == st[j] = "running" /\ kind[j] = k /\ pc[j] = step
Goto(j, step) == pc' = [pc EXCEPT ![j] = step]
Reads(j, x) == seen' = [seen EXCEPT ![j] = x]
Stay == UNCHANGED <<queue, arg, alone>>

------------------------------------------------------------------------------
(* The cron sweeps: a job for the advisor, under the name the sweep gives it; the
   style sweep passes over a profile that is still fresh. *)
Sweep(j) ==
    \E k \in Sweeps :
        /\ At(j, k, "start")
        /\ Goto(j, "end")
        /\ IF k = "style-profile-weekly" /\ style = "fresh" THEN UNCHANGED queue
           ELSE \E i \in Job : Enqueue(i, SweepOf(k))
        /\ UNCHANGED <<arg, seen, at, alone, keys>>

(* run_daily_digest: a digest that is cached is not generated again; reads that
   fail leave a section out. *)
Gather(j) == \E got \in SUBSET Sections : Reads(j, got)
DigestCheck(j) ==
    /\ At(j, "run_daily_digest", "start")
    /\ IF digest = DigestKey THEN Goto(j, "end") /\ UNCHANGED seen
                             ELSE Goto(j, "store") /\ Gather(j)
    /\ Stay /\ UNCHANGED <<at, keys>>
DigestStore(j) ==
    /\ At(j, "run_daily_digest", "store")
    /\ digest' = DigestKey /\ Goto(j, "end")
    /\ Stay /\ UNCHANGED <<seen, at, triage, style, report, progress, meeting, index>>

(* run_style_profile_refresh *)
StyleCheck(j) ==
    /\ At(j, "run_style_profile_refresh", "start")
    \* fresh, or too few emails to analyse
    /\ \E few \in BOOLEAN : Goto(j, IF style = "fresh" \/ few THEN "end" ELSE "store")
    /\ Stay /\ UNCHANGED <<seen, at, keys>>
StyleStore(j) ==
    /\ At(j, "run_style_profile_refresh", "store")
    /\ style' = "fresh" /\ Goto(j, "end")
    /\ Stay /\ UNCHANGED <<seen, at, triage, digest, report, progress, meeting, index>>

(* run_email_triage: the cursor is read, but the platform is asked for all
   emails; results first, then the cursor.  What the model answers for a batch is
   stored as it is: nothing compares it with the emails it was asked about (an
   answer may leave some out, or name one that is not there, 0), and the cursor
   is the last email asked about. *)
TriageRead_SinceCursor(j) ==
    /\ At(j, "run_email_triage", "start")
    /\ Reads(j, cursor + 1..mail)
    /\ Goto(j, IF mail = cursor THEN "end" ELSE "store")
    /\ Stay /\ UNCHANGED <<at, keys>>
TriageRead(j) ==
    /\ At(j, "run_email_triage", "start")
    /\ Reads(j, 1..mail)
    /\ Goto(j, IF mail = 0 THEN "end" ELSE "store")
    /\ Stay /\ UNCHANGED <<at, keys>>
TriageStore(j) ==
    /\ At(j, "run_email_triage", "store")
    /\ \E answer \in SUBSET (0..MaxMail) :
          results' = answer /\ omitted' = seen[j] \ answer
    /\ Goto(j, "cursor")
    /\ Stay /\ UNCHANGED <<seen, at, mail, cursor, cached, meeting, index>>
TriageCursor(j) ==
    /\ At(j, "run_email_triage", "cursor")
    /\ cursor' = Max(seen[j]) /\ Goto(j, "end")
    /\ Stay /\ UNCHANGED <<seen, at, mail, results, omitted, cached, meeting, index>>

(* run_transcription: download, transcribe every segment, store, then chain the
   summary job. *)
\* the summary is enqueued as soon as the audio is transcribed
Transcribe_ChainFirst(j) ==
    /\ At(j, "run_transcription", "start")
    /\ \E t \in {"text", "silent"} : Reads(j, {t})
    /\ \E i \in Job : Enqueue(i, "run_meeting_summary")
    /\ Goto(j, "store")
    /\ UNCHANGED <<arg, at, alone, keys>>
Transcribe(j) ==
    /\ At(j, "run_transcription", "start")
    /\ \E t \in {"text", "silent"} : Reads(j, {t})
    /\ Goto(j, "store")
    /\ Stay /\ UNCHANGED <<at, keys>>
TranscriptStore(j) ==
    /\ At(j, "run_transcription", "store")
    /\ transcript' \in seen[j]
    /\ Goto(j, "chain")
    /\ Stay /\ UNCHANGED <<seen, at, triage, cached, summary, missing, expired, index>>
TranscriptChain(j) ==
    /\ At(j, "run_transcription", "chain")
    /\ \E i \in Job : Enqueue(i, "run_meeting_summary")
    /\ Goto(j, "end")
    /\ UNCHANGED <<arg, seen, at, alone, keys>>

(* run_meeting_summary *)
SummaryRead(j) ==
    /\ At(j, "run_meeting_summary", "start")
    /\ Goto(j, IF transcript = "text" THEN "store" ELSE "end")
    /\ missing' = (missing \/ transcript = "none")
    /\ Stay /\ UNCHANGED <<seen, at, triage, cached, transcript, summary, expired, index>>
\* stored, then the platform is told; a webhook that fails is logged and
\* swallowed
SummaryStore(j) ==
    /\ At(j, "run_meeting_summary", "store")
    /\ summary' = TRUE /\ Goto(j, "notify")
    /\ Stay /\ UNCHANGED <<seen, at, triage, cached, transcript, missing, expired, index>>
SummaryNotify(j) ==
    /\ At(j, "run_meeting_summary", "notify")
    /\ Goto(j, "end")
    /\ Stay /\ UNCHANGED <<seen, at, keys>>

(* run_firm_report: an account whose analysis fails is dropped from the report
   and from its assets under management. *)
Analyse(j) == \E analysed \in SUBSET Accounts : Reads(j, analysed)
ReportRead(j) ==
    /\ At(j, "run_firm_report", "start")
    /\ Analyse(j)
    /\ Goto(j, IF Accounts = {} THEN "end" ELSE "store")
    /\ Stay /\ UNCHANGED <<at, keys>>
ReportStore(j) ==
    /\ At(j, "run_firm_report", "store")
    /\ report' = seen[j] /\ Goto(j, "end")
    /\ Stay /\ UNCHANGED <<seen, at, triage, digest, style, progress, meeting, index>>

(* run_portfolio_construction *)
PortfolioStart(j) ==
    /\ At(j, "run_portfolio_construction", "start")
    /\ progress' = "job_enqueued" /\ Goto(j, "store")
    /\ Stay /\ UNCHANGED <<seen, at, triage, digest, style, report, meeting, index>>
PortfolioStore(j) ==
    /\ At(j, "run_portfolio_construction", "store")
    /\ progress' = "job_completed" /\ Goto(j, "end")
    /\ Stay /\ UNCHANGED <<seen, at, triage, digest, style, report, meeting, index>>

(* run_rag_index_update: a deletion, or the document is fetched, chunked and
   embedded; an update clears the chunks first; chunks are upserted one by
   one.  A store without the method that is called (AttributeError) is asked
   through another one, whose failure is logged and swallowed: the delete is not
   done, or the chunk is left out, and the run goes on to end "indexed". *)
DeleteSourceChunks ==
    \/ store' = Empty /\ UNCHANGED skipped
    \/ skipped' = skipped \cup {0} /\ UNCHANGED store
UpsertChunk(i, v) ==
    \/ store' = [store EXCEPT ![i] = v] /\ skipped' = skipped \ {i}
    \/ skipped' = skipped \cup {i} /\ UNCHANGED store
FetchContent(j) == doc > 0 /\ Reads(j, {doc})
IndexDelete(j) ==
    /\ At(j, "run_rag_index_update", "start") /\ arg[j] = "deleted"
    /\ DeleteSourceChunks /\ Goto(j, "end")
    /\ Stay /\ UNCHANGED <<seen, at, triage, cached, meeting, doc>>
IndexFetch(j) ==
    /\ At(j, "run_rag_index_update", "start") /\ arg[j] # "deleted"
    /\ FetchContent(j) /\ skipped' = {}
    /\ at' = [at EXCEPT ![j] = 1]
    /\ Goto(j, IF Chunks[doc] = 0 THEN "end"
               ELSE IF arg[j] = "updated" THEN "clear" ELSE "upsert")
    /\ Stay /\ UNCHANGED <<triage, cached, meeting, doc, store>>
IndexClear_Dropped(j) ==
    /\ At(j, "run_rag_index_update", "clear")
    /\ Goto(j, "upsert")
    /\ Stay /\ UNCHANGED <<seen, at, triage, cached, meeting, index>>
IndexClear(j) ==
    /\ At(j, "run_rag_index_update", "clear")
    /\ DeleteSourceChunks /\ Goto(j, "upsert")
    /\ Stay /\ UNCHANGED <<seen, at, triage, cached, meeting, doc>>
IndexUpsert(j) ==
    /\ At(j, "run_rag_index_update", "upsert")
    /\ \E v \in seen[j] :
        /\ UpsertChunk(at[j], v)
        /\ Goto(j, IF at[j] = Chunks[v] THEN "end" ELSE "upsert")
    /\ at' = [at EXCEPT ![j] = @ + 1]
    /\ Stay /\ UNCHANGED <<seen, triage, cached, meeting, doc>>

Handler(j) ==
    \/ Sweep(j)
    \/ DigestCheck(j) \/ DigestStore(j)
    \/ StyleCheck(j) \/ StyleStore(j)
    \/ TriageRead(j) \/ TriageStore(j) \/ TriageCursor(j)
    \/ Transcribe(j) \/ TranscriptStore(j) \/ TranscriptChain(j)
    \/ SummaryRead(j) \/ SummaryStore(j) \/ SummaryNotify(j)
    \/ ReportRead(j) \/ ReportStore(j)
    \/ PortfolioStart(j) \/ PortfolioStore(j)
    \/ IndexDelete(j) \/ IndexFetch(j) \/ IndexClear(j) \/ IndexUpsert(j)

------------------------------------------------------------------------------
(* The platform and Redis; keys that no job of the instance reads stay. *)

MailArrives ==
    /\ Present("triage") /\ mail < MaxMail /\ mail' = mail + 1
    /\ UNCHANGED <<queue, run, results, cursor, omitted, cached, meeting, index>>
DocChanges ==
    /\ Present("run_rag_index_update")
    /\ doc' \in (doc + 1..Len(Chunks)) \cup {0} /\ doc' # doc
    /\ UNCHANGED <<queue, run, triage, cached, meeting, store, skipped>>
Expire ==
    /\ \/ Present("digest") /\ digest # "none" /\ digest' = "none" /\ UNCHANGED <<style, transcript, expired>>
       \/ style # "none" /\ style' = (IF style = "fresh" THEN "old" ELSE "none")
          /\ UNCHANGED <<digest, transcript, expired>>
       \/ transcript # "none" /\ transcript' = "none" /\ expired' = TRUE
          /\ UNCHANGED <<digest, style>>
    /\ UNCHANGED <<queue, run, triage, report, progress, summary, missing, index>>

Next ==
    \/ \E j \in Job :
        \/ \E k \in Submitted \ {"run_meeting_summary"} : Submit(j, k)
        \/ Begin(j) \/ Fails(j) \/ Ends(j) \/ Handler(j)
    \/ QueueStep
    \/ MailArrives \/ DocChanges \/ Expire

Spec == Init /\ [][Next]_vars

------------------------------------------------------------------------------
(* Properties *)

\* Of the document, the store holds the chunks of version v before the n-th that
\* were not left out; of what was there before, something is left only when the
\* delete was not done.
Indexed(v, n) ==
    \A i \in 1..Widest :
        IF i < n /\ i \notin skipped THEN store[i] = v
                                      ELSE 0 \notin skipped => store[i] = 0

\* A run of the index job for an update repairs the index: if no other index job
\* overlapped it, the source's chunks are those of the version it fetched,
\* whatever failed, crashed or interleaved before.  What can spoil it is only an
\* error of the store that this very run swallowed, and only where it happened: a
\* chunk left out is missing, and a delete that was not done leaves old chunks
\* where no new one came.
UpdateRepairs ==
    \A j \in Job :
        At(j, "run_rag_index_update", "end") /\ alone[j] /\ arg[j] = "updated" =>
            \A v \in seen[j] : Chunks[v] > 0 => Indexed(v, Chunks[v] + 1)

\* A triage run that no other overlapped leaves no gap behind its cursor: every
\* email up to it is in the stored results, which each run replaces, or is one
\* that the model was asked about in this run and left out itself.
NoEmailSkipped ==
    \A j \in Job :
        At(j, "run_email_triage", "end") /\ alone[j] => 1..cursor \subseteq results \cup omitted

\* A chained summary job finds its transcript, unless the transcript outlived
\* its 48 hours in the meantime.
SummaryFindsTranscript == missing => expired

\* A digest that is cached is what GET /digest/latest answers with.
DigestIsServed == digest # "none" => digest = LatestKey

\* The jobs that a sweep fans out are run.
FanOutRuns == \A j \in Job : kind[j] \in BySweeps => st[j] # "failed"

------------------------------------------------------------------------------
(* The inductive invariant.                                                 *)

\* There is a transcript, or there was one.
Recorded == transcript # "none" \/ expired

\* A triage run asks about what it read and moves the cursor to the last of it.
TriageInv(j) ==
    /\ pc[j] \in {"store", "cursor"} =>
          \E m \in 1..mail : /\ seen[j] = 1..m
                             /\ pc[j] = "cursor" /\ alone[j] => 1..m \subseteq results \cup omitted
    /\ pc[j] = "end" /\ alone[j] => 1..cursor \subseteq results \cup omitted

\* An index run upserts the chunks of the version it read, in their order.
IndexInv(j) ==
    /\ pc[j] \in {"clear", "upsert"} =>
          \E v \in DOMAIN Chunks :
              /\ seen[j] = {v} /\ at[j] \in 1..Chunks[v]
              /\ pc[j] = "clear" => at[j] = 1
              /\ pc[j] = "upsert" /\ alone[j] /\ arg[j] = "updated" => Indexed(v, at[j])
    /\ pc[j] = "end" /\ alone[j] /\ arg[j] = "updated" =>
          \A v \in seen[j] : Chunks[v] > 0 => Indexed(v, Chunks[v] + 1)

TranscriptInv(j) ==
    /\ pc[j] = "store" => seen[j] \subseteq {"text", "silent"}
    /\ pc[j] = "chain" => Recorded

ReportInv(j) == pc[j] = "store" => seen[j] \subseteq Accounts

\* What a run may count on at its next step.
RunInv(j) ==
    /\ alone[j] => /\ st[j] = "running"
                   /\ \A i \in Job \ {j} : Active(i) => ~Related(i, j)
    /\ st[j] = "running" =>
          /\ kind[j] = "run_email_triage" => TriageInv(j)
          /\ kind[j] = "run_rag_index_update" => IndexInv(j)
          /\ kind[j] = "run_transcription" => TranscriptInv(j)
          /\ kind[j] = "run_firm_report" => ReportInv(j)

KeysInv ==
    /\ cursor <= mail
    /\ (\E j \in Job : kind[j] = "run_meeting_summary") => Recorded
    /\ missing => expired

IInv == TypeOK /\ KeysInv /\ \A j \in Job : RunInv(j)
==============================================================================
