------------------------------ MODULE RagChunks ------------------------------
(***************************************************************************)
(* The rows of one source in the table rag_chunks, and the jobs that write *)
(* them: index_document and delete_source (jobs/indexing_jobs.py over      *)
(* rag/indexing.py) and the two garbage collectors (jobs/gc_jobs.py).      *)
(*                                                                         *)
(* PostgreSQL runs the transactions at READ COMMITTED: a DELETE finds the  *)
(* rows that were committed when it started, waits for those another       *)
(* transaction has deleted, and never finds that transaction's new rows.   *)
(***************************************************************************)
EXTENDS Integers, Sequences

CONSTANTS
    Job,       \* the jobs, each of which runs once
    Pieces     \* number of chunks of each text of the source, 0 for no text

ASSUME PiecesAssumption == Pieces \in Seq(Nat)

VARIABLES
    rows,      \* committed rows: the chunk, its text and the job that wrote it
    old,       \* jobs whose rows are older than the threshold
    pc,        \* next step of each job
    text,      \* the text an index job was given, 0 for ""
    found      \* the rows its DELETE found

vars == <<rows, old, pc, text, found>>

Text == 0..Len(Pieces)
Count(v) == IF v = 0 THEN 0 ELSE Pieces[v]
Row == [at : Nat, text : Text, by : Job]
Written(j) == {[at |-> i, text |-> text[j], by |-> j] : i \in 0..Count(text[j]) - 1}

TypeOK ==
    /\ rows \subseteq Row /\ old \subseteq Job
    /\ pc \in [Job -> {"none", "embed", "delete", "insert", "check", "done", "failed"}]
    /\ text \in [Job -> Text]
    /\ found \in [Job -> SUBSET Row]

Init ==
    /\ rows = {} /\ old = {}
    /\ pc = [j \in Job |-> "none"] /\ text = [j \in Job |-> 0]
    /\ found = [j \in Job |-> {}]

Goto(j, from, to) == pc[j] = from /\ pc' = [pc EXCEPT ![j] = to]
Stale == {r \in rows : r.by \in old} # {}

\* index_document_job: no chunks, nothing to do (not even the old rows to delete).
Index(j, v) ==
    /\ Goto(j, "none", IF Count(v) = 0 THEN "done" ELSE "embed")
    /\ text' = [text EXCEPT ![j] = v]
    /\ UNCHANGED <<rows, old, found>>

\* The embedding call answers or raises.
Embed(j) ==
    /\ \E next \in {"delete", "failed"} : Goto(j, "embed", next)
    /\ UNCHANGED <<rows, old, text, found>>

\* The transaction's DELETE.
Delete(j) ==
    /\ Goto(j, "delete", "insert")
    /\ found' = [found EXCEPT ![j] = rows]
    /\ UNCHANGED <<rows, old, text>>

Insert_NoConstraint(j) ==
    /\ Goto(j, "insert", "done")
    /\ rows' = (rows \ found[j]) \cup Written(j)
    /\ UNCHANGED <<old, text, found>>
\* Its INSERTs and its COMMIT; uq_chunk aborts it when one of its indexes is
\* taken by a row its DELETE did not find.
Insert(j) ==
    LET kept == rows \ found[j] IN
    /\ \A r \in kept, w \in Written(j) : r.at # w.at
    /\ Goto(j, "insert", "done")
    /\ rows' = kept \cup Written(j)
    /\ UNCHANGED <<old, text, found>>
Conflict(j) ==
    /\ \E r \in rows \ found[j], w \in Written(j) : r.at = w.at
    /\ Goto(j, "insert", "failed")
    /\ UNCHANGED <<rows, old, text, found>>

\* delete_source_job
DeleteSource(j) ==
    /\ Goto(j, "none", "done")
    /\ rows' = {}
    /\ UNCHANGED <<old, text, found>>

\* gc_stale_chunks_job: a source with an old row is looked up; the lookup fails
\* with an access scope of None, and an error counts as a missing source.
GcSelect(j) ==
    /\ Goto(j, "none", IF Stale THEN "check" ELSE "done")
    /\ UNCHANGED <<rows, old, text, found>>
SourceExists == FALSE
GcDelete(j) ==
    /\ ~SourceExists
    /\ Goto(j, "check", "done")
    /\ rows' = {}
    /\ UNCHANGED <<old, text, found>>

\* gc_refresh_stale_embeddings_job: index_document is enqueued with no text.
GcRefresh(j, i) ==
    /\ i # j /\ Stale
    /\ pc[j] = "none" /\ pc[i] = "none"
    /\ pc' = [pc EXCEPT ![j] = "done", ![i] = "done"]
    /\ text' = [text EXCEPT ![i] = 0]
    /\ UNCHANGED <<rows, old, found>>

\* Months pass.
Age ==
    /\ old' = old \cup {r.by : r \in rows} /\ old' # old
    /\ UNCHANGED <<rows, pc, text, found>>

Next ==
    \/ \E j \in Job :
        \/ \E v \in Text : Index(j, v)
        \/ Embed(j) \/ Delete(j) \/ Insert(j) \/ Conflict(j)
        \/ DeleteSource(j) \/ GcSelect(j) \/ GcDelete(j)
        \/ \E i \in Job : GcRefresh(j, i)
    \/ Age

Spec == Init /\ [][Next]_vars

------------------------------------------------------------------------------
(* Properties *)

\* However index, delete and collection jobs overlap, a source is in the table
\* with all the chunks of one text, written by one job, or not at all.
OneText == rows = {} \/ \E j \in Job : rows = Written(j)

\* What makes it so: rows come from jobs that are done, and the rows that a DELETE
\* found are all there still or all gone.
IInv ==
    /\ TypeOK
    /\ OneText
    /\ \A r \in rows : pc[r.by] = "done"
    /\ \A j \in Job :
        /\ pc[j] \in {"embed", "delete", "insert"} => Count(text[j]) > 0
        /\ pc[j] = "insert" =>
            /\ found[j] = rows \/ found[j] \cap rows = {}
            /\ \A r \in found[j] : pc[r.by] = "done"
==============================================================================
