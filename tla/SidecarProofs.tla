----------------------------- MODULE SidecarProofs -----------------------------
(***************************************************************************)
(* Theorems about the components of the sidecar, for any number of jobs,   *)
(* requests, calls, runs, reads and securities.                            *)
(***************************************************************************)
EXTENDS Sidecar, CircuitBreaker, FoldProofs

\* A step of the sidecar is a step of one component, and none for the others.
LEMMA OneMoves ==
  ASSUME [SidecarNext]_sidecarVars
  PROVE  /\ [Next]_vars
         /\ [Chat!Next]_(Chat!vars)
         /\ [Tools!Next]_(Tools!vars)
         /\ [Agent!Next]_(Agent!vars)
         /\ [Folio!Next]_(Folio!vars)
         /\ [Reading!Next]_(Reading!vars)
  BY DEF SidecarNext, IndexStep, ChatStep, ToolStep, RunStep, FolioStep, ReadStep,
         sidecarVars, vars, chatVars, toolVars, runVars, folioVars, readVars,
         Chat!vars, Tools!vars, Agent!vars, Agent!run, Folio!vars, Reading!vars

------------------------------------------------------------------------------
(* The rows of a source.  The transaction of an index job may miss rows that are
   committed after its DELETE started, but then it misses all of them, so that the
   first of its inserts meets a row with its index. *)

USE PiecesAssumption DEF PiecesAssumption

LEMMA CountIsNat == ASSUME NEW v \in Text PROVE Count(v) \in Nat
  BY DEF Text, Count

\* A text of a chunk or more has a chunk 0.
LEMMA HasFirst ==
  ASSUME NEW j, text[j] \in Text, Count(text[j]) > 0
  PROVE  [at |-> 0, text |-> text[j], by |-> j] \in Written(j)
  <1>1. 0 \in 0..Count(text[j]) - 1
    BY CountIsNat
  <1> QED BY <1>1 DEF Written

LEMMA WrittenRows ==
  ASSUME NEW j \in Job, text[j] \in Text
  PROVE  Written(j) \subseteq Row
  BY CountIsNat DEF Written, Row

\* What an index job about to insert can find: no row it did not delete, or it
\* would be refused.
LEMMA InsertsAlone ==
  ASSUME IInv, NEW j \in Job, pc[j] = "insert",
         \A r \in rows \ found[j], w \in Written(j) : r.at # w.at
  PROVE  rows \ found[j] = {}
  <1>1. CASE found[j] = rows
    BY <1>1
  <1>2. CASE found[j] \cap rows = {} /\ rows # {}
    <2>1. PICK i \in Job : rows = Written(i)
      BY <1>2 DEF IInv, OneText
    <2>2. Count(text[i]) > 0
      BY <1>2, <2>1, CountIsNat DEF Written, IInv, TypeOK
    <2>3. /\ [at |-> 0, text |-> text[i], by |-> i] \in rows \ found[j]
          /\ [at |-> 0, text |-> text[j], by |-> j] \in Written(j)
      BY <1>2, <2>1, <2>2, HasFirst DEF IInv, TypeOK
    <2> QED BY <2>3
  <1> QED BY <1>1, <1>2 DEF IInv

LEMMA ChunksInit == Init => IInv
  BY DEF Init, IInv, TypeOK, OneText, Text

\* Steps that leave the rows, and the rows that were found, alone.
LEMMA RowsKept ==
  ASSUME IInv, TypeOK', UNCHANGED <<rows, found>>,
         \A i \in Job : pc[i] # "none" => text'[i] = text[i],
         \A i \in Job : pc[i] = "done" => pc'[i] = "done",
         \A i \in Job : pc'[i] \in {"embed", "delete", "insert"} => Count(text'[i]) > 0,
         \A i \in Job : pc'[i] = "insert" => pc[i] = "insert"
  PROVE  IInv'
  <1>1. OneText'
    <2>1. CASE rows # {}
      <3>1. PICK i \in Job : rows = Written(i)
        BY <2>1 DEF IInv, OneText
      <3>2. pc[i] = "done"
        BY <2>1, <3>1 DEF IInv, Written
      <3>3. Written(i)' = Written(i)
        BY <3>2 DEF Written
      <3> QED BY <3>1, <3>3 DEF OneText
    <2> QED BY <2>1 DEF OneText
  <1>2. \A r \in rows : r.by \in Job /\ pc'[r.by] = "done"
    BY DEF IInv, TypeOK, Row
  <1>3. \A i \in Job : pc'[i] = "insert" =>
            /\ found[i] = rows \/ found[i] \cap rows = {}
            /\ \A r \in found[i] : pc'[r.by] = "done"
    BY DEF IInv, TypeOK, Row
  <1> QED BY <1>1, <1>2, <1>3 DEF IInv

\* Steps after which the source is gone.
LEMMA RowsGone ==
  ASSUME IInv, NEW j \in Job, TypeOK', rows' = {}, UNCHANGED <<text, found>>,
         pc[j] # "done", pc' = [pc EXCEPT ![j] = "done"]
  PROVE  IInv'
  <1>1. OneText' /\ \A r \in rows' : pc'[r.by] = "done"
    BY DEF OneText
  <1>2. \A i \in Job : pc'[i] \in {"embed", "delete", "insert"} => pc'[i] = pc[i]
    BY DEF IInv, TypeOK
  <1>3. \A i \in Job : pc'[i] = "insert" =>
            /\ found'[i] \cap rows' = {}
            /\ \A r \in found'[i] : pc'[r.by] = "done"
    BY <1>2 DEF IInv, TypeOK, Row
  <1> QED BY <1>1, <1>2, <1>3 DEF IInv

LEMMA ChunksStep == IInv /\ [Next]_vars => IInv'
  <1> SUFFICES ASSUME IInv, [Next]_vars PROVE IInv'
    OBVIOUS
  <1> USE DEF Goto
  <1>1. ASSUME NEW j \in Job, NEW v \in Text, Index(j, v) PROVE IInv'
    <2>1. TypeOK'
      BY <1>1 DEF Index, IInv, TypeOK
    <2>2. \A i \in Job : pc'[i] \in {"embed", "delete", "insert"} => Count(text'[i]) > 0
      BY <1>1, CountIsNat DEF Index, IInv, TypeOK
    <2> QED BY <1>1, <2>1, <2>2, RowsKept DEF Index, IInv, TypeOK
  <1>2. ASSUME NEW j \in Job, Embed(j) PROVE IInv'
    BY <1>2, RowsKept DEF Embed, IInv, TypeOK
  <1>3. ASSUME NEW j \in Job, Delete(j) PROVE IInv'
    <2>1. TypeOK'
      BY <1>3 DEF Delete, IInv, TypeOK
    <2>2. \A i \in Job : Written(i)' = Written(i)
      BY <1>3 DEF Delete, Written
    <2>3. /\ found'[j] = rows' /\ rows' = rows
          /\ \A i \in Job \ {j} : found'[i] = found[i] /\ pc'[i] = pc[i]
          /\ pc[j] = "delete" /\ pc'[j] = "insert"
          /\ \A i \in Job : pc[i] = "done" => pc'[i] = "done"
          /\ text' = text
      BY <1>3 DEF Delete, IInv, TypeOK
    <2>4. \A r \in rows' : pc'[r.by] = "done"
      BY <2>3 DEF IInv, TypeOK, Row
    <2>5. \A i \in Job : pc'[i] = "insert" =>
              /\ found'[i] = rows' \/ found'[i] \cap rows' = {}
              /\ \A r \in found'[i] : pc'[r.by] = "done"
      BY <2>3, <2>4 DEF IInv, TypeOK, Row
    <2>6. OneText'
      BY <2>2, <2>3 DEF IInv, OneText
    <2>7. \A i \in Job : pc'[i] \in {"embed", "delete", "insert"} => Count(text'[i]) > 0
      BY <2>3 DEF IInv
    <2> QED BY <2>1, <2>4, <2>5, <2>6, <2>7 DEF IInv
  <1>4. ASSUME NEW j \in Job, Insert(j) PROVE IInv'
    <2>1. rows \ found[j] = {}
      BY <1>4, InsertsAlone DEF Insert
    <2>2. /\ rows' = Written(j) /\ Written(j)' = Written(j)
          /\ text' = text /\ found' = found
      BY <1>4, <2>1 DEF Insert, Written
    <2>3. /\ pc[j] = "insert" /\ pc'[j] = "done"
          /\ \A i \in Job \ {j} : pc'[i] = pc[i]
      BY <1>4 DEF Insert, IInv, TypeOK
    <2>4. TypeOK'
      BY <1>4, <2>2, WrittenRows DEF Insert, IInv, TypeOK
    <2>5. \A r \in rows' : r.by = j
      BY <2>2 DEF Written
    <2>6. \A i \in Job : pc'[i] = "insert" =>
              /\ found'[i] \cap rows' = {}
              /\ \A r \in found'[i] : pc'[r.by] = "done"
      <3> SUFFICES ASSUME NEW i \in Job, pc'[i] = "insert"
                   PROVE  \A r \in found[i] : r.by # j /\ pc'[r.by] = "done"
        BY <2>2, <2>5
      <3> QED BY <2>3 DEF IInv, TypeOK, Row
    <2>7. OneText' /\ \A r \in rows' : pc'[r.by] = "done"
      BY <2>2, <2>3, <2>5 DEF OneText
    <2>8. \A i \in Job : pc'[i] \in {"embed", "delete", "insert"} => Count(text'[i]) > 0
      BY <2>2, <2>3 DEF IInv
    <2> QED BY <2>4, <2>6, <2>7, <2>8 DEF IInv
  <1>5. ASSUME NEW j \in Job, Conflict(j) PROVE IInv'
    BY <1>5, RowsKept DEF Conflict, IInv, TypeOK
  <1>6. ASSUME NEW j \in Job, DeleteSource(j) PROVE IInv'
    <2>1. TypeOK'
      BY <1>6 DEF DeleteSource, IInv, TypeOK
    <2> QED BY <1>6, <2>1, RowsGone DEF DeleteSource
  <1>7. ASSUME NEW j \in Job, GcSelect(j) PROVE IInv'
    <2>1. TypeOK'
      BY <1>7 DEF GcSelect, IInv, TypeOK
    <2> QED BY <1>7, <2>1, RowsKept DEF GcSelect, IInv, TypeOK
  <1>8. ASSUME NEW j \in Job, GcDelete(j) PROVE IInv'
    <2>1. TypeOK'
      BY <1>8 DEF GcDelete, IInv, TypeOK
    <2> QED BY <1>8, <2>1, RowsGone DEF GcDelete
  <1>9. ASSUME NEW j \in Job, NEW i \in Job, GcRefresh(j, i) PROVE IInv'
    <2>1. TypeOK'
      BY <1>9 DEF GcRefresh, IInv, TypeOK, Text
    <2> QED BY <1>9, <2>1, RowsKept DEF GcRefresh, IInv, TypeOK
  <1>10. ASSUME Age PROVE IInv'
    <2>1. TypeOK'
      BY <1>10 DEF Age, IInv, TypeOK, Row
    <2> QED BY <1>10, <2>1, RowsKept DEF Age, IInv, TypeOK
  <1>11. ASSUME UNCHANGED vars PROVE IInv'
    BY <1>11, RowsKept DEF vars, IInv, TypeOK
  <1> QED BY <1>1, <1>2, <1>3, <1>4, <1>5, <1>6, <1>7, <1>8, <1>9, <1>10, <1>11 DEF Next

\* The rows that a DELETE found are all there or all gone, and written by jobs
\* that are done: always.
THEOREM FoundTogether == SidecarSpec => []IInv
  <1>1. SidecarInit => IInv
    BY ChunksInit DEF SidecarInit
  <1>2. IInv /\ [SidecarNext]_sidecarVars => IInv'
    BY ChunksStep, OneMoves
  <1> QED BY <1>1, <1>2, PTL DEF SidecarSpec

\* However index, delete and collection jobs overlap (rag/indexing.py,
\* jobs/gc_jobs.py), the rows of a source are those of one text and one job.
THEOREM SourceIsOneText == SidecarSpec => []OneText
  <1>1. IInv => OneText
    BY DEF IInv
  <1> QED BY <1>1, FoundTogether, PTL

HIDE PiecesAssumption DEF PiecesAssumption

------------------------------------------------------------------------------
(* The cached reads of a request.  Whatever a method puts into the path or the query is in
   its key, so that an entry holds what the platform says to any read with its key. *)

USE SidecarAssumption DEF SidecarAssumption

\* The answers that there are in this request.
Said == {Reading!Sent(r) : r \in asks}
Entries == {[key |-> Reading!Key(r), answer |-> Reading!Sent(r)] : r \in asks}

\* What the cache holds, and what the coroutines were told.
ReadsInv ==
    /\ asks \in Asks /\ store \in Seq(Entries)
    /\ asking \in [Runner -> asks]
    /\ got \in [Runner -> {Reading!None, Reading!Waiting, Reading!Error} \cup Said]
    /\ Reading!OwnAnswers

\* Row by row of the table: no argument of the path or the query is missing in the key.
LEMMA RowsComplete ==
  ASSUME NEW m \in Reading!Method
  PROVE  /\ Reading!RowOf(m).path \subseteq Reading!RowOf(m).key
         /\ Reading!RowOf(m).query \subseteq Reading!RowOf(m).key
         /\ m = "firm_accounts" => "filters" \in Reading!RowOf(m).key
         /\ m = "search_documents_text" => {"q", "filters"} \subseteq Reading!RowOf(m).key
         /\ m = "client_accounts" => "account_ids" \in Reading!RowOf(m).key
  <1> DEFINE w == Reading!RowOf(m)
  <1>1. CASE m \in DOMAIN Reading!ResourceReads
    <2>1. w = Reading!ResourceReads[m]
      BY <1>1 DEF Reading!RowOf, Reading!ResourceReads, Reading!ListReads, Reading!ClientReads, Reading!AdvisorReads, Reading!CrmReads, Reading!MeetingReads
    <2> QED BY <1>1, <2>1 DEF Reading!ResourceReads, Reading!Row
  <1>2. CASE m \in DOMAIN Reading!ListReads
    <2>1. w = Reading!ListReads[m]
      BY <1>2 DEF Reading!RowOf, Reading!ResourceReads, Reading!ListReads, Reading!ClientReads, Reading!AdvisorReads, Reading!CrmReads, Reading!MeetingReads
    <2> QED BY <1>2, <2>1 DEF Reading!ListReads, Reading!Row
  <1>3. CASE m \in DOMAIN Reading!ClientReads
    <2>1. w = Reading!ClientReads[m]
      BY <1>3 DEF Reading!RowOf, Reading!ResourceReads, Reading!ListReads, Reading!ClientReads, Reading!AdvisorReads, Reading!CrmReads, Reading!MeetingReads
    <2> QED BY <1>3, <2>1 DEF Reading!ClientReads, Reading!Row
  <1>4. CASE m \in DOMAIN Reading!AdvisorReads
    <2>1. w = Reading!AdvisorReads[m]
      BY <1>4 DEF Reading!RowOf, Reading!ResourceReads, Reading!ListReads, Reading!ClientReads, Reading!AdvisorReads, Reading!CrmReads, Reading!MeetingReads
    <2> QED BY <1>4, <2>1 DEF Reading!AdvisorReads, Reading!Row
  <1>5. CASE m \in DOMAIN Reading!CrmReads \cup DOMAIN Reading!MeetingReads
    <2>1. w = Reading!Row({"id"}, {"id"}, {})
      BY <1>5 DEF Reading!RowOf, Reading!ResourceReads, Reading!ListReads, Reading!ClientReads, Reading!AdvisorReads, Reading!CrmReads, Reading!MeetingReads
    <2> QED BY <1>5, <2>1 DEF Reading!CrmReads, Reading!MeetingReads, Reading!Row
  <1>6. \/ m \in DOMAIN Reading!ResourceReads \/ m \in DOMAIN Reading!ListReads
        \/ m \in DOMAIN Reading!ClientReads \/ m \in DOMAIN Reading!AdvisorReads
        \/ m \in DOMAIN Reading!CrmReads \cup DOMAIN Reading!MeetingReads
    BY DEF Reading!Method
  <1> HIDE DEF w
  <1> QED BY <1>1, <1>2, <1>3, <1>4, <1>5, <1>6 DEF w

\* Two reads with one key send the platform the same.
LEMMA KeyTellsAll ==
  ASSUME NEW r, NEW s, r.method \in Reading!Method, Reading!Key(r) = Reading!Key(s)
  PROVE  Reading!Sent(r) = Reading!Sent(s)
  <1> DEFINE m == r.method
             K == Reading!RowOf(m).key
             P == Reading!RowOf(m).path
             Q == Reading!RowOf(m).query
  <1>1. s.method = m /\ s.scope = r.scope /\ Reading!Restrict(r.args, K) = Reading!Restrict(s.args, K)
    BY DEF Reading!Key
  <1>2. m \in Reading!Method
    OBVIOUS
  <1>3. /\ P \subseteq K /\ Q \subseteq K /\ (m = "firm_accounts" => "filters" \in K)
        /\ m = "search_documents_text" => {"q", "filters"} \subseteq K
        /\ m = "client_accounts" => "account_ids" \in K
    BY <1>2, RowsComplete
  <1> HIDE DEF K, P, Q
  <1>4. \A x \in K : r.args[x] = s.args[x]
    BY <1>1 DEF Reading!Restrict
  <1>5. Reading!Restrict(r.args, P) = Reading!Restrict(s.args, P)
    BY <1>3, <1>4 DEF Reading!Restrict
  <1>6. Reading!Restrict(r.args, Q) = Reading!Restrict(s.args, Q)
    BY <1>3, <1>4 DEF Reading!Restrict
  <1>7. Reading!Params(r) = Reading!Params(s)
    <2>1. CASE m = "firm_accounts"
      BY <1>1, <1>3, <1>4, <2>1 DEF Reading!Params
    <2>2. CASE m = "search_documents_text"
      <3>1. r.args["q"] = s.args["q"] /\ r.args["filters"] = s.args["filters"]
        BY <1>3, <1>4, <2>2
      <3> QED BY <1>1, <2>2, <3>1 DEF Reading!Params
    <2>3. CASE m = "client_accounts"
      <3>1. r.args["account_ids"] = s.args["account_ids"]
        BY <1>3, <1>4, <2>3
      <3> QED BY <1>1, <1>6, <2>3, <3>1 DEF Reading!Params, Q
    <2>4. CASE m \notin {"firm_accounts", "search_documents_text", "client_accounts"}
      <3>1. Reading!Params(r) = Reading!Restrict(r.args, Q)
        BY <2>4 DEF Reading!Params, Q
      <3>2. Reading!Params(s) = Reading!Restrict(s.args, Q)
        BY <1>1, <2>4 DEF Reading!Params, Q
      <3> QED BY <1>6, <3>1, <3>2
    <2> QED BY <2>1, <2>2, <2>3, <2>4
  <1> QED BY <1>1, <1>5, <1>7 DEF Reading!Sent, P

\* The entry with the key goes, and at the limit the oldest one.
LEMMA RemoveAtShortens ==
  ASSUME NEW S, NEW s \in Seq(S), NEW i \in DOMAIN s
  PROVE  Reading!RemoveAt(s, i) \in Seq(S) /\ Len(Reading!RemoveAt(s, i)) = Len(s) - 1
  <1>1. i \in 1..Len(s) /\ Len(s) \in Nat
    OBVIOUS
  <1>2. /\ SubSeq(s, 1, i - 1) \in Seq(S) /\ Len(SubSeq(s, 1, i - 1)) = i - 1
        /\ SubSeq(s, i + 1, Len(s)) \in Seq(S)
        /\ Len(SubSeq(s, i + 1, Len(s))) = Len(s) - i
    <2>1. \A k \in 1..i - 1 : s[k] \in S
      BY <1>1
    <2>2. \A k \in i + 1..Len(s) : s[k] \in S
      BY <1>1
    <2>3. SubSeq(s, 1, i - 1) \in Seq(S) /\ Len(SubSeq(s, 1, i - 1)) = i - 1
      BY <1>1, <2>1
    <2>4. SubSeq(s, i + 1, Len(s)) \in Seq(S) /\ Len(SubSeq(s, i + 1, Len(s))) = Len(s) - i
      <3>1. i + 1 \in Int /\ Len(s) \in Int
        BY <1>1
      <3> DEFINE rest == SubSeq(s, i + 1, Len(s))
      <3>2. /\ rest \in Seq(S)
            /\ Len(rest) = IF i + 1 <= Len(s) THEN Len(s) - (i + 1) + 1 ELSE 0
        BY <2>2, <3>1, SubSeqProperties
      <3> HIDE DEF rest
      <3>3. Len(rest) = Len(s) - i
        BY <1>1, <3>2
      <3> QED BY <3>2, <3>3 DEF rest
    <2> QED BY <2>3, <2>4
  <1>3. Reading!RemoveAt(s, i) = SubSeq(s, 1, i - 1) \o SubSeq(s, i + 1, Len(s))
    BY DEF Reading!RemoveAt
  <1>4. /\ Reading!RemoveAt(s, i) \in Seq(S)
        /\ Len(Reading!RemoveAt(s, i)) = Len(SubSeq(s, 1, i - 1)) + Len(SubSeq(s, i + 1, Len(s)))
    BY <1>2, <1>3, ConcatProperties
  <1>5. (i - 1) + (Len(s) - i) = Len(s) - 1
    BY <1>1
  <1>6. Len(Reading!RemoveAt(s, i)) = (i - 1) + (Len(s) - i)
    BY <1>2, <1>4
  <1> QED BY <1>4, <1>5, <1>6

LEMMA PutKeepsLimit ==
  ASSUME NEW S, store \in Seq(S), Len(store) <= MaxEntries,
         NEW x, NEW y, [key |-> x, answer |-> y] \in S
  PROVE  Reading!Put(x, y) \in Seq(S) /\ Len(Reading!Put(x, y)) <= MaxEntries
  <1> DEFINE left == IF Len(store) >= MaxEntries THEN Tail(store) ELSE store
             same == {i \in DOMAIN left : left[i].key = x}
             kept == IF same = {} THEN left ELSE Reading!RemoveAt(left, CHOOSE i \in same : TRUE)
  <1>1. left \in Seq(S) /\ Len(left) \in Nat /\ Len(left) < MaxEntries
    OBVIOUS
  <1>2. kept \in Seq(S) /\ Len(kept) < MaxEntries
    <2>1. CASE same = {}
      <3>1. kept = left
        BY <2>1
      <3> HIDE DEF left, same, kept
      <3> QED BY <1>1, <3>1
    <2>2. CASE same # {}
      <3>1. (CHOOSE i \in same : TRUE) \in DOMAIN left
        BY <2>2
      <3>2. kept = Reading!RemoveAt(left, CHOOSE i \in same : TRUE)
        BY <2>2
      <3> HIDE DEF left, same, kept
      <3> QED BY <1>1, <3>1, <3>2, RemoveAtShortens
    <2> HIDE DEF left, same, kept
    <2> QED BY <2>1, <2>2
  <1>3. Reading!Put(x, y) = Append(kept, [key |-> x, answer |-> y])
    BY DEF Reading!Put
  <1> HIDE DEF left, same, kept
  <1>4. Reading!Put(x, y) \in Seq(S) /\ Len(Reading!Put(x, y)) = Len(kept) + 1
    BY <1>2, <1>3, AppendProperties
  <1>5. Len(kept) \in Nat
    BY <1>2, LenProperties
  <1> QED BY <1>2, <1>4, <1>5

LEMMA ReadsInit == Reading!Init => ReadsInv
  BY DEF Reading!Init, ReadsInv, Reading!OwnAnswers

\* Whatever the cache has under the key of a read is what the platform says to it.
LEMMA HitAnswers ==
  ASSUME ReadsInv, NEW r \in asks, NEW e \in Reading!Hit(Reading!Key(r))
  PROVE  e.answer = Reading!Sent(r)
  <1>1. e \in Entries /\ e.key = Reading!Key(r)
    BY DEF Reading!Hit, Reading!Range, ReadsInv
  <1>2. PICK s \in asks : e = [key |-> Reading!Key(s), answer |-> Reading!Sent(s)]
    BY <1>1 DEF Entries
  <1>3. e.key = Reading!Key(s) /\ e.answer = Reading!Sent(s)
    BY <1>2
  <1>4. s.method \in Reading!Method /\ Reading!Key(s) = Reading!Key(r)
    BY <1>1, <1>3, AsksAssumption DEF ReadsInv
  <1> QED BY <1>3, <1>4, KeyTellsAll

LEMMA ReadsStep ==
  ASSUME ReadsInv, [Reading!Next]_Reading!vars
  PROVE  ReadsInv'
  <1>1. ASSUME NEW t \in Runner, Reading!Ask(t) PROVE ReadsInv'
    <2>1. PICK r \in asks :
            /\ asking' = [asking EXCEPT ![t] = r]
            /\ got' \in {[got EXCEPT ![t] = x] :
                   x \in IF Reading!Hit(Reading!Key(r)) = {} THEN {Reading!Waiting} ELSE {e.answer : e \in Reading!Hit(Reading!Key(r))}}
      BY <1>1 DEF Reading!Ask
    <2>2. \A e \in Reading!Hit(Reading!Key(r)) : e.answer = Reading!Sent(r)
      BY HitAnswers
    <2>3. PICK x \in {Reading!Waiting, Reading!Sent(r)} : got' = [got EXCEPT ![t] = x]
      BY <2>1, <2>2
    <2>4. x \in {Reading!None, Reading!Waiting, Reading!Error} \cup Said
      BY <2>3 DEF Said
    <2>5. UNCHANGED <<asks, store, Said, Entries>>
      BY <1>1 DEF Reading!Ask, Said, Entries
    <2>6. \A u \in Runner : got'[u] \in {Reading!None, Reading!Waiting, Reading!Error, Reading!Sent(asking'[u])}
      BY <2>1, <2>3 DEF ReadsInv, Reading!OwnAnswers
    <2> QED BY <2>1, <2>3, <2>4, <2>5, <2>6 DEF ReadsInv, Reading!OwnAnswers, Reading!Sent
  <1>2. ASSUME NEW t \in Runner, Reading!Reply(t) PROVE ReadsInv'
    <2>1. /\ got' = [got EXCEPT ![t] = Reading!Sent(asking[t])]
          /\ store' = Reading!Put(Reading!Key(asking[t]), Reading!Sent(asking[t]))
          /\ UNCHANGED <<asks, asking, Said, Entries>>
      BY <1>2 DEF Reading!Reply, Said, Entries
    <2>2. /\ Reading!Sent(asking[t]) \in Said
          /\ [key |-> Reading!Key(asking[t]), answer |-> Reading!Sent(asking[t])] \in Entries
      BY DEF ReadsInv, Said, Entries
    <2>3. store' \in Seq(Entries) /\ Len(store') <= MaxEntries
      BY <2>1, <2>2, PutKeepsLimit DEF ReadsInv, Reading!OwnAnswers
    <2>4. \A u \in Runner : got'[u] \in {Reading!None, Reading!Waiting, Reading!Error, Reading!Sent(asking[u])}
      BY <2>1 DEF ReadsInv, Reading!OwnAnswers
    <2> QED BY <2>1, <2>2, <2>3, <2>4 DEF ReadsInv, Reading!OwnAnswers
  <1>3. ASSUME NEW t \in Runner, Reading!Fail(t) PROVE ReadsInv'
    BY <1>3 DEF Reading!Fail, ReadsInv, Reading!OwnAnswers, Said, Entries
  <1>4. ASSUME UNCHANGED Reading!vars PROVE ReadsInv'
    BY <1>4 DEF Reading!vars, ReadsInv, Reading!OwnAnswers, Said, Entries
  <1> QED BY <1>1, <1>2, <1>3, <1>4 DEF Reading!Next

\* Whatever coroutines of a request read at the same time, fail to, or read again
\* (services/platform_client.py, services/request_cache.py), an answer is that to the
\* coroutine's own read, and the cache keeps to its limit.
THEOREM ReadsAnswered == SidecarSpec => []OwnAnswers
  <1>1. ReadsInv => OwnAnswers
    BY DEF ReadsInv, OwnAnswers
  <1>2. SidecarInit => ReadsInv
    BY ReadsInit DEF SidecarInit
  <1>3. ReadsInv /\ [SidecarNext]_sidecarVars => ReadsInv'
    BY ReadsStep, OneMoves
  <1> QED BY <1>1, <1>2, <1>3, PTL DEF SidecarSpec

HIDE SidecarAssumption DEF SidecarAssumption

------------------------------------------------------------------------------
(* Tool calls.  A call that may change something begins when every read-only call of
   its batch, and every other call that comes before it, is over: which it stays. *)

Where == {"waiting", "starting", "running", "reporting", "done", "raised", "cancelled"}
OverAt == {"done", "raised", "cancelled"}

ToolsInv ==
    /\ st \in [Tools!Call -> Where]
    /\ phase \in {"writing", "returned"} => \A c \in Tools!Call : Tools!Safe(c) => Tools!Over(c)
    /\ \A c, d \in Tools!Call :
           ~Tools!Safe(c) /\ st[c] # "waiting" /\ Tools!Safe(d) => Tools!Over(d)
    /\ \A i, k \in DOMAIN Requests :
           i < k /\ ~Tools!Safe(Requests[i]) /\ ~Tools!Safe(Requests[k])
             /\ st[Requests[k]] # "waiting" => Tools!Over(Requests[i])

\* Of two calls one comes first.
LEMMA ToolsAlone == ToolsInv => WritersAlone
  <1> USE SidecarAssumption DEF SidecarAssumption
  <1> SUFFICES ASSUME ToolsInv, NEW c \in Tools!Call, NEW d \in Tools!Call, c # d,
                      Tools!Running(c), ~Tools!Safe(c), Tools!Running(d)
               PROVE  FALSE
    BY DEF WritersAlone, Tools!WritersAlone
  <1>1. ~Tools!Over(c) /\ ~Tools!Over(d) /\ st[c] # "waiting" /\ st[d] # "waiting"
    BY DEF Tools!Running, Tools!Over
  <1>2. ~Tools!Safe(d)
    BY <1>1 DEF ToolsInv
  <1>3. PICK i \in DOMAIN Requests, k \in DOMAIN Requests : c = Requests[i] /\ d = Requests[k]
    BY DEF Tools!Call
  <1>4. i < k \/ k < i
    BY <1>3
  <1> QED BY <1>1, <1>2, <1>3, <1>4 DEF ToolsInv

\* A call that is not over moves, and no call begins.
LEMMA CallMoves ==
  ASSUME ToolsInv, NEW c \in Tools!Call, NEW to \in Where,
         st[c] \notin OverAt, st' = [st EXCEPT ![c] = to],
         st[c] = "waiting" => to \in OverAt /\ Tools!Safe(c),
         phase' \in {"writing", "returned"} => phase' = phase
  PROVE  ToolsInv'
  <1>1. \A d \in Tools!Call : Tools!Over(d) => Tools!Over(d)' /\ d # c
    BY DEF Tools!Over, ToolsInv, OverAt
  <1>2. \A d \in Tools!Call : ~Tools!Safe(d) /\ st'[d] # "waiting" => st[d] # "waiting"
    BY DEF ToolsInv
  <1>3. \A i \in DOMAIN Requests : Requests[i] \in Tools!Call
    BY DEF Tools!Call
  <1> QED BY <1>1, <1>2, <1>3 DEF ToolsInv

LEMMA ToolsStep ==
  ASSUME ToolsInv, [Tools!Next]_(Tools!vars)
  PROVE  ToolsInv'
  <1> USE DEF Where, OverAt
  <1>1. ASSUME NEW c \in Tools!Call, Tools!Begin(c) PROVE ToolsInv'
    <2>1. /\ st[c] = "waiting" /\ st' = [st EXCEPT ![c] = "starting"]
          /\ phase' = phase /\ (phase = "raised" => Tools!Safe(c)) /\ Tools!InTurn(c)
      BY <1>1 DEF Tools!Begin, Tools!Step
    <2>2. \A d \in Tools!Call : Tools!Over(d) => Tools!Over(d)' /\ d # c
      BY <2>1 DEF Tools!Over, ToolsInv
    <2>3. \A i \in DOMAIN Requests : Requests[i] \in Tools!Call
      BY DEF Tools!Call
    <2>4. CASE Tools!Safe(c)
      <3>1. \A d \in Tools!Call : ~Tools!Safe(d) /\ st'[d] # "waiting" => st[d] # "waiting"
        BY <2>1, <2>4 DEF ToolsInv
      <3> QED BY <2>1, <2>2, <2>3, <3>1 DEF ToolsInv
    <2>5. CASE ~Tools!Safe(c)
      <3>1. /\ phase = "writing"
            /\ \A i, k \in DOMAIN Requests :
                  Requests[k] = c /\ i < k /\ ~Tools!Safe(Requests[i]) => Tools!Over(Requests[i])
        BY <2>1, <2>5 DEF Tools!InTurn
      <3>2. \A d \in Tools!Call : Tools!Safe(d) => Tools!Over(d)
        BY <3>1 DEF ToolsInv
      <3>3. \A d \in Tools!Call : d # c => st'[d] = st[d]
        BY <2>1 DEF ToolsInv
      <3>4. ASSUME NEW i \in DOMAIN Requests, NEW k \in DOMAIN Requests,
                   i < k, ~Tools!Safe(Requests[i]), ~Tools!Safe(Requests[k]),
                   st'[Requests[k]] # "waiting"
            PROVE  Tools!Over(Requests[i])'
        <4>1. Tools!Over(Requests[i])
          BY <2>3, <3>1, <3>3, <3>4 DEF ToolsInv
        <4> QED BY <2>2, <2>3, <4>1
      <3>5. st' \in [Tools!Call -> Where]
        BY <2>1 DEF ToolsInv
      <3> QED BY <2>1, <2>2, <3>2, <3>4, <3>5 DEF ToolsInv
    <2> QED BY <2>4, <2>5
  <1>2. ASSUME NEW c \in Tools!Call, Tools!Execute(c) PROVE ToolsInv'
    BY <1>2, CallMoves DEF Tools!Execute, Tools!Step
  <1>3. ASSUME NEW c \in Tools!Call, Tools!Answer(c) PROVE ToolsInv'
    BY <1>3, CallMoves DEF Tools!Answer, Tools!Step
  <1>4. ASSUME NEW c \in Tools!Call, Tools!Report(c) PROVE ToolsInv'
    BY <1>4, CallMoves DEF Tools!Report, Tools!Step
  <1>5. ASSUME NEW c \in Tools!Call, Tools!CallbackFails(c) PROVE ToolsInv'
    BY <1>5, CallMoves DEF Tools!CallbackFails, Tools!Step
  <1>6. ASSUME NEW c \in Tools!Call, Tools!Cancel(c) PROVE ToolsInv'
    BY <1>6, CallMoves DEF Tools!Cancel, Tools!Step
  <1>7. ASSUME Tools!ReadsDone \/ Tools!AbortDone \/ Tools!Return \/ UNCHANGED Tools!vars
        PROVE  ToolsInv'
    <2>1. /\ st' = st
          /\ phase' \in {"writing", "returned"} =>
                phase \in {"writing", "returned"} \/ \A c \in Tools!Call : Tools!Safe(c) => Tools!Over(c)
      BY <1>7 DEF Tools!ReadsDone, Tools!AbortDone, Tools!Return, Tools!ReadsOver, Tools!vars
    <2> QED BY <2>1 DEF ToolsInv, Tools!Over
  <1> QED BY <1>1, <1>2, <1>3, <1>4, <1>5, <1>6, <1>7 DEF Tools!Next

\* Whatever callbacks fail, reads are cancelled or calls share a slot
\* (services/tool_orchestrator.py), a call that may change something runs alone.
THEOREM WritersRunAlone == SidecarSpec => []WritersAlone
  <1>1. SidecarInit => ToolsInv
    BY DEF SidecarInit, Tools!Init, ToolsInv, Where, Tools!Call
  <1>2. ToolsInv /\ [SidecarNext]_sidecarVars => ToolsInv'
    BY ToolsStep, OneMoves
  <1> QED BY <1>1, <1>2, ToolsAlone, PTL DEF SidecarSpec

------------------------------------------------------------------------------
(* Sums over the runs of a request *)

Chosen == [s \in SUBSET Runner |-> CHOOSE x \in s : TRUE]
Adds(u) == [s \in SUBSET Runner |-> [n \in Nat |-> u[Chosen[s]] + n]]
Sums(u) == CHOOSE g : g = [s \in SUBSET Runner |->
                              IF s = {} THEN 0 ELSE LET x == CHOOSE x \in s : TRUE IN u[x] + g[s \ {x}]]

Total(u) == Sums(u)[Runner]

LEMMA SumsFold ==
  ASSUME NEW u \in [Runner -> Nat]
  PROVE  /\ Sums(u)[{}] = 0
         /\ \A s \in SUBSET Runner : s # {} =>
                Chosen[s] \in s /\ Sums(u)[s] = u[Chosen[s]] + Sums(u)[s \ {Chosen[s]}]
         /\ \A s \in SUBSET Runner : Sums(u)[s] \in Nat
  <1> USE SidecarAssumption DEF SidecarAssumption
  <1>1. \A s \in SUBSET Runner : s # {} => Chosen[s] \in s /\ Chosen[s] \in Runner
    BY DEF Chosen
  <1>2. \A s \in SUBSET Runner : s # {} => Adds(u)[s] \in [Nat -> Nat]
    BY <1>1 DEF Adds
  <1>3. PICK g : Folded(g, Runner, 0, Adds(u), Chosen)
    BY <1>1, <1>2, FoldExists
  <1> DEFINE Good == {s \in SUBSET Runner : g[s] \in Nat}
  <1>4. \A s \in SUBSET Runner : s # {} => g[s] = Adds(u)[s][g[s \ {Chosen[s]}]]
    BY <1>3 DEF Folded
  <1>5. g[{}] = 0
    BY <1>3 DEF Folded
  <1>6. SUBSET Runner \subseteq Good
    <2>1. {} \in Good
      BY <1>5
    <2>2. \A s \in SUBSET Runner : s # {} /\ s \ {Chosen[s]} \in Good => s \in Good
      <3> SUFFICES ASSUME NEW s \in SUBSET Runner, s # {}, g[s \ {Chosen[s]}] \in Nat
                   PROVE  g[s] \in Nat
        OBVIOUS
      <3> DEFINE a == Adds(u)[s]
      <3>1. a \in [Nat -> Nat] /\ g[s] = a[g[s \ {Chosen[s]}]]
        BY <1>2, <1>4
      <3> HIDE DEF a
      <3> QED BY <3>1
    <2> HIDE DEF Good
    <2>3. Inductive(Good, Runner, Chosen)
      BY <1>1, <2>1, <2>2 DEF Inductive
    <2> QED BY <2>3, FoldInduction
  <1>7. \A s \in SUBSET Runner : s # {} => g[s] = u[Chosen[s]] + g[s \ {Chosen[s]}]
    BY <1>1, <1>4, <1>6 DEF Adds
  <1> DEFINE Body(h) == [s \in SUBSET Runner |->
                            IF s = {} THEN 0 ELSE LET x == CHOOSE x \in s : TRUE IN u[x] + h[s \ {x}]]
  <1>8. g = Body(g)
    <2>1. g = [s \in SUBSET Runner |-> g[s]]
      BY <1>3 DEF Folded
    <2>2. \A s \in SUBSET Runner : g[s] = IF s = {} THEN 0 ELSE u[Chosen[s]] + g[s \ {Chosen[s]}]
      BY <1>5, <1>7
    <2> QED BY <2>1, <2>2 DEF Chosen
  <1>9. Sums(u) = Body(Sums(u))
    BY <1>8 DEF Sums
  <1> DEFINE f == Sums(u)
  <1>10. f = Body(f)
    BY <1>9
  <1> HIDE DEF f
  <1>11. f[{}] = 0 /\ \A s \in SUBSET Runner : s # {} => f[s] = u[Chosen[s]] + f[s \ {Chosen[s]}]
    BY <1>10 DEF Chosen
  <1> DEFINE Nats == {s \in SUBSET Runner : f[s] \in Nat}
  <1>12. SUBSET Runner \subseteq Nats
    <2>1. {} \in Nats
      BY <1>11
    <2>2. \A s \in SUBSET Runner : s # {} /\ s \ {Chosen[s]} \in Nats => s \in Nats
      <3> SUFFICES ASSUME NEW s \in SUBSET Runner, s # {}, f[s \ {Chosen[s]}] \in Nat
                   PROVE  f[s] \in Nat
        OBVIOUS
      <3>1. u[Chosen[s]] \in Nat /\ f[s] = u[Chosen[s]] + f[s \ {Chosen[s]}]
        BY <1>1, <1>11
      <3> QED BY <3>1
    <2> HIDE DEF Nats
    <2>3. Inductive(Nats, Runner, Chosen)
      BY <1>1, <2>1, <2>2 DEF Inductive
    <2> QED BY <2>3, FoldInduction
  <1> QED BY <1>1, <1>11, <1>12 DEF f

LEMMA TotalIsNat ==
  ASSUME NEW u \in [Runner -> Nat] PROVE Total(u) \in Nat
  BY SumsFold DEF Total

\* The sum grows with its terms, ...
LEMMA TotalGrows ==
  ASSUME NEW u \in [Runner -> Nat], NEW v \in [Runner -> Nat], \A r \in Runner : u[r] <= v[r]
  PROVE  Total(u) <= Total(v)
  <1> DEFINE f == Sums(u)
             g == Sums(v)
             Good == {s \in SUBSET Runner : f[s] <= g[s]}
  <1>1. /\ f[{}] = 0 /\ g[{}] = 0
        /\ \A s \in SUBSET Runner : s # {} =>
              /\ Chosen[s] \in s
              /\ f[s] = u[Chosen[s]] + f[s \ {Chosen[s]}]
              /\ g[s] = v[Chosen[s]] + g[s \ {Chosen[s]}]
        /\ \A s \in SUBSET Runner : f[s] \in Nat /\ g[s] \in Nat
    BY SumsFold
  <1> HIDE DEF f, g
  <1>2. {} \in Good
    BY <1>1
  <1>3. ASSUME NEW s \in SUBSET Runner, s # {}, s \ {Chosen[s]} \in Good PROVE s \in Good
    <2> DEFINE x == Chosen[s]
               t == s \ {x}
    <2>1. /\ x \in Runner /\ t \in SUBSET Runner
          /\ f[s] = u[x] + f[t] /\ g[s] = v[x] + g[t] /\ f[t] <= g[t]
      BY <1>1, <1>3
    <2> HIDE DEF x, t
    <2>2. u[x] \in Nat /\ v[x] \in Nat /\ u[x] <= v[x] /\ f[t] \in Nat /\ g[t] \in Nat
      BY <1>1, <2>1
    <2>3. f[s] <= g[s]
      BY <2>1, <2>2
    <2> QED BY <2>3
  <1> HIDE DEF Good
  <1>4. SUBSET Runner \subseteq Good
    <2>1. Inductive(Good, Runner, Chosen)
      BY <1>1, <1>2, <1>3 DEF Inductive
    <2> QED BY <2>1, FoldInduction, SidecarAssumption DEF SidecarAssumption
  <1> QED BY <1>4 DEF Total, Good, f, g

\* ... by as much as one of them.
LEMMA TotalAdds ==
  ASSUME NEW u \in [Runner -> Nat], NEW v \in [Runner -> Nat], NEW r \in Runner,
         \A q \in Runner \ {r} : v[q] = u[q]
  PROVE  Total(v) + u[r] = Total(u) + v[r]
  <1> DEFINE f == Sums(u)
             g == Sums(v)
             Good == {s \in SUBSET Runner : IF r \in s THEN g[s] + u[r] = f[s] + v[r] ELSE g[s] = f[s]}
  <1>1. /\ f[{}] = 0 /\ g[{}] = 0
        /\ \A s \in SUBSET Runner : s # {} =>
              /\ Chosen[s] \in s
              /\ f[s] = u[Chosen[s]] + f[s \ {Chosen[s]}]
              /\ g[s] = v[Chosen[s]] + g[s \ {Chosen[s]}]
        /\ \A s \in SUBSET Runner : f[s] \in Nat /\ g[s] \in Nat
    BY SumsFold
  <1> HIDE DEF f, g
  <1>2. {} \in Good
    BY <1>1
  <1>3. ASSUME NEW s \in SUBSET Runner, s # {}, s \ {Chosen[s]} \in Good PROVE s \in Good
    <2> DEFINE x == Chosen[s]
               t == s \ {x}
    <2>1. /\ x \in Runner /\ x \in s /\ t \in SUBSET Runner
          /\ f[s] = u[x] + f[t] /\ g[s] = v[x] + g[t]
          /\ IF r \in t THEN g[t] + u[r] = f[t] + v[r] ELSE g[t] = f[t]
      BY <1>1, <1>3
    <2>2. r \in t <=> r \in s /\ r # x
      OBVIOUS
    <2> HIDE DEF x, t
    <2>3. /\ u[x] \in Nat /\ v[x] \in Nat /\ u[r] \in Nat /\ v[r] \in Nat
          /\ f[t] \in Nat /\ g[t] \in Nat /\ (x # r => v[x] = u[x])
      BY <1>1, <2>1
    <2>4. IF r \in s THEN g[s] + u[r] = f[s] + v[r] ELSE g[s] = f[s]
      BY <2>1, <2>2, <2>3
    <2> QED BY <2>4
  <1> HIDE DEF Good
  <1>4. SUBSET Runner \subseteq Good
    <2>1. Inductive(Good, Runner, Chosen)
      BY <1>1, <1>2, <1>3 DEF Inductive
    <2> QED BY <2>1, FoldInduction, SidecarAssumption DEF SidecarAssumption
  <1> QED BY <1>4 DEF Total, Good, f, g

------------------------------------------------------------------------------
(* What agent runs cost.  A model usage is in the models' counters before it is in the
   day's, and in neither before it is in the accumulator of its request. *)

\* Of each request, the usages that the models' counters have at least, and at most,
\* and the runs that the agents' have.
Least == [r \in Runner |-> IF flush[r] = "cost" THEN at[r] + 1 ELSE at[r]]
Most == [r \in Runner |-> IF flush[r] = "over" THEN usage[r] ELSE Least[r]]
Counted == [r \in Runner |-> IF flush[r] = "over" THEN runs[r] ELSE 0]

CostTypeOK ==
    /\ usage \in [Runner -> Nat] /\ at \in [Runner -> Nat] /\ runs \in [Runner -> 0..1]
    /\ flush \in [Runner -> {"none", "model", "cost", "agent", "over"}]
    /\ models \in Nat /\ daily \in Nat /\ agents \in Nat
    /\ \A r \in Runner : at[r] <= usage[r] /\ (flush[r] = "cost" => at[r] < usage[r])

CostInv ==
    /\ CostTypeOK
    /\ daily <= Total(at) /\ Total(Least) <= models /\ models <= Total(Most)
    /\ agents <= Total(Counted)

LEMMA CostTypes ==
  ASSUME CostInv
  PROVE  /\ Least \in [Runner -> Nat] /\ Most \in [Runner -> Nat] /\ Counted \in [Runner -> Nat]
         /\ runs \in [Runner -> Nat]
         /\ \A r \in Runner : at[r] <= Least[r] /\ Most[r] <= usage[r] /\ Counted[r] <= runs[r]
  BY DEF CostInv, CostTypeOK, Least, Most, Counted

LEMMA CostBounds == CostInv => NeverOverbilled
  <1> SUFFICES ASSUME CostInv PROVE NeverOverbilled
    OBVIOUS
  <1>1. /\ Total(at) <= Total(Least) /\ Total(Most) <= Total(usage) /\ Total(Counted) <= Total(runs)
        /\ Total(at) \in Nat /\ Total(Least) \in Nat /\ Total(Most) \in Nat /\ Total(usage) \in Nat
        /\ Total(Counted) \in Nat /\ Total(runs) \in Nat
    BY CostTypes, TotalGrows, TotalIsNat DEF CostInv, CostTypeOK
  <1>2. daily <= models /\ models <= Total(usage) /\ agents <= Total(runs)
    BY <1>1 DEF CostInv, CostTypeOK
  <1> QED BY <1>2 DEF NeverOverbilled, Agent!NeverOverbilled, Agent!MapThenSumSet,
                 Agent!MapThenFoldSet, Total, Sums

\* A step of one request adds to the counters what it adds to that request's terms.
CostMove(r) ==
    /\ \A q \in Runner \ {r} : /\ at'[q] = at[q] /\ flush'[q] = flush[q]
                              /\ usage'[q] = usage[q] /\ runs'[q] = runs[q]
    /\ daily' - daily = at'[r] - at[r]
    /\ Least'[r] - Least[r] <= models' - models /\ models' - models <= Most'[r] - Most[r]
    /\ agents' - agents <= Counted'[r] - Counted[r]

LEMMA CostMoves ==
  ASSUME CostInv, CostTypeOK', NEW r \in Runner, CostMove(r)
  PROVE  CostInv'
  <1> USE DEF CostMove
  <1>1. /\ Least \in [Runner -> Nat] /\ Most \in [Runner -> Nat] /\ Counted \in [Runner -> Nat]
        /\ at \in [Runner -> Nat]
    BY CostTypes DEF CostInv, CostTypeOK
  <1>2. /\ Least' \in [Runner -> Nat] /\ Most' \in [Runner -> Nat] /\ Counted' \in [Runner -> Nat]
        /\ at' \in [Runner -> Nat]
    BY DEF CostTypeOK, Least, Most, Counted
  <1>3. \A q \in Runner \ {r} : /\ Least'[q] = Least[q] /\ Most'[q] = Most[q] /\ Counted'[q] = Counted[q]
    BY DEF Least, Most, Counted
  <1>4. /\ Total(at') + at[r] = Total(at) + at'[r]
        /\ Total(Least') + Least[r] = Total(Least) + Least'[r]
        /\ Total(Most') + Most[r] = Total(Most) + Most'[r]
        /\ Total(Counted') + Counted[r] = Total(Counted) + Counted'[r]
    <2>1. Total(at') + at[r] = Total(at) + at'[r]
      BY <1>1, <1>2, TotalAdds
    <2>2. Total(Least') + Least[r] = Total(Least) + Least'[r]
      BY <1>1, <1>2, <1>3, TotalAdds
    <2>3. Total(Most') + Most[r] = Total(Most) + Most'[r]
      BY <1>1, <1>2, <1>3, TotalAdds
    <2>4. Total(Counted') + Counted[r] = Total(Counted) + Counted'[r]
      BY <1>1, <1>2, <1>3, TotalAdds
    <2> QED BY <2>1, <2>2, <2>3, <2>4
  <1>5. /\ Total(at) \in Nat /\ Total(Least) \in Nat /\ Total(Most) \in Nat /\ Total(Counted) \in Nat
        /\ Total(at') \in Nat /\ Total(Least') \in Nat /\ Total(Most') \in Nat
        /\ Total(Counted') \in Nat
    BY <1>1, <1>2, TotalIsNat
  <1>6. /\ at[r] \in Nat /\ at'[r] \in Nat /\ Least[r] \in Nat /\ Least'[r] \in Nat
        /\ Most[r] \in Nat /\ Most'[r] \in Nat /\ Counted[r] \in Nat /\ Counted'[r] \in Nat
    BY <1>1, <1>2
  <1>7. daily' <= Total(at') /\ Total(Least') <= models' /\ models' <= Total(Most') /\ agents' <= Total(Counted')
    BY <1>4, <1>5, <1>6 DEF CostInv, CostTypeOK
  <1>8. /\ Total(at)' = Total(at') /\ Total(Least)' = Total(Least') /\ Total(Most)' = Total(Most')
        /\ Total(Counted)' = Total(Counted')
    BY DEF Total, Sums
  <1> QED BY <1>7, <1>8 DEF CostInv, CostTypeOK

LEMMA CostStep ==
  ASSUME CostInv, [Agent!Next]_(Agent!vars)
  PROVE  CostInv'
  <1> USE DEF Agent!Redis, Agent!Billing, Agent!run
  <1> DEFINE Rest == UNCHANGED <<usage, flush, at, models, daily, agents>>
  <1>1. ASSUME UNCHANGED <<usage, flush, at, models, daily, agents, runs>> PROVE CostInv'
    <2>1. CASE Runner = {}
      BY <1>1, <2>1 DEF CostInv, CostTypeOK, Total, Sums, Least, Most, Counted
    <2>2. ASSUME NEW r \in Runner PROVE CostInv'
      <3>1. CostTypeOK' /\ CostMove(r)
        BY <1>1, CostTypes DEF CostInv, CostTypeOK, CostMove, Least, Most, Counted
      <3> QED BY <3>1, CostMoves
    <2> QED BY <2>1, <2>2
  <1>2. ASSUME NEW r \in Runner,
               \/ Agent!Begin(r) \/ Agent!TooLong(r) \/ Agent!RunFails(r)
               \/ Agent!SafeFails(r) \/ Agent!ProviderFails(r)
        PROVE  CostInv'
    BY <1>1, <1>2 DEF Agent!Begin, Agent!TooLong, Agent!RunFails, Agent!SafeFails, Agent!ProviderFails
  <1>3. ASSUME NEW r \in Runner, Agent!Succeed(r) PROVE CostInv'
    <2>1. Rest /\ (UNCHANGED runs \/ runs' = [runs EXCEPT ![r] = 1])
      BY <1>3 DEF Agent!Succeed
    <2>2. CASE UNCHANGED runs
      BY <1>1, <2>1, <2>2
    <2>3. CASE runs' = [runs EXCEPT ![r] = 1]
      <3>1. CostTypeOK' /\ \A q \in Runner \ {r} : runs'[q] = runs[q]
        BY <2>1, <2>3 DEF CostInv, CostTypeOK
      <3>2. Least' = Least /\ Most' = Most /\ Counted'[r] - Counted[r] >= 0
        BY <2>1, <2>3 DEF CostInv, CostTypeOK, Least, Most, Counted
      <3>3. CostMove(r)
        BY <2>1, <3>1, <3>2, CostTypes DEF CostInv, CostTypeOK, CostMove
      <3> QED BY <3>1, <3>3, CostMoves
    <2> QED BY <2>1, <2>2, <2>3
  <1>4. ASSUME NEW r \in Runner, Agent!RecordModelUsage(r) PROVE CostInv'
    <2>1. usage' = [usage EXCEPT ![r] = @ + 1] /\ UNCHANGED <<flush, at, models, daily, agents, runs>>
      BY <1>4 DEF Agent!RecordModelUsage
    <2>2. CostTypeOK'
      BY <2>1 DEF CostInv, CostTypeOK
    <2>3. Least'[r] = Least[r] /\ Most'[r] - Most[r] >= 0 /\ Counted' = Counted
      BY <2>1 DEF CostInv, CostTypeOK, Least, Most, Counted
    <2>4. CostMove(r)
      BY <2>1, <2>3, CostTypes DEF CostInv, CostTypeOK, CostMove
    <2> QED BY <2>2, <2>4, CostMoves
  <1>5. ASSUME NEW r \in Runner, Agent!FlushStart(r) PROVE CostInv'
    <2>1. /\ flush[r] = "none" /\ flush' = [flush EXCEPT ![r] = "model"]
          /\ UNCHANGED <<usage, at, models, daily, agents, runs>>
      BY <1>5 DEF Agent!FlushStart
    <2>2. CostTypeOK'
      BY <2>1 DEF CostInv, CostTypeOK
    <2>3. Least'[r] = Least[r] /\ Most'[r] = Most[r] /\ Counted'[r] = Counted[r]
      BY <2>1 DEF CostInv, CostTypeOK, Least, Most, Counted
    <2>4. CostMove(r)
      BY <2>1, <2>3, CostTypes DEF CostInv, CostTypeOK, CostMove
    <2> QED BY <2>2, <2>4, CostMoves
  <1>6. ASSUME NEW r \in Runner, Agent!FlushModel(r) PROVE CostInv'
    <2>1. /\ flush[r] = "model" /\ at[r] < usage[r]
          /\ flush' = [flush EXCEPT ![r] = "cost"] /\ models' = models + 1
          /\ UNCHANGED <<usage, at, daily, agents, runs>>
      BY <1>6 DEF Agent!FlushModel
    <2>2. CostTypeOK'
      BY <2>1 DEF CostInv, CostTypeOK
    <2>3. Least'[r] = Least[r] + 1 /\ Most'[r] = Most[r] + 1 /\ Counted'[r] = Counted[r]
      BY <2>1 DEF CostInv, CostTypeOK, Least, Most, Counted
    <2>4. CostMove(r)
      BY <2>1, <2>3, CostTypes DEF CostInv, CostTypeOK, CostMove
    <2> QED BY <2>2, <2>4, CostMoves
  <1>7. ASSUME NEW r \in Runner, Agent!FlushCost(r) PROVE CostInv'
    <2>1. /\ flush[r] = "cost" /\ flush' = [flush EXCEPT ![r] = "model"]
          /\ at' = [at EXCEPT ![r] = @ + 1] /\ daily' = daily + 1
          /\ UNCHANGED <<usage, models, agents, runs>>
      BY <1>7 DEF Agent!FlushCost
    <2>2. CostTypeOK'
      BY <2>1 DEF CostInv, CostTypeOK
    <2>3. Least'[r] = Least[r] /\ Most'[r] = Most[r] /\ Counted'[r] = Counted[r] /\ at'[r] = at[r] + 1
      BY <2>1 DEF CostInv, CostTypeOK, Least, Most, Counted
    <2>4. CostMove(r)
      BY <2>1, <2>3, CostTypes DEF CostInv, CostTypeOK, CostMove
    <2> QED BY <2>2, <2>4, CostMoves
  <1>8. ASSUME NEW r \in Runner, Agent!FlushAgent(r) PROVE CostInv'
    <2>1. /\ flush[r] = "model" /\ flush' = [flush EXCEPT ![r] = "over"]
          /\ agents' = agents + runs[r]
          /\ UNCHANGED <<usage, at, models, daily, runs>>
      BY <1>8 DEF Agent!FlushAgent
    <2>2. CostTypeOK'
      BY <2>1 DEF CostInv, CostTypeOK
    <2>3. Least'[r] = Least[r] /\ Most'[r] - Most[r] >= 0 /\ Counted'[r] = Counted[r] + runs[r]
      BY <2>1 DEF CostInv, CostTypeOK, Least, Most, Counted
    <2>4. CostMove(r)
      BY <2>1, <2>3, CostTypes DEF CostInv, CostTypeOK, CostMove
    <2> QED BY <2>2, <2>4, CostMoves
  <1>9. ASSUME NEW r \in Runner, Agent!FlushFails(r) PROVE CostInv'
    <2>1. /\ flush[r] \in {"model", "cost"} /\ flush' = [flush EXCEPT ![r] = "over"]
          /\ UNCHANGED <<usage, at, models, daily, agents, runs>>
      BY <1>9 DEF Agent!FlushFails
    <2>2. CostTypeOK'
      BY <2>1 DEF CostInv, CostTypeOK
    <2>3. Least'[r] - Least[r] <= 0 /\ Most'[r] - Most[r] >= 0 /\ Counted'[r] - Counted[r] >= 0
      BY <2>1 DEF CostInv, CostTypeOK, Least, Most, Counted
    <2>4. CostMove(r)
      BY <2>1, <2>3, CostTypes DEF CostInv, CostTypeOK, CostMove
    <2> QED BY <2>2, <2>4, CostMoves
  <1>10. ASSUME UNCHANGED Agent!vars PROVE CostInv'
    BY <1>1, <1>10 DEF Agent!vars
  <1> QED BY <1>2, <1>3, <1>4, <1>5, <1>6, <1>7, <1>8, <1>9, <1>10 DEF Agent!Next

\* However agent runs overlap, and whatever of a flush fails (agents/runner.py,
\* middleware/cost_tracking.py), a tenant's day never shows more than its models, and
\* they never more than was used.
THEOREM BilledAtMost == SidecarSpec => []NeverOverbilled
  <1>1. SidecarInit => CostInv
    <2> SUFFICES ASSUME SidecarInit PROVE CostInv
      OBVIOUS
    <2>1. CostTypeOK /\ models = 0 /\ daily = 0 /\ agents = 0
      BY DEF SidecarInit, Agent!Init, CostTypeOK
    <2>2. Least = at /\ Most = at /\ Counted = at
      BY DEF SidecarInit, Agent!Init, Least, Most, Counted
    <2>3. at \in [Runner -> Nat] /\ \A r \in Runner : at[r] = 0
      BY DEF SidecarInit, Agent!Init
    <2>4. Total(at) = 0
      <3> DEFINE f == Sums(at)
                 Good == {s \in SUBSET Runner : f[s] = 0}
      <3>1. /\ f[{}] = 0
            /\ \A s \in SUBSET Runner : s # {} =>
                  Chosen[s] \in s /\ f[s] = at[Chosen[s]] + f[s \ {Chosen[s]}]
        BY <2>3, SumsFold
      <3> HIDE DEF f
      <3>2. {} \in Good
        BY <3>1
      <3>3. ASSUME NEW s \in SUBSET Runner, s # {}, s \ {Chosen[s]} \in Good PROVE s \in Good
        <4>1. Chosen[s] \in Runner /\ f[s] = at[Chosen[s]] + f[s \ {Chosen[s]}]
          BY <3>1, <3>3
        <4>2. f[s] = 0
          BY <2>3, <3>3, <4>1
        <4> QED BY <4>2
      <3> HIDE DEF Good
      <3>4. Inductive(Good, Runner, Chosen)
        BY <3>1, <3>2, <3>3 DEF Inductive
      <3>5. SUBSET Runner \subseteq Good
        BY <3>4, FoldInduction, SidecarAssumption DEF SidecarAssumption
      <3> QED BY <3>5 DEF Good, f, Total
    <2> QED BY <2>1, <2>2, <2>4 DEF CostInv, CostTypeOK
  <1>2. CostInv /\ [SidecarNext]_sidecarVars => CostInv'
    BY CostStep, OneMoves
  <1> QED BY <1>1, <1>2, CostBounds, PTL DEF SidecarSpec

------------------------------------------------------------------------------
(* Drafts of portfolios.  What a chain of revisions was asked for is in the intent, and
   a draft keeps to the intent: it begins with what that includes, and only what may be
   held is added, or may be in a relaxed draft. *)

LEMMA NamesFinite == ASSUME NEW S \in SUBSET Folio!Name PROVE IsFiniteSet(S)
  BY SidecarAssumption, FS_Union, FS_Subset DEF SidecarAssumption, Folio!Name, Folio!Listed

LEMMA FolioCardinality == \A S : Folio!Cardinality(S) = Cardinality(S)
  BY DEF Folio!Cardinality, Cardinality

LEMMA RankingsIn ==
  ASSUME NEW S, IsFiniteSet(S), NEW s \in Folio!SetToSeqs(S)
  PROVE  Cardinality(S) \in Nat /\ s \in [1..Cardinality(S) -> S] /\ s \in Seq(S)
  <1>1. Cardinality(S) \in Nat /\ Folio!Cardinality(S) = Cardinality(S)
    BY FS_CardinalityType, FolioCardinality
  <1>2. s \in [1..Folio!Cardinality(S) -> S]
    BY DEF Folio!SetToSeqs
  <1> HIDE DEF Folio!Cardinality
  <1> QED BY <1>1, <1>2

LEMMA UptoIn ==
  ASSUME NEW S, NEW s \in Seq(S), NEW n \in Nat
  PROVE  Folio!Range(Folio!Upto(s, n)) \subseteq S
  BY DEF Folio!Range, Folio!Upto

LEMMA MaxIn ==
  ASSUME NEW n \in Nat, NEW s \in SUBSET (1..n), s # {}
  PROVE  Folio!Max(s) \in s
  <1>1. \E x \in s : \A y \in s : x >= y
    BY GreatestOf
  <1> QED BY <1>1 DEF Folio!Max

Filled(base, q) ==
    CHOOSE g : g = [s \in SUBSET DOMAIN q |->
                       IF s = {} THEN base
                       ELSE LET x == Folio!Max(s) IN Folio!Fill(g[s \ {x}], q[x])]

\* However long the list is that fills it up, a selection keeps what it began with, and
\* has nothing but that and what is in the list.
LEMMA FillBounds ==
  ASSUME NEW base, NEW S, NEW n \in Nat, NEW q \in [1..n -> S]
  PROVE  /\ base \subseteq Folio!FoldLeft(Folio!Fill, base, q)
         /\ Folio!FoldLeft(Folio!Fill, base, q) \subseteq base \cup S
  <1> DEFINE D == 1..n
             V == {T \in SUBSET (base \cup S) : base \subseteq T}
             pick == [s \in SUBSET D |-> Folio!Max(s)]
             step == [s \in SUBSET D |-> [T \in V |-> Folio!Fill(T, q[pick[s]])]]
  <1>1. Folio!FoldLeft(Folio!Fill, base, q) = Filled(base, q)[D]
    BY DEF Folio!FoldLeft, Folio!MapThenFoldSet, Filled
  <1>2. IsFiniteSet(D) /\ base \in V
    BY FS_Interval
  <1>3. ASSUME NEW s \in SUBSET D, s # {} PROVE pick[s] \in s /\ pick[s] = Folio!Max(s) /\ pick[s] \in D
    BY <1>3, MaxIn
  <1>4. \A T \in V, x \in D : Folio!Fill(T, q[x]) \in V
    BY DEF Folio!Fill
  <1>5. ASSUME NEW s \in SUBSET D, s # {} PROVE step[s] \in [V -> V]
    BY <1>3, <1>4, <1>5
  <1> HIDE DEF V, pick
  <1>6. PICK g : Folded(g, D, base, step, pick)
    <2> HIDE DEF D, step
    <2> QED BY <1>2, <1>3, <1>5, FoldExists
  <1>7. /\ g[{}] = base
        /\ \A s \in SUBSET D : s # {} => g[s] = step[s][g[s \ {pick[s]}]]
    BY <1>6 DEF Folded
  <1> DEFINE Good == {s \in SUBSET D : g[s] \in V}
  <1>8. SUBSET D \subseteq Good
    <2>1. {} \in Good
      BY <1>2, <1>7
    <2>2. ASSUME NEW s \in SUBSET D, s # {}, s \ {pick[s]} \in Good PROVE s \in Good
      <3> DEFINE a == step[s]
      <3>1. a \in [V -> V] /\ g[s] = a[g[s \ {pick[s]}]]
        BY <1>5, <1>7, <2>2
      <3> HIDE DEF a
      <3>2. g[s] \in V
        BY <2>2, <3>1
      <3> QED BY <3>2
    <2> HIDE DEF Good, D
    <2>3. Inductive(Good, D, pick)
      BY <1>3, <2>1, <2>2 DEF Inductive
    <2> QED BY <1>2, <2>3, FoldInduction
  <1>9. \A s \in SUBSET D : s # {} => g[s] = Folio!Fill(g[s \ {Folio!Max(s)}], q[Folio!Max(s)])
    BY <1>3, <1>7, <1>8
  <1> DEFINE Body(h) == [s \in SUBSET D |->
                            IF s = {} THEN base
                            ELSE LET x == Folio!Max(s) IN Folio!Fill(h[s \ {x}], q[x])]
             f == Filled(base, q)
  <1>10. g = Body(g)
    <2>1. g = [s \in SUBSET D |-> g[s]]
      BY <1>6 DEF Folded
    <2> QED BY <1>7, <1>9, <2>1
  <1>11. f = Body(f)
    BY <1>10 DEF Filled
  <1> HIDE DEF f
  <1>12. f[{}] = base /\ \A s \in SUBSET D : s # {} => f[s] = Folio!Fill(f[s \ {pick[s]}], q[pick[s]])
    BY <1>11, <1>3
  <1> DEFINE Bounded == {s \in SUBSET D : f[s] \in V}
  <1>13. SUBSET D \subseteq Bounded
    <2>1. {} \in Bounded
      BY <1>2, <1>12
    <2>2. ASSUME NEW s \in SUBSET D, s # {}, s \ {pick[s]} \in Bounded PROVE s \in Bounded
      <3>1. f[s \ {pick[s]}] \in V /\ pick[s] \in D
        BY <1>3, <2>2
      <3>2. f[s] \in V
        BY <1>4, <1>12, <2>2, <3>1
      <3> QED BY <3>2
    <2> HIDE DEF Bounded, D
    <2>3. Inductive(Bounded, D, pick)
      BY <1>3, <2>1, <2>2 DEF Inductive
    <2> QED BY <1>2, <2>3, FoldInduction
  <1>14. f[D] \in V
    BY <1>13
  <1> QED BY <1>1, <1>14 DEF f, V


LEMMA FirstsIn ==
  ASSUME NEW S \in SUBSET Folio!Name, NEW s \in Folio!SetToSeqs(S), NEW n \in Nat
  PROVE  Folio!Range(Folio!Upto(s, n)) \subseteq S
  BY NamesFinite, RankingsIn, UptoIn

LEMMA PoolNames ==
  ASSUME NEW i \in Folio!Tickers, NEW P \in Folio!BuildRecallPool(i)
  PROVE  P \subseteq Folio!Name
  <1> USE SidecarAssumption DEF SidecarAssumption
  <1> DEFINE M == {t \in Folio!Listed \ i.excluded : Market[t].match > 0}
  <1>1. PICK all \in Folio!Pools(i) : P \in Folio!Capped(i, all)
    BY DEF Folio!BuildRecallPool
  <1>2. P = all \/ \E s \in Folio!SetToSeqs(all) : P = Folio!Range(Folio!Upto(s, Cap))
    BY <1>1 DEF Folio!Capped, Folio!Firsts, Folio!Rankings
  <1>3. ASSUME NEW S \in SUBSET Folio!Name, NEW n \in Nat,
               NEW T, \E s \in Folio!SetToSeqs(S) : T = Folio!Range(Folio!Upto(s, n))
        PROVE  T \subseteq Folio!Name
    BY <1>3, FirstsIn
  <1>4. Folio!Listed \subseteq Folio!Name /\ M \subseteq Folio!Name /\ Folio!Wanted(i) \subseteq Folio!Name
    BY DEF Folio!Name, Folio!Tickers, Folio!Wanted
  <1>5. \A top \in Folio!ByFactors : top \subseteq Folio!Name
    BY <1>3, <1>4 DEF Folio!ByFactors, Folio!Firsts, Folio!Rankings
  <1>6. \A matching \in Folio!ByMatches(i) : matching \subseteq Folio!Name
    <2>1. \A matching \in Folio!ByMatches(i) :
              \E s \in Folio!SetToSeqs(M) : matching = Folio!Range(Folio!Upto(s, TopMatch))
      BY DEF Folio!ByMatches, Folio!Firsts, Folio!Rankings
    <2> HIDE DEF M
    <2> QED BY <1>3, <1>4, <2>1
  <1>7. all \subseteq Folio!Name
    <2>1. PICK top \in Folio!ByFactors, matching \in Folio!ByMatches(i) :
              all = ({t \in top : Market[t].match >= 0} \ i.excluded) \cup matching \cup Folio!Wanted(i)
      BY <1>1 DEF Folio!Pools
    <2> QED BY <1>4, <1>5, <1>6, <2>1
  <1> QED BY <1>2, <1>3, <1>7

\* A draft keeps to the intent: what the selection fills up has passed the gate, and
\* what is relaxed is either that, or has the excluded tickers taken out.
LEMMA Drafted ==
  ASSUME NEW i \in Folio!Tickers, NEW scored, DOMAIN scored \subseteq Folio!Name,
         NEW selected \in Folio!SelectCandidates(i, scored),
         NEW drafted \in IF selected = {} THEN Folio!AutoRelax(i, scored) ELSE {selected}
  PROVE  drafted \cap i.excluded = {} /\ i.included \ i.excluded \subseteq drafted
  <1> DEFINE wanted == Folio!Wanted(i)
             E == Folio!Eligible(i, scored)
  <1>1. E \subseteq Folio!Name /\ E \cap i.excluded = {}
    BY DEF Folio!Eligible, Folio!Name
  <1>2. PICK s \in Folio!SetToSeqs(E) : selected = Folio!FoldLeft(Folio!Fill, wanted, s)
    BY DEF Folio!SelectCandidates, Folio!Rankings, Folio!Wanted
  <1>0. wanted = i.included \ i.excluded
    BY DEF Folio!Wanted
  <1> HIDE DEF wanted
  <1>3. wanted \subseteq selected /\ selected \subseteq wanted \cup E
    <2> HIDE DEF E
    <2>1. Cardinality(E) \in Nat /\ s \in [1..Cardinality(E) -> E]
      BY <1>1, NamesFinite, RankingsIn
    <2> QED BY <1>2, <2>1, FillBounds
  <1>4. CASE selected # {}
    BY <1>0, <1>1, <1>3, <1>4
  <1>5. CASE selected = {}
    <2>1. drafted \cap i.excluded = {}
      <3>1. CASE E # {}
        <4>1. PICK t \in Folio!SetToSeqs(E) : drafted = Folio!Range(Folio!Upto(t, 20))
          BY <1>5, <3>1 DEF Folio!AutoRelax, Folio!Firsts, Folio!Rankings
        <4> HIDE DEF E
        <4>2. drafted \subseteq E
          BY <1>1, <4>1, FirstsIn
        <4> QED BY <1>1, <4>2
      <3>2. CASE E = {}
        BY <1>5, <3>2 DEF Folio!AutoRelax
      <3> QED BY <3>1, <3>2
    <2> QED BY <1>0, <1>3, <1>5, <2>1
  <1> QED BY <1>4, <1>5

\* b has what a asks for.
Covers(a, b) == a.excluded \subseteq b.excluded /\ a.included \subseteq b.included

WishInv ==
    /\ {asked, wish, fulfilled, intent} \subseteq Folio!Tickers
    /\ result \in Folio!Tickers \cup {Folio!NoResult}
    /\ pool \subseteq Folio!Name /\ DOMAIN themes \subseteq Folio!Name
    /\ stage \in {"idle", "prior", "intent", "pool", "themes", "draft", "critic", "complete"}
    /\ result # Folio!NoResult => Covers(fulfilled, result)
    /\ stage \in {"prior", "intent"} => Covers(wish, asked)
    /\ stage \in {"pool", "themes", "draft", "critic", "complete"} => Covers(wish, intent)
    /\ held # {} =>
          /\ stage \in {"draft", "critic", "complete"}
          /\ held \cap intent.excluded = {}
          /\ intent.included \ intent.excluded \subseteq held

LEMMA SumCovers ==
  ASSUME NEW a \in Folio!Tickers, NEW b \in Folio!Tickers
  PROVE  /\ Folio!Sum(a, b) \in Folio!Tickers
         /\ Covers(a, Folio!Sum(a, b)) /\ Covers(b, Folio!Sum(a, b))
         /\ \A c \in Folio!Tickers : /\ Covers(c, a) => Covers(c, Folio!Sum(a, b))
                                     /\ Covers(c, a) => Covers(Folio!Sum(c, b), Folio!Sum(a, b))
  BY DEF Folio!Tickers, Folio!Sum, Covers

LEMMA Sentinels == Folio!None \in Folio!Tickers
  BY DEF Folio!None, Folio!Tickers

LEMMA WishStep ==
  ASSUME WishInv, [Folio!Next]_(Folio!vars)
  PROVE  WishInv'
  <1> USE DEF WishInv
  <1>0. /\ asked \in Folio!Tickers /\ wish \in Folio!Tickers
        /\ fulfilled \in Folio!Tickers /\ intent \in Folio!Tickers
    OBVIOUS
  <1>1. ASSUME Folio!Begin PROVE WishInv'
    <2>1. PICK order \in Named : asked' = order /\ wish' = order
      BY <1>1 DEF Folio!Begin
    <2>2. /\ stage = "idle" /\ stage' \in {"prior", "intent"}
          /\ UNCHANGED <<fulfilled, intent, pool, themes, held, relaxed, round, result>>
      BY <1>1 DEF Folio!Begin
    <2>3. asked' \in Folio!Tickers /\ wish' \in Folio!Tickers /\ Covers(wish, asked)'
      BY <2>1, NamedAssumption DEF Covers
    <2> QED BY <2>2, <2>3 DEF Covers, Folio!Tickers, Folio!Name, Folio!Listed, Folio!NoResult
  <1>2. ASSUME Folio!RevisePrior PROVE WishInv'
    <2>1. /\ stage = "prior" /\ stage' = "pool" /\ result # Folio!NoResult
          /\ intent' = Folio!Sum(result, asked) /\ asked' = Folio!None
          /\ wish' = Folio!Sum(fulfilled, wish)
          /\ UNCHANGED <<fulfilled, pool, themes, held, result>>
      BY <1>2 DEF Folio!RevisePrior
    <2>2. result \in Folio!Tickers /\ Covers(fulfilled, result) /\ Covers(wish, asked)
      BY <2>1
    <2>3. intent' \in Folio!Tickers /\ asked' \in Folio!Tickers /\ wish' \in Folio!Tickers
      BY <1>0, <2>1, <2>2, SumCovers, Sentinels
    <2>4. Covers(wish, intent)'
      BY <2>1, <2>2 DEF Covers, Folio!Sum
    <2> QED BY <2>1, <2>2, <2>3, <2>4 DEF Covers, Folio!Tickers, Folio!Name, Folio!Listed, Folio!NoResult
  <1>3. ASSUME Folio!PriorMissing PROVE WishInv'
    BY <1>3 DEF Folio!PriorMissing, Covers, Folio!Tickers, Folio!Name, Folio!Listed, Folio!NoResult
  <1>4. ASSUME Folio!ParseIntent PROVE WishInv'
    <2>1. PICK says \in Folio!Tickers : intent' = Folio!Sum(asked, says)
      BY <1>4, NamedAssumption DEF Folio!ParseIntent
    <2>2. /\ stage = "intent" /\ stage' = "pool" /\ asked' = Folio!None
          /\ UNCHANGED <<wish, fulfilled, pool, themes, held, result>>
      BY <1>4 DEF Folio!ParseIntent
    <2>3. intent' \in Folio!Tickers /\ asked' \in Folio!Tickers
      BY <1>0, <2>1, <2>2, SumCovers, Sentinels
    <2>4. Covers(wish, intent)'
      BY <1>0, <2>1, <2>2, SumCovers DEF Covers
    <2> QED BY <2>2, <2>3, <2>4 DEF Folio!Tickers, Folio!Name, Folio!Listed, Folio!NoResult
  <1>5. ASSUME Folio!BuildPool PROVE WishInv'
    <2>1. pool' \subseteq Folio!Name
      BY <1>0, <1>5, PoolNames DEF Folio!BuildPool
    <2> QED BY <1>5, <2>1 DEF Folio!BuildPool, Covers, Folio!Tickers, Folio!Name, Folio!Listed, Folio!NoResult
  <1>6. ASSUME Folio!ScoreThemes PROVE WishInv'
    <2>1. DOMAIN themes' \subseteq Folio!Name
      BY <1>6 DEF Folio!ScoreThemes
    <2> QED BY <1>6, <2>1 DEF Folio!ScoreThemes, Covers, Folio!Tickers, Folio!Name, Folio!Listed, Folio!NoResult
  <1>7. ASSUME Folio!Draft PROVE WishInv'
    <2>1. held' \cap intent.excluded = {} /\ intent.included \ intent.excluded \subseteq held'
      BY <1>0, <1>7, Drafted DEF Folio!Draft
    <2> QED BY <1>7, <2>1 DEF Folio!Draft, Covers, Folio!Tickers, Folio!Name, Folio!Listed, Folio!NoResult
  <1>8. ASSUME Folio!Verdict PROVE WishInv'
    BY <1>8 DEF Folio!Verdict, Covers, Folio!Tickers, Folio!Name, Folio!Listed, Folio!NoResult
  <1>9. ASSUME Folio!StoreResult PROVE WishInv'
    BY <1>9, Sentinels DEF Folio!StoreResult, Folio!Clear, Covers, Folio!Tickers, Folio!Name, Folio!Listed, Folio!NoResult
  <1>10. ASSUME Folio!JobFails PROVE WishInv'
    BY <1>10, Sentinels DEF Folio!JobFails, Folio!Clear, Covers, Folio!Tickers, Folio!Name, Folio!Listed, Folio!NoResult
  <1>12. ASSUME Folio!ResultExpires PROVE WishInv'
    BY <1>12 DEF Folio!ResultExpires, Covers, Folio!Tickers, Folio!Name, Folio!Listed, Folio!NoResult
  <1>11. ASSUME UNCHANGED Folio!vars PROVE WishInv'
    BY <1>11 DEF Folio!vars, Covers, Folio!Tickers, Folio!Name, Folio!Listed, Folio!Sum, Folio!NoResult
  <1> QED BY <1>1, <1>2, <1>3, <1>4, <1>5, <1>6, <1>7, <1>8, <1>9, <1>10, <1>11, <1>12 DEF Folio!Next

\* Whatever the models answer, relaxation lets through or a revision merges
\* (portfolio_construction/), no draft holds a ticker that a request of its chain excluded,
\* and each holds those that one included, unless the intent excludes them.
THEOREM WishesKept == SidecarSpec => []WishesHonoured
  <1>1. SidecarInit => WishInv
    BY Sentinels DEF SidecarInit, Folio!Init, WishInv, Covers, Folio!NoResult
  <1>2. WishInv /\ [SidecarNext]_sidecarVars => WishInv'
    BY WishStep, OneMoves
  <1>3. WishInv => WishesHonoured
    BY DEF WishInv, Covers, WishesHonoured, Folio!WishesHonoured
  <1> QED BY <1>1, <1>2, <1>3, PTL DEF SidecarSpec

------------------------------------------------------------------------------
(* Conversations.  Compaction and the cap leave the system prompt in front and the
   newest messages at the end, and the summary lists what identifiers the older ones
   mentioned. *)

LEMMA ChatBounds ==
  /\ MaxResult \in Nat /\ Recent \in Nat /\ MaxMessages \in Nat
  /\ MaxTurns \in Nat /\ MaxItems \in Nat /\ Recent <= MaxMessages - 1 /\ MaxMessages - 1 \in Nat
  /\ IsFiniteSet(Item)
  BY SidecarAssumption DEF SidecarAssumption

USE ChatBounds

Note == [parts : SUBSET Chat!Kind, turns : SUBSET Request, size : Nat,
         client : Client \cup {"none"}, items : SUBSET Item, beyond : SUBSET Item]

Headed(ms) == ms # <<>> => ms[1].parts = {"system", "user"}

\* The end of ms is that of whole, but for long tool results that are cut off.
Ends(ms, whole) ==
    \A n \in 1..Recent :
        n <= Len(whole) =>
            /\ n <= Len(ms)
            /\ Chat!Cut(whole[Len(whole) - n + 1]) = Chat!Cut(ms[Len(ms) - n + 1])

\* The newest messages have no long tool result.
EndsShort(ms) ==
    \A n \in 1..Recent : n <= Len(ms) => Chat!Cut(ms[Len(ms) - n + 1]) = ms[Len(ms) - n + 1]

Mentioned(ms) == UNION {ms[i].items : i \in DOMAIN ms}

ChatInv ==
    /\ key.messages \in Seq(Note) /\ Headed(key.messages) /\ EndsShort(key.messages)
    /\ history \in [Request -> Seq(Note)]
    /\ \A r \in Request : Headed(history[r])
    /\ log \in Seq(Note)
    /\ serial => Ends(key.messages, log)
    /\ serial /\ lost \cap {"cap", "mute"} = {} =>
        /\ Cardinality(Account) <= MaxItems =>
               Mentioned(log) \cap Account \subseteq Mentioned(key.messages)
        /\ "full" \notin lost =>
               Mentioned(log) \cap (Item \ Context) \subseteq Mentioned(key.messages)

LEMMA ChatCardinality == \A S : Chat!Cardinality(S) = Cardinality(S)
  BY DEF Chat!Cardinality, Cardinality

LEMMA EndsTransitive ==
  ASSUME NEW a \in Seq(Note), NEW b \in Seq(Note), NEW c \in Seq(Note), Ends(b, a), Ends(c, b)
  PROVE  Ends(c, a)
  BY DEF Ends

LEMMA NewestIs ==
  ASSUME NEW ms \in Seq(Note), NEW n \in Nat
  PROVE  LET s == Chat!Newest(ms, n) IN
         /\ s \in Seq(Note)
         /\ Len(s) = IF Len(ms) > n THEN n ELSE Len(ms)
         /\ \A k \in 1..Len(s) : s[Len(s) - k + 1] = ms[Len(ms) - k + 1]
  <1> DEFINE m == (IF Len(ms) > n THEN Len(ms) - n ELSE 0) + 1
             s == SubSeq(ms, m, Len(ms))
  <1>1. /\ Len(ms) \in Nat /\ m \in Int /\ m >= 1
        /\ Len(ms) - m + 1 = IF Len(ms) > n THEN n ELSE Len(ms)
    OBVIOUS
  <1>2. \A i \in m..Len(ms) : ms[i] \in Note
    BY <1>1
  <1>3. Chat!Newest(ms, n) = s
    BY DEF Chat!Newest
  <1> HIDE DEF m
  <1>4. /\ s \in Seq(Note) /\ Len(s) = IF m <= Len(ms) THEN Len(ms) - m + 1 ELSE 0
        /\ \A i \in 1..Len(ms) - m + 1 : s[i] = ms[m + i - 1]
    BY <1>1, <1>2, SubSeqProperties
  <1> HIDE DEF s
  <1>5. Len(s) = IF Len(ms) > n THEN n ELSE Len(ms)
    BY <1>1, <1>4
  <1>6. ASSUME NEW k \in 1..Len(s) PROVE s[Len(s) - k + 1] = ms[Len(ms) - k + 1]
    <2>1. Len(s) = Len(ms) - m + 1 /\ Len(s) - k + 1 \in 1..Len(ms) - m + 1
      BY <1>1, <1>4, <1>5
    <2>2. m + (Len(s) - k + 1) - 1 = Len(ms) - k + 1
      BY <1>1, <2>1
    <2> QED BY <1>4, <2>1, <2>2
  <1> QED BY <1>3, <1>4, <1>5, <1>6

LEMMA CutIs ==
  ASSUME NEW m \in Note
  PROVE  LET c == Chat!Cut(m) IN
         /\ c \in Note /\ c.parts = m.parts /\ c.turns = m.turns /\ c.items = m.items
         /\ Chat!Cut(c) = c
  <1> DEFINE long == [m EXCEPT !.size = MaxResult + 1, !.client = "none", !.beyond = {}]
             c == Chat!Cut(m)
  <1>1. long = [parts |-> m.parts, turns |-> m.turns, size |-> MaxResult + 1,
                client |-> "none", items |-> m.items, beyond |-> {}]
    <2> DEFINE m1 == [m EXCEPT !.size = MaxResult + 1]
               m2 == [m1 EXCEPT !.client = "none"]
    <2>1. m1 = [parts |-> m.parts, turns |-> m.turns, size |-> MaxResult + 1,
                client |-> m.client, items |-> m.items, beyond |-> m.beyond]
      BY DEF Note
    <2>2. long = [m2 EXCEPT !.beyond = {}]
      OBVIOUS
    <2> HIDE DEF m1
    <2>3. m2 = [parts |-> m.parts, turns |-> m.turns, size |-> MaxResult + 1,
                client |-> "none", items |-> m.items, beyond |-> m.beyond]
      BY <2>1
    <2> HIDE DEF m2, long
    <2> QED BY <2>2, <2>3
  <1>2. MaxResult + 1 \in Nat
    OBVIOUS
  <1>3. c = IF "return" \in m.parts /\ m.size > MaxResult THEN long ELSE m
    BY DEF Chat!Cut
  <1> HIDE DEF long
  <1>4. /\ long \in Note /\ long.parts = m.parts /\ long.turns = m.turns /\ long.items = m.items
    BY <1>1, <1>2 DEF Note
  <1>5. Chat!Cut(long) = long
    <2> DEFINE again == [long EXCEPT !.size = MaxResult + 1, !.client = "none", !.beyond = {}]
               a1 == [long EXCEPT !.size = MaxResult + 1]
               a2 == [a1 EXCEPT !.client = "none"]
    <2>1. a1 = long
      BY <1>1
    <2>2. a2 = long
      BY <1>1, <2>1
    <2>3. again = [a2 EXCEPT !.beyond = {}]
      OBVIOUS
    <2>5. Chat!Cut(long) = IF "return" \in long.parts /\ long.size > MaxResult THEN again ELSE long
      BY DEF Chat!Cut
    <2> HIDE DEF a1, a2, again
    <2>7. long.beyond = {} /\ long \in Note
      BY <1>1, <1>4
    <2>6. [long EXCEPT !.beyond = {}] = long
      BY <2>7 DEF Note
    <2>4. again = long
      BY <2>2, <2>3, <2>6
    <2> QED BY <2>4, <2>5
  <1> HIDE DEF c
  <1>6. CASE "return" \in m.parts /\ m.size > MaxResult
    BY <1>3, <1>4, <1>5, <1>6 DEF c
  <1>7. CASE ~("return" \in m.parts /\ m.size > MaxResult)
    <2>1. c = m
      BY <1>3, <1>7
    <2>2. Chat!Cut(m) = m
      BY <1>7 DEF Chat!Cut
    <2> QED BY <2>1, <2>2 DEF c
  <1> QED BY <1>6, <1>7

LEMMA MicroKeeps ==
  ASSUME NEW ms \in Seq(Note)
  PROVE  LET s == Chat!Microcompact(ms) IN
         /\ s \in Seq(Note) /\ Len(s) = Len(ms)
         /\ \A i \in 1..Len(ms) : /\ s[i].parts = ms[i].parts
                                  /\ s[i].items = ms[i].items
                                  /\ s[i] = Chat!Cut(ms[i]) /\ Chat!Cut(s[i]) = s[i]
  <1> DEFINE s == [i \in 1..Len(ms) |-> Chat!Cut(ms[i])]
  <1>1. Chat!Microcompact(ms) = s
    BY LenProperties DEF Chat!Microcompact
  <1>2. \A i \in 1..Len(ms) : /\ s[i] \in Note
                              /\ s[i].parts = ms[i].parts
                              /\ s[i].items = ms[i].items
                              /\ s[i] = Chat!Cut(ms[i]) /\ Chat!Cut(s[i]) = s[i]
    BY CutIs, ElementOfSeq
  <1>3. s = [i \in 1..Len(ms) |-> s[i]]
    OBVIOUS
  <1> HIDE DEF s
  <1>4. s \in [1..Len(ms) -> Note] /\ Len(ms) \in Nat
    BY <1>2, <1>3
  <1>5. s \in Seq(Note) /\ Len(s) = Len(ms)
    BY <1>4
  <1> QED BY <1>1, <1>2, <1>5

LEMMA LeadAndRest ==
  ASSUME NEW ms \in Seq(Note)
  PROVE  LET lead == Chat!Lead(ms)
             rest == Chat!Rest(ms) IN
         /\ lead \in Seq(Note) /\ rest \in Seq(Note)
         /\ Len(lead) \in 0..1 /\ Len(ms) = Len(lead) + Len(rest)
         /\ ms # <<>> /\ Headed(ms) => lead = <<ms[1]>>
         /\ Len(lead) = 1 => lead[1] = ms[1]
         /\ \A i \in 1..Len(rest) : rest[i] = ms[Len(lead) + i]
  <1> DEFINE lead == Chat!Lead(ms)
  <1>1. ms # <<>> => Len(ms) >= 1 /\ ms[1] \in Note
    OBVIOUS
  <1>2. CASE ms # <<>> /\ "system" \in ms[1].parts
    <2>1. lead = <<ms[1]>> /\ Len(lead) = 1 /\ lead[1] = ms[1] /\ lead \in Seq(Note)
      BY <1>1, <1>2 DEF Chat!Lead, Chat!IsSystem
    <2>2. Chat!Rest(ms) = SubSeq(ms, 2, Len(ms))
      BY <2>1 DEF Chat!Rest
    <2>3. /\ SubSeq(ms, 2, Len(ms)) \in Seq(Note) /\ Len(SubSeq(ms, 2, Len(ms))) = Len(ms) - 1
          /\ \A i \in 1..Len(ms) - 1 : SubSeq(ms, 2, Len(ms))[i] = ms[i + 1]
      <3>1. Len(ms) \in Nat /\ \A i \in 2..Len(ms) : ms[i] \in Note
        OBVIOUS
      <3>2. /\ SubSeq(ms, 2, Len(ms)) \in Seq(Note)
            /\ Len(SubSeq(ms, 2, Len(ms))) = IF 2 <= Len(ms) THEN Len(ms) - 2 + 1 ELSE 0
            /\ \A i \in 1..Len(ms) - 2 + 1 : SubSeq(ms, 2, Len(ms))[i] = ms[2 + i - 1]
        BY <3>1, SubSeqProperties
      <3> HIDE DEF lead
      <3>3. \A i \in 1..Len(ms) - 1 : 2 + i - 1 = i + 1 /\ i \in 1..Len(ms) - 2 + 1
        BY <3>1
      <3>4. Len(SubSeq(ms, 2, Len(ms))) = Len(ms) - 1
        <4> DEFINE l == Len(SubSeq(ms, 2, Len(ms)))
        <4>1. l = IF 2 <= Len(ms) THEN Len(ms) - 2 + 1 ELSE 0
          BY <3>2
        <4> HIDE DEF l
        <4>2. Len(ms) \in Nat /\ Len(ms) >= 1
          BY <1>1, <1>2, <3>1
        <4> DEFINE n == Len(ms)
        <4> HIDE DEF n
        <4>3. n \in Nat /\ n >= 1 /\ l = IF 2 <= n THEN n - 2 + 1 ELSE 0
          BY <4>1, <4>2 DEF n
        <4>4. l = n - 1
          BY <4>3
        <4> QED BY <4>4 DEF l, n
      <3>5. \A i \in 1..Len(ms) - 1 : SubSeq(ms, 2, Len(ms))[i] = ms[i + 1]
        BY <3>2, <3>3
      <3> QED BY <3>2, <3>4, <3>5
    <2> QED BY <1>1, <1>2, <2>1, <2>2, <2>3
  <1>3. CASE ~(ms # <<>> /\ "system" \in ms[1].parts)
    <2>1. lead = <<>> /\ Len(lead) = 0 /\ lead \in Seq(Note)
      BY <1>3 DEF Chat!Lead, Chat!IsSystem
    <2>2. Chat!Rest(ms) = ms
      BY <2>1, SubSeqFull DEF Chat!Rest
    <2> QED BY <1>3, <2>1, <2>2 DEF Headed
  <1> QED BY <1>2, <1>3

LEMMA TrimKeeps ==
  ASSUME NEW ms \in Seq(Note), Headed(ms)
  PROVE  LET s == Chat!Trim(ms) IN
         /\ s \in Seq(Note) /\ Headed(s) /\ Ends(s, ms)
         /\ EndsShort(ms) => EndsShort(s)
         /\ Len(ms) <= MaxMessages => s = ms
  <1>1. CASE Len(ms) <= MaxMessages
    BY <1>1 DEF Chat!Trim, Ends
  <1>2. CASE Len(ms) > MaxMessages
    <2> DEFINE new == Chat!Newest(ms, MaxMessages - 1)
               s == <<ms[1]>> \o new
    <2>1. Chat!Lead(ms) = <<ms[1]>> /\ ms # <<>> /\ ms[1] \in Note
      BY <1>2, LeadAndRest
    <2>2. /\ new \in Seq(Note) /\ Len(new) = MaxMessages - 1
          /\ \A k \in 1..Len(new) : new[Len(new) - k + 1] = ms[Len(ms) - k + 1]
      BY <1>2, NewestIs
    <2>3. Chat!Trim(ms) = s
      BY <1>2, <2>1 DEF Chat!Trim
    <2> HIDE DEF new
    <2>4. /\ s \in Seq(Note) /\ Len(s) = Len(new) + 1 /\ s[1] = ms[1]
          /\ \A i \in 1..Len(new) : s[i + 1] = new[i]
      BY <2>1, <2>2
    <2> HIDE DEF s
    <2>5. ASSUME NEW k \in 1..Recent
          PROVE  k <= Len(s) /\ k <= Len(ms) /\ s[Len(s) - k + 1] = ms[Len(ms) - k + 1]
      <3>0. k <= Len(ms)
        BY <1>2
      <3>1. k \in 1..Len(new) /\ Len(new) - k + 1 \in 1..Len(new)
        BY <2>2
      <3>2. s[(Len(new) - k + 1) + 1] = new[Len(new) - k + 1]
        BY <2>4, <3>1
      <3>3. (Len(new) - k + 1) + 1 = Len(s) - k + 1 /\ k <= Len(s)
        <4>1. Len(new) \in Nat /\ Len(s) = Len(new) + 1
          BY <2>2, <2>4
        <4> QED BY <3>1, <4>1
      <3> QED BY <2>2, <3>0, <3>1, <3>2, <3>3
    <2>6. Ends(s, ms) /\ (EndsShort(ms) => EndsShort(s))
      BY <2>5 DEF Ends, EndsShort
    <2>7. Headed(s)
      BY <2>1, <2>4 DEF Headed
    <2> QED BY <1>2, <2>3, <2>4, <2>6, <2>7
  <1> QED BY <1>1, <1>2

LEMMA Appended ==
  ASSUME NEW a \in Seq(Note), NEW b \in Seq(Note)
  PROVE  LET s == a \o b IN
         /\ s \in Seq(Note) /\ Len(s) = Len(a) + Len(b)
         /\ \A i \in 1..Len(a) : s[i] = a[i]
         /\ \A k \in 1..Len(b) : s[Len(s) - k + 1] = b[Len(b) - k + 1]
         /\ Mentioned(s) = Mentioned(a) \cup Mentioned(b)
  <1> DEFINE s == a \o b
  <1>1. /\ s \in Seq(Note) /\ Len(s) = Len(a) + Len(b)
        /\ \A i \in 1..Len(a) + Len(b) : s[i] = IF i <= Len(a) THEN a[i] ELSE b[i - Len(a)]
    BY ConcatProperties
  <1>2. /\ Len(a) \in Nat /\ Len(b) \in Nat /\ DOMAIN a = 1..Len(a) /\ DOMAIN b = 1..Len(b)
        /\ DOMAIN s = 1..Len(a) + Len(b)
    BY <1>1, LenProperties
  <1> HIDE DEF s
  <1>3. \A i \in 1..Len(a) : s[i] = a[i]
    BY <1>1, <1>2
  <1>4. \A i \in 1..Len(b) : s[Len(a) + i] = b[i]
    <2> SUFFICES ASSUME NEW i \in 1..Len(b) PROVE s[Len(a) + i] = b[i]
      OBVIOUS
    <2>1. /\ Len(a) + i \in 1..Len(a) + Len(b) /\ ~(Len(a) + i <= Len(a))
          /\ Len(a) + i - Len(a) = i
      BY <1>2
    <2>2. s[Len(a) + i] = b[Len(a) + i - Len(a)]
      BY <1>1, <2>1
    <2> QED BY <2>1, <2>2
  <1>5. ASSUME NEW k \in 1..Len(b) PROVE s[Len(s) - k + 1] = b[Len(b) - k + 1]
    <2>1. Len(b) - k + 1 \in 1..Len(b) /\ Len(s) - k + 1 = Len(a) + (Len(b) - k + 1)
      BY <1>1, <1>2
    <2> QED BY <1>4, <2>1
  <1>6. Mentioned(s) = Mentioned(a) \cup Mentioned(b)
    <2>1. ASSUME NEW i \in 1..Len(a) + Len(b)
          PROVE  \/ i \in 1..Len(a) /\ s[i] = a[i]
                 \/ i - Len(a) \in 1..Len(b) /\ s[i] = b[i - Len(a)]
      BY <1>1, <1>2
    <2>2. Mentioned(s) \subseteq Mentioned(a) \cup Mentioned(b)
      BY <1>2, <2>1 DEF Mentioned
    <2>3. \A i \in 1..Len(a) : i \in 1..Len(a) + Len(b)
      BY <1>2
    <2>4. \A i \in 1..Len(b) : Len(a) + i \in 1..Len(a) + Len(b)
      BY <1>2
    <2>5. Mentioned(a) \cup Mentioned(b) \subseteq Mentioned(s)
      BY <1>2, <1>3, <1>4, <2>3, <2>4 DEF Mentioned
    <2> QED BY <2>2, <2>5
  <1> QED BY <1>1, <1>3, <1>5, <1>6 DEF s

\* What a summary lists of what was found has the account numbers, if they are few.
LEMMA AccountsListed ==
  ASSUME NEW met \in SUBSET Item, NEW listed \in SUBSET met, Chat!Lists(met, listed),
         Cardinality(Account) <= MaxItems
  PROVE  met \cap Account \subseteq listed
  <1>1. IsFiniteSet(Account) /\ Cardinality(Account) \in Nat
    <2>1. Account \subseteq Item
      BY SidecarAssumption DEF SidecarAssumption
    <2> QED BY <2>1, FS_Subset, FS_CardinalityType
  <1>2. SUFFICES ASSUME listed \subseteq Account, Cardinality(listed) = MaxItems PROVE listed = Account
    BY ChatCardinality DEF Chat!Lists
  <1>3. Cardinality(listed) <= Cardinality(Account)
    BY <1>1, <1>2, FS_Subset
  <1>4. Cardinality(listed) = Cardinality(Account)
    BY <1>1, <1>2, <1>3
  <1> QED BY <1>1, <1>2, <1>4, FS_Subset

\* A summary tells of turns, and has the identifiers that were found and are listed.
LEMMA SummaryIs ==
  ASSUME NEW past \in Seq(Note), NEW again, NEW listed \in SUBSET Item,
         NEW P \in SUBSET (Item \ Context),
         Chat!DetectFinancialData(past, again) \cap P \subseteq listed
  PROVE  LET m == Chat!Summarize(past, listed) IN
         m \in Note /\ (m.turns # {} => Mentioned(past) \cap P \subseteq m.items)
  <1> DEFINE told == UNION {m.turns : m \in Chat!Told(past)}
             some == IF Chat!Told(past) = {} THEN {} ELSE listed
             sum == [parts |-> {"system"}, size |-> 1, client |-> "none", beyond |-> {},
                     turns |-> told, items |-> some]
  <1>1. \A i \in DOMAIN past : past[i].turns \subseteq Request
    <2>1. \A i \in DOMAIN past : past[i] \in Note
      BY LenProperties, ElementOfSeq
    <2> QED BY <2>1 DEF Note
  <1>2. Mentioned(past) \cap P \subseteq Chat!DetectFinancialData(past, again)
    BY DEF Mentioned, Chat!DetectFinancialData, Chat!Matches, Chat!Range
  <1>3. told \subseteq Request
    BY <1>1 DEF Chat!Told
  <1>4. Chat!Summarize(past, listed) = sum
    BY DEF Chat!Summarize
  <1>5. some \subseteq Item /\ (told # {} => some = listed)
    OBVIOUS
  <1> HIDE DEF told, some
  <1>6. sum \in Note /\ sum.items = some /\ sum.turns = told
    BY <1>3, <1>5 DEF Note, Chat!Kind
  <1> QED BY <1>2, <1>4, <1>5, <1>6

LEMMA CompactKeeps ==
  ASSUME NEW whole \in Seq(Note), Headed(whole), NEW again, NEW listed \in SUBSET Item,
         NEW P \in SUBSET (Item \ Context),
         Chat!DetectFinancialData(Chat!Past(whole, Threshold, Recent), again) \cap P \subseteq listed
  PROVE  LET s == Chat!Compact(whole, Threshold, Recent, listed) IN
         /\ s \in Seq(Note) /\ Headed(s) /\ Ends(s, whole) /\ EndsShort(s)
         /\ ~Chat!Mute(s) => Mentioned(whole) \cap P \subseteq Mentioned(s)
  <1> DEFINE ms == Chat!Microcompact(whole)
             lead == Chat!Lead(ms)
             rest == Chat!Rest(ms)
             past == Chat!Older(rest, Recent)
             sum == Chat!Summarize(past, listed)
             new == Chat!Newest(rest, Recent)
             s == Chat!Compact(whole, Threshold, Recent, listed)
  <1>1. /\ ms \in Seq(Note) /\ Len(ms) = Len(whole)
        /\ \A i \in 1..Len(whole) : /\ ms[i].parts = whole[i].parts
                                    /\ ms[i].items = whole[i].items
                                    /\ ms[i] = Chat!Cut(whole[i]) /\ Chat!Cut(ms[i]) = ms[i]
    BY MicroKeeps
  <1>2. \/ s = ms
        \/ /\ Len(rest) > Recent /\ s = lead \o <<sum>> \o new
           /\ past = Chat!Past(whole, Threshold, Recent)
    BY DEF Chat!Compact, Chat!Shortens, Chat!Past
  <1> HIDE DEF ms, s
  <1>3. Ends(ms, whole) /\ Headed(ms) /\ EndsShort(ms) /\ Mentioned(whole) = Mentioned(ms)
    <2>1. Len(whole) \in Nat /\ DOMAIN whole = 1..Len(whole) /\ DOMAIN ms = 1..Len(whole)
      BY <1>1, LenProperties
    <2>2. Ends(ms, whole) /\ EndsShort(ms)
      <3>1. ASSUME NEW n \in 1..Recent, n <= Len(whole) PROVE Len(whole) - n + 1 \in 1..Len(whole)
        BY <2>1, <3>1
      <3> QED BY <1>1, <3>1 DEF Ends, EndsShort
    <2>3. Mentioned(whole) = Mentioned(ms)
      BY <1>1, <2>1 DEF Mentioned
    <2>4. Headed(ms)
      BY <1>1, <2>1, EmptySeq DEF Headed
    <2> QED BY <2>2, <2>3, <2>4
  <1>4. CASE s = ms
    BY <1>1, <1>3, <1>4 DEF s
  <1>5. CASE /\ Len(rest) > Recent /\ s = lead \o <<sum>> \o new
            /\ past = Chat!Past(whole, Threshold, Recent)
    <2>0. Len(rest) > Recent /\ s = lead \o <<sum>> \o new
      BY <1>5
    <2>1. /\ lead \in Seq(Note) /\ rest \in Seq(Note)
          /\ Len(lead) \in 0..1 /\ Len(ms) = Len(lead) + Len(rest)
          /\ ms # <<>> /\ Headed(ms) => lead = <<ms[1]>>
          /\ Len(lead) = 1 => lead[1] = ms[1]
          /\ \A i \in 1..Len(rest) : rest[i] = ms[Len(lead) + i]
      BY <1>1, LeadAndRest
    <2> HIDE DEF lead, rest
    <2>2. past \in Seq(Note) /\ Len(past) = Len(rest) - Recent
          /\ \A i \in 1..Len(rest) - Recent : past[i] = rest[i]
      BY <2>0, <2>1 DEF Chat!Older
    <2>3. sum \in Note /\ (sum.turns # {} => Mentioned(past) \cap P \subseteq sum.items)
      <3>1. Chat!DetectFinancialData(past, again) \cap P \subseteq listed
        BY <1>5
      <3> HIDE DEF past
      <3> QED BY <2>2, <3>1, SummaryIs
    <2>4. /\ new \in Seq(Note) /\ Len(new) = Recent
          /\ \A k \in 1..Len(new) : new[Len(new) - k + 1] = rest[Len(rest) - k + 1]
      BY <2>0, <2>1, NewestIs
    <2> HIDE DEF past, sum, new
    <2> DEFINE one == <<sum>>
               first == lead \o one
    <2>5. one \in Seq(Note) /\ Len(one) = 1 /\ Mentioned(one) = sum.items
      <3>1. one \in Seq(Note) /\ Len(one) = 1 /\ DOMAIN one = {1} /\ one[1] = sum
        BY <2>3
      <3> HIDE DEF one
      <3> QED BY <3>1 DEF Mentioned
    <2> HIDE DEF one
    <2>6. /\ first \in Seq(Note) /\ Len(first) = Len(lead) + 1
          /\ \A i \in 1..Len(lead) : first[i] = lead[i]
          /\ Mentioned(first) = Mentioned(lead) \cup sum.items
      <3>1. /\ first \in Seq(Note) /\ Len(first) = Len(lead) + Len(one)
            /\ \A i \in 1..Len(lead) : first[i] = lead[i]
            /\ Mentioned(first) = Mentioned(lead) \cup Mentioned(one)
        BY <2>1, <2>5, Appended
      <3> QED BY <2>5, <3>1
    <2>7. s = first \o new
      BY <2>0 DEF first, one
    <2> HIDE DEF first
    <2>8. /\ s \in Seq(Note) /\ Len(s) = Len(first) + Len(new)
          /\ \A i \in 1..Len(first) : s[i] = first[i]
          /\ \A k \in 1..Len(new) : s[Len(s) - k + 1] = new[Len(new) - k + 1]
          /\ Mentioned(s) = Mentioned(first) \cup Mentioned(new)
      BY <2>4, <2>6, <2>7, Appended
    <2>9. /\ Len(lead) \in Nat /\ Len(rest) \in Nat /\ Len(ms) \in Nat
          /\ DOMAIN lead = 1..Len(lead) /\ DOMAIN rest = 1..Len(rest) /\ DOMAIN ms = 1..Len(ms)
          /\ DOMAIN past = 1..Len(past) /\ DOMAIN new = 1..Len(new)
      BY <1>1, <2>1, <2>2, <2>4, LenProperties
    <2>10. Ends(s, ms) /\ EndsShort(s)
      <3>1. ASSUME NEW k \in 1..Recent
            PROVE  k <= Len(s) /\ k <= Len(ms) /\ s[Len(s) - k + 1] = ms[Len(ms) - k + 1]
        <4>1. Len(rest) - k + 1 \in 1..Len(rest)
              /\ Len(lead) + (Len(rest) - k + 1) = Len(ms) - k + 1
          BY <2>0, <2>1, <2>9
        <4>2. rest[Len(rest) - k + 1] = ms[Len(ms) - k + 1]
          BY <2>1, <4>1
        <4>3. k \in 1..Len(new)
          BY <2>4
        <4>4. k <= Len(s) /\ k <= Len(ms)
          <5>1. k \in Nat /\ Len(new) \in Nat /\ Len(first) \in Nat /\ k <= Len(new)
            BY <2>4, <2>6, <2>9
          <5>2. k <= Len(s)
            BY <2>8, <5>1
          <5>3. k <= Len(ms)
            BY <2>9, <4>1
          <5> QED BY <5>2, <5>3
        <4> QED BY <2>4, <2>8, <4>2, <4>3, <4>4
      <3> QED BY <1>3, <3>1 DEF Ends, EndsShort
    <2>11. Headed(s)
      <3>1. ms # <<>>
        BY <2>0, <2>1, <2>9, EmptySeq
      <3>2. lead = <<ms[1]>>
        BY <1>3, <2>1, <3>1
      <3>3. Len(lead) = 1 /\ 1 \in 1..Len(lead) /\ lead[1] = ms[1]
        BY <3>2
      <3>4. 1 \in 1..Len(first)
        BY <2>6, <3>3
      <3>5. s[1] = ms[1]
        BY <2>6, <2>8, <3>3, <3>4
      <3> QED BY <1>3, <3>1, <3>5 DEF Headed
    <2>12. ASSUME ~Chat!Mute(s)
          PROVE  Mentioned(ms) \cap P \subseteq Mentioned(s)
      <3>0. sum.turns # {}
        <4>1. first[Len(lead) + 1] = sum
          BY <2>1, <2>6, <2>9 DEF first, one
        <4>2. Len(lead) + 1 \in 1..Len(first) /\ Len(lead) + 1 \in DOMAIN s
          BY <2>4, <2>6, <2>8, <2>9, LenProperties
        <4> QED BY <2>8, <2>12, <4>1, <4>2 DEF Chat!Mute
      <3> SUFFICES ASSUME NEW i \in 1..Len(ms) PROVE ms[i].items \cap P \subseteq Mentioned(s)
        BY <2>9 DEF Mentioned
      <3>1. CASE i <= Len(lead)
        <4>1. Len(lead) \in 0..1 /\ Len(ms) \in Nat
          BY <2>1, <2>9
        <4>2. Len(lead) = 1 /\ i = 1
          <5>1. \A n \in 0..1, m \in Nat : \A k \in 1..m : k <= n => n = 1 /\ k = 1
            OBVIOUS
          <5> QED BY <3>1, <4>1, <5>1, Zenon
        <4>3. lead[1] = ms[1] /\ 1 \in DOMAIN lead
          BY <2>1, <2>9, <4>2
        <4>4. ms[i].items \subseteq Mentioned(lead)
          BY <4>2, <4>3 DEF Mentioned
        <4> QED BY <2>6, <2>8, <4>4
      <3>2. CASE i > Len(lead)
        <4> DEFINE n == i - Len(lead)
        <4>1. n \in 1..Len(rest) /\ Len(lead) + n = i
          BY <2>1, <2>9, <3>2
        <4> HIDE DEF n
        <4>2. rest[n] = ms[i]
          BY <2>1, <4>1
        <4>3. CASE n <= Len(rest) - Recent
          <5>1. n \in DOMAIN past /\ past[n] = ms[i]
            BY <2>2, <2>9, <4>1, <4>2, <4>3
          <5>2. ms[i].items \subseteq Mentioned(past)
            BY <5>1 DEF Mentioned
          <5> QED BY <2>3, <2>6, <2>8, <2>12, <3>0, <5>2
        <4>4. CASE n > Len(rest) - Recent
          <5> DEFINE k == Len(rest) - n + 1
          <5>1. /\ k \in 1..Len(new) /\ Len(rest) - k + 1 = n
                /\ Len(new) - k + 1 \in 1..Len(new)
            BY <2>0, <2>4, <2>9, <4>1, <4>4
          <5> HIDE DEF k
          <5>2. new[Len(new) - k + 1] = ms[i]
            BY <2>4, <4>2, <5>1
          <5>3. ms[i].items \subseteq Mentioned(new)
            BY <2>9, <5>1, <5>2 DEF Mentioned
          <5> QED BY <2>8, <5>3
        <4> QED BY <2>9, <4>1, <4>3, <4>4
      <3> QED BY <2>9, <3>1, <3>2
    <2>13. Ends(s, whole)
      <3>1. s \in Seq(Note) /\ ms \in Seq(Note) /\ Ends(s, ms) /\ Ends(ms, whole)
        BY <1>1, <1>3, <2>8, <2>10
      <3> QED BY <3>1, EndsTransitive
    <2> QED BY <1>3, <2>8, <2>10, <2>11, <2>12, <2>13 DEF s
  <1> QED BY <1>2, <1>4, <1>5

\* What a request has added to the conversation it loaded.
LEMMA AddedTo ==
  ASSUME NEW base \in Seq(Note), NEW ms \in Seq(Note)
  PROVE  LET d == SubSeq(ms, Len(base) + 1, Len(ms)) IN
         /\ d \in Seq(Note)
         /\ Chat!IsFrom(ms, base) => ms = base \o d
  <1>1. Len(base) \in Nat /\ Len(ms) \in Nat
    OBVIOUS
  <1>2. SubSeq(ms, Len(base) + 1, Len(ms)) \in Seq(Note)
    <2>1. \A i \in Len(base) + 1..Len(ms) : ms[i] \in Note
      BY <1>1, ElementOfSeq
    <2>2. Len(base) + 1 \in Int /\ Len(ms) \in Int
      BY <1>1
    <2> QED BY <2>1, <2>2, SubSeqProperties
  <1>3. ASSUME Chat!IsFrom(ms, base)
        PROVE  ms = base \o SubSeq(ms, Len(base) + 1, Len(ms))
    <2>1. Len(base) <= Len(ms) /\ SubSeq(base, 1, Len(base)) = SubSeq(ms, 1, Len(base))
      BY <1>3 DEF Chat!IsFrom, Chat!IsPrefix
    <2>2. 1 \in 1..Len(ms) + 1 /\ Len(base) \in 0..Len(ms) /\ Len(ms) \in Len(base)..Len(ms)
      BY <1>1, <2>1
    <2>3. SubSeq(ms, 1, Len(base)) \o SubSeq(ms, Len(base) + 1, Len(ms)) = SubSeq(ms, 1, Len(ms))
      <3>1. 1 - 1 = 0
        OBVIOUS
      <3> QED BY <2>2, <3>1, ConcatAdjacentSubSeq
    <2>4. SubSeq(ms, 1, Len(ms)) = ms /\ SubSeq(base, 1, Len(base)) = base
      BY SubSeqFull
    <2> QED BY <2>1, <2>3, <2>4
  <1> QED BY <1>2, <1>3

LEMMA EndsAfter ==
  ASSUME NEW base \in Seq(Note), NEW whole \in Seq(Note), NEW d \in Seq(Note), Ends(base, whole)
  PROVE  Ends(base \o d, whole \o d)
  <1> DEFINE ms == base \o d
             all == whole \o d
  <1>1. /\ Len(ms) = Len(base) + Len(d)
        /\ \A i \in 1..Len(base) : ms[i] = base[i]
        /\ \A k \in 1..Len(d) : ms[Len(ms) - k + 1] = d[Len(d) - k + 1]
    BY Appended
  <1>2. /\ Len(all) = Len(whole) + Len(d)
        /\ \A i \in 1..Len(whole) : all[i] = whole[i]
        /\ \A k \in 1..Len(d) : all[Len(all) - k + 1] = d[Len(d) - k + 1]
    BY Appended
  <1>3. Len(base) \in Nat /\ Len(whole) \in Nat /\ Len(d) \in Nat
    OBVIOUS
  <1> HIDE DEF ms, all
  <1>4. ASSUME NEW n \in 1..Recent, n <= Len(all)
        PROVE  /\ n <= Len(ms)
               /\ Chat!Cut(all[Len(all) - n + 1]) = Chat!Cut(ms[Len(ms) - n + 1])
    <2>1. CASE n <= Len(d)
      <3>1. n \in 1..Len(d) /\ n <= Len(ms)
        BY <1>1, <1>3, <2>1
      <3> QED BY <1>1, <1>2, <3>1
    <2>2. CASE n > Len(d)
      <3> DEFINE k == n - Len(d)
      <3>1. k \in 1..Recent /\ k <= Len(whole)
        BY <1>2, <1>3, <1>4, <2>2
      <3>2. Len(all) - n + 1 = Len(whole) - k + 1 /\ Len(ms) - n + 1 = Len(base) - k + 1
        BY <1>1, <1>2, <1>3
      <3>3. n <= Len(ms) <=> k <= Len(base)
        BY <1>1, <1>3
      <3> HIDE DEF k
      <3>4. /\ k <= Len(base)
            /\ Chat!Cut(whole[Len(whole) - k + 1]) = Chat!Cut(base[Len(base) - k + 1])
        BY <3>1 DEF Ends
      <3>5. Len(whole) - k + 1 \in 1..Len(whole) /\ Len(base) - k + 1 \in 1..Len(base)
        BY <1>3, <3>1, <3>4
      <3>6. /\ all[Len(all) - n + 1] = whole[Len(whole) - k + 1]
            /\ ms[Len(ms) - n + 1] = base[Len(base) - k + 1]
        BY <1>1, <1>2, <3>2, <3>5
      <3> QED BY <3>3, <3>4, <3>6
    <2> QED BY <1>3, <2>1, <2>2
  <1> QED BY <1>4 DEF Ends, ms, all

LEMMA FirstStays ==
  ASSUME NEW a \in Seq(Note), NEW b \in Seq(Note), a # <<>>
  PROVE  LET s == a \o b IN s \in Seq(Note) /\ s # <<>> /\ s[1] = a[1]
  <1> DEFINE s == a \o b
  <1>1. Len(a) \in Nat \ {0} /\ Len(b) \in Nat
    BY EmptySeq, LenProperties
  <1>2. s \in Seq(Note) /\ Len(s) = Len(a) + Len(b) /\ \A i \in 1..Len(a) : s[i] = a[i]
    BY Appended
  <1> HIDE DEF s
  <1>3. 1 \in 1..Len(a) /\ Len(s) # 0
    BY <1>1, <1>2
  <1> QED BY <1>2, <1>3, EmptySeq DEF s

\* What the agent adds are messages, and the first of a conversation has the prompt.
LEMMA AgentAdds ==
  ASSUME NEW r \in Request, NEW h \in Seq(Note), Headed(h), NEW t \in Turns
  PROVE  h \o Chat!Added(r, h, t) \in Seq(Note) /\ Headed(h \o Chat!Added(r, h, t))
  <1> DEFINE head == IF h = <<>> THEN {"system", "user"} ELSE {"user"}
             tail == IF t.size > MaxResult THEN t.at["beyond"] ELSE {}
             ask == <<Chat!Message(head, r, t.size, "none", t.at["user"], {})>>
             calls == IF t.client = "none" THEN <<>>
                      ELSE <<Chat!Message({"call"}, r, 1, t.client, t.at["call"], {}),
                             Chat!Message({"return"}, r, t.size, t.client, t.at["return"], tail)>>
             again == IF t.retry THEN <<Chat!Message({"retry"}, r, 1, "none", {}, {})>> ELSE <<>>
             answer == <<Chat!Message({"text"}, r, 1, "none", t.at["text"], {})>>
             added == ask \o calls \o again \o answer
  <1>0. /\ t.client \in Client \cup {"none"} /\ t.size \in Nat /\ tail \in SUBSET Item
        /\ t.at["user"] \in SUBSET Item /\ t.at["call"] \in SUBSET Item
        /\ t.at["return"] \in SUBSET Item /\ t.at["text"] \in SUBSET Item
    <2>1. t \in Chat!Turn
      BY TurnsAssumption
    <2>2. t.client \in Client \cup {"none"} /\ t.size \in Nat
      BY <2>1 DEF Chat!Turn
    <2>3. \A p \in {"user", "call", "return", "beyond", "text"} : t.at[p] \in SUBSET Item
      BY <2>1 DEF Chat!Turn
    <2> QED BY <2>2, <2>3
  <1> HIDE DEF tail
  <1>1. Chat!Added(r, h, t) = added
    BY DEF Chat!Added, tail
  <1>2. ASSUME NEW parts \in SUBSET Chat!Kind, NEW n \in Nat,
               NEW c \in Client \cup {"none"}, NEW S \in SUBSET Item, NEW R \in SUBSET Item
        PROVE  Chat!Message(parts, r, n, c, S, R) \in Note
               /\ Chat!Message(parts, r, n, c, S, R).parts = parts
    BY DEF Note, Chat!Message
  <1>3. /\ {"system", "user"} \in SUBSET Chat!Kind /\ {"user"} \in SUBSET Chat!Kind
        /\ {"call"} \in SUBSET Chat!Kind /\ {"return"} \in SUBSET Chat!Kind
        /\ {"retry"} \in SUBSET Chat!Kind /\ {"text"} \in SUBSET Chat!Kind
    BY DEF Chat!Kind
  <1>4. 1 \in Nat /\ {} \in SUBSET Item /\ "none" \in Client \cup {"none"}
    OBVIOUS
  <1>5. head \in SUBSET Chat!Kind
    BY <1>3
  <1>6. /\ ask \in Seq(Note) /\ Len(ask) = 1 /\ ask[1].parts = head
        /\ calls \in Seq(Note) /\ again \in Seq(Note) /\ answer \in Seq(Note)
    <2> HIDE DEF head
    <2>1. ask \in Seq(Note) /\ Len(ask) = 1 /\ ask[1].parts = head
      BY <1>0, <1>2, <1>4, <1>5
    <2>2. calls \in Seq(Note)
      BY <1>0, <1>2, <1>3, <1>4
    <2>3. again \in Seq(Note)
      BY <1>2, <1>3, <1>4
    <2>4. answer \in Seq(Note)
      BY <1>0, <1>2, <1>3, <1>4
    <2> QED BY <2>1, <2>2, <2>3, <2>4
  <1> HIDE DEF ask, calls, again, answer, head
  <1>7. ask # <<>>
    BY DEF ask
  <1>8. LET s == ask \o calls IN s \in Seq(Note) /\ s # <<>> /\ s[1] = ask[1]
    BY <1>6, <1>7, FirstStays
  <1>9. LET s == ask \o calls \o again IN s \in Seq(Note) /\ s # <<>> /\ s[1] = ask[1]
    BY <1>6, <1>8, FirstStays
  <1>10. added \in Seq(Note) /\ added # <<>> /\ added[1] = ask[1]
    BY <1>6, <1>9, FirstStays
  <1> HIDE DEF added
  <1>11. h \o added \in Seq(Note) /\ Headed(h \o added)
    <2>1. CASE h = <<>>
      <3>1. h \o added = added
        BY <1>10, <2>1, ConcatEmptySeq
      <3>2. head = {"system", "user"}
        BY <2>1 DEF head
      <3> QED BY <1>6, <1>10, <3>1, <3>2 DEF Headed
    <2>2. CASE h # <<>>
      BY <1>10, <2>2, FirstStays DEF Headed
    <2> QED BY <2>1, <2>2
  <1> QED BY <1>1, <1>11

------------------------------------------------------------------------------
\* What is stored has what the whole conversation had.
LEMMA StoredKeeps ==
  ASSUME NEW whole \in Seq(Note), Headed(whole), NEW again, NEW listed \in SUBSET Item,
         NEW P \in SUBSET (Item \ Context),
         Chat!DetectFinancialData(Chat!Past(whole, Threshold, Recent), again) \cap P \subseteq listed
  PROVE  LET s == Chat!Stored(whole, listed)
             c == Chat!Compact(whole, Threshold, Recent, listed) IN
         /\ s \in Seq(Note) /\ Headed(s) /\ Ends(s, whole) /\ EndsShort(s)
         /\ ~(Len(c) > MaxMessages) /\ ~Chat!Mute(c) => Mentioned(whole) \cap P \subseteq Mentioned(s)
  <1> DEFINE c == Chat!Compact(whole, Threshold, Recent, listed)
             s == Chat!Trim(c)
  <1>1. /\ c \in Seq(Note) /\ Headed(c) /\ Ends(c, whole) /\ EndsShort(c)
        /\ ~Chat!Mute(c) => Mentioned(whole) \cap P \subseteq Mentioned(c)
    BY CompactKeeps
  <1>2. Chat!Stored(whole, listed) = s
    BY DEF Chat!Stored
  <1> HIDE DEF c
  <1>3. /\ s \in Seq(Note) /\ Headed(s) /\ Ends(s, c) /\ EndsShort(s)
        /\ Len(c) <= MaxMessages => s = c
    BY <1>1, TrimKeeps
  <1>4. Len(c) \in Nat
    BY <1>1, LenProperties
  <1> HIDE DEF s
  <1>5. Ends(s, whole)
    BY <1>1, <1>3, EndsTransitive
  <1>6. ~(Len(c) > MaxMessages) => s = c
    BY <1>3, <1>4
  <1> QED BY <1>1, <1>2, <1>3, <1>5, <1>6 DEF c

LEMMA ChatBegins == Chat!Init => ChatInv
  <1> SUFFICES ASSUME Chat!Init PROVE ChatInv
    OBVIOUS
  <1>1. /\ key.messages = <<>> /\ log = <<>> /\ <<>> \in Seq(Note)
        /\ history = [r \in Request |-> <<>>] /\ Headed(<<>>)
    BY EmptySeq DEF Chat!Init, Chat!None, Headed
  <1>2. Ends(<<>>, <<>>) /\ EndsShort(<<>>)
    <2>1. Len(<<>>) = 0
      BY EmptySeq
    <2> QED BY <2>1 DEF Ends, EndsShort
  <1> QED BY <1>1, <1>2 DEF ChatInv

LEMMA FoundInPast ==
  ASSUME NEW ms \in Seq(Note), NEW again \in SUBSET Context
  PROVE  Chat!DetectFinancialData(Chat!Past(ms, Threshold, Recent), again) \in SUBSET Item
  <1> DEFINE cut == Chat!Microcompact(ms)
             rest == Chat!Rest(cut)
             past == Chat!Past(ms, Threshold, Recent)
  <1>1. cut \in Seq(Note)
    BY MicroKeeps
  <1>2. rest \in Seq(Note)
    BY <1>1, LeadAndRest
  <1>3. past \in Seq(Note)
    <2>1. CASE Chat!Shortens(cut, Threshold, Recent)
      <3>1. past = SubSeq(rest, 1, Len(rest) - Recent) /\ Len(rest) > Recent
        BY <2>1 DEF Chat!Past, Chat!Older, Chat!Shortens
      <3> HIDE DEF past, rest
      <3> QED BY <1>2, <3>1
    <2>2. CASE ~Chat!Shortens(cut, Threshold, Recent)
      BY <2>2, EmptySeq DEF Chat!Past
    <2> QED BY <2>1, <2>2
  <1> HIDE DEF past
  <1>4. \A i \in DOMAIN past : past[i].items \subseteq Item
    <2>1. \A i \in DOMAIN past : past[i] \in Note
      BY <1>3, LenProperties, ElementOfSeq
    <2> QED BY <2>1 DEF Note
  <1>5. Chat!DetectFinancialData(past, again) \subseteq Item
    BY <1>4 DEF Chat!DetectFinancialData, Chat!Matches, Chat!Range
  <1> QED BY <1>5 DEF past

LEMMA ChatMoves == ChatInv /\ [Chat!Next]_(Chat!vars) => ChatInv'
  <1> SUFFICES ASSUME ChatInv, [Chat!Next]_(Chat!vars) PROVE ChatInv'
    OBVIOUS
  <1>1. /\ key.messages \in Seq(Note) /\ Headed(key.messages) /\ EndsShort(key.messages)
        /\ history \in [Request -> Seq(Note)]
        /\ \A r \in Request : Headed(history[r])
        /\ log \in Seq(Note)
        /\ serial => Ends(key.messages, log)
        /\ serial /\ lost \cap {"cap", "mute"} = {} =>
            /\ Cardinality(Account) <= MaxItems =>
                   Mentioned(log) \cap Account \subseteq Mentioned(key.messages)
            /\ "full" \notin lost =>
                   Mentioned(log) \cap (Item \ Context) \subseteq Mentioned(key.messages)
    BY DEF ChatInv
  <1>2. /\ <<>> \in Seq(Note) /\ Headed(<<>>) /\ Mentioned(<<>>) = {}
        /\ Ends(<<>>, <<>>) /\ EndsShort(<<>>)
    <2>1. Len(<<>>) = 0
      BY EmptySeq
    <2> QED BY <2>1, EmptySeq DEF Headed, Mentioned, Ends, EndsShort
  <1>3. ASSUME NEW r \in Request, Chat!Load(r) PROVE ChatInv'
    <2>1. PICK h \in {key.messages, <<>>} :
             /\ history' = [history EXCEPT ![r] = h]
             /\ serial' = (serial /\ h = key.messages)
      BY <1>3 DEF Chat!Load
    <2>2. key' = key /\ log' = log /\ lost' = lost
      BY <1>3 DEF Chat!Load
    <2>3. h \in Seq(Note) /\ Headed(h)
      BY <1>1, <1>2
    <2>4. history' \in [Request -> Seq(Note)] /\ \A k \in Request : Headed(history'[k])
      BY <1>1, <2>1, <2>3
    <2> QED BY <1>1, <2>1, <2>2, <2>4 DEF ChatInv
  <1>4. ASSUME NEW r \in Request, Chat!Run(r) PROVE ChatInv'
    <2>1. PICK t \in Turns :
             history' = [history EXCEPT ![r] = history[r] \o Chat!Added(r, history[r], t)]
      BY <1>4 DEF Chat!Run
    <2>2. key' = key /\ log' = log /\ lost' = lost /\ serial' = serial
      BY <1>4 DEF Chat!Run
    <2> DEFINE h == history[r] \o Chat!Added(r, history[r], t)
    <2>3. h \in Seq(Note) /\ Headed(h)
      BY <1>1, AgentAdds
    <2> HIDE DEF h
    <2>4. history' = [history EXCEPT ![r] = h]
      BY <2>1 DEF h
    <2>5. history' \in [Request -> Seq(Note)] /\ \A k \in Request : Headed(history'[k])
      BY <1>1, <2>3, <2>4
    <2> QED BY <1>1, <2>2, <2>5 DEF ChatInv
  <1>5. ASSUME NEW r \in Request, Chat!LoadForJob(r) PROVE ChatInv'
    <2>1. history' = [history EXCEPT ![r] = key.messages] \/ history' = history
      BY <1>5 DEF Chat!LoadForJob
    <2>2. key' = key /\ log' = log /\ lost' = lost /\ serial' = serial
      BY <1>5 DEF Chat!LoadForJob
    <2>3. history' \in [Request -> Seq(Note)] /\ \A k \in Request : Headed(history'[k])
      BY <1>1, <2>1
    <2> QED BY <1>1, <2>2, <2>3 DEF ChatInv
  <1>6. ASSUME NEW r \in Request, Chat!Fail(r) \/ Chat!Enqueue(r) \/ Chat!SaveFails(r)
        PROVE  ChatInv'
    <2>1. history' = history /\ key' = key /\ log' = log /\ lost' = lost /\ serial' = serial
      BY <1>6 DEF Chat!Fail, Chat!Enqueue, Chat!SaveFails
    <2> QED BY <1>1, <2>1 DEF ChatInv
  <1>7. ASSUME NEW r \in Request, Chat!Save(r) PROVE ChatInv'
    <2> DEFINE base == key.messages
               ms == history[r]
               d == SubSeq(ms, Len(base) + 1, Len(ms))
               past == Chat!Past(ms, Threshold, Recent)
               met(again) == Chat!DetectFinancialData(past, again)
               s(listed) == Chat!Stored(ms, listed)
               c(listed) == Chat!Compact(ms, Threshold, Recent, listed)
               capped(listed) == Len(c(listed)) > MaxMessages
               mute(listed) == Chat!Mute(c(listed))
    <2>00. PICK again \in SUBSET Context : \E listed \in SUBSET met(again) :
             /\ Chat!Lists(met(again), listed)
             /\ key'.messages = s(listed)
             /\ lost' = lost \cup (IF capped(listed) THEN {"cap"} ELSE {})
                             \cup (IF mute(listed) THEN {"mute"} ELSE {})
                             \cup (IF listed # met(again) THEN {"full"} ELSE {})
      <3> HIDE DEF met, capped, mute, d
      <3>1. PICK again \in SUBSET Context : \E listed \in SUBSET met(again) :
             /\ Chat!Lists(met(again), listed)
             /\ key' = [messages |-> s(listed), client |-> Chat!ActiveClient(s(listed)),
                        job |-> IF job[r] THEN "job" ELSE "none"]
             /\ lost' = lost \cup (IF capped(listed) THEN {"cap"} ELSE {})
                             \cup (IF mute(listed) THEN {"mute"} ELSE {})
                             \cup (IF listed # met(again) THEN {"full"} ELSE {})
        BY <1>7 DEF Chat!Save, met, capped, mute
      <3> QED BY <3>1
    <2>0. PICK listed \in SUBSET met(again) :
             /\ Chat!Lists(met(again), listed)
             /\ key'.messages = s(listed)
             /\ lost' = lost \cup (IF capped(listed) THEN {"cap"} ELSE {})
                             \cup (IF mute(listed) THEN {"mute"} ELSE {})
                             \cup (IF listed # met(again) THEN {"full"} ELSE {})
      BY <2>00
    <2>1. /\ log' = log \o d /\ history' = history
          /\ serial' = (serial /\ Chat!IsFrom(ms, base))
      BY <1>7 DEF Chat!Save
    <2>2. base \in Seq(Note) /\ ms \in Seq(Note) /\ Headed(ms)
      BY <1>1
    <2>3. d \in Seq(Note) /\ (Chat!IsFrom(ms, base) => ms = base \o d)
      BY <2>2, AddedTo
    <2>4. met(again) \in SUBSET Item
      BY <2>2, FoundInPast
    <2>5. ASSUME NEW P \in SUBSET (Item \ Context), met(again) \cap P \subseteq listed
          PROVE  /\ s(listed) \in Seq(Note) /\ Headed(s(listed)) /\ Ends(s(listed), ms)
                 /\ EndsShort(s(listed))
                 /\ ~capped(listed) /\ ~mute(listed)
                       => Mentioned(ms) \cap P \subseteq Mentioned(s(listed))
      <3>1. listed \in SUBSET Item
        BY <2>4
      <3> QED BY <2>2, <2>5, <3>1, StoredKeeps
    <2> HIDE DEF ms, d, past, s, c, capped, mute, met
    <2>6. /\ s(listed) \in Seq(Note) /\ Headed(s(listed)) /\ Ends(s(listed), ms)
          /\ EndsShort(s(listed))
      <3>1. {} \in SUBSET (Item \ Context) /\ met(again) \cap {} \subseteq listed
        OBVIOUS
      <3> QED BY <2>5, <3>1
    <2>7. log' \in Seq(Note) /\ Mentioned(log') = Mentioned(log) \cup Mentioned(d)
      BY <1>1, <2>1, <2>3, Appended
    <2>8. ASSUME serial' PROVE Ends(s(listed), log')
      <3>1. Ends(base, log) /\ ms = base \o d
        BY <1>1, <2>1, <2>3, <2>8
      <3>2. Ends(ms, log')
        BY <1>1, <2>1, <2>2, <2>3, <3>1, EndsAfter
      <3> QED BY <2>2, <2>6, <2>7, <3>2, EndsTransitive
    <2>9. ASSUME serial', lost' \cap {"cap", "mute"} = {}, NEW P \in SUBSET (Item \ Context),
                 met(again) \cap P \subseteq listed, Mentioned(log) \cap P \subseteq Mentioned(base)
          PROVE  Mentioned(log') \cap P \subseteq Mentioned(s(listed))
      <3>1. ms = base \o d
        BY <2>1, <2>3, <2>9
      <3>2. ~capped(listed) /\ ~mute(listed)
        BY <2>0, <2>9
      <3>3. Mentioned(ms) = Mentioned(base) \cup Mentioned(d)
        BY <2>2, <2>3, <3>1, Appended
      <3>4. Mentioned(ms) \cap P \subseteq Mentioned(s(listed))
        BY <2>5, <2>9, <3>2
      <3> QED BY <2>7, <2>9, <3>3, <3>4
    <2>10. lost \subseteq lost'
      BY <2>0
    <2>11. ASSUME serial', lost' \cap {"cap", "mute"} = {}, Cardinality(Account) <= MaxItems
           PROVE  Mentioned(log') \cap Account \subseteq Mentioned(s(listed))
      <3>1. Account \in SUBSET (Item \ Context)
        BY SidecarAssumption DEF SidecarAssumption
      <3>2. met(again) \cap Account \subseteq listed
        BY <2>0, <2>4, <2>11, AccountsListed
      <3>3. Mentioned(log) \cap Account \subseteq Mentioned(base)
        BY <1>1, <2>1, <2>10, <2>11
      <3> QED BY <2>9, <2>11, <3>1, <3>2, <3>3
    <2>12. ASSUME serial', lost' \cap {"cap", "mute"} = {}, "full" \notin lost'
           PROVE  Mentioned(log') \cap (Item \ Context) \subseteq Mentioned(s(listed))
      <3>1. listed = met(again)
        BY <2>0, <2>12
      <3>2. Mentioned(log) \cap (Item \ Context) \subseteq Mentioned(base)
        BY <1>1, <2>1, <2>10, <2>12
      <3> QED BY <2>9, <2>12, <3>1, <3>2
    <2> QED BY <1>1, <2>0, <2>1, <2>6, <2>7, <2>8, <2>11, <2>12 DEF ChatInv
  <1>8. ASSUME Chat!Expire PROVE ChatInv'
    <2>1. key'.messages = <<>> /\ log' = <<>> /\ history' = history
      BY <1>8 DEF Chat!Expire, Chat!None
    <2> QED BY <1>1, <1>2, <2>1 DEF ChatInv
  <1>9. ASSUME UNCHANGED Chat!vars PROVE ChatInv'
    <2>1. history' = history /\ key' = key /\ log' = log /\ lost' = lost /\ serial' = serial
      BY <1>9 DEF Chat!vars
    <2> QED BY <1>1, <2>1 DEF ChatInv
  <1> QED BY <1>3, <1>4, <1>5, <1>6, <1>7, <1>8, <1>9 DEF Chat!Next

LEMMA ChatKept ==
  ChatInv => Chat!NewestKept /\ Chat!SystemPromptKept /\ Chat!IdentifiersKept
  <1>1. ASSUME ChatInv PROVE Chat!NewestKept
    BY <1>1 DEF ChatInv, Chat!NewestKept, Ends, EndsShort
  <1>2. ChatInv => Chat!SystemPromptKept
    BY DEF ChatInv, Chat!SystemPromptKept, Headed
  <1>3. ASSUME NEW S, Mentioned(log) \cap S \subseteq Mentioned(key.messages)
        PROVE  Chat!AllStored(S)
    BY <1>3 DEF Mentioned, Chat!AllStored
  <1>4. ASSUME ChatInv PROVE Chat!IdentifiersKept
    BY <1>3, <1>4, ChatCardinality DEF ChatInv, Chat!IdentifiersKept
  <1> QED BY <1>1, <1>2, <1>4

LEMMA ChatStays == SidecarSpec => []ChatInv
  <1>1. SidecarInit => ChatInv
    BY ChatBegins DEF SidecarInit
  <1>2. ChatInv /\ [SidecarNext]_sidecarVars => ChatInv'
    BY OneMoves, ChatMoves
  <1> QED BY <1>1, <1>2, PTL DEF SidecarSpec

\* As long as no save replaced another request's, a stored conversation begins with the
\* system prompt and ends with its newest messages, which are as they were written but
\* for long tool results, through any number of compactions and trims.
THEOREM EndsKept == SidecarSpec => [](Chat!NewestKept /\ Chat!SystemPromptKept)
  <1>1. ChatInv => Chat!NewestKept /\ Chat!SystemPromptKept
    BY ChatKept
  <1> QED BY <1>1, ChatStays, PTL

\* Until the hard cap drops messages or a summary has nothing to tell, no account number
\* that was mentioned within the limit of a tool result is lost, if a summary has room
\* for every account number there is (MaxItems, 20 in the code), and no identifier that
\* is found wherever it stands until a summary could not list all that was found.
THEOREM ConversationIsKept == SidecarSpec => []ConversationKept
  <1>1. ChatInv => ConversationKept
    BY ChatKept DEF ConversationKept
  <1> QED BY <1>1, ChatStays, PTL

------------------------------------------------------------------------------
(* The circuit breaker through which platform reads go, for any number of coroutines
   and any threshold.  HALF_OPEN is entered from OPEN only, with the counter at
   FailureThreshold, and left by the first reply. *)

LEMMA BreakerStarts == BreakerInit => BreakerInv
  BY BreakerAssumption DEF BreakerAssumption, BreakerInit, BreakerInv, BreakerTypeOK, OpenIffStreak

LEMMA BreakerMoves == BreakerInv /\ [BreakerNext]_breakerVars => BreakerInv'
  <1> SUFFICES ASSUME BreakerInv, [BreakerNext]_breakerVars PROVE BreakerInv'
    OBVIOUS
  <1> USE BreakerAssumption DEF BreakerAssumption, BreakerInv, BreakerTypeOK, OpenIffStreak, breaker
  <1>1. ASSUME NEW c \in Call, Get(c) PROVE BreakerInv'
    BY <1>1 DEF Get, Check, Send
  <1>2. ASSUME NEW c \in Call, GetSucceeds(c) PROVE BreakerInv'
    BY <1>2 DEF GetSucceeds, RecordSuccess, Return
  <1>3. ASSUME NEW c \in Call, GetFails(c) PROVE BreakerInv'
    BY <1>3 DEF GetFails, RecordFailure, OneMore, Return
  <1>4. ASSUME NEW c \in Call, SweepSucceeds(c) PROVE BreakerInv'
    BY <1>4 DEF SweepSucceeds, RecordSuccess, Return
  <1>5. ASSUME NEW c \in Call, SweepStart(c) \/ SweepFails(c) \/ Cancel(c) PROVE BreakerInv'
    BY <1>5 DEF SweepStart, SweepFails, Cancel, Send, Return
  <1>6. CASE PlatformChanges \/ Tick \/ UNCHANGED breakerVars
    BY <1>6 DEF PlatformChanges, Tick, breakerVars
  <1> QED BY <1>1, <1>2, <1>3, <1>4, <1>5, <1>6 DEF BreakerNext

\* Reads are held back exactly after FailureThreshold failed replies in a row,
\* whatever calls are in flight when the breaker moves.
THEOREM OpensOnFailuresInARow == BreakerSpec => []OpenIffStreak
  <1>1. BreakerInit => BreakerInv
    BY BreakerStarts
  <1>2. BreakerInv /\ [BreakerNext]_breakerVars => BreakerInv'
    BY BreakerMoves
  <1>3. BreakerInv => OpenIffStreak
    BY DEF BreakerInv
  <1> QED BY <1>1, <1>2, <1>3, PTL DEF BreakerSpec
==============================================================================
