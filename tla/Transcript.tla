------------------------------ MODULE Transcript ------------------------------
(***************************************************************************)
(* How the transcription job (jobs/transcription.py) cuts a recording and  *)
(* joins what the service heard in the pieces.  Time is in units, speech   *)
(* is a set of utterances [from, to) that do not overlap, and the text of  *)
(* what was heard of one is as long as that took.  That a service finds    *)
(* the same bounds of an utterance in every chunk is an assumption on it.  *)
(*                                                                         *)
(* A service may also return the text of a chunk without saying when what  *)
(* was said (whisper: no segments, deepgram: no utterances).  Its answer   *)
(* to a chunk is given: split into utterances, or a text of some length    *)
(* with the chunk's duration (dated) or without it.                        *)
(***************************************************************************)
EXTENDS Ranking

Least(a, b) == IF a < b THEN a ELSE b
Most(a, b) == IF a > b THEN a ELSE b

\* _chunk_audio_bytes: the last chunk is the first that reaches the end.
ChunkAudio(n, max, overlap) ==
    LET count == CHOOSE c \in 1..n : /\ (c - 1) * (max - overlap) + max >= n
                                     /\ c > 1 => (c - 2) * (max - overlap) + max < n
    IN [k \in 1..count |-> LET at == (k - 1) * (max - overlap) IN [from |-> at, to |-> Least(at + max, n)]]

\* A segment of the transcript in which u was heard
Said(u) == [from |-> u.from, to |-> u.to, text |-> u.to - u.from]
Reaches(u, chunk) == u.from < chunk.to /\ u.to > chunk.from

\* A service hears the part of each utterance that is in the chunk and gives it times
\* that count from the chunk's start; the job adds the start.  A text that is not split
\* becomes one segment for the whole chunk, and ends where it begins when the service
\* gives no duration.
Transcribe(chunk, speech, answer) ==
    LET heard == {Said([from |-> Most(u.from, chunk.from), to |-> Least(u.to, chunk.to)]) :
                     u \in {v \in speech : Reaches(v, chunk)}}
        whole == [from |-> chunk.from, to |-> IF answer.dated THEN chunk.to ELSE chunk.from,
                  text |-> answer.text]
    IN IF answer.split THEN SortBy(heard, LAMBDA s, t : s.from < t.from)
       ELSE IF answer.text = 0 THEN <<>> ELSE <<whole>>

\* Sorted by start; of two segments that overlap the one with more text is kept.
Dedup(segments) ==
    LET sorted == SortBy(DOMAIN segments, LAMBDA i, k :
                      \/ segments[i].from < segments[k].from
                      \/ segments[i].from = segments[k].from /\ i < k)
        Join(kept, i) ==
            LET s == segments[i] IN
            IF kept = <<>> \/ s.from >= Last(kept).to THEN Append(kept, s)
            ELSE IF s.text > Last(kept).text THEN Append(Front(kept), s)
            ELSE kept
    IN FoldLeft(Join, <<>>, sorted)

Transcribed(n, max, overlap, speech, answers) ==
    LET chunks == ChunkAudio(n, max, overlap)
    IN Dedup(FlattenSeq([k \in DOMAIN chunks |-> Transcribe(chunks[k], speech, answers[k])]))

\* Wherever the cuts fall, an utterance no longer than the overlap is in the transcript
\* as a whole and once, if the chunks that it reaches into were answered in utterances:
\* a neighbour that came as one text, which may displace others, does not displace it.
\* The segments of the transcript do not overlap.
UtteranceWhole(n, max, overlap, speech, answers) ==
    LET chunks == ChunkAudio(n, max, overlap)
        segments == Transcribed(n, max, overlap, speech, answers)
    IN
    /\ \A u \in speech :
           /\ u.to - u.from <= overlap
           /\ \A k \in DOMAIN chunks : Reaches(u, chunks[k]) => answers[k].split
           => Cardinality({i \in DOMAIN segments : segments[i] = Said(u)}) = 1
    /\ \A i, k \in DOMAIN segments : i < k => segments[i].to <= segments[k].from
==============================================================================
