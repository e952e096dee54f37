------------------------------- MODULE RagQuery -------------------------------
(***************************************************************************)
(* What a question to the RAG index goes through: chunk windows            *)
(* (rag/chunking.py), embedding batches (rag/embeddings.py), the access    *)
(* filter and the search (rag/retrieval.py), reranking (rag/reranking.py), *)
(* the token budget (rag/context.py) and the citations (rag/citations.py). *)
(* Scores are multiples of 1/40; a decayed recency is one of a few levels. *)
(***************************************************************************)
EXTENDS Ranking

------------------------------------------------------------------------------
(* Chunks: window k of a text of n tokens holds the tokens Window(k).lo..hi - 1. *)

Step(size, overlap) == IF size - overlap > 1 THEN size - overlap ELSE 1
WindowCount(n, size, overlap) == (n + Step(size, overlap) - 1) \div Step(size, overlap)
ChunkText(n, size, overlap) ==
    [k \in 1..WindowCount(n, size, overlap) |->
        LET lo == (k - 1) * Step(size, overlap) IN
        [lo |-> lo, hi |-> IF lo + size < n THEN lo + size ELSE n]]

\* Any passage up to one token longer than the overlap is in one chunk as a whole.
PassageWhole(n, size, overlap) ==
    \A p \in 0..n - 1 : \A q \in p..n - 1 :
        q - p <= overlap =>
            \E k \in DOMAIN ChunkText(n, size, overlap) :
                LET w == ChunkText(n, size, overlap)[k] IN w.lo <= p /\ q < w.hi

------------------------------------------------------------------------------
(* Embeddings: the items of a batch's answer carry their index in the batch, in any
   order; the vector of text t is t itself. *)

SplitBatches(texts, size) ==
    [b \in 1..((Len(texts) + size - 1) \div size) |->
        [offset |-> (b - 1) * size,
         texts |-> SubSeq(texts, (b - 1) * size + 1,
                          IF b * size < Len(texts) THEN b * size ELSE Len(texts))]]
\* taken in the order of the answer
EmbedBatch_AsAnswered(batch, order) ==
    [i \in 1..Len(batch.texts) |-> [index |-> batch.offset + i, vector |-> batch.texts[order[i]]]]
EmbedBatch(batch, order) ==
    [i \in 1..Len(batch.texts) |->
        [index |-> batch.offset + order[i], vector |-> batch.texts[order[i]]]]
EmbedTexts(texts, size, orders) ==
    LET nested == [b \in DOMAIN SplitBatches(texts, size) |->
                      EmbedBatch(SplitBatches(texts, size)[b], orders[b])] IN
    SortBy(Range(FlattenSeq(nested)), LAMBDA a, b : a.index < b.index)

\* However the service orders its answers, the vector of a text is its own.
EmbedAligned(texts, size, orders) ==
    \A i \in DOMAIN texts : EmbedTexts(texts, size, orders)[i].vector = texts[i]

------------------------------------------------------------------------------
(* Retrieval and ranking.  A chunk: source, at (its index), tokens, owners (column ->
   owner or "null"), near (similarity), recent (decay level). *)

Column == {"household", "client", "advisor", "account"}

\* _build_scope_filter: a scope is "full_tenant" or the ids it lists per column.
InScope(chunk, scope) ==
    \/ scope.full
    \/ \E c \in Column : chunk.owners[c] \in scope.ids[c]
    \/ \A c \in Column : chunk.owners[c] = "null"

\* RetrieverService.retrieve: what it may return
Retrieve(chunks, scope, topK) ==
    {Upto(s, topK) : s \in Rankings({c \in chunks : InScope(c, scope)}, LAMBDA a, b : a.near > b.near)}

\* _recency_score is a level; _association_score in halves
Association(chunk, client, household) ==
    IF client # "null" /\ chunk.owners["client"] = client THEN 2
    ELSE IF household # "null" /\ chunk.owners["household"] = household THEN 2
    ELSE IF chunk.owners["advisor"] # "null" THEN 1 ELSE 0
Score(chunk, client, household) ==
    24 * chunk.near + 10 * chunk.recent + 3 * Association(chunk, client, household)
Rerank(chunks, client, household, topK) ==
    LET S(i) == Score(chunks[i], client, household)
        order == SortBy(DOMAIN chunks, LAMBDA i, k : S(i) > S(k) \/ (S(i) = S(k) /\ i < k)) IN
    Upto([n \in DOMAIN order |-> chunks[order[n]]], topK)

\* _fit_chunks and _truncate_history: whole items in order until the next one
\* does not fit.
Cost(items, n, header) == FoldFunctionOnSet(+, 0, [i \in DOMAIN items |-> items[i].tokens + header], 1..n)
Fit(items, budget, header) ==
    Upto(items, CHOOSE n \in 0..Len(items) :
                    /\ Cost(items, n, header) <= budget
                    /\ n < Len(items) => Cost(items, n + 1, header) > budget)
FitChunks(chunks, budget) == Fit(chunks, budget, 1)
TruncateHistory(messages, budget) == Reverse(Fit(Reverse(messages), budget, 0))

Citations_Last(included) ==
    {included[i] : i \in {n \in DOMAIN included :
                             \A m \in n + 1..Len(included) : included[m].source # included[n].source}}
\* build_citations: the first chunk of every source
Citations(included) ==
    {included[i] : i \in {n \in DOMAIN included :
                             \A m \in 1..n - 1 : included[m].source # included[n].source}}

AnswersGiven(chunks, q) ==
    {FitChunks(Rerank(found, q.client, q.household, q.kept), q.budget) :
        found \in Retrieve(chunks, q.scope, q.found)}

\* "uses the highest-scoring one": a citation stands for the best chunk of its source.
CitationIsBest(chunks, q) ==
    \A included \in AnswersGiven(chunks, q) : \A c \in Citations(included), o \in Range(included) :
        o.source = c.source =>
            Score(o, q.client, q.household) <= Score(c, q.client, q.household)
==============================================================================
