------------------------------ MODULE PieceProofs ------------------------------
(***************************************************************************)
(* Theorems about what is asked of the sidecar once, for any inputs: the   *)
(* citations of an answer, the chunks of a document, the vectors of a      *)
(* batch, the transcript of a recording; and about how a portfolio is cut  *)
(* into weights.                                                           *)
(***************************************************************************)
EXTENDS Calculators, FoldProofs

------------------------------------------------------------------------------
(* Questions to the RAG index *)

LEMMA CostsTaken ==
  ASSUME NEW u, NEW S
  PROVE  Query!FoldFunctionOnSet(+, 0, u, S) = SumOf(u, S)
  BY DEF Query!FoldFunctionOnSet, Query!MapThenFoldSet, SumOf, SumFold

LEMMA QueryCardinality == \A S : Query!Cardinality(S) = Cardinality(S)
  BY DEF Query!Cardinality, Cardinality

\* A chunk as the index stores it, as far as ranking goes.
Chunk(c) == c.near \in Int /\ c.recent \in Int /\ c.tokens \in Nat

LEMMA PrefixOf ==
  ASSUME NEW S, NEW s \in Seq(S), NEW n \in Nat
  PROVE  /\ Query!Upto(s, n) \in Seq(S) /\ Len(Query!Upto(s, n)) <= Len(s)
         /\ \A i \in 1..Len(Query!Upto(s, n)) : i \in 1..Len(s) /\ Query!Upto(s, n)[i] = s[i]
  <1> DEFINE m == IF n < Len(s) THEN n ELSE Len(s)
             t == SubSeq(s, 1, m)
  <1>1. Query!Upto(s, n) = t
    BY DEF Query!Upto
  <1>2. Len(s) \in Nat /\ m \in Nat /\ m <= Len(s)
    OBVIOUS
  <1> HIDE DEF m
  <1>3. t = [i \in 1..m |-> s[i]]
    BY <1>2
  <1>4. t \in Seq(S) /\ Len(t) = m
    BY <1>2, <1>3
  <1>5. \A i \in 1..m : i \in 1..Len(s) /\ t[i] = s[i]
    BY <1>2, <1>3
  <1> QED BY <1>1, <1>2, <1>4, <1>5

LEMMA FoundIn ==
  ASSUME NEW C, IsFiniteSet(C), NEW scope, NEW k \in Nat, NEW r \in Query!Retrieve(C, scope, k)
  PROVE  r \in Seq(C)
  <1> DEFINE S == {c \in C : Query!InScope(c, scope)}
  <1>1. PICK s \in Query!SetToSeqs(S) : r = Query!Upto(s, k)
    BY DEF Query!Retrieve, Query!Rankings
  <1>2. IsFiniteSet(S) /\ S \subseteq C
    BY FS_Subset
  <1> HIDE DEF S
  <1>3. Cardinality(S) \in Nat /\ s \in [1..Cardinality(S) -> S]
    BY <1>2, QueryCardinality, FS_CardinalityType DEF Query!SetToSeqs
  <1>4. s \in Seq(C)
    BY <1>2, <1>3
  <1> QED BY <1>1, <1>4, PrefixOf

LEMMA ScoreIsInt ==
  ASSUME NEW c, Chunk(c), NEW client, NEW home
  PROVE  Query!Score(c, client, home) \in Int
  <1>1. Query!Association(c, client, home) \in Int
    BY DEF Query!Association
  <1> HIDE DEF Query!Association
  <1> QED BY <1>1 DEF Query!Score, Chunk

Outscores(s, client, home, i, k) ==
    \/ Query!Score(s[i], client, home) > Query!Score(s[k], client, home)
    \/ (Query!Score(s[i], client, home) = Query!Score(s[k], client, home) /\ i < k)

LEMMA RerankDescends ==
  ASSUME NEW C, \A c \in C : Chunk(c), NEW s \in Seq(C), NEW client, NEW home, NEW k \in Nat
  PROVE  LET r == Query!Rerank(s, client, home, k) IN
         /\ r \in Seq(C)
         /\ \A i, j \in 1..Len(r) :
                i < j => Query!Score(r[j], client, home) <= Query!Score(r[i], client, home)
  <1> DEFINE n == Len(s)
             D == 1..n
             v == [i \in D |-> Query!Score(s[i], client, home)]
             B == {p \in D \X D : v[p[1]] > v[p[2]] \/ (v[p[1]] = v[p[2]] /\ p[1] < p[2])}
             order == Query!SortBy(DOMAIN s, LAMBDA i, j : Outscores(s, client, home, i, j))
             t == [m \in DOMAIN order |-> s[order[m]]]
  <1>1. n \in Nat /\ DOMAIN s = D /\ IsFiniteSet(D) /\ Cardinality(D) = n
    <2>1. n \in Nat /\ DOMAIN s = D
      OBVIOUS
    <2> HIDE DEF n
    <2> QED BY <2>1, FS_Interval
  <1>2. v \in [D -> Int]
    BY ScoreIsInt
  <1>3. Query!Rerank(s, client, home, k) = Query!Upto(t, k)
    BY DEF Query!Rerank, Outscores
  <1>4. Orders(B, D)
    <2> HIDE DEF v, n
    <2> QED BY <1>1, <1>2, OutscoresOrders
  <1>5. \A x, y \in D : <<y, x>> \in B <=> Outscores(s, client, home, y, x)
    BY DEF Outscores
  <1>6. order = [m \in 1..n |-> CHOOSE x \in D : Query!Cardinality({y \in D : Outscores(s, client, home, y, x)}) = m - 1]
    <2> HIDE DEF Outscores, n
    <2>1. order = [m \in 1..Query!Cardinality(D) |-> CHOOSE x \in D : Query!Cardinality({y \in D : Outscores(s, client, home, y, x)}) = m - 1]
      BY <1>1 DEF Query!SortBy
    <2>2. Query!Cardinality(D) = n
      BY <1>1, QueryCardinality
    <2> HIDE DEF Query!Cardinality, order
    <2> QED BY <2>1, <2>2
  <1> HIDE DEF v, B, order
  <1>7. ASSUME NEW m \in D PROVE order[m] \in D /\ Place(B, D, order[m]) = m - 1
    <2>1. ASSUME NEW x \in D PROVE Place(B, D, x) = Query!Cardinality({y \in D : Outscores(s, client, home, y, x)})
      <3> HIDE DEF Outscores, D
      <3>1. {y \in D : <<y, x>> \in B} = {y \in D : Outscores(s, client, home, y, x)}
        BY <1>5
      <3> QED BY <3>1, QueryCardinality DEF Place
    <2>2. \E x \in D : Place(B, D, x) = m - 1
      <3> HIDE DEF n
      <3>1. m \in 1..Cardinality(D)
        BY <1>1
      <3> QED BY <1>1, <1>4, <3>1, PlacesFilled
    <2> HIDE DEF Outscores, n
    <2>3. order[m] = CHOOSE x \in D : Query!Cardinality({y \in D : Outscores(s, client, home, y, x)}) = m - 1
      BY <1>6
    <2> HIDE DEF Query!Cardinality, D
    <2> QED BY <2>1, <2>2, <2>3
  <1>8. ASSUME NEW i \in D, NEW j \in D, i < j PROVE v[order[j]] <= v[order[i]]
    <2>1. order[i] \in D /\ order[j] \in D /\ Place(B, D, order[i]) = i - 1 /\ Place(B, D, order[j]) = j - 1
      BY <1>7
    <2>2. ~ (Place(B, D, order[j]) < Place(B, D, order[i]))
      <3> HIDE DEF n
      <3> QED BY <1>1, <1>8, <2>1
    <2>3. <<order[j], order[i]>> \notin B
      <3> HIDE DEF D
      <3> QED BY <1>1, <1>4, <2>1, <2>2, PlacesRise
    <2>4. ~ (v[order[j]] > v[order[i]])
      <3> HIDE DEF D
      <3> QED BY <2>1, <2>3 DEF B
    <2> HIDE DEF D
    <2> QED BY <1>2, <2>1, <2>4
  <1>9. t \in Seq(C) /\ Len(t) = n /\ \A i \in D : t[i] = s[order[i]] /\ v[order[i]] = Query!Score(t[i], client, home)
    <2>1. DOMAIN order = D /\ \A i \in D : order[i] \in D
      BY <1>6, <1>7
    <2>2. \A i \in D : s[i] \in C
      OBVIOUS
    <2>3. t = [m \in 1..n |-> s[order[m]]]
      BY <2>1
    <2>4. t \in [1..n -> C]
      <3> HIDE DEF n, t
      <3> QED BY <2>1, <2>2, <2>3
    <2>5. t \in Seq(C) /\ Len(t) = n
      <3> HIDE DEF n, t
      <3> QED BY <1>1, <2>4
    <2>6. \A i \in D : t[i] = s[order[i]]
      BY <2>1
    <2>7. \A i \in D : v[i] = Query!Score(s[i], client, home)
      BY DEF v
    <2> HIDE DEF t, D, n
    <2> QED BY <2>1, <2>5, <2>6, <2>7
  <1> DEFINE r == Query!Upto(t, k)
  <1>10. r \in Seq(C) /\ Len(r) <= n /\ \A i \in 1..Len(r) : i \in D /\ r[i] = t[i]
    <2> HIDE DEF t, n
    <2> QED BY <1>9, PrefixOf
  <1> HIDE DEF t, n, D, r
  <1>11. \A i, j \in 1..Len(r) :
            i < j => Query!Score(r[j], client, home) <= Query!Score(r[i], client, home)
    <2> SUFFICES ASSUME NEW i \in 1..Len(r), NEW j \in 1..Len(r), i < j
                 PROVE  Query!Score(r[j], client, home) <= Query!Score(r[i], client, home)
      OBVIOUS
    <2>1. v[order[j]] <= v[order[i]]
      BY <1>8, <1>10
    <2> QED BY <1>9, <1>10, <2>1
  <1> QED BY <1>3, <1>10, <1>11 DEF r

LEMMA CostIsNat ==
  ASSUME NEW C, \A c \in C : Chunk(c), NEW s \in Seq(C), NEW header \in Nat, NEW n \in 0..Len(s)
  PROVE  Query!Cost(s, n, header) \in Nat /\ Query!Cost(s, 0, header) = 0
  <1> DEFINE u == [i \in DOMAIN s |-> s[i].tokens + header]
  <1>1. IsFiniteSet(1..n) /\ 1..0 = {} /\ \A i \in 1..n : u[i] \in Nat
    <2>1. n \in Int /\ \A i \in 1..n : i \in DOMAIN s /\ s[i] \in C
      OBVIOUS
    <2>2. \A i \in 1..n : u[i] \in Nat
      BY <2>1 DEF Chunk
    <2>3. IsFiniteSet(1..n)
      BY <2>1, FS_Interval
    <2> QED BY <2>2, <2>3
  <1>2. Query!Cost(s, n, header) = SumOf(u, 1..n) /\ Query!Cost(s, 0, header) = SumOf(u, 1..0)
    BY CostsTaken DEF Query!Cost
  <1> HIDE DEF u
  <1> QED BY <1>1, <1>2, SumNat, SumEmpty

\* What is fitted into a budget is the beginning of a list.
LEMMA FitIsPrefix ==
  ASSUME NEW C, \A c \in C : Chunk(c), NEW s \in Seq(C), NEW header \in Nat, NEW budget \in Nat
  PROVE  \E n \in Nat : Query!Fit(s, budget, header) = Query!Upto(s, n)
  <1> DEFINE P(n) == /\ Query!Cost(s, n, header) <= budget
                     /\ n < Len(s) => Query!Cost(s, n + 1, header) > budget
             Over == {n \in 0..Len(s) : Query!Cost(s, n, header) > budget}
  <1>1. Len(s) \in Nat /\ Query!Cost(s, 0, header) = 0 /\ \A n \in 0..Len(s) : Query!Cost(s, n, header) \in Nat
    BY CostIsNat
  <1>2. \E n \in 0..Len(s) : P(n)
    <2>1. CASE Over = {}
      BY <1>1, <2>1
    <2>2. CASE Over # {}
      <3>1. PICK n \in Over : \A m \in Over : n <= m
        <4>1. Over \in SUBSET Nat
          BY <1>1
        <4> HIDE DEF Over
        <4> QED BY <2>2, <4>1, LeastOf
      <3>2. n # 0
        BY <1>1
      <3>3. n - 1 \in 0..Len(s) /\ n - 1 \notin Over /\ (n - 1) + 1 = n
        BY <1>1, <3>1, <3>2
      <3> QED BY <1>1, <3>3
    <2> QED BY <2>1, <2>2
  <1> DEFINE n == CHOOSE n \in 0..Len(s) : P(n)
  <1>3. n \in 0..Len(s)
    BY <1>2
  <1>4. Query!Fit(s, budget, header) = Query!Upto(s, n)
    BY DEF Query!Fit
  <1> HIDE DEF n
  <1> QED BY <1>3, <1>4

\* "uses the highest-scoring one" (build_citations): whatever the chunks, the scope and
\* the numbers that retrieve, rerank_chunks and the token budget cut off at, a citation
\* stands for the best of the chunks of its source that the answer was given.
THEOREM BestIsCited ==
  ASSUME NEW chunks, IsFiniteSet(chunks), \A c \in chunks : Chunk(c),
         NEW q, q.found \in Nat, q.kept \in Nat, q.budget \in Nat
  PROVE  Query!CitationIsBest(chunks, q)
  <1> SUFFICES ASSUME NEW r \in Query!Retrieve(chunks, q.scope, q.found),
                      NEW f, f = Query!FitChunks(Query!Rerank(r, q.client, q.household, q.kept), q.budget),
                      NEW c \in Query!Citations(f), NEW o \in Query!Range(f), o.source = c.source
               PROVE  Query!Score(o, q.client, q.household) <= Query!Score(c, q.client, q.household)
    BY DEF Query!CitationIsBest, Query!AnswersGiven
  <1> DEFINE t == Query!Rerank(r, q.client, q.household, q.kept)
             S(x) == Query!Score(x, q.client, q.household)
  <1>1. /\ t \in Seq(chunks)
        /\ \A i, j \in 1..Len(t) : i < j => S(t[j]) <= S(t[i])
    BY FoundIn, RerankDescends
  <1>2. f = Query!Fit(t, q.budget, 1)
    BY DEF Query!FitChunks
  <1> HIDE DEF t
  <1>3. PICK n \in Nat : f = Query!Upto(t, n)
    <2>1. 1 \in Nat
      OBVIOUS
    <2>2. t \in Seq(chunks)
      BY <1>1
    <2> HIDE DEF S
    <2>3. \E n \in Nat : Query!Fit(t, q.budget, 1) = Query!Upto(t, n)
      BY <2>1, <2>2, FitIsPrefix
    <2> QED BY <1>2, <2>3
  <1>4. f \in Seq(chunks) /\ Len(f) \in Nat /\ DOMAIN f = 1..Len(f)
        /\ \A i \in 1..Len(f) : i \in 1..Len(t) /\ f[i] = t[i]
    BY <1>1, <1>3, PrefixOf
  <1>5. PICK i \in 1..Len(f) : c = f[i] /\ \A m \in 1..i - 1 : f[m].source # f[i].source
    BY <1>4 DEF Query!Citations
  <1>6. PICK j \in 1..Len(f) : o = f[j]
    BY <1>4 DEF Query!Range
  <1>7. i <= j
    BY <1>4, <1>5, <1>6
  <1>8. S(c) \in Int
    BY <1>4, <1>5, ScoreIsInt
  <1>9. CASE i = j
    <2>1. S(o) = S(c)
      BY <1>5, <1>6, <1>9
    <2> HIDE DEF S
    <2> QED BY <1>8, <2>1 DEF S
  <1>10. CASE i < j
    BY <1>1, <1>4, <1>5, <1>6, <1>10
  <1> QED BY <1>4, <1>7, <1>9, <1>10

------------------------------------------------------------------------------
(* Pieces: what is cut up and answered in parts *)

\* chunk_text: wherever a passage of up to a token more than the overlap lies in a text,
\* some window holds it as a whole.
LEMMA PassageIsWhole ==
  ASSUME NEW n \in Nat, NEW size \in Nat, NEW overlap \in 0..size - 1
  PROVE  Query!PassageWhole(n, size, overlap)
  <1> DEFINE st == size - overlap
  <1>1. st \in Nat \ {0} /\ Query!Step(size, overlap) = st /\ size = st + overlap /\ overlap \in Nat
    BY DEF Query!Step
  <1> HIDE DEF st
  <1>2. ASSUME NEW p \in 0..n - 1, NEW q \in p..n - 1, q - p <= overlap
        PROVE  \E k \in DOMAIN Query!ChunkText(n, size, overlap) :
                  /\ Query!ChunkText(n, size, overlap)[k].lo <= p
                  /\ q < Query!ChunkText(n, size, overlap)[k].hi
    <2> DEFINE m == p \div st
               k == m + 1
               c == Query!WindowCount(n, size, overlap)
    <2>1. m \in Nat /\ m * st <= p /\ p < m * st + st /\ m * st \in Nat
      <3>1. p \in Nat
        OBVIOUS
      <3>2. m \in Nat /\ m * st <= p /\ p < m * st + st
        BY <1>1, <3>1, Divides
      <3> HIDE DEF m
      <3>3. st \in Nat
        BY <1>1
      <3> QED BY <3>2, <3>3
    <2>2. k \in 1..c
      <3>1. c = (n + st - 1) \div st /\ n + st - 1 \in Nat
        BY <1>1 DEF Query!WindowCount
      <3>2. k * st <= n + st - 1 /\ k \in Nat
        <4>1. k * st = m * st + st
          BY <1>1, <2>1
        <4> HIDE DEF k, m
        <4> QED BY <1>1, <2>1, <4>1 DEF k
      <3>3. k <= c /\ c \in Nat
        <4> HIDE DEF k, c, m
        <4> QED BY <1>1, <3>1, <3>2, Divides
      <3> HIDE DEF c, m
      <3> QED BY <2>1, <3>2, <3>3
    <2> DEFINE w == Query!ChunkText(n, size, overlap)[k]
    <2> HIDE DEF k, c
    <2>3. k \in DOMAIN Query!ChunkText(n, size, overlap)
      BY <2>2 DEF Query!ChunkText, c
    <2>4. w.lo = (k - 1) * st /\ w.hi = IF (k - 1) * st + size < n THEN (k - 1) * st + size ELSE n
      BY <1>1, <2>2 DEF Query!ChunkText, c
    <2>5. k - 1 = m
      BY <2>1 DEF k
    <2> HIDE DEF m, w
    <2>6. w.lo <= p /\ q < w.hi
      BY <1>1, <1>2, <2>1, <2>4, <2>5
    <2> QED BY <2>3, <2>6 DEF w
  <1> QED BY <1>2 DEF Query!PassageWhole

LEMMA UnionAdds == ASSUME NEW A, NEW r PROVE UNION (A \cup {r}) = (UNION A) \cup r
  <1>1. \A x \in UNION (A \cup {r}) : x \in (UNION A) \cup r
    OBVIOUS
  <1>2. \A x \in (UNION A) \cup r : x \in UNION (A \cup {r})
    <2>1. \A y \in A : y \in A \cup {r}
      OBVIOUS
    <2>2. r \in A \cup {r}
      OBVIOUS
    <2> QED BY <2>1, <2>2
  <1> QED BY <1>1, <1>2

LEMMA RangeOfJoined ==
  ASSUME NEW V, NEW a \in Seq(V), NEW b \in Seq(V)
  PROVE  a \o b \in Seq(V) /\ Query!Range(a \o b) = Query!Range(a) \cup Query!Range(b)
  <1> DEFINE c == a \o b
  <1>1. /\ c \in Seq(V) /\ Len(c) = Len(a) + Len(b)
        /\ \A i \in 1..Len(a) + Len(b) : c[i] = IF i <= Len(a) THEN a[i] ELSE b[i - Len(a)]
    BY ConcatProperties
  <1>2. /\ Len(a) \in Nat /\ Len(b) \in Nat
        /\ DOMAIN c = 1..Len(c) /\ DOMAIN a = 1..Len(a) /\ DOMAIN b = 1..Len(b)
    OBVIOUS
  <1> HIDE DEF c
  <1>3. ASSUME NEW i \in 1..Len(c) PROVE c[i] \in Query!Range(a) \cup Query!Range(b)
    <2>1. CASE i <= Len(a)
      <3>1. i \in 1..Len(a) /\ c[i] = a[i]
        BY <1>1, <1>2, <2>1
      <3> QED BY <1>2, <3>1 DEF Query!Range
    <2>2. CASE ~ (i <= Len(a))
      <3>1. i - Len(a) \in 1..Len(b) /\ c[i] = b[i - Len(a)]
        BY <1>1, <1>2, <2>2
      <3> QED BY <1>2, <3>1 DEF Query!Range
    <2> QED BY <2>1, <2>2
  <1>4. ASSUME NEW i \in 1..Len(a) PROVE a[i] \in Query!Range(c)
    <2>1. i \in 1..Len(c) /\ c[i] = a[i]
      BY <1>1, <1>2
    <2> QED BY <1>2, <2>1 DEF Query!Range
  <1>5. ASSUME NEW i \in 1..Len(b) PROVE b[i] \in Query!Range(c)
    <2> DEFINE j == i + Len(a)
    <2>1. j \in 1..Len(a) + Len(b) /\ ~ (j <= Len(a)) /\ j - Len(a) = i
      BY <1>2
    <2> HIDE DEF j
    <2>2. j \in 1..Len(c) /\ c[j] = b[i]
      BY <1>1, <2>1
    <2> QED BY <1>2, <2>2 DEF Query!Range
  <1>6. Query!Range(c) = Query!Range(a) \cup Query!Range(b)
    BY <1>2, <1>3, <1>4, <1>5 DEF Query!Range
  <1> QED BY <1>1, <1>6 DEF c

\* Joining sequences keeps what is in them, and adds nothing.
LEMMA FlattenIs ==
  ASSUME NEW V, NEW n \in Nat, NEW s \in [1..n -> Seq(V)]
  PROVE  /\ Query!FlattenSeq(s) \in Seq(V)
         /\ Query!Range(Query!FlattenSeq(s)) = UNION {Query!Range(s[i]) : i \in 1..n}
  <1> DEFINE D == 1..n
             Body(h) == [i \in D |-> IF i = 1 THEN s[i] ELSE h[i - 1] \o s[i]]
             Upto(k, h) == \A i \in D : i <= k => h[i] = IF i = 1 THEN s[i] ELSE h[i - 1] \o s[i]
             G == {k \in Nat : \E h \in [D -> Seq(V)] : Upto(k, h)}
             f == CHOOSE h : h = Body(h)
  <1>0. Len(s) = n
    OBVIOUS
  <1>1. 0 \in G
    <2>1. s \in [D -> Seq(V)] /\ Upto(0, s)
      OBVIOUS
    <2> QED BY <2>1
  <1>2. ASSUME NEW k \in G PROVE k + 1 \in G
    <2>1. PICK h \in [D -> Seq(V)] : Upto(k, h)
      OBVIOUS
    <2> DEFINE g == [i \in D |-> IF i <= k \/ i = 1 THEN IF i = 1 THEN s[i] ELSE h[i] ELSE h[i - 1] \o s[i]]
    <2>2. k \in Nat
      OBVIOUS
    <2>3. g \in [D -> Seq(V)]
      <3>1. ASSUME NEW i \in D PROVE g[i] \in Seq(V)
        <4>1. CASE i <= k \/ i = 1
          BY <4>1
        <4>2. CASE ~ (i <= k \/ i = 1)
          <5>1. i - 1 \in D
            BY <4>2
          <5>2. h[i - 1] \in Seq(V) /\ s[i] \in Seq(V)
            BY <5>1
          <5>3. h[i - 1] \o s[i] \in Seq(V)
            BY <5>2
          <5> QED BY <4>2, <5>3
        <4> QED BY <4>1, <4>2
      <3> QED BY <3>1
    <2>4. ASSUME NEW i \in D, i <= k + 1 PROVE g[i] = IF i = 1 THEN s[i] ELSE g[i - 1] \o s[i]
      <3>1. CASE i = 1
        BY <3>1
      <3>2. CASE i # 1
        <4>1. i - 1 \in D /\ i - 1 <= k
          BY <2>2, <2>4, <3>2
        <4>2. g[i - 1] = h[i - 1]
          BY <2>1, <2>2, <4>1
        <4>3. g[i] = h[i - 1] \o s[i]
          BY <2>1, <2>2, <3>2
        <4> QED BY <3>2, <4>2, <4>3
      <3> QED BY <3>1, <3>2
    <2> HIDE DEF g
    <2>5. k + 1 \in Nat /\ Upto(k + 1, g)
      BY <2>2, <2>4
    <2> HIDE DEF Upto
    <2> QED BY <2>3, <2>5
  <1>3. n \in G
    <2> HIDE DEF G
    <2>1. G \in SUBSET Nat
      BY DEF G
    <2>2. G = Nat
      BY <1>1, <1>2, <2>1, FromZeroOn
    <2> QED BY <2>2
  <1>4. PICK h \in [D -> Seq(V)] : Upto(n, h)
    BY <1>3
  <1>5. h = Body(h)
    <2>1. \A i \in D : i <= n
      OBVIOUS
    <2>2. \A i \in D : h[i] = IF i = 1 THEN s[i] ELSE h[i - 1] \o s[i]
      BY <1>4, <2>1
    <2>3. h = [i \in D |-> h[i]]
      OBVIOUS
    <2> HIDE DEF D
    <2> QED BY <2>2, <2>3
  <1>6. f = Body(f)
    BY <1>5
  <1> HIDE DEF f
  <1>7. \A i \in D : f[i] = IF i = 1 THEN s[i] ELSE f[i - 1] \o s[i]
    BY <1>6
  <1> DEFINE Joins(k) == f[k] \in Seq(V) /\ Query!Range(f[k]) = UNION {Query!Range(s[i]) : i \in 1..k}
             J == {k \in Nat : k \in D => Joins(k)}
  <1>8. 0 \in J
    OBVIOUS
  <1>9. ASSUME NEW k \in J PROVE k + 1 \in J
    <2> SUFFICES ASSUME k + 1 \in D PROVE Joins(k + 1)
      OBVIOUS
    <2>0. k \in Nat /\ s[k + 1] \in Seq(V)
      OBVIOUS
    <2>1. CASE k = 0
      <3>1. 1 \in D /\ f[1] = s[1] /\ s[1] \in Seq(V)
        BY <1>7, <2>1
      <3>2. {Query!Range(s[i]) : i \in 1..1} = {Query!Range(s[1])}
        OBVIOUS
      <3>3. Joins(1)
        BY <3>1, <3>2
      <3> HIDE DEF Joins
      <3> QED BY <2>1, <3>3
    <2>2. CASE k # 0
      <3>1. k \in D /\ k + 1 # 1 /\ (k + 1) - 1 = k
        <4>1. k + 1 \in D
          OBVIOUS
        <4> HIDE DEF J, Joins
        <4> QED BY <2>0, <2>2, <4>1
      <3>2. f[k] \in Seq(V) /\ Query!Range(f[k]) = UNION {Query!Range(s[i]) : i \in 1..k}
        BY <3>1
      <3>3. f[k + 1] = f[k] \o s[k + 1]
        BY <1>7, <3>1
      <3>4. f[k + 1] \in Seq(V) /\ Query!Range(f[k + 1]) = Query!Range(f[k]) \cup Query!Range(s[k + 1])
        BY <2>0, <3>2, <3>3, RangeOfJoined
      <3>5. 1..k + 1 = (1..k) \cup {k + 1}
        BY <2>0
      <3> DEFINE A == {Query!Range(s[i]) : i \in 1..k}
      <3>6. {Query!Range(s[i]) : i \in 1..k + 1} = A \cup {Query!Range(s[k + 1])}
        <4> DEFINE K == 1..k
                   L == 1..k + 1
                   R(i) == Query!Range(s[i])
        <4>1. L = K \cup {k + 1}
          BY <3>5
        <4> HIDE DEF K, L, R
        <4>2. {R(i) : i \in L} = {R(i) : i \in K} \cup {R(k + 1)}
          BY <4>1
        <4> QED BY <4>2 DEF K, L, R
      <3>7. UNION {Query!Range(s[i]) : i \in 1..k + 1} = (UNION A) \cup Query!Range(s[k + 1])
        BY <3>6, UnionAdds
      <3> HIDE DEF A
      <3> QED BY <3>2, <3>4, <3>7 DEF A
    <2> QED BY <2>1, <2>2
  <1>10. J = Nat
    <2>1. J \in SUBSET Nat
      OBVIOUS
    <2> HIDE DEF J
    <2> QED BY <1>8, <1>9, <2>1, FromZeroOn
  <1>11. CASE n = 0
    <2>1. Query!FlattenSeq(s) = s /\ s = <<>>
      BY <1>0, <1>11 DEF Query!FlattenSeq
    <2>2. Query!Range(<<>>) = {}
      BY DEF Query!Range
    <2>3. {Query!Range(s[i]) : i \in 1..n} = {}
      BY <1>11
    <2> QED BY <2>1, <2>2, <2>3
  <1>12. CASE n # 0
    <2>1. Query!FlattenSeq(s) = f[n]
      BY <1>0, <1>12 DEF Query!FlattenSeq, f
    <2>2. n \in D
      BY <1>12
    <2>3. n \in J
      <3> HIDE DEF J
      <3> QED BY <1>10
    <2>4. Joins(n)
      <3> HIDE DEF Joins, D
      <3> QED BY <2>2, <2>3
    <2> QED BY <2>1, <2>4
  <1> QED BY <1>11, <1>12

\* The vector of text i, with its index
Vector(texts, i) == [index |-> i, vector |-> texts[i]]
Vectors(texts) == {Vector(texts, i) : i \in 1..Len(texts)}
ByIndex(texts) == {p \in Vectors(texts) \X Vectors(texts) : p[1].index < p[2].index}

LEMMA VectorsInOrder ==
  ASSUME NEW texts \in Seq(Nat), NEW s, Lists(s, Vectors(texts), ByIndex(texts))
  PROVE  \A i \in 1..Len(texts) : i \in DOMAIN s /\ s[i] = Vector(texts, i)
  <1> DEFINE n == Len(texts)
             S == Vectors(texts)
             B == ByIndex(texts)
             f == [i \in 1..n |-> Vector(texts, i)]
  <1>0. n \in Nat
    OBVIOUS
  <1> HIDE DEF n
  <1>1. \A i, j \in 1..n : f[i] = f[j] => i = j
    BY DEF Vector
  <1>2. /\ \A i \in 1..n : f[i] \in S /\ f[i] = Vector(texts, i) /\ f[i].index = i
        /\ \A x \in S : \E i \in 1..n : f[i] = x
    BY DEF Vectors, Vector, n
  <1> HIDE DEF f
  <1>3. IsFiniteSet(S) /\ Cardinality(S) = n
    <2> HIDE DEF S
    <2>1. (\A i \in 1..n : f[i] \in S) /\ \A x \in S : \E i \in 1..n : f[i] = x
      BY <1>2
    <2> QED BY <1>0, <1>1, <2>1, ImageCount
  <1>4. ASSUME NEW k \in 1..n PROVE Place(B, S, f[k]) = k - 1
    <2> DEFINE T == {y \in S : <<y, f[k]>> \in B}
               D == 1..k - 1
    <2>1. k - 1 \in Nat /\ D \subseteq 1..n
      BY <1>0
    <2>2. (\A i \in D : f[i] \in T) /\ \A x \in T : \E i \in D : f[i] = x
      <3>1. \A i \in 1..n : <<f[i], f[k]>> \in B <=> i < k
        BY <1>2 DEF ByIndex
      <3>2. \A i \in 1..n : i < k <=> i \in D
        BY <1>0
      <3> HIDE DEF B, D
      <3> QED BY <1>2, <2>1, <3>1, <3>2
    <2>3. \A i, j \in D : f[i] = f[j] => i = j
      BY <1>1, <2>1
    <2>4. Cardinality(T) = k - 1
      <3> DEFINE m == k - 1
      <3> HIDE DEF T, m
      <3>1. \A i, j \in 1..m : f[i] = f[j] => i = j
        BY <2>3 DEF m
      <3>2. (\A i \in 1..m : f[i] \in T) /\ \A x \in T : \E i \in 1..m : f[i] = x
        BY <2>2 DEF m
      <3>3. Cardinality(T) = m
        BY <2>1, <3>1, <3>2, ImageCount DEF m
      <3> QED BY <3>3 DEF m
    <2> QED BY <2>4 DEF Place
  <1> SUFFICES ASSUME NEW i \in 1..n PROVE i \in DOMAIN s /\ s[i] = Vector(texts, i)
    BY DEF n
  <1>5. s \in Seq(S) /\ Len(s) = n /\ Place(B, S, s[i]) = i - 1
    BY <1>3 DEF Lists
  <1>6. i \in DOMAIN s /\ s[i] \in S
    <2> HIDE DEF S
    <2> QED BY <1>0, <1>5
  <1>7. PICK k \in 1..n : s[i] = f[k]
    BY <1>2, <1>6
  <1>8. k = i
    <2>1. k - 1 = i - 1
      BY <1>4, <1>5, <1>7
    <2> QED BY <2>1, <1>0
  <1> QED BY <1>2, <1>6, <1>7, <1>8

\* Where batch b ends, and a batch: the texts from its offset on.
Ends(texts, size, b) == IF b * size < Len(texts) THEN b * size ELSE Len(texts)
Batches(texts, size) == (Len(texts) + size - 1) \div size

LEMMA BatchIs ==
  ASSUME NEW texts \in Seq(Nat), NEW size \in Nat \ {0}, NEW b \in 1..Batches(texts, size)
  PROVE  LET batch == Query!SplitBatches(texts, size)[b]
             len == Ends(texts, size, b) - (b - 1) * size IN
         /\ batch.offset = (b - 1) * size /\ batch.offset \in Nat
         /\ len \in 1..size /\ batch.offset + len <= Len(texts)
         /\ batch.texts \in Seq(Nat) /\ Len(batch.texts) = len
         /\ \A j \in 1..len : batch.texts[j] = texts[batch.offset + j]
  <1> DEFINE n == Len(texts)
             o == (b - 1) * size
             e == Ends(texts, size, b)
             t == SubSeq(texts, o + 1, e)
  <1>1. n \in Nat /\ n + size - 1 \in Nat
    OBVIOUS
  <1>2. b * size <= n + size - 1 /\ b \in Nat \ {0}
    <2> DEFINE c == Batches(texts, size)
    <2>1. c \in Nat /\ c * size <= n + size - 1
      BY <1>1, Divides DEF Batches
    <2>2. b \in Nat \ {0} /\ b <= c
      BY <2>1
    <2> HIDE DEF c, n
    <2>3. size * b <= size * c
      BY <2>1, <2>2, ProductGrows
    <2>4. size * b = b * size /\ size * c = c * size
      BY <2>1, <2>2
    <2>5. b * size \in Int /\ c * size \in Int
      BY <2>1, <2>2
    <2> QED BY <1>1, <2>1, <2>2, <2>3, <2>4, <2>5
  <1>3. o \in Nat /\ b * size = o + size
    <2>1. PICK d \in Nat : d = b - 1
      BY <1>2
    <2>2. d * size \in Nat /\ (d + 1) * size = d * size + size
      OBVIOUS
    <2>3. b = d + 1
      BY <1>2, <2>1
    <2> QED BY <2>1, <2>2, <2>3
  <1> HIDE DEF o, n
  <1>4. e \in Nat /\ o < e /\ e <= n /\ e - o <= size
    BY <1>1, <1>2, <1>3 DEF Ends, n
  <1> HIDE DEF e
  <1>5. e - o \in 1..size /\ o + (e - o) <= n
    BY <1>1, <1>3, <1>4
  <1>6. t = [j \in 1..e - o |-> texts[o + j]]
    <2>1. \A j \in 1..e - o : o + 1 + j - 1 = o + j
      BY <1>3, <1>4
    <2> QED BY <1>3, <1>4, <2>1
  <1>7. t \in [1..e - o -> Nat]
    <2>1. ASSUME NEW j \in 1..e - o PROVE texts[o + j] \in Nat
      <3>1. o + j \in 1..n
        BY <1>1, <1>3, <1>4
      <3> QED BY <3>1 DEF n
    <2> HIDE DEF t
    <2> QED BY <1>6, <2>1
  <1>8. t \in Seq(Nat) /\ Len(t) = e - o
    <2> DEFINE m == e - o
    <2>1. m \in Nat /\ t \in [1..m -> Nat]
      BY <1>5, <1>7
    <2> HIDE DEF t, m
    <2>2. t \in Seq(Nat) /\ Len(t) = m
      BY <2>1, ListOf
    <2> QED BY <2>2 DEF m
  <1>9. Query!SplitBatches(texts, size)[b] = [offset |-> o, texts |-> t]
    BY DEF Query!SplitBatches, Batches, Ends, o, e
  <1>10. \A j \in 1..e - o : t[j] = texts[o + j]
    BY <1>6
  <1> HIDE DEF t
  <1> QED BY <1>3, <1>5, <1>8, <1>9, <1>10 DEF o, e, n

LEMMA BatchOf ==
  ASSUME NEW texts \in Seq(Nat), NEW size \in Nat \ {0}, NEW i \in 1..Len(texts)
  PROVE  \E b \in 1..Batches(texts, size) :
            \E j \in 1..Ends(texts, size, b) - (b - 1) * size : i = (b - 1) * size + j
  <1> DEFINE n == Len(texts)
             d == (i - 1) \div size
             b == d + 1
             o == d * size
             j == i - o
  <1>1. n \in Nat /\ i \in Nat /\ 1 <= i /\ i <= n
    OBVIOUS
  <1> HIDE DEF n
  <1>2. d \in Nat /\ o <= i - 1 /\ i - 1 < o + size
    <2>1. i - 1 \in Nat
      BY <1>1
    <2> QED BY <2>1, Divides
  <1> HIDE DEF d
  <1>3. o \in Nat /\ b * size = o + size /\ b - 1 = d /\ b \in Nat
    BY <1>2
  <1> HIDE DEF o
  <1>4. b \in 1..Batches(texts, size)
    <2>1. n + size - 1 \in Nat /\ b * size <= n + size - 1
      <3> HIDE DEF b
      <3> QED BY <1>1, <1>2, <1>3
    <2> HIDE DEF b
    <2>2. b <= (n + size - 1) \div size /\ (n + size - 1) \div size \in Nat
      BY <1>3, <2>1, Divides
    <2>3. b >= 1
      BY <1>2 DEF b
    <2> QED BY <1>3, <2>2, <2>3 DEF Batches, n
  <1>5. j \in 1..Ends(texts, size, b) - o
    <2> HIDE DEF b
    <2>1. Ends(texts, size, b) = IF o + size < n THEN o + size ELSE n
      BY <1>3 DEF Ends, n
    <2> QED BY <1>1, <1>2, <1>3, <2>1
  <1>6. (b - 1) * size = o /\ i = o + j
    <2>1. (b - 1) * size = o
      BY <1>3 DEF o
    <2>2. i = o + j
      BY <1>1, <1>3
    <2> QED BY <2>1, <2>2
  <1> HIDE DEF b, j
  <1> QED BY <1>4, <1>5, <1>6

LEMMA AnswerIs ==
  ASSUME NEW texts \in Seq(Nat), NEW size \in Nat \ {0}, NEW b \in 1..Batches(texts, size),
         NEW order, AllOf(order, Len(Query!SplitBatches(texts, size)[b].texts))
  PROVE  LET answer == Query!EmbedBatch(Query!SplitBatches(texts, size)[b], order)
             o == (b - 1) * size IN
         /\ answer \in Seq(Vectors(texts))
         /\ \A j \in 1..Ends(texts, size, b) - o : Vector(texts, o + j) \in Query!Range(answer)
  <1> DEFINE batch == Query!SplitBatches(texts, size)[b]
             o == (b - 1) * size
             n == Ends(texts, size, b) - o
             answer == Query!EmbedBatch(batch, order)
  <1>1. /\ batch.offset = o /\ o \in Nat /\ n \in Nat /\ o + n <= Len(texts)
        /\ Len(batch.texts) = n /\ \A j \in 1..n : batch.texts[j] = texts[o + j]
    <2>1. /\ batch.offset = o /\ batch.offset \in Nat /\ n \in 1..size /\ batch.offset + n <= Len(texts)
          /\ Len(batch.texts) = n /\ \A j \in 1..n : batch.texts[j] = texts[batch.offset + j]
      BY BatchIs
    <2> HIDE DEF batch, o, n
    <2> QED BY <2>1
  <1>2. order \in [1..n -> 1..n] /\ \A i \in 1..n : \E j \in 1..n : order[j] = i
    BY <1>1 DEF AllOf
  <1> HIDE DEF batch, o, n
  <1>3. answer = [i \in 1..n |-> Vector(texts, o + order[i])]
    <2>1. answer = [i \in 1..n |-> [index |-> o + order[i], vector |-> batch.texts[order[i]]]]
      BY <1>1 DEF Query!EmbedBatch
    <2>2. \A i \in 1..n : batch.texts[order[i]] = texts[o + order[i]]
      BY <1>1, <1>2
    <2> QED BY <2>1, <2>2 DEF Vector
  <1>4. answer \in Seq(Vectors(texts))
    <2>1. ASSUME NEW i \in 1..n PROVE Vector(texts, o + order[i]) \in Vectors(texts)
      <3>1. o + order[i] \in 1..Len(texts)
        <4>1. order[i] \in 1..n
          BY <1>2
        <4> DEFINE k == order[i]
        <4>2. k \in Nat /\ 1 <= k /\ k <= n
          BY <1>1, <4>1
        <4>3. Len(texts) \in Nat
          OBVIOUS
        <4> HIDE DEF k
        <4>4. o + k \in 1..Len(texts)
          BY <1>1, <4>2, <4>3
        <4> QED BY <4>4 DEF k
      <3> QED BY <3>1 DEF Vectors
    <2> HIDE DEF answer
    <2>2. answer \in [1..n -> Vectors(texts)]
      BY <1>3, <2>1
    <2> QED BY <1>1, <2>2, ListOf
  <1>5. ASSUME NEW j \in 1..n PROVE Vector(texts, o + j) \in Query!Range(answer)
    <2>1. PICK i \in 1..n : order[i] = j
      BY <1>2
    <2> HIDE DEF answer
    <2>2. i \in DOMAIN answer /\ answer[i] = Vector(texts, o + j)
      BY <1>3, <2>1
    <2> QED BY <2>2 DEF Query!Range
  <1> HIDE DEF answer
  <1> QED BY <1>4, <1>5 DEF answer, batch, o, n

\* embed_texts: in whatever order the service lists the answers to a batch, and however
\* large the batches are, a text has its own vector.
LEMMA EmbeddedAligned ==
  ASSUME NEW texts \in Seq(Nat), NEW size \in Nat \ {0}, NEW orders,
         \A b \in DOMAIN Query!SplitBatches(texts, size) :
             AllOf(orders[b], Len(Query!SplitBatches(texts, size)[b].texts))
  PROVE  Query!EmbedAligned(texts, size, orders)
  <1> DEFINE nb == Batches(texts, size)
             S == Vectors(texts)
             B == ByIndex(texts)
             answers == [b \in 1..nb |-> Query!EmbedBatch(Query!SplitBatches(texts, size)[b], orders[b])]
             all == Query!Range(Query!FlattenSeq(answers))
             s == Query!EmbedTexts(texts, size, orders)
  <1>1. nb \in Nat /\ DOMAIN Query!SplitBatches(texts, size) = 1..nb
    <2>1. Len(texts) + size - 1 \in Nat
      OBVIOUS
    <2>2. nb \in Nat
      BY <2>1, Divides DEF Batches
    <2> QED BY <2>2 DEF Query!SplitBatches, Batches
  <1> HIDE DEF nb
  <1>2. ASSUME NEW b \in 1..nb
        PROVE  /\ answers[b] \in Seq(S)
               /\ \A j \in 1..Ends(texts, size, b) - (b - 1) * size :
                      Vector(texts, (b - 1) * size + j) \in Query!Range(answers[b])
    <2>1. AllOf(orders[b], Len(Query!SplitBatches(texts, size)[b].texts))
      BY <1>1
    <2> QED BY <2>1, AnswerIs DEF nb
  <1>3. answers \in [1..nb -> Seq(S)]
    BY <1>2
  <1>4. s = [n \in 1..Query!Cardinality(all) |->
                CHOOSE x \in all : Query!Cardinality({y \in all : y.index < x.index}) = n - 1]
    BY <1>1 DEF Query!EmbedTexts, Query!SortBy
  <1> HIDE DEF answers, s
  <1>5. all = S
    <2>1. Query!FlattenSeq(answers) \in Seq(S) /\ all = UNION {Query!Range(answers[b]) : b \in 1..nb}
      BY <1>1, <1>3, FlattenIs
    <2>2. all \subseteq S
      BY <2>1 DEF Query!Range
    <2>3. ASSUME NEW i \in 1..Len(texts) PROVE Vector(texts, i) \in all
      <3>1. PICK b \in 1..nb : \E j \in 1..Ends(texts, size, b) - (b - 1) * size : i = (b - 1) * size + j
        BY BatchOf DEF nb
      <3>2. Vector(texts, i) \in Query!Range(answers[b])
        BY <1>2, <3>1
      <3> HIDE DEF all
      <3> QED BY <2>1, <3>2
    <2> HIDE DEF all
    <2> QED BY <2>2, <2>3 DEF Vectors
  <1> HIDE DEF all
  <1>6. s = [n \in 1..Cardinality(S) |-> CHOOSE x \in S : Place(B, S, x) = n - 1]
    <2>1. ASSUME NEW x \in S PROVE Query!Cardinality({y \in S : y.index < x.index}) = Place(B, S, x)
      <3>1. {y \in S : y.index < x.index} = {y \in S : <<y, x>> \in B}
        BY DEF ByIndex
      <3> QED BY <3>1, QueryCardinality DEF Place
    <2>2. Query!Cardinality(S) = Cardinality(S)
      BY QueryCardinality
    <2> HIDE DEF S, B, Query!Cardinality
    <2> QED BY <1>4, <1>5, <2>1, <2>2
  <1>7. Orders(B, S)
    <2>1. \A x \in S : x.index \in Int /\ x = Vector(texts, x.index)
      BY DEF Vectors, Vector
    <2>2. \A x, y \in S : <<x, y>> \in B <=> x.index < y.index
      BY DEF ByIndex
    <2> HIDE DEF S, B
    <2>3. \A x, y \in S : x # y => x.index # y.index
      BY <2>1
    <2> QED BY <2>1, <2>2, <2>3 DEF Orders
  <1>8. IsFiniteSet(S)
    <2> DEFINE n == Len(texts)
               f == [i \in 1..n |-> Vector(texts, i)]
    <2>1. n \in Nat /\ \A i, j \in 1..n : f[i] = f[j] => i = j
      BY DEF Vector
    <2>2. (\A i \in 1..n : f[i] \in S) /\ \A x \in S : \E i \in 1..n : f[i] = x
      BY DEF Vectors
    <2> HIDE DEF S, f, n
    <2> QED BY <2>1, <2>2, ImageCount
  <1>9. Lists(s, S, B)
    <2> HIDE DEF S, B
    <2> QED BY <1>6, <1>7, <1>8, SortedLists
  <1>10. \A i \in 1..Len(texts) : i \in DOMAIN s /\ s[i] = Vector(texts, i)
    BY <1>9, VectorsInOrder
  <1>11. \A i \in DOMAIN texts : s[i].vector = texts[i]
    <2>1. DOMAIN texts = 1..Len(texts)
      OBVIOUS
    <2>2. \A i \in 1..Len(texts) : s[i].vector = texts[i]
      <3>1. \A i \in 1..Len(texts) : Vector(texts, i).vector = texts[i]
        BY DEF Vector
      <3> QED BY <1>10, <3>1
    <2> QED BY <2>1, <2>2
  <1> QED BY <1>11 DEF Query!EmbedAligned, s

------------------------------------------------------------------------------
(* Recordings *)

\* Where chunk k of a recording starts
Starts(k, st) == (k - 1) * st

LEMMA AudioChunks ==
  ASSUME NEW n \in Nat \ {0}, NEW max \in Nat, NEW overlap \in 0..max - 1
  PROVE  \E c \in 1..n :
            /\ Audio!ChunkAudio(n, max, overlap)
                  = [k \in 1..c |-> [from |-> Starts(k, max - overlap),
                                     to |-> Audio!Least(Starts(k, max - overlap) + max, n)]]
            /\ Starts(c, max - overlap) + max >= n
            /\ \A k \in 1..c : Starts(k, max - overlap) \in Nat /\ Starts(k, max - overlap) < n
  <1> DEFINE st == max - overlap
             P(c) == /\ (c - 1) * (max - overlap) + max >= n
                     /\ c > 1 => (c - 2) * (max - overlap) + max < n
             T == {c \in 1..n : (c - 1) * st + max >= n}
             c == CHOOSE c \in 1..n : P(c)
  <1>1. st \in Nat \ {0} /\ st <= max /\ 1 <= max
    OBVIOUS
  <1>2. \E k \in 1..n : P(k)
    <2>1. n \in T
      <3> DEFINE d == n - 1
      <3>1. d \in Nat /\ n = d + 1
        OBVIOUS
      <3> HIDE DEF d, st
      <3>2. d * 1 <= d * st
        BY <1>1, <3>1, ProductGrows
      <3>3. d * 1 = d /\ d * st \in Nat
        BY <1>1, <3>1
      <3>4. d * st + max >= n
        BY <1>1, <3>1, <3>2, <3>3
      <3> QED BY <3>1, <3>4 DEF d
    <2>2. PICK k \in T : \A m \in T : k <= m
      <3>1. T \subseteq 1..n /\ 1..n \subseteq Nat
        OBVIOUS
      <3> HIDE DEF T
      <3> QED BY <2>1, <3>1, LeastOf
    <2>3. ASSUME k > 1 PROVE (k - 2) * st + max < n
      <3>1. k \in Nat /\ k - 1 \in 1..n /\ k - 1 \notin T
        <4>1. k \in 1..n
          OBVIOUS
        <4>2. k - 1 \in 1..n /\ ~ (k <= k - 1)
          BY <4>1, <2>3
        <4> HIDE DEF T
        <4> QED BY <2>2, <4>1, <4>2
      <3>2. ~ ((k - 1 - 1) * st + max >= n)
        BY <3>1
      <3>3. k - 1 - 1 = k - 2 /\ (k - 2) * st \in Int
        BY <3>1, <1>1
      <3> HIDE DEF st
      <3> QED BY <3>2, <3>3
    <2>4. k \in 1..n /\ (k - 1) * st + max >= n
      OBVIOUS
    <2> QED BY <2>3, <2>4
  <1>3. c \in 1..n /\ P(c)
    BY <1>2
  <1>4. Audio!ChunkAudio(n, max, overlap)
           = [k \in 1..c |-> [from |-> Starts(k, st), to |-> Audio!Least(Starts(k, st) + max, n)]]
    BY DEF Audio!ChunkAudio, Starts
  <1>5. (c - 1) * st + max >= n /\ (c > 1 => (c - 2) * st + max < n)
    BY <1>3
  <1> HIDE DEF c, st
  <1>6. ASSUME NEW k \in 1..c PROVE (k - 1) * st \in Nat /\ (k - 1) * st < n
    <2>1. k - 1 \in Nat /\ k - 1 <= c - 1 /\ c - 1 \in Nat
      BY <1>3
    <2>2. (k - 1) * st \in Nat
      BY <1>1, <2>1
    <2>3. CASE c = 1
      <3>1. k - 1 = 0
        BY <2>1, <2>3
      <3>2. (k - 1) * st = 0
        BY <1>1, <3>1
      <3> QED BY <2>2, <3>2
    <2>4. CASE c # 1
      <3> DEFINE d == c - 2
                 a == k - 1
      <3>1. d \in Nat /\ a <= d + 1 /\ a \in Nat /\ d * st + max < n
        BY <1>3, <1>5, <2>1, <2>4
      <3> HIDE DEF d, a
      <3>2. st * a <= st * (d + 1)
        BY <1>1, <3>1, ProductGrows
      <3>3. st * a = a * st /\ st * (d + 1) = d * st + st /\ d * st \in Nat /\ a * st \in Nat
        BY <1>1, <3>1
      <3>4. a * st < n
        BY <1>1, <3>1, <3>2, <3>3
      <3> QED BY <3>3, <3>4 DEF a
    <2> QED BY <2>3, <2>4
  <1> QED BY <1>3, <1>4, <1>5, <1>6 DEF Starts, st

\* What is no longer than the overlap lies in a chunk as a whole.
LEMMA ChunkHolds ==
  ASSUME NEW n \in Nat \ {0}, NEW max \in Nat, NEW overlap \in 0..max - 1,
         NEW from \in 0..n, NEW to \in 0..n, from < to, to - from <= overlap
  PROVE  \E k \in DOMAIN Audio!ChunkAudio(n, max, overlap) :
            LET chunk == Audio!ChunkAudio(n, max, overlap)[k] IN chunk.from <= from /\ to <= chunk.to
  <1> DEFINE st == max - overlap
             m == from \div st
             chunks == Audio!ChunkAudio(n, max, overlap)
             Holds(k) == chunks[k].from <= from /\ to <= chunks[k].to
  <1>1. st \in Nat \ {0} /\ st + overlap = max /\ max \in Nat /\ overlap \in Nat
    OBVIOUS
  <1>2. from \in Nat /\ to \in Nat /\ to <= n
    OBVIOUS
  <1>3. PICK c \in 1..n :
            /\ chunks = [k \in 1..c |-> [from |-> Starts(k, st), to |-> Audio!Least(Starts(k, st) + max, n)]]
            /\ Starts(c, st) + max >= n
            /\ \A k \in 1..c : Starts(k, st) \in Nat /\ Starts(k, st) < n
    BY AudioChunks
  <1>4. m \in Nat /\ m * st <= from /\ from < m * st + st
    <2> HIDE DEF st
    <2> QED BY <1>1, <1>2, Divides
  <1> HIDE DEF st, m, chunks
  <1>5. m * st \in Nat
    BY <1>1, <1>4
  <1>6. \A k \in 1..c : chunks[k].from = Starts(k, st)
                        /\ chunks[k].to = IF Starts(k, st) + max < n THEN Starts(k, st) + max ELSE n
    BY <1>3 DEF Audio!Least
  <1>7. CASE m + 1 <= c
    <2> DEFINE k == m + 1
    <2>1. k \in 1..c /\ k - 1 = m
      BY <1>4, <1>7
    <2> HIDE DEF k
    <2>2. Starts(k, st) = m * st
      BY <2>1 DEF Starts
    <2>3. Holds(k)
      BY <1>1, <1>2, <1>4, <1>5, <1>6, <2>1, <2>2
    <2>4. k \in DOMAIN chunks
      BY <1>3, <2>1
    <2> QED BY <2>3, <2>4 DEF chunks
  <1>8. CASE ~ (m + 1 <= c)
    <2>1. c \in 1..c /\ c - 1 \in Nat /\ c - 1 <= m
      BY <1>4, <1>8
    <2> DEFINE d == c - 1
    <2>2. d \in Nat /\ d <= m
      BY <2>1
    <2> HIDE DEF d
    <2>3. st * d <= st * m /\ st * d = d * st /\ st * m = m * st
      BY <1>1, <1>4, <2>2, ProductGrows
    <2>4. Starts(c, st) = d * st /\ d * st \in Nat
      BY <1>1, <2>2 DEF Starts, d
    <2>5. Starts(c, st) <= from
      BY <1>2, <1>4, <1>5, <2>3, <2>4
    <2>6. Holds(c)
      BY <1>1, <1>2, <1>3, <1>6, <2>1, <2>4, <2>5
    <2>7. c \in DOMAIN chunks
      BY <1>3, <2>1
    <2> QED BY <2>6, <2>7 DEF chunks
  <1> QED BY <1>7, <1>8


Span == [from : Int, to : Int]
Seg == [from : Int, to : Int, text : Int]
Speech(speech) ==
    /\ IsFiniteSet(speech) /\ speech \subseteq Span
    /\ \A u \in speech : u.from < u.to
    /\ \A u, v \in speech : u # v => u.to <= v.from \/ v.to <= u.from
\* Nothing else is said while u is.
Apart(u, speech) ==
    /\ u \in Span /\ u.from < u.to
    /\ \A v \in speech : v # u => u.to <= v.from \/ v.to <= u.from

\* A segment that is over before u, begins after it, or is a part of it.
PartOf(x, u) ==
    /\ u.from <= x.from /\ x.from < x.to /\ x.to <= u.to /\ x.text <= u.to - u.from
    /\ x.text = u.to - u.from => x = Audio!Said(u)
Fits(x, u) ==
    /\ x.from <= x.to
    /\ \/ x.from < u.from /\ x.to <= u.from
       \/ u.to <= x.from
       \/ PartOf(x, u)
Fitting(u) == {x \in Seg : Fits(x, u)}

LEMMA AudioCardinality == \A S : Audio!Cardinality(S) = Cardinality(S)
  BY DEF Audio!Cardinality, Cardinality

LEMMA ChunksAre ==
  ASSUME NEW n \in Nat \ {0}, NEW max \in Nat, NEW overlap \in 0..max - 1,
         NEW chunks, chunks = Audio!ChunkAudio(n, max, overlap)
  PROVE  \E c \in 1..n : /\ DOMAIN chunks = 1..c
                         /\ \A k \in 1..c : /\ chunks[k] \in Span /\ chunks[k].from < chunks[k].to
                                            /\ chunks[k].to <= n
  <1> DEFINE st == max - overlap
  <1>1. PICK c \in 1..n :
            /\ chunks = [k \in 1..c |-> [from |-> Starts(k, st), to |-> Audio!Least(Starts(k, st) + max, n)]]
            /\ \A k \in 1..c : Starts(k, st) \in Nat /\ Starts(k, st) < n
    BY AudioChunks
  <1> HIDE DEF st
  <1>2. ASSUME NEW k \in 1..c
        PROVE  chunks[k] \in Span /\ chunks[k].from < chunks[k].to /\ chunks[k].to <= n
    <2> DEFINE a == Starts(k, st)
               b == Audio!Least(a + max, n)
    <2>1. a \in Nat /\ a < n /\ max \in Nat \ {0} /\ n \in Nat
      BY <1>1
    <2> HIDE DEF a
    <2>2. b \in Int /\ a < b /\ b <= n
      BY <2>1 DEF Audio!Least
    <2>3. chunks[k] = [from |-> a, to |-> b]
      BY <1>1 DEF a
    <2> HIDE DEF b
    <2> QED BY <2>1, <2>2, <2>3 DEF Span
  <1> QED BY <1>1, <1>2

Cut(u, chunk) ==
    Audio!Said([from |-> Audio!Most(u.from, chunk.from), to |-> Audio!Least(u.to, chunk.to)])
Heard(speech, chunk) == {Cut(u, chunk) : u \in {v \in speech : Audio!Reaches(v, chunk)}}

LEMMA CutIs ==
  ASSUME NEW u \in Span, NEW chunk \in Span, u.from < u.to, chunk.from < chunk.to
  PROVE  /\ Audio!Reaches(u, chunk) =>
                /\ Cut(u, chunk) \in Seg /\ PartOf(Cut(u, chunk), u)
                /\ u.from <= Cut(u, chunk).from /\ Cut(u, chunk).from < Cut(u, chunk).to
                /\ Cut(u, chunk).to <= u.to
         /\ chunk.from <= u.from /\ u.to <= chunk.to =>
                Audio!Reaches(u, chunk) /\ Cut(u, chunk) = Audio!Said(u)
  <1>1. u.from \in Int /\ u.to \in Int /\ chunk.from \in Int /\ chunk.to \in Int
    BY DEF Span
  <1> DEFINE x == Audio!Most(u.from, chunk.from)
             y == Audio!Least(u.to, chunk.to)
  <1>2. x = IF u.from > chunk.from THEN u.from ELSE chunk.from
    BY DEF Audio!Most
  <1>3. y = IF u.to < chunk.to THEN u.to ELSE chunk.to
    BY DEF Audio!Least
  <1> HIDE DEF x, y
  <1>4. Audio!Reaches(u, chunk) => /\ x \in Int /\ y \in Int /\ u.from <= x /\ x < y /\ y <= u.to
                                   /\ y - x \in Int /\ y - x <= u.to - u.from
                                   /\ y - x = u.to - u.from => x = u.from /\ y = u.to
    BY <1>1, <1>2, <1>3 DEF Audio!Reaches
  <1>5. chunk.from <= u.from /\ u.to <= chunk.to => Audio!Reaches(u, chunk) /\ x = u.from /\ y = u.to
    BY <1>1, <1>2, <1>3 DEF Audio!Reaches
  <1>6. Cut(u, chunk) = [from |-> x, to |-> y, text |-> y - x]
    BY DEF Cut, Audio!Said, x, y
  <1>7. Audio!Said(u) = [from |-> u.from, to |-> u.to, text |-> u.to - u.from]
    BY DEF Audio!Said
  <1>8. Audio!Reaches(u, chunk) =>
           /\ Cut(u, chunk) \in Seg /\ PartOf(Cut(u, chunk), u)
           /\ u.from <= Cut(u, chunk).from /\ Cut(u, chunk).from < Cut(u, chunk).to
           /\ Cut(u, chunk).to <= u.to
    BY <1>4, <1>6, <1>7 DEF Seg, PartOf
  <1> QED BY <1>5, <1>6, <1>7, <1>8

\* What the service hears of a chunk, in utterances or as one text, fits any utterance that
\* the chunk does not reach, or that was heard as such; whatever the chunk holds is there
\* as a whole.
LEMMA HeardIs ==
  ASSUME NEW speech, Speech(speech), NEW u, Apart(u, speech),
         NEW chunk \in Span, chunk.from < chunk.to,
         NEW answer \in [split : BOOLEAN, dated : BOOLEAN, text : Nat],
         Audio!Reaches(u, chunk) => answer.split
  PROVE  /\ Audio!Transcribe(chunk, speech, answer) \in Seq(Fitting(u))
         /\ u \in speech /\ chunk.from <= u.from /\ u.to <= chunk.to
                => Audio!Said(u) \in Query!Range(Audio!Transcribe(chunk, speech, answer))
  <1> DEFINE U == {v \in speech : Audio!Reaches(v, chunk)}
             H == Heard(speech, chunk)
             B == {p \in H \X H : p[1].from < p[2].from}
             s == Audio!SortBy(H, LAMBDA x, y : x.from < y.from)
             all == Audio!Transcribe(chunk, speech, answer)
             whole == [from |-> chunk.from, to |-> IF answer.dated THEN chunk.to ELSE chunk.from,
                       text |-> answer.text]
  <1>0. all = IF answer.split THEN s ELSE IF answer.text = 0 THEN <<>> ELSE <<whole>>
    BY DEF Audio!Transcribe, Heard, Cut
  <1>1. \A v \in U : /\ v \in speech /\ v \in Span /\ Cut(v, chunk) \in Seg /\ PartOf(Cut(v, chunk), v)
                     /\ v.from <= Cut(v, chunk).from /\ Cut(v, chunk).from < Cut(v, chunk).to
                     /\ Cut(v, chunk).to <= v.to
    BY CutIs DEF Speech
  <1>2. IsFiniteSet(H)
    <2> DEFINE f == [v \in U |-> Cut(v, chunk)]
    <2>1. IsFiniteSet(U)
      BY FS_Subset DEF Speech
    <2>2. f \in Surjection(U, H)
      BY DEF Surjection, Heard
    <2> HIDE DEF f, U, H
    <2> QED BY <2>1, <2>2, FS_Surjection
  <1>3. H \subseteq Fitting(u)
    <2> SUFFICES ASSUME NEW v \in U PROVE Cut(v, chunk) \in Fitting(u)
      BY DEF Heard
    <2> DEFINE x == Cut(v, chunk)
    <2>1. /\ v \in speech /\ v \in Span /\ x \in Seg /\ PartOf(x, v)
          /\ v.from <= x.from /\ x.from < x.to /\ x.to <= v.to
      BY <1>1
    <2> HIDE DEF x, U
    <2>2. ASSUME v = u PROVE x \in Fitting(u)
      <3>1. x.from <= x.to
        BY <2>1 DEF Seg
      <3> QED BY <2>1, <2>2, <3>1 DEF Fitting, Fits
    <2>3. ASSUME v # u PROVE x \in Fitting(u)
      <3>1. u.to <= v.from \/ v.to <= u.from
        BY <2>1, <2>3 DEF Apart
      <3>2. u.from \in Int /\ u.to \in Int /\ v.from \in Int /\ v.to \in Int /\ x.from \in Int /\ x.to \in Int
        BY <2>1 DEF Apart, Span, Seg
      <3>3. x.from <= x.to /\ (u.to <= x.from \/ (x.from < u.from /\ x.to <= u.from))
        BY <2>1, <3>1, <3>2
      <3> QED BY <2>1, <3>3 DEF Fitting, Fits
    <2> QED BY <2>2, <2>3 DEF x
  <1>4. \A x, y \in H : x # y => x.from # y.from
    <2> SUFFICES ASSUME NEW v \in U, NEW w \in U, Cut(v, chunk) # Cut(w, chunk)
                 PROVE  Cut(v, chunk).from # Cut(w, chunk).from
      BY DEF Heard
    <2> DEFINE x == Cut(v, chunk)
               y == Cut(w, chunk)
    <2>1. v # w
      OBVIOUS
    <2>2. /\ v \in speech /\ w \in speech /\ v \in Span /\ w \in Span /\ x \in Seg /\ y \in Seg
          /\ v.from <= x.from /\ x.from < x.to /\ x.to <= v.to
          /\ w.from <= y.from /\ y.from < y.to /\ y.to <= w.to
      BY <1>1
    <2> HIDE DEF x, y, U
    <2>3. v.to <= w.from \/ w.to <= v.from
      BY <2>1, <2>2 DEF Speech
    <2>4. x.from # y.from
      BY <2>2, <2>3 DEF Span, Seg
    <2> QED BY <2>4 DEF x, y
  <1>5. \A x \in H : x.from \in Int
    BY <1>3 DEF Fitting, Seg
  <1>6. Orders(B, H)
    <2>1. \A x, y \in H : <<x, y>> \in B <=> x.from < y.from
      OBVIOUS
    <2> HIDE DEF B, H
    <2> QED BY <1>4, <1>5, <2>1 DEF Orders
  <1>7. s = [n \in 1..Cardinality(H) |-> CHOOSE x \in H : Place(B, H, x) = n - 1]
    <2>1. s = [n \in 1..Audio!Cardinality(H) |->
                  CHOOSE x \in H : Audio!Cardinality({y \in H : y.from < x.from}) = n - 1]
      BY DEF Audio!SortBy
    <2>2. ASSUME NEW x \in H PROVE Audio!Cardinality({y \in H : y.from < x.from}) = Place(B, H, x)
      <3>1. {y \in H : y.from < x.from} = {y \in H : <<y, x>> \in B}
        OBVIOUS
      <3> QED BY <3>1, AudioCardinality DEF Place
    <2>3. Audio!Cardinality(H) = Cardinality(H)
      BY AudioCardinality
    <2> HIDE DEF s, H, B
    <2> QED BY <2>1, <2>2, <2>3
  <1>8. Lists(s, H, B)
    <2> HIDE DEF s, H, B
    <2> QED BY <1>2, <1>6, <1>7, SortedLists
  <1> HIDE DEF s, H, all, whole
  <1>9. s \in Seq(H) /\ \A x \in H : \E i \in 1..Len(s) : s[i] = x
    BY <1>8 DEF Lists
  <1>10. s \in Seq(Fitting(u))
    BY <1>3, <1>9
  <1>11. ASSUME ~ answer.split PROVE whole \in Fitting(u)
    <2>1. ~ Audio!Reaches(u, chunk)
      BY <1>11
    <2>2. u.from \in Int /\ u.to \in Int /\ chunk.from \in Int /\ chunk.to \in Int /\ u.from < u.to
      BY DEF Apart, Span
    <2> DEFINE b == IF answer.dated THEN chunk.to ELSE chunk.from
    <2>3. b \in Int /\ chunk.from <= b /\ b <= chunk.to /\ answer.text \in Int
      BY <2>2
    <2>4. u.from >= chunk.to \/ u.to <= chunk.from
      BY <2>1, <2>2 DEF Audio!Reaches
    <2>5. whole = [from |-> chunk.from, to |-> b, text |-> answer.text]
      BY DEF whole
    <2> HIDE DEF b
    <2>6. (chunk.from < u.from /\ b <= u.from) \/ u.to <= chunk.from
      BY <2>2, <2>3, <2>4
    <2> QED BY <2>2, <2>3, <2>5, <2>6 DEF Fitting, Fits, Seg
  <1>12. all \in Seq(Fitting(u))
    <2> DEFINE P == Fitting(u)
    <2>1. s \in Seq(P) /\ (~ answer.split => whole \in P)
      BY <1>10, <1>11
    <2> HIDE DEF P
    <2>2. <<>> \in Seq(P) /\ (whole \in P => <<whole>> \in Seq(P))
      OBVIOUS
    <2>3. all \in Seq(P)
      BY <1>0, <2>1, <2>2
    <2> QED BY <2>3 DEF P
  <1>13. ASSUME u \in speech, chunk.from <= u.from, u.to <= chunk.to
         PROVE  Audio!Said(u) \in Query!Range(all)
    <2>1. u \in Span /\ u.from < u.to
      BY DEF Apart
    <2>2. Audio!Reaches(u, chunk) /\ Cut(u, chunk) = Audio!Said(u)
      BY <1>13, <2>1, CutIs
    <2>3. Audio!Said(u) \in H
      BY <1>13, <2>2 DEF H, Heard
    <2>4. all = s /\ DOMAIN s = 1..Len(s)
      BY <1>0, <1>9, <2>2
    <2> QED BY <1>9, <2>3, <2>4 DEF Query!Range
  <1> QED BY <1>12, <1>13 DEF all

Joined(segments, kept, i) ==
    LET s == segments[i] IN
    IF kept = <<>> \/ s.from >= Audio!Last(kept).to THEN Append(kept, s)
    ELSE IF s.text > Audio!Last(kept).text THEN Append(Audio!Front(kept), s)
    ELSE kept

LEMMA FrontIs ==
  ASSUME NEW P, NEW s \in Seq(P), s # <<>>
  PROVE  /\ Audio!Front(s) \in Seq(P) /\ Len(s) \in Nat \ {0} /\ Len(Audio!Front(s)) = Len(s) - 1
         /\ \A i \in 1..Len(s) - 1 : Audio!Front(s)[i] = s[i]
         /\ Audio!Last(s) = s[Len(s)] /\ Audio!Last(s) \in P
  <1> DEFINE n == Len(s)
             m == n - 1
             t == SubSeq(s, 1, m)
  <1>1. n \in Nat \ {0} /\ \A i \in 1..n : s[i] \in P
    OBVIOUS
  <1>2. m \in Nat /\ m <= n
    BY <1>1
  <1> HIDE DEF m
  <1>3. t = [i \in 1..m |-> s[i]]
    BY <1>2
  <1>4. t \in Seq(P) /\ Len(t) = m
    <2> HIDE DEF t
    <2>1. t \in [1..m -> P]
      BY <1>1, <1>2, <1>3
    <2> QED BY <1>2, <2>1, ListOf
  <1>5. \A i \in 1..m : t[i] = s[i]
    BY <1>3
  <1>6. Audio!Front(s) = t
    BY DEF Audio!Front, m
  <1>7. Audio!Last(s) = s[n] /\ s[n] \in P
    BY <1>1 DEF Audio!Last
  <1> HIDE DEF t
  <1> QED BY <1>1, <1>4, <1>5, <1>6, <1>7 DEF m

LEMMA JoinedIn ==
  ASSUME NEW P, NEW segments \in Seq(P), NEW kept \in Seq(P), NEW i \in 1..Len(segments)
  PROVE  Joined(segments, kept, i) \in Seq(P)
  <1>1. segments[i] \in P
    OBVIOUS
  <1>2. Append(kept, segments[i]) \in Seq(P)
    BY <1>1
  <1>3. CASE kept = <<>> \/ segments[i].from >= Audio!Last(kept).to
    BY <1>2, <1>3 DEF Joined
  <1>4. CASE ~ (kept = <<>> \/ segments[i].from >= Audio!Last(kept).to)
    <2>1. Audio!Front(kept) \in Seq(P)
      BY <1>4, FrontIs
    <2>2. Append(Audio!Front(kept), segments[i]) \in Seq(P)
      BY <1>1, <2>1
    <2> QED BY <1>4, <2>2 DEF Joined
  <1> QED BY <1>3, <1>4

JoinFold(segments, order) ==
    CHOOSE g : g = [s \in SUBSET DOMAIN order |->
                       IF s = {} THEN <<>>
                       ELSE LET x == Audio!Max(s) IN Joined(segments, g[s \ {x}], order[x])]

\* Dedup's fold goes through the segments one by one.
LEMMA JoinFolds ==
  ASSUME NEW P, NEW segments \in Seq(P), NEW n \in Nat, NEW order \in [1..n -> 1..Len(segments)]
  PROVE  /\ JoinFold(segments, order)[{}] = <<>>
         /\ \A m \in 1..n : JoinFold(segments, order)[1..m]
                               = Joined(segments, JoinFold(segments, order)[1..m - 1], order[m])
  <1> DEFINE D == 1..n
             V == Seq(P)
             pick == [s \in SUBSET D |-> Audio!Max(s)]
             step == [s \in SUBSET D |-> [T \in V |-> Joined(segments, T, order[pick[s]])]]
  <1>1. DOMAIN order = D
    OBVIOUS
  <1>2. IsFiniteSet(D) /\ <<>> \in V
    BY FS_Interval
  <1>3. ASSUME NEW s \in SUBSET D, s # {} PROVE pick[s] \in s /\ pick[s] = Audio!Max(s) /\ pick[s] \in D
    <2>1. \E x \in s : \A y \in s : x >= y
      BY <1>3, GreatestOf
    <2> QED BY <2>1 DEF Audio!Max
  <1>4. \A T \in V, x \in D : Joined(segments, T, order[x]) \in V
    BY JoinedIn
  <1> HIDE DEF V, pick
  <1>5. ASSUME NEW s \in SUBSET D, s # {} PROVE step[s] \in [V -> V]
    <2>1. \A T \in V : Joined(segments, T, order[pick[s]]) \in V
      BY <1>3, <1>4, <1>5
    <2> QED BY <2>1
  <1>6. PICK g : Folded(g, D, <<>>, step, pick)
    <2> DEFINE base == <<>>
    <2>1. base \in V
      BY <1>2
    <2> HIDE DEF D, step, base
    <2>2. \E g : Folded(g, D, base, step, pick)
      BY <1>2, <1>3, <1>5, <2>1, FoldExists
    <2> QED BY <2>2 DEF base
  <1>7. /\ g[{}] = <<>>
        /\ \A s \in SUBSET D : s # {} => g[s] = step[s][g[s \ {pick[s]}]]
    BY <1>6 DEF Folded
  <1> DEFINE Good == {s \in SUBSET D : g[s] \in V}
  <1>8. SUBSET D \subseteq Good
    <2>1. {} \in Good
      BY <1>2, <1>7
    <2>2. ASSUME NEW s \in SUBSET D, s # {}, s \ {pick[s]} \in Good PROVE s \in Good
      <3> DEFINE a == step[s]
      <3>1. a \in [V -> V] /\ g[s] = a[g[s \ {pick[s]}]]
        BY <1>5, <1>7, <2>2
      <3> HIDE DEF a
      <3>2. g[s] \in V
        BY <2>2, <3>1
      <3> QED BY <3>2
    <2> HIDE DEF Good, D
    <2>3. Inductive(Good, D, pick)
      BY <1>3, <2>1, <2>2 DEF Inductive
    <2> QED BY <1>2, <2>3, FoldInduction
  <1>9. \A s \in SUBSET D : s # {} => g[s] = Joined(segments, g[s \ {Audio!Max(s)}], order[Audio!Max(s)])
    BY <1>3, <1>7, <1>8
  <1> DEFINE Body(h) == [s \in SUBSET D |->
                            IF s = {} THEN <<>>
                            ELSE LET x == Audio!Max(s) IN Joined(segments, h[s \ {x}], order[x])]
             f == JoinFold(segments, order)
  <1>10. g = Body(g)
    <2>1. g = [s \in SUBSET D |-> g[s]]
      BY <1>6 DEF Folded
    <2> QED BY <1>7, <1>9, <2>1
  <1>11. f = Body(f)
    BY <1>1, <1>10 DEF JoinFold
  <1> HIDE DEF f
  <1>12. f[{}] = <<>> /\ \A s \in SUBSET D : s # {} => f[s] = Joined(segments, f[s \ {Audio!Max(s)}], order[Audio!Max(s)])
    BY <1>11
  <1>13. ASSUME NEW m \in 1..n PROVE f[1..m] = Joined(segments, f[1..m - 1], order[m])
    <2> DEFINE s == 1..m
    <2>1. s \in SUBSET D /\ s # {} /\ m \in s /\ \A x \in s : x \in Int /\ m >= x
      OBVIOUS
    <2>2. s \ {m} = 1..m - 1
      OBVIOUS
    <2> HIDE DEF s, D
    <2>3. Audio!Max(s) = m
      <3> DEFINE x == Audio!Max(s)
      <3>1. \E y \in s : \A z \in s : y >= z
        BY <2>1
      <3>2. x \in s /\ \A z \in s : x >= z
        BY <3>1 DEF Audio!Max
      <3> HIDE DEF x
      <3>3. x >= m /\ m >= x /\ x \in Int /\ m \in Int
        BY <2>1, <3>2
      <3> QED BY <3>3 DEF x
    <2>4. f[s] = Joined(segments, f[s \ {m}], order[m])
      BY <1>12, <2>1, <2>3
    <2> QED BY <2>2, <2>4 DEF s
  <1> QED BY <1>12, <1>13 DEF f


\* Of two segments in their order that overlap, one may take the other's place, but never
\* that of the utterance u.
LEMMA OverlapKeeps ==
  ASSUME NEW u, u \in Span, u.from < u.to, NEW last \in Fitting(u), NEW s \in Fitting(u),
         last.from <= s.from, s.from < last.to
  PROVE  /\ s.text > last.text => last # Audio!Said(u)
         /\ ~ (s.text > last.text) /\ s = Audio!Said(u) => last = s
  <1>1. /\ u.from \in Int /\ u.to \in Int
        /\ \A x \in {last, s} : x.from \in Int /\ x.to \in Int /\ x.text \in Int /\ Fits(x, u)
    BY DEF Span, Fitting, Seg
  <1>2. /\ Audio!Said(u).from = u.from /\ Audio!Said(u).to = u.to
        /\ Audio!Said(u).text = u.to - u.from
    BY DEF Audio!Said
  <1>3. ASSUME s.text > last.text, last = Audio!Said(u) PROVE FALSE
    <2>1. u.from <= s.from /\ s.from < u.to
      BY <1>2, <1>3
    <2>2. PartOf(s, u)
      BY <1>1, <2>1 DEF Fits
    <2> QED BY <1>1, <1>2, <1>3, <2>2 DEF PartOf
  <1>4. ASSUME ~ (s.text > last.text), s = Audio!Said(u) PROVE last = s
    <2>1. last.from <= u.from /\ u.from < last.to
      BY <1>2, <1>4
    <2>2. PartOf(last, u)
      BY <1>1, <2>1 DEF Fits
    <2>3. last.text <= u.to - u.from /\ last.text >= u.to - u.from
      BY <1>1, <1>2, <1>4, <2>2 DEF PartOf
    <2>4. last.text = u.to - u.from
      BY <1>1, <2>3
    <2> QED BY <1>4, <2>2, <2>4 DEF PartOf
  <1> QED BY <1>3, <1>4

LEMMA AppendIs ==
  ASSUME NEW P, NEW s \in Seq(P), NEW x \in P
  PROVE  /\ Append(s, x) \in Seq(P) /\ Len(Append(s, x)) = Len(s) + 1 /\ Len(s) \in Nat
         /\ \A i \in 1..Len(s) : Append(s, x)[i] = s[i]
         /\ Append(s, x)[Len(s) + 1] = x
  OBVIOUS

\* If u is one of the first m segments in order it is kept, and what is kept does not
\* overlap.
KeptWell(u, segments, order, m, kept) ==
    /\ kept \in Seq(Fitting(u))
    /\ \A i, j \in 1..Len(kept) : i < j => kept[i].to <= kept[j].from
    /\ \A i \in 1..Len(kept) : \E j \in 1..m : kept[i] = segments[order[j]]
    /\ \A j \in 1..m : segments[order[j]] = Audio!Said(u) =>
           \E i \in 1..Len(kept) : kept[i] = segments[order[j]]

\* Adding the next segment to what is kept without the last ones
LEMMA AddKeeps ==
  ASSUME NEW u, NEW segments, NEW order, NEW m \in Nat,
         NEW kept, KeptWell(u, segments, order, m, kept),
         NEW s \in Fitting(u), s = segments[order[m + 1]],
         NEW front \in Seq(Fitting(u)), Len(front) <= Len(kept),
         \A i \in 1..Len(front) : front[i] = kept[i],
         \A i \in 1..Len(front) : front[i].to <= s.from,
         \A i \in 1..Len(kept) : kept[i] = Audio!Said(u) => i \in 1..Len(front)
  PROVE  KeptWell(u, segments, order, m + 1, Append(front, s))
  <1> DEFINE n == Len(front)
             t == Append(front, s)
             P == Fitting(u)
  <1>1. /\ t \in Seq(P) /\ Len(t) = n + 1 /\ n \in Nat
        /\ \A i \in 1..n : t[i] = front[i]
        /\ t[n + 1] = s
    <2>1. front \in Seq(P) /\ s \in P
      OBVIOUS
    <2> HIDE DEF P
    <2> QED BY <2>1, AppendIs
  <1>2. Len(kept) \in Nat /\ n <= Len(kept) /\ \A i \in 1..n : t[i] = kept[i] /\ i \in 1..Len(kept)
    <2>1. Len(kept) \in Nat
      BY DEF KeptWell
    <2> HIDE DEF t
    <2> QED BY <1>1, <2>1
  <1> HIDE DEF t, n, P
  <1>3. ASSUME NEW i \in 1..Len(t), NEW j \in 1..Len(t), i < j PROVE t[i].to <= t[j].from
    <2>1. i \in 1..n
      BY <1>1, <1>3
    <2>2. CASE j = n + 1
      BY <1>1, <2>1, <2>2 DEF n
    <2>3. CASE j # n + 1
      <3>1. j \in 1..n
        BY <1>1, <2>3
      <3> QED BY <1>2, <1>3, <2>1, <3>1 DEF KeptWell
    <2> QED BY <2>2, <2>3
  <1>4. ASSUME NEW i \in 1..Len(t) PROVE \E j \in 1..m + 1 : t[i] = segments[order[j]]
    <2>1. CASE i = n + 1
      <3>1. m + 1 \in 1..m + 1
        OBVIOUS
      <3> QED BY <1>1, <2>1, <3>1
    <2>2. CASE i # n + 1
      <3>1. i \in 1..n
        BY <1>1, <2>2
      <3>2. PICK j \in 1..m : t[i] = segments[order[j]]
        BY <1>2, <3>1 DEF KeptWell
      <3>3. j \in 1..m + 1
        OBVIOUS
      <3> QED BY <3>2, <3>3
    <2> QED BY <2>1, <2>2
  <1>5. ASSUME NEW j \in 1..m + 1, segments[order[j]] = Audio!Said(u)
        PROVE  \E i \in 1..Len(t) : t[i] = segments[order[j]]
    <2>1. CASE j = m + 1
      <3>1. n + 1 \in 1..Len(t)
        BY <1>1
      <3> QED BY <1>1, <2>1, <3>1
    <2>2. CASE j # m + 1
      <3>1. j \in 1..m
        BY <2>2
      <3>2. PICK i \in 1..Len(kept) : kept[i] = segments[order[j]]
        BY <1>5, <3>1 DEF KeptWell
      <3>3. i \in 1..n
        BY <1>5, <3>2 DEF n
      <3>4. i \in 1..Len(t) /\ t[i] = kept[i]
        BY <1>1, <1>2, <3>3
      <3> QED BY <3>2, <3>4
    <2> QED BY <2>1, <2>2
  <1> QED BY <1>1, <1>3, <1>4, <1>5 DEF KeptWell, t, P

LEMMA JoinKeeps ==
  ASSUME NEW u, u \in Span, u.from < u.to, NEW segments \in Seq(Fitting(u)), NEW n \in Nat,
         NEW order \in [1..n -> 1..Len(segments)],
         \A i, j \in 1..n : i < j => segments[order[i]].from <= segments[order[j]].from,
         NEW m \in Nat, m + 1 \in 1..n, NEW kept, KeptWell(u, segments, order, m, kept)
  PROVE  KeptWell(u, segments, order, m + 1, Joined(segments, kept, order[m + 1]))
  <1> DEFINE s == segments[order[m + 1]]
             P == Fitting(u)
             last == Audio!Last(kept)
  <1>0. s \in P /\ kept \in Seq(P) /\ Len(kept) \in Nat
    <2>1. order[m + 1] \in 1..Len(segments)
      OBVIOUS
    <2>2. kept \in Seq(P) /\ segments \in Seq(P)
      BY DEF KeptWell
    <2> HIDE DEF P
    <2> QED BY <2>1, <2>2
  <1>1. \A x \in P : x.from \in Int /\ x.to \in Int /\ x.from <= x.to
    BY DEF Fitting, Seg, Fits
  <1>2. ASSUME kept # <<>>
        PROVE  /\ Len(kept) \in Nat \ {0} /\ last = kept[Len(kept)] /\ last \in P /\ last.from <= s.from
               /\ \A i \in 1..Len(kept) - 1 : kept[i].to <= last.from
    <2>1. Len(kept) \in Nat \ {0} /\ last = kept[Len(kept)] /\ last \in P
      <3> HIDE DEF P
      <3> QED BY <1>0, <1>2, FrontIs
    <2>2. Len(kept) \in 1..Len(kept)
      BY <2>1
    <2>3. PICK j \in 1..m : last = segments[order[j]]
      BY <2>1, <2>2 DEF KeptWell
    <2>4. last.from <= s.from
      <3>1. j \in 1..n /\ j < m + 1
        OBVIOUS
      <3> QED BY <2>3, <3>1
    <2>5. \A i \in 1..Len(kept) - 1 : i \in 1..Len(kept) /\ i < Len(kept)
      BY <2>1
    <2>6. \A i \in 1..Len(kept) - 1 : kept[i].to <= last.from
      BY <2>1, <2>2, <2>5 DEF KeptWell
    <2> QED BY <2>1, <2>4, <2>6
  <1> HIDE DEF s, last
  <1>3. CASE kept = <<>> \/ s.from >= last.to
    <2>1. Joined(segments, kept, order[m + 1]) = Append(kept, s)
      BY <1>3 DEF Joined, s, last
    <2>2. \A i \in 1..Len(kept) : kept[i].to <= s.from
      <3>1. CASE kept = <<>>
        BY <3>1
      <3>2. CASE kept # <<>>
        <4> SUFFICES ASSUME NEW i \in 1..Len(kept) PROVE kept[i].to <= s.from
          OBVIOUS
        <4>1. kept[i] \in P
          <5> HIDE DEF P
          <5> QED BY <1>0
        <4>2. CASE i = Len(kept)
          BY <1>0, <1>1, <1>2, <1>3, <3>2, <4>2
        <4>3. CASE i # Len(kept)
          <5>1. i \in 1..Len(kept) - 1
            BY <1>0, <4>3
          <5>2. kept[i].to <= last.from
            BY <1>2, <3>2, <5>1
          <5>3. kept[i].to \in Int /\ last.from \in Int /\ s.from \in Int
            BY <1>0, <1>1, <1>2, <3>2, <4>1
          <5> QED BY <1>2, <3>2, <5>2, <5>3
        <4> QED BY <4>2, <4>3
      <3> QED BY <3>1, <3>2
    <2>3. KeptWell(u, segments, order, m + 1, Append(kept, s))
      <3> HIDE DEF P
      <3>1. Len(kept) <= Len(kept)
        BY <1>0
      <3> QED BY <1>0, <2>2, <3>1, AddKeeps DEF s, P
    <2> QED BY <2>1, <2>3
  <1>4. CASE ~ (kept = <<>> \/ s.from >= last.to)
    <2>0. kept # <<>> /\ s.from < last.to
      BY <1>0, <1>1, <1>2, <1>4
    <2>1. /\ s.text > last.text => last # Audio!Said(u)
          /\ ~ (s.text > last.text) /\ s = Audio!Said(u) => last = s
      BY <1>0, <1>2, <2>0, OverlapKeeps
    <2>3. CASE s.text > last.text
      <3> DEFINE front == Audio!Front(kept)
      <3>1. Joined(segments, kept, order[m + 1]) = Append(front, s)
        BY <1>4, <2>3 DEF Joined, s, last
      <3>2. /\ front \in Seq(P) /\ Len(front) = Len(kept) - 1 /\ \A i \in 1..Len(kept) - 1 : front[i] = kept[i]
        <4> HIDE DEF P
        <4> QED BY <1>0, <2>0, FrontIs
      <3> HIDE DEF front
      <3>3. last # Audio!Said(u)
        BY <2>1, <2>3
      <3>4. ASSUME NEW i \in 1..Len(front) PROVE front[i].to <= s.from
        <4>1. i \in 1..Len(kept) - 1 /\ i \in 1..Len(kept)
          BY <1>0, <3>2
        <4>2. kept[i] \in P
          <5> HIDE DEF P
          <5> QED BY <1>0, <4>1
        <4>3. kept[i].to <= last.from /\ front[i] = kept[i]
          BY <1>2, <2>0, <3>2, <4>1
        <4>4. kept[i].to \in Int /\ last.from \in Int /\ s.from \in Int
          BY <1>0, <1>1, <1>2, <2>0, <4>2
        <4>5. last.from <= s.from
          BY <1>2, <2>0
        <4> HIDE DEF P
        <4> QED BY <4>3, <4>4, <4>5
      <3>5. ASSUME NEW i \in 1..Len(kept), kept[i] = Audio!Said(u) PROVE i \in 1..Len(front)
        <4>1. i # Len(kept)
          BY <1>2, <2>0, <3>3, <3>5
        <4> QED BY <1>0, <3>2, <4>1
      <3>6. KeptWell(u, segments, order, m + 1, Append(front, s))
        <4>1. Len(front) <= Len(kept)
          BY <1>0, <3>2
        <4>2. \A i \in 1..Len(front) : front[i] = kept[i]
          BY <3>2
        <4> HIDE DEF P
        <4> QED BY <1>0, <3>2, <3>4, <3>5, <4>1, <4>2, AddKeeps DEF s, P
      <3> QED BY <3>1, <3>6
    <2>4. CASE ~ (s.text > last.text)
      <3>1. Joined(segments, kept, order[m + 1]) = kept
        BY <1>4, <2>4 DEF Joined, s, last
      <3>2. s = Audio!Said(u) => s = last
        BY <2>1, <2>4
      <3>3. ASSUME NEW j \in 1..m + 1, segments[order[j]] = Audio!Said(u)
            PROVE  \E i \in 1..Len(kept) : kept[i] = segments[order[j]]
        <4>1. CASE j = m + 1
          <5>1. segments[order[j]] = s
            BY <4>1 DEF s
          <5>2. Len(kept) \in 1..Len(kept) /\ kept[Len(kept)] = s
            BY <1>2, <2>0, <3>2, <3>3, <5>1
          <5> QED BY <5>1, <5>2
        <4>2. CASE j # m + 1
          <5>1. j \in 1..m
            BY <4>2
          <5> QED BY <3>3, <5>1 DEF KeptWell
        <4> QED BY <4>1, <4>2
      <3>4. ASSUME NEW i \in 1..Len(kept) PROVE \E j \in 1..m + 1 : kept[i] = segments[order[j]]
        <4>1. PICK j \in 1..m : kept[i] = segments[order[j]]
          BY DEF KeptWell
        <4>2. j \in 1..m + 1
          OBVIOUS
        <4> QED BY <4>1, <4>2
      <3>5. KeptWell(u, segments, order, m + 1, kept)
        BY <1>0, <3>3, <3>4 DEF KeptWell
      <3> QED BY <3>1, <3>5
    <2> QED BY <2>3, <2>4
  <1> QED BY <1>3, <1>4


Earlier(segments, i, k) ==
    \/ segments[i].from < segments[k].from
    \/ segments[i].from = segments[k].from /\ i < k

InTime(segments) == Audio!SortBy(DOMAIN segments, LAMBDA i, k : Earlier(segments, i, k))

LEMMA SegmentsInOrder ==
  ASSUME NEW u, NEW segments \in Seq(Fitting(u))
  PROVE  LET order == InTime(segments) IN
         /\ order \in [1..Len(segments) -> 1..Len(segments)]
         /\ \A i, j \in 1..Len(segments) : i < j => segments[order[i]].from <= segments[order[j]].from
         /\ \A k \in 1..Len(segments) : \E i \in 1..Len(segments) : order[i] = k
  <1> DEFINE order == InTime(segments)
             n == Len(segments)
             D == 1..n
             B == {p \in D \X D : Earlier(segments, p[1], p[2])}
  <1>1. n \in Nat /\ DOMAIN segments = D /\ \A i \in D : i \in Int /\ segments[i].from \in Int
    <2>1. n \in Nat /\ DOMAIN segments = D /\ \A i \in D : segments[i] \in Fitting(u)
      OBVIOUS
    <2>2. \A x \in Fitting(u) : x.from \in Int
      BY DEF Fitting, Seg
    <2>3. \A i \in D : i \in Int
      OBVIOUS
    <2> HIDE DEF D, n
    <2> QED BY <2>1, <2>2, <2>3
  <1> HIDE DEF n
  <1>2. IsFiniteSet(D) /\ Cardinality(D) = n
    BY <1>1, FS_Interval
  <1>3. \A x, y \in D : <<x, y>> \in B <=> Earlier(segments, x, y)
    OBVIOUS
  <1> HIDE DEF D, B, order
  <1>4. Orders(B, D)
    <2> DEFINE v == [i \in D |-> segments[i].from]
    <2>0. /\ \A x \in D : v[x] \in Int /\ x \in Int
          /\ \A x, y \in D : <<x, y>> \in B <=> v[x] < v[y] \/ (v[x] = v[y] /\ x < y)
      BY <1>1, <1>3 DEF Earlier
    <2> HIDE DEF v
    <2>1. \A x \in D : <<x, x>> \notin B
      BY <2>0
    <2>2. \A x, y \in D : x # y => <<x, y>> \in B \/ <<y, x>> \in B
      BY <2>0
    <2>3. \A x, y, z \in D : <<x, y>> \in B /\ <<y, z>> \in B => <<x, z>> \in B
      BY <2>0
    <2> QED BY <2>1, <2>2, <2>3 DEF Orders
  <1>5. order = [m \in 1..Cardinality(D) |-> CHOOSE x \in D : Place(B, D, x) = m - 1]
    <2> DEFINE C(x) == Audio!Cardinality({y \in D : Earlier(segments, y, x)})
    <2>1. order = [m \in 1..Audio!Cardinality(D) |-> CHOOSE x \in D : C(x) = m - 1]
      BY <1>1 DEF Audio!SortBy, order, InTime
    <2>2. ASSUME NEW x \in D PROVE C(x) = Place(B, D, x)
      <3>1. {y \in D : Earlier(segments, y, x)} = {y \in D : <<y, x>> \in B}
        BY <1>3
      <3> QED BY <3>1, AudioCardinality DEF Place
    <2>3. Audio!Cardinality(D) = Cardinality(D)
      BY AudioCardinality
    <2> HIDE DEF C
    <2>4. order = [m \in 1..Cardinality(D) |-> CHOOSE x \in D : C(x) = m - 1]
      BY <2>1, <2>3
    <2>5. \A m \in 1..Cardinality(D) : order[m] = CHOOSE x \in D : Place(B, D, x) = m - 1
      BY <2>2, <2>4
    <2>6. order = [m \in 1..Cardinality(D) |-> order[m]]
      BY <2>4
    <2> QED BY <2>5, <2>6
  <1>6. Lists(order, D, B)
    BY <1>2, <1>4, <1>5, SortedLists
  <1>7. order \in [D -> D]
    <2>1. order \in Seq(D) /\ Len(order) = n
      BY <1>2, <1>6 DEF Lists
    <2>2. DOMAIN order = 1..n /\ \A i \in 1..n : order[i] \in D
      BY <1>1, <2>1
    <2>3. order = [i \in 1..n |-> order[i]]
      BY <1>5, <1>2
    <2> QED BY <2>2, <2>3 DEF D
  <1>8. ASSUME NEW i \in D, NEW j \in D, i < j PROVE segments[order[i]].from <= segments[order[j]].from
    <2>1. <<order[i], order[j]>> \in B
      BY <1>2, <1>6, <1>8 DEF Lists, D
    <2>2. order[i] \in D /\ order[j] \in D
      BY <1>7
    <2> DEFINE a == order[i]
               b == order[j]
    <2> HIDE DEF a, b
    <2>3. a \in D /\ b \in D /\ Earlier(segments, a, b)
      BY <1>3, <2>1, <2>2 DEF a, b
    <2>4. segments[a].from <= segments[b].from
      BY <1>1, <2>3 DEF Earlier
    <2> QED BY <2>4 DEF a, b
  <1>9. \A k \in D : \E i \in D : order[i] = k
    BY <1>2, <1>6 DEF Lists, D
  <1> QED BY <1>7, <1>8, <1>9 DEF D, n, order

\* Of the segments that the job is given it keeps the utterance u, if the others fit it,
\* and what it keeps does not overlap.
LEMMA DedupKeeps ==
  ASSUME NEW u, u \in Span, u.from < u.to, NEW segments \in Seq(Fitting(u)),
         NEW kept, kept = Audio!Dedup(segments)
  PROVE  /\ kept \in Seq(Fitting(u))
         /\ \A i, j \in 1..Len(kept) : i < j => kept[i].to <= kept[j].from
         /\ Audio!Said(u) \in Query!Range(segments) => \E i \in 1..Len(kept) : kept[i] = Audio!Said(u)
  <1> DEFINE n == Len(segments)
             D == 1..n
             order == InTime(segments)
             f == JoinFold(segments, order)
  <1>1. /\ order \in [D -> D]
        /\ \A i, j \in D : i < j => segments[order[i]].from <= segments[order[j]].from
        /\ \A k \in D : \E i \in D : order[i] = k
    BY SegmentsInOrder
  <1>2. kept = f[DOMAIN order]
    BY DEF InTime, Audio!Dedup, Audio!FoldLeft, Audio!MapThenFoldSet, JoinFold, Joined, Audio!Max, Earlier
  <1> HIDE DEF order
  <1>3. n \in Nat /\ DOMAIN segments = D
    OBVIOUS
  <1> HIDE DEF n
  <1>4. f[{}] = <<>> /\ \A m \in 1..n : f[1..m] = Joined(segments, f[1..m - 1], order[m])
    <2> DEFINE m == Len(segments)
               P == Fitting(u)
    <2>1. m \in Nat /\ order \in [1..m -> 1..Len(segments)] /\ segments \in Seq(P)
      BY <1>1, <1>3 DEF n
    <2> HIDE DEF m, P
    <2>2. f[{}] = <<>> /\ \A k \in 1..m : f[1..k] = Joined(segments, f[1..k - 1], order[k])
      BY <2>1, JoinFolds
    <2> QED BY <2>2 DEF m, n
  <1> HIDE DEF f
  <1> DEFINE Well(m) == KeptWell(u, segments, order, m, f[1..m])
             G == {m \in Nat : m <= n => Well(m)}
  <1>5. 0 \in G
    <2>1. 1..0 = {} /\ f[1..0] = <<>>
      BY <1>4
    <2>2. <<>> \in Seq(Fitting(u)) /\ 1..Len(<<>>) = {}
      OBVIOUS
    <2>3. KeptWell(u, segments, order, 0, <<>>)
      BY <2>1, <2>2 DEF KeptWell
    <2> QED BY <2>1, <2>3
  <1>6. ASSUME NEW m \in G PROVE m + 1 \in G
    <2> SUFFICES ASSUME m + 1 <= n PROVE Well(m + 1)
      OBVIOUS
    <2>1. m \in Nat /\ m + 1 \in 1..n /\ m + 1 - 1 = m
      BY <1>3
    <2>2. Well(m)
      BY <1>3, <2>1
    <2>3. f[1..m + 1] = Joined(segments, f[1..m], order[m + 1])
      <3>1. f[1..m + 1] = Joined(segments, f[1..m + 1 - 1], order[m + 1])
        BY <1>4, <2>1
      <3> QED BY <2>1, <3>1
    <2> HIDE DEF G
    <2>4. KeptWell(u, segments, order, m + 1, Joined(segments, f[1..m], order[m + 1]))
      BY <1>1, <1>3, <2>1, <2>2, JoinKeeps DEF n
    <2> QED BY <2>3, <2>4
  <1>7. G = Nat
    <2>1. G \in SUBSET Nat
      OBVIOUS
    <2> HIDE DEF G
    <2> QED BY <1>5, <1>6, <2>1, FromZeroOn
  <1>8. KeptWell(u, segments, order, n, kept)
    <2>1. Well(n)
      <3>1. n \in G
        <4> HIDE DEF G
        <4> QED BY <1>3, <1>7
      <3> QED BY <1>3, <3>1
    <2>2. DOMAIN order = 1..n
      BY <1>1
    <2> QED BY <1>2, <2>1, <2>2
  <1>9. ASSUME Audio!Said(u) \in Query!Range(segments)
        PROVE  \E i \in 1..Len(kept) : kept[i] = Audio!Said(u)
    <2>1. PICK k \in D : segments[k] = Audio!Said(u)
      BY <1>3, <1>9 DEF Query!Range
    <2>2. PICK j \in D : order[j] = k
      BY <1>1
    <2> QED BY <1>8, <1>9, <2>1, <2>2 DEF KeptWell
  <1> QED BY <1>8, <1>9 DEF KeptWell


LEMMA FlattenAll ==
  \A V : \A n \in Nat : \A s \in [1..n -> Seq(V)] :
     /\ Query!FlattenSeq(s) \in Seq(V)
     /\ \A i \in 1..n : Query!Range(s[i]) \subseteq Query!Range(Query!FlattenSeq(s))
  <1> SUFFICES ASSUME NEW V, NEW n \in Nat, NEW s \in [1..n -> Seq(V)]
               PROVE  /\ Query!FlattenSeq(s) \in Seq(V)
                      /\ \A i \in 1..n : Query!Range(s[i]) \subseteq Query!Range(Query!FlattenSeq(s))
    OBVIOUS
  <1>1. /\ Query!FlattenSeq(s) \in Seq(V)
        /\ Query!Range(Query!FlattenSeq(s)) = UNION {Query!Range(s[i]) : i \in 1..n}
    BY FlattenIs
  <1> QED BY <1>1

\* Some chunk has the utterance u from beginning to end.
Holds(chunks, u) ==
    \E k \in DOMAIN chunks : chunks[k].from <= u.from /\ u.to <= chunks[k].to

\* The transcript of a recording, as far as the utterance u is concerned that nothing else
\* is said during: the chunks that it reaches were answered in utterances.
LEMMA TranscribedIs ==
  ASSUME NEW n \in Nat \ {0}, NEW max \in Nat, NEW overlap \in 0..max - 1,
         NEW speech, Speech(speech), NEW answers,
         \A k \in 1..n : answers[k] \in [split : BOOLEAN, dated : BOOLEAN, text : Nat],
         NEW u, Apart(u, speech),
         \A k \in DOMAIN Audio!ChunkAudio(n, max, overlap) :
            Audio!Reaches(u, Audio!ChunkAudio(n, max, overlap)[k]) => answers[k].split
  PROVE  LET kept == Audio!Transcribed(n, max, overlap, speech, answers) IN
         /\ kept \in Seq(Fitting(u))
         /\ \A i, j \in 1..Len(kept) : i < j => kept[i].to <= kept[j].from
         /\ u \in speech /\ Holds(Audio!ChunkAudio(n, max, overlap), u)
               => Audio!Said(u) \in Query!Range(kept)
  <1> DEFINE chunks == Audio!ChunkAudio(n, max, overlap)
             P == Fitting(u)
             heard == [k \in DOMAIN chunks |-> Audio!Transcribe(chunks[k], speech, answers[k])]
             segments == Query!FlattenSeq(heard)
             kept == Audio!Transcribed(n, max, overlap, speech, answers)
  <1>1. kept = Audio!Dedup(segments)
    BY DEF Audio!Transcribed, Audio!FlattenSeq, Query!FlattenSeq
  <1>2. PICK c \in 1..n : DOMAIN chunks = 1..c
           /\ \A k \in 1..c : chunks[k] \in Span /\ chunks[k].from < chunks[k].to
    BY ChunksAre
  <1>3. c \in Nat /\ \A k \in 1..c : k \in 1..n
    OBVIOUS
  <1> HIDE DEF chunks
  <1>4. ASSUME NEW k \in 1..c
        PROVE  /\ heard[k] \in Seq(P)
               /\ u \in speech /\ chunks[k].from <= u.from /\ u.to <= chunks[k].to
                     => Audio!Said(u) \in Query!Range(heard[k])
    <2>1. /\ chunks[k] \in Span /\ chunks[k].from < chunks[k].to
          /\ heard[k] = Audio!Transcribe(chunks[k], speech, answers[k])
      BY <1>2
    <2>2. /\ answers[k] \in [split : BOOLEAN, dated : BOOLEAN, text : Nat]
          /\ Audio!Reaches(u, chunks[k]) => answers[k].split
      BY <1>2, <1>3 DEF chunks
    <2> HIDE DEF heard
    <2> QED BY <2>1, <2>2, HeardIs
  <1>5. heard \in [1..c -> Seq(P)]
    <2>1. heard = [k \in 1..c |-> heard[k]]
      BY <1>2
    <2> HIDE DEF heard, P
    <2> QED BY <1>4, <2>1
  <1> HIDE DEF heard, P
  <1>6. segments \in Seq(P) /\ \A k \in 1..c : Query!Range(heard[k]) \subseteq Query!Range(segments)
    <2> DEFINE s == heard
               m == c
    <2>1. m \in Nat /\ s \in [1..m -> Seq(P)]
      BY <1>3, <1>5
    <2> HIDE DEF s, m
    <2>2. Query!FlattenSeq(s) \in Seq(P)
      BY <2>1, FlattenAll
    <2>3. \A k \in 1..m : Query!Range(s[k]) \subseteq Query!Range(Query!FlattenSeq(s))
      BY <2>1, FlattenAll
    <2> QED BY <2>2, <2>3 DEF s, m
  <1> HIDE DEF segments, kept
  <1>7. /\ kept \in Seq(P)
        /\ \A i, j \in 1..Len(kept) : i < j => kept[i].to <= kept[j].from
        /\ Audio!Said(u) \in Query!Range(segments) => \E i \in 1..Len(kept) : kept[i] = Audio!Said(u)
    BY <1>1, <1>6, DedupKeeps DEF P, Apart
  <1>8. ASSUME u \in speech, Holds(chunks, u) PROVE Audio!Said(u) \in Query!Range(kept)
    <2>1. PICK k \in 1..c : chunks[k].from <= u.from /\ u.to <= chunks[k].to
      BY <1>2, <1>8 DEF Holds
    <2>2. PICK i \in 1..Len(kept) : kept[i] = Audio!Said(u)
      BY <1>4, <1>6, <1>7, <1>8, <2>1
    <2>3. i \in DOMAIN kept
      BY <1>7
    <2> QED BY <2>2, <2>3 DEF Query!Range
  <1> QED BY <1>2, <1>7, <1>8 DEF P, chunks, kept

\* Transcribing: wherever the cuts fall, an utterance no longer than the overlap is in the
\* transcript as a whole and once, if the chunks that it reaches were answered in
\* utterances, and the segments of the transcript do not overlap.
LEMMA UtteranceIsWhole ==
  ASSUME NEW n \in Nat \ {0}, NEW max \in Nat, NEW overlap \in 0..max - 1,
         NEW speech, Speech(speech), speech \subseteq [from : 0..n, to : 0..n], NEW answers,
         \A k \in 1..n : answers[k] \in [split : BOOLEAN, dated : BOOLEAN, text : Nat]
  PROVE  Audio!UtteranceWhole(n, max, overlap, speech, answers)
  <1> DEFINE chunks == Audio!ChunkAudio(n, max, overlap)
             kept == Audio!Transcribed(n, max, overlap, speech, answers)
  <1>1. ASSUME NEW u \in speech, u.to - u.from <= overlap,
               \A k \in DOMAIN chunks : Audio!Reaches(u, chunks[k]) => answers[k].split
        PROVE  Audio!Cardinality({i \in DOMAIN kept : kept[i] = Audio!Said(u)}) = 1
    <2>1. u.from \in 0..n /\ u.to \in 0..n /\ u.from < u.to
      BY DEF Speech
    <2>2. Apart(u, speech)
      BY DEF Speech, Apart
    <2>3. PICK k \in DOMAIN chunks : chunks[k].from <= u.from /\ u.to <= chunks[k].to
      BY <1>1, <2>1, ChunkHolds
    <2>10. \A l \in DOMAIN chunks : Audio!Reaches(u, chunks[l]) => answers[l].split
      BY <1>1
    <2>11. /\ kept \in Seq(Fitting(u))
           /\ \A i, j \in 1..Len(kept) : i < j => kept[i].to <= kept[j].from
      BY <2>2, <2>10, TranscribedIs
    <2>12. Holds(chunks, u)
      BY <2>3 DEF Holds
    <2>13. Audio!Said(u) \in Query!Range(kept)
      BY <2>2, <2>10, <2>12, TranscribedIs
    <2> HIDE DEF kept, chunks
    <2>4. /\ kept \in Seq(Fitting(u))
          /\ \A i, j \in 1..Len(kept) : i < j => kept[i].to <= kept[j].from
          /\ \E i \in 1..Len(kept) : kept[i] = Audio!Said(u)
      <3>1. DOMAIN kept = 1..Len(kept)
        BY <2>11
      <3> QED BY <2>11, <2>13, <3>1 DEF Query!Range
    <2>5. PICK i \in 1..Len(kept) : kept[i] = Audio!Said(u)
      BY <2>4
    <2>6. DOMAIN kept = 1..Len(kept) /\ Len(kept) \in Nat
      BY <2>4
    <2>7. ASSUME NEW j \in 1..Len(kept), kept[j] = Audio!Said(u) PROVE j = i
      <3>1. ~ (Audio!Said(u).to <= Audio!Said(u).from)
        BY <2>1 DEF Audio!Said
      <3>2. ~ (i < j) /\ ~ (j < i)
        BY <2>4, <2>5, <2>7, <3>1
      <3> QED BY <2>6, <3>2
    <2>8. {j \in DOMAIN kept : kept[j] = Audio!Said(u)} = {i}
      BY <2>5, <2>6, <2>7
    <2>9. Cardinality({i}) = 1
      BY FS_Singleton
    <2> QED BY <2>8, <2>9, AudioCardinality
  \* An utterance after the end, which every segment fits
  <1>2. \A i, k \in DOMAIN kept : i < k => kept[i].to <= kept[k].from
    <2> DEFINE w == [from |-> n + 1, to |-> n + 2]
    <2>1. w \in Span /\ w.from = n + 1 /\ w.to = n + 2 /\ w.from < w.to
      BY DEF Span
    <2> HIDE DEF w
    <2>2. Apart(w, speech)
      <3> SUFFICES ASSUME NEW v \in speech PROVE v.to <= w.from
        BY <2>1 DEF Apart
      <3>1. v.to \in 0..n
        OBVIOUS
      <3> QED BY <2>1, <3>1
    <2>3. ASSUME NEW k \in DOMAIN chunks PROVE ~ Audio!Reaches(w, chunks[k])
      <3>1. chunks[k].to \in Int /\ chunks[k].to <= n
        BY ChunksAre DEF Span
      <3> HIDE DEF chunks
      <3> QED BY <2>1, <3>1 DEF Audio!Reaches
    <2>4. /\ kept \in Seq(Fitting(w))
          /\ \A i, j \in 1..Len(kept) : i < j => kept[i].to <= kept[j].from
      BY <2>2, <2>3, TranscribedIs
    <2> HIDE DEF kept
    <2>5. DOMAIN kept = 1..Len(kept)
      BY <2>4
    <2> QED BY <2>4, <2>5
  <1> QED BY <1>1, <1>2 DEF Audio!UtteranceWhole

\* The answers to what is asked, whatever it is: no passage, text or utterance is lost or
\* swapped on the way through chunk_text, embed_texts, _chunk_audio_bytes and
\* the joining loop of run_transcription.
THEOREM PiecesHold == CalcSpec => []PiecesFaithful
  <1>1. CalcInit => given \in Asked
    BY DEF CalcInit
  <1>2. given \in Asked /\ [CalcNext]_calcVars => (given \in Asked)'
    BY DEF CalcNext, calcVars
  <1>3. given \in Asked => PiecesFaithful
    <2> SUFFICES ASSUME given \in Asked PROVE PiecesFaithful
      OBVIOUS
    <2>1. ASSUME given.kind = "text" PROVE Query!PassageWhole(given.n, given.size, given.overlap)
      BY <2>1, AskedAssumption, PassageIsWhole
    <2>2. ASSUME given.kind = "vectors" PROVE Query!EmbedAligned(given.texts, given.size, given.orders)
      BY <2>2, AskedAssumption, EmbeddedAligned
    <2>3. ASSUME given.kind = "speech" 
          PROVE  Audio!UtteranceWhole(given.n, given.max, given.overlap, given.speech, given.answers)
      BY <2>3, AskedAssumption, UtteranceIsWhole DEF Speech, Span
    <2> QED BY <2>1, <2>2, <2>3 DEF PiecesFaithful
  <1> QED BY <1>1, <1>2, <1>3, PTL DEF CalcSpec

\* "uses the highest-scoring one" (build_citations), for every question.
THEOREM CitationHolds == CalcSpec => []CitationIsBest
  <1>1. CalcInit => given \in Asked
    BY DEF CalcInit
  <1>2. given \in Asked /\ [CalcNext]_calcVars => (given \in Asked)'
    BY DEF CalcNext, calcVars
  <1>3. given \in Asked => CitationIsBest
    BY AskedAssumption, BestIsCited DEF CitationIsBest, Chunk
  <1> QED BY <1>1, <1>2, <1>3, PTL DEF CalcSpec

------------------------------------------------------------------------------
(* Weights *)

LEMMA WeightSums ==
  ASSUME NEW u, NEW S
  PROVE  Weight!FoldFunctionOnSet(+, 0, u, S) = SumOf(u, S) /\ Weight!Total(u) = SumOf(u, DOMAIN u)
  <1>1. \A T : Weight!FoldFunctionOnSet(+, 0, u, T) = SumOf(u, T)
    BY DEF Weight!FoldFunctionOnSet, Weight!MapThenFoldSet, SumOf, SumFold
  <1>2. Weight!Total(u) = SumOf(u, DOMAIN u)
    BY DEF Weight!Total, Weight!FoldFunction, Weight!FoldFunctionOnSet, Weight!MapThenFoldSet, SumOf, SumFold
  <1> QED BY <1>1, <1>2

LEMMA WeightCardinality == \A S : Weight!Cardinality(S) = Cardinality(S)
  BY DEF Weight!Cardinality, Cardinality

Calmer(d, i, k) == d[i].vol < d[k].vol \/ (d[i].vol = d[k].vol /\ i < k)
Known(d) == {i \in DOMAIN d : d[i].vol > 0}
Calmest(d) == Weight!SortBy(Known(d), LAMBDA i, k : Calmer(d, i, k))
Unknown(d) ==
    IF Known(d) = {} THEN 25 ELSE Weight!Median([k \in DOMAIN Calmest(d) |-> d[Calmest(d)[k]].vol])
\* What is in ten-thousandths and not nothing
Percent == {v \in Nat : 1 <= v /\ v <= 10000}

LEMMA SelectionIs ==
  ASSUME NEW d \in Selections
  PROVE  /\ Len(d) \in Percent /\ DOMAIN d = 1..Len(d)
         /\ \A i \in 1..Len(d) : i \in Nat /\ d[i].score \in Nat /\ d[i].vol \in {0} \cup Percent
  <1> DEFINE V == 0..Weight!One
             R == [score : Nat, vol : V]
  <1>1. d \in Seq(R) /\ Len(d) \in 1..Weight!One
    BY WeightsAssumption DEF WeightsAssumption
  <1>2. /\ \A v \in V : v \in {0} \cup Percent
        /\ \A v \in 1..Weight!One : v \in Percent
    <2>1. Weight!One = 10000
      BY DEF Weight!One
    <2> QED BY <2>1 DEF Percent
  <1> HIDE DEF V
  <1>3. \A x \in R : x.score \in Nat /\ x.vol \in V
    OBVIOUS
  <1> HIDE DEF R
  <1>4. DOMAIN d = 1..Len(d) /\ \A i \in 1..Len(d) : d[i] \in R
    BY <1>1
  <1>5. \A i \in 1..Len(d) : i \in Nat
    OBVIOUS
  <1> QED BY <1>1, <1>2, <1>3, <1>4, <1>5

\* The median of a list is one of its numbers, or between two.
LEMMA MedianIs ==
  ASSUME NEW m \in Nat \ {0}, NEW s \in [1..m -> Percent]
  PROVE  Weight!Median(s) \in Percent
  <1>1. Len(s) = m
    BY ListOf
  <1>2. CASE m % 2 = 1
    <2>1. m \div 2 + 1 \in 1..m
      BY <1>2
    <2>2. Weight!Median(s) = s[m \div 2 + 1]
      BY <1>1, <1>2 DEF Weight!Median
    <2> QED BY <2>1, <2>2
  <1>3. CASE m % 2 # 1
    <2> DEFINE h == m \div 2
    <2>1. h \in 1..m /\ h + 1 \in 1..m
      BY <1>3
    <2>2. Weight!Median(s) = (s[h] + s[h + 1]) \div 2
      BY <1>1, <1>3 DEF Weight!Median
    <2> HIDE DEF h
    <2>3. s[h] \in Percent /\ s[h + 1] \in Percent
      BY <2>1
    <2>4. \A a, b \in Percent : (a + b) \div 2 \in Percent
      BY DEF Percent
    <2> QED BY <2>2, <2>3, <2>4
  <1> QED BY <1>2, <1>3

LEMMA CalmestIs ==
  ASSUME NEW d \in Selections
  PROVE  /\ IsFiniteSet(Known(d)) /\ Cardinality(Known(d)) \in Nat
         /\ DOMAIN Calmest(d) = 1..Cardinality(Known(d))
         /\ \A k \in DOMAIN Calmest(d) : Calmest(d)[k] \in Known(d)
  <1> DEFINE K == Known(d)
             n == Len(d)
             m == Cardinality(K)
             B == {p \in K \X K : Calmer(d, p[1], p[2])}
             order == Calmest(d)
             C(x) == Weight!Cardinality({y \in K : Calmer(d, y, x)})
  <1>1. /\ n \in Nat /\ K \subseteq 1..n /\ \A i \in K : i \in Int /\ d[i].vol \in Int
    <2>1. K \subseteq 1..n
      BY SelectionIs DEF Known
    <2>2. n \in Nat /\ \A i \in 1..n : i \in Int /\ d[i].vol \in Int
      BY SelectionIs DEF Percent
    <2> HIDE DEF K, n
    <2> QED BY <2>1, <2>2
  <1>2. IsFiniteSet(K) /\ m \in Nat
    <2>1. IsFiniteSet(1..n)
      BY <1>1, FS_Interval
    <2> HIDE DEF K, n
    <2> QED BY <1>1, <2>1, FS_Subset, FS_CardinalityType
  <1>3. \A x, y \in K : <<x, y>> \in B <=> Calmer(d, x, y)
    OBVIOUS
  <1>4. order = [k \in 1..Weight!Cardinality(K) |-> CHOOSE x \in K : C(x) = k - 1]
    BY DEF Weight!SortBy, Calmest
  <1> HIDE DEF K, n, B, order
  <1>5. ASSUME NEW x \in K PROVE C(x) = Place(B, K, x)
    <2>1. {y \in K : Calmer(d, y, x)} = {y \in K : <<y, x>> \in B}
      BY <1>3
    <2> QED BY <2>1, WeightCardinality DEF Place
  <1>6. Orders(B, K)
    <2>0. /\ \A x \in K : d[x].vol \in Int /\ x \in Int
          /\ \A x, y \in K : <<x, y>> \in B <=> d[x].vol < d[y].vol \/ (d[x].vol = d[y].vol /\ x < y)
      BY <1>1, <1>3 DEF Calmer
    <2>1. \A x \in K : <<x, x>> \notin B
      BY <2>0
    <2>2. \A x, y \in K : x # y => <<x, y>> \in B \/ <<y, x>> \in B
      BY <2>0
    <2>3. \A x, y, z \in K : <<x, y>> \in B /\ <<y, z>> \in B => <<x, z>> \in B
      BY <2>0
    <2> QED BY <2>1, <2>2, <2>3 DEF Orders
  <1> HIDE DEF C
  <1>7. order = [k \in 1..Cardinality(K) |-> CHOOSE x \in K : Place(B, K, x) = k - 1]
    <2>1. \A k : (CHOOSE x \in K : C(x) = k - 1) = (CHOOSE x \in K : Place(B, K, x) = k - 1)
      BY <1>5
    <2>2. Weight!Cardinality(K) = Cardinality(K)
      BY WeightCardinality
    <2> QED BY <1>4, <2>1, <2>2
  <1>8. Lists(order, K, B)
    BY <1>2, <1>6, <1>7, SortedLists
  <1>9. DOMAIN order = 1..m /\ \A k \in 1..m : order[k] \in K
    BY <1>8 DEF Lists
  <1> QED BY <1>2, <1>9 DEF K, order

\* The volatility that stands in for one that is not known
LEMMA UnknownIs == ASSUME NEW d \in Selections PROVE Unknown(d) \in Percent
  <1> DEFINE K == Known(d)
             m == Cardinality(K)
             order == Calmest(d)
             s == [k \in DOMAIN order |-> d[order[k]].vol]
  <1>1. IsFiniteSet(K) /\ m \in Nat /\ DOMAIN order = 1..m /\ \A k \in 1..m : order[k] \in K
    BY CalmestIs
  <1>2. \A i \in K : d[i].vol \in Percent
    BY SelectionIs DEF Known, Percent
  <1>3. K # {} => m # 0
    BY <1>1, FS_EmptySet
  <1>4. Unknown(d) = IF K = {} THEN 25 ELSE Weight!Median(s)
    BY DEF Unknown
  <1> HIDE DEF K, m, order
  <1>5. s \in [1..m -> Percent]
    BY <1>1, <1>2
  <1> HIDE DEF s
  <1>6. m # 0 => Weight!Median(s) \in Percent
    BY <1>1, <1>5, MedianIs
  <1>7. 25 \in Percent
    BY DEF Percent
  <1> QED BY <1>3, <1>4, <1>6, <1>7

Strategies == {"equal", "conviction", "risk_parity"}

LEMMA UpTo == ASSUME NEW n \in Nat \ {0} PROVE IsFiniteSet(1..n) /\ Cardinality(1..n) = n
  BY FS_Interval

\* Shares of the whole, in proportion to u
LEMMA WholeShared ==
  ASSUME NEW d \in Selections, NEW u, \A i \in 1..Len(d) : u[i] \in Nat,
         NEW t \in Nat \ {0}, t = SumOf(u, 1..Len(d)),
         NEW q, q = [i \in 1..Len(d) |-> (Weight!One * u[i]) \div t]
  PROVE  /\ q \in [1..Len(d) -> Nat]
         /\ SumOf(q, 1..Len(d)) \in Nat /\ 0 < SumOf(q, 1..Len(d)) /\ SumOf(q, 1..Len(d)) <= Weight!One
         /\ Weight!One < SumOf(q, 1..Len(d)) + Len(d)
  <1> DEFINE n == Len(d)
             D == 1..n
             one == Weight!One
  <1>1. n \in Nat \ {0} /\ n <= one /\ one \in Nat
    BY SelectionIs DEF Percent, Weight!One
  <1>2. IsFiniteSet(D) /\ Cardinality(D) = n
    BY <1>1, UpTo
  <1> HIDE DEF D, one
  <1>3. /\ \A x \in D : q[x] \in Nat
        /\ SumOf(q, D) \in Nat /\ SumOf(q, D) <= one /\ one < SumOf(q, D) + Cardinality(D)
    <2>1. \A x \in D : u[x] \in Nat /\ q[x] = (one * u[x]) \div t
      BY DEF D, one
    <2>2. t = SumOf(u, D)
      BY DEF D
    <2> QED BY <1>1, <1>2, <2>1, <2>2, SharesAdd
  <1> DEFINE b == SumOf(q, D)
  <1> HIDE DEF b, n
  <1>4. b \in Nat /\ 0 < b /\ b <= one /\ one < b + n
    BY <1>1, <1>2, <1>3 DEF b
  <1>5. q \in [D -> Nat]
    BY <1>3 DEF D, n
  <1> QED BY <1>4, <1>5 DEF b, D, n, one

\* Before the clamp the weights are naturals that come to something, and to no more than the whole.
LEMMA RawIs ==
  ASSUME NEW d \in Selections, NEW s \in Strategies
  PROVE  LET r == Weight!Raw(d, s) IN
         /\ r \in [1..Len(d) -> Nat]
         /\ SumOf(r, 1..Len(d)) \in Nat /\ 0 < SumOf(r, 1..Len(d)) /\ SumOf(r, 1..Len(d)) <= Weight!One
  <1> DEFINE n == Len(d)
             D == 1..n
             Good(r) == /\ r \in [D -> Nat]
                        /\ SumOf(r, D) \in Nat /\ 0 < SumOf(r, D) /\ SumOf(r, D) <= Weight!One
  <1>1. n \in Nat \ {0} /\ DOMAIN d = D /\ Weight!One \in Nat
    BY SelectionIs DEF Percent, Weight!One
  <1>2. \A i \in D : d[i].score \in Nat /\ d[i].vol \in {0} \cup Percent
    BY SelectionIs
  <1>3. IsFiniteSet(D) /\ Cardinality(D) = n
    BY <1>1, UpTo
  <1>4. Good(Weight!WeightEqual(d))
    <2> DEFINE u == [i \in D |-> 1]
               q == [i \in D |-> (Weight!One * u[i]) \div n]
    <2>1. n = SumOf(u, D)
      <3> HIDE DEF D
      <3>1. \A x \in D : u[x] = 1
        OBVIOUS
      <3> HIDE DEF u
      <3> QED BY <1>3, <3>1, SumOfOnes
    <2>2. \A i \in D : u[i] \in Nat
      OBVIOUS
    <2> HIDE DEF u
    <2>3. Good(q)
      BY <1>1, <2>1, <2>2, WholeShared
    <2>4. q = Weight!WeightEqual(d)
      <3>1. \A i \in D : Weight!One * u[i] = Weight!One
        BY <1>1 DEF u
      <3> HIDE DEF D, n
      <3>2. Weight!WeightEqual(d) = [i \in D |-> Weight!One \div n]
        BY <1>1 DEF Weight!WeightEqual, n
      <3> QED BY <3>1, <3>2
    <2> HIDE DEF q, Good
    <2> QED BY <2>3, <2>4
  <1>5. Good(Weight!WeightConviction(d))
    <2> DEFINE u == [i \in D |-> d[i].score]
               t == SumOf(u, D)
               q == [i \in D |-> (Weight!One * u[i]) \div t]
    <2>1. \A i \in D : u[i] \in Nat
      BY <1>2
    <2>2. t \in Nat
      <3> HIDE DEF u, D
      <3> QED BY <1>3, <2>1, SumNat
    <2>3. Weight!WeightConviction(d) = IF t = 0 THEN Weight!WeightEqual(d) ELSE q
      <3>1. Weight!Total(u) = t
        BY WeightSums
      <3>2. u = [i \in DOMAIN d |-> d[i].score] /\ \A i \in D : u[i] = d[i].score
        BY <1>1
      <3> HIDE DEF u, t, D
      <3>3. Weight!WeightConviction(d) = IF t = 0 THEN Weight!WeightEqual(d) ELSE [i \in DOMAIN d |-> (Weight!One * d[i].score) \div t]
        BY <3>1, <3>2 DEF Weight!WeightConviction
      <3> QED BY <1>1, <3>2, <3>3
    <2> HIDE DEF u
    <2>4. t # 0 => Good(q)
      <3> SUFFICES ASSUME t # 0 PROVE Good(q)
        OBVIOUS
      <3>1. t \in Nat \ {0} /\ t = SumOf(u, D)
        BY <2>2
      <3> HIDE DEF t
      <3> QED BY <2>1, <3>1, WholeShared
    <2> HIDE DEF q, Good, t
    <2> QED BY <1>4, <2>3, <2>4
  <1>6. Good(Weight!WeightRiskParity(d))
    <2> DEFINE v == [i \in D |-> IF i \in Known(d) THEN d[i].vol ELSE Unknown(d)]
               u == [i \in D |-> Weight!One \div v[i]]
               t == SumOf(u, D)
               q == [i \in D |-> (Weight!One * u[i]) \div t]
    <2>1. \A i \in D : v[i] \in Percent
      BY <1>1, <1>2, UnknownIs DEF Known, Percent
    <2> HIDE DEF v
    <2>2. \A i \in D : u[i] \in Nat /\ u[i] > 0
      <3>1. \A y \in Percent : Weight!One \div y \in Nat /\ Weight!One \div y > 0
        <4> SUFFICES ASSUME NEW y \in Percent PROVE Weight!One \div y \in Nat /\ Weight!One \div y > 0
          OBVIOUS
        <4>1. y \in Nat \ {0} /\ 1 * y <= Weight!One
          BY DEF Percent, Weight!One
        <4>2. Weight!One \div y \in Nat /\ 1 <= Weight!One \div y
          BY <1>1, <4>1, Divides
        <4> QED BY <4>2
      <3> QED BY <2>1, <3>1
    <2>3. t \in Nat \ {0}
      <3> HIDE DEF u, D
      <3>1. t \in Nat
        BY <1>3, <2>2, SumNat
      <3>2. 1 \in D
        BY <1>1 DEF D
      <3>3. Integral(u, D)
        BY <2>2 DEF Integral
      <3>4. /\ IsFiniteSet(D \ {1}) /\ u[1] \in Int /\ SumOf(u, D \ {1}) \in Int
            /\ t = u[1] + SumOf(u, D \ {1})
        BY <1>3, <3>2, <3>3, SumTakes
      <3>5. SumOf(u, D \ {1}) \in Nat
        BY <2>2, <3>4, SumNat
      <3> HIDE DEF t
      <3> QED BY <2>2, <3>1, <3>2, <3>4, <3>5
    <2>4. Weight!WeightRiskParity(d) = q
      <3>1. Weight!Total(u) = t
        BY WeightSums
      <3>2. u = [i \in DOMAIN d |-> Weight!One \div (IF i \in Known(d) THEN d[i].vol ELSE Unknown(d))]
        BY <1>1 DEF v
      <3> HIDE DEF u, t, D
      <3>3. Weight!WeightRiskParity(d) = [i \in DOMAIN d |-> (Weight!One * u[i]) \div t]
        BY <3>1, <3>2 DEF Weight!WeightRiskParity, Known, Unknown, Calmest, Calmer
      <3> QED BY <1>1, <3>3
    <2>5. Good(q)
      <3>1. \A i \in D : u[i] \in Nat
        BY <2>2
      <3> HIDE DEF u
      <3>2. t \in Nat \ {0} /\ t = SumOf(u, D)
        BY <2>3
      <3> HIDE DEF t
      <3> QED BY <3>1, <3>2, WholeShared
    <2> HIDE DEF q, Good
    <2> QED BY <2>4, <2>5
  <1> HIDE DEF Good
  <1>7. Good(Weight!Raw(d, s))
    BY <1>4, <1>5, <1>6 DEF Weight!Raw, Strategies
  <1> QED BY <1>7 DEF Good

LEMMA CeilingIs ==
  ASSUME NEW n \in Nat \ {0}, NEW m \in Nat,
         NEW max, max = Weight!Ceiling(n, m)
  PROVE  /\ max \in Nat \ {0}
         /\ n * (max + 1) \in Nat /\ Weight!One < n * (max + 1)
         /\ n * MinWeight <= Weight!One => MinWeight <= max
  <1> DEFINE one == Weight!One
             q == one \div n
  <1>1. one \in Nat \ {0} /\ MinWeight \in Nat
    <2>1. MinWeight \in Nat
      BY WeightsAssumption DEF WeightsAssumption
    <2> QED BY <2>1 DEF Weight!One
  <1>2. max = IF n * m < one THEN q + 1 ELSE m
    BY DEF Weight!Ceiling
  <1> HIDE DEF one
  <1>3. q \in Nat /\ one < q * n + n /\ \A k \in Nat : k * n <= one => k <= q
    BY <1>1, Divides
  <1> HIDE DEF q
  <1>4. CASE n * m < one
    <2>1. max = q + 1 /\ n * (max + 1) = q * n + n + n /\ n * (max + 1) \in Nat
      BY <1>2, <1>3, <1>4
    <2> QED BY <1>1, <1>3, <2>1 DEF one
  <1>5. CASE ~ (n * m < one)
    <2>1. max = m /\ n * m \in Nat /\ one <= n * m /\ n * (m + 1) = n * m + n
      BY <1>1, <1>2, <1>5
    <2>2. m # 0
      BY <1>1, <2>1
    <2>3. ASSUME n * MinWeight <= one PROVE MinWeight <= m
      <3>1. SUFFICES ASSUME m + 1 <= MinWeight PROVE FALSE
        BY <1>1
      <3>2. n * (m + 1) <= n * MinWeight /\ n * MinWeight \in Nat
        BY <1>1, <3>1, ProductGrows
      <3> QED BY <1>1, <2>1, <2>3, <3>2
    <2> QED BY <1>1, <2>1, <2>2, <2>3 DEF one
  <1> QED BY <1>4, <1>5

\* The loop of the clamp
Clamps(n) ==
    [w : [1..n -> Nat], high : SUBSET (1..n), low : SUBSET (1..n), at : Int, violated : BOOLEAN, pass : Nat]
Open(s) == DOMAIN s.w \ (s.high \cup s.low)

\* t is s after a look at position i for the maximum: what is above it is given to the
\* open positions, which stay in the order that they are in.
TakesHigh(s, t, i, n, max) ==
    /\ t \in Clamps(n) /\ t.low = s.low /\ t.pass = s.pass
    /\ \/ /\ t.w = s.w /\ t.high = s.high /\ t.violated = s.violated
          /\ i \in s.high \/ s.w[i] <= max
       \/ /\ i \notin s.high /\ max < s.w[i]
          /\ t.violated /\ t.high = s.high \cup {i} /\ t.w[i] = max
          /\ \A u \in 1..n \ ({i} \cup Open(s)) : t.w[u] = s.w[u]
          /\ \A u \in Open(s) \ {i} : s.w[u] <= t.w[u]
          /\ \A u, v \in Open(s) \ {i} : s.w[u] <= s.w[v] => t.w[u] <= t.w[v]

LEMMA TakeHighIs ==
  ASSUME NEW n \in Nat \ {0}, NEW max \in Nat \ {0}, NEW s \in Clamps(n), NEW i \in 1..n,
         NEW t, t = Weight!TakeHigh(s, i, max)
  PROVE  t.at = s.at /\ TakesHigh(s, t, i, n, max)
  <1> DEFINE D == 1..n
             open == DOMAIN s.w \ (s.high \cup s.low \cup {i})
             excess == s.w[i] - max
             total == SumOf(s.w, open)
             share(u) == IF total > 0 THEN (excess * s.w[u]) \div total ELSE excess \div Cardinality(open)
             w == [u \in DOMAIN s.w |-> CASE u = i -> max
                                          [] u \in open -> s.w[u] + share(u)
                                          [] OTHER -> s.w[u]]
  <1>1. /\ s.w \in [D -> Nat] /\ DOMAIN s.w = D /\ i \in D
        /\ s.high \subseteq D /\ s.low \subseteq D /\ s.at \in Int /\ s.violated \in BOOLEAN /\ s.pass \in Nat
    BY DEF Clamps
  <1>2. t = IF i \in s.high \/ excess <= 0 THEN s
            ELSE [s EXCEPT !.w = w, !.high = s.high \cup {i}, !.violated = TRUE]
    BY WeightSums, WeightCardinality DEF Weight!TakeHigh
  <1>3. CASE i \in s.high \/ s.w[i] <= max
    <2>1. s.w[i] \in Nat
      BY <1>1
    <2>2. t = s
      BY <1>2, <1>3, <2>1
    <2> QED BY <1>3, <2>2 DEF TakesHigh
  <1>4. CASE i \notin s.high /\ max < s.w[i]
    <2>1. excess \in Nat /\ ~ (excess <= 0)
      BY <1>1, <1>4
    <2>2. IsFiniteSet(open) /\ open \subseteq D /\ (\A u \in open : s.w[u] \in Nat)
      <3>1. IsFiniteSet(D)
        BY UpTo
      <3> HIDE DEF D
      <3> QED BY <1>1, <3>1, FS_Subset
    <2>3. open = Open(s) \ {i}
      BY DEF Open
    <2>4. t = [s EXCEPT !.w = w, !.high = s.high \cup {i}, !.violated = TRUE]
      BY <1>2, <1>4, <2>1
    <2> HIDE DEF open, excess
    <2>5. total \in Nat
      BY <2>2, SumNat
    <2> HIDE DEF total
    <2>6. \A u \in open : share(u) \in Nat
      <3>1. ASSUME NEW u \in open, total > 0 PROVE (excess * s.w[u]) \div total \in Nat
        BY <2>1, <2>2, <2>5, <3>1, ShareIs
      <3>2. ASSUME open # {} PROVE excess \div Cardinality(open) \in Nat
        <4>1. Cardinality(open) \in Nat \ {0}
          BY <2>2, <3>2, FS_EmptySet, FS_CardinalityType
        <4> QED BY <2>1, <4>1, QuotientIsNat
      <3> QED BY <3>1, <3>2
    <2>7. \A u, v \in open : s.w[u] <= s.w[v] => share(u) <= share(v)
      <3>1. ASSUME NEW u \in open, NEW v \in open, s.w[u] <= s.w[v] PROVE share(u) <= share(v)
        <4>1. ASSUME total > 0 PROVE (excess * s.w[u]) \div total <= (excess * s.w[v]) \div total
          <5> DEFINE x == s.w[u]
                     y == s.w[v]
          <5>1. x \in Nat /\ y \in Nat /\ x <= y
            BY <2>2, <3>1
          <5>2. total \in Nat \ {0} /\ excess \in Nat
            BY <2>1, <2>5, <4>1
          <5> HIDE DEF x, y
          <5>3. (excess * x) \div total <= (excess * y) \div total
            BY <5>1, <5>2, ShareIs
          <5> QED BY <5>3 DEF x, y
        <4>2. share(u) \in Nat /\ (~ (total > 0) => share(u) = share(v))
          BY <2>6
        <4> QED BY <4>1, <4>2
      <3> QED BY <3>1
    <2> HIDE DEF share
    <2>8. /\ w \in [D -> Nat] /\ w[i] = max
          /\ \A u \in open : u # i /\ w[u] = s.w[u] + share(u)
          /\ \A u \in D \ ({i} \cup open) : w[u] = s.w[u]
      <3>1. i \notin open
        BY <2>3
      <3> HIDE DEF D
      <3> QED BY <1>1, <2>2, <2>6, <3>1
    <2> HIDE DEF w
    <2>9. /\ t \in Clamps(n) /\ t.low = s.low /\ t.at = s.at /\ t.pass = s.pass
          /\ t.violated /\ t.high = s.high \cup {i} /\ t.w = w
      <3> DEFINE S == s.high \cup {i}
      <3>1. S \in SUBSET (1..n) /\ w \in [1..n -> Nat]
        BY <1>1, <2>8
      <3>2. t = [s EXCEPT !.w = w, !.high = S, !.violated = TRUE]
        BY <2>4
      <3> HIDE DEF S, D
      <3>3. /\ t \in Clamps(n) /\ t.low = s.low /\ t.at = s.at /\ t.pass = s.pass
            /\ t.violated /\ t.high = S /\ t.w = w
        BY <3>1, <3>2 DEF Clamps
      <3> QED BY <3>3 DEF S
    <2>10. \A u \in D \ ({i} \cup Open(s)) : t.w[u] = s.w[u]
      BY <2>3, <2>8, <2>9
    <2>11. \A u \in open : s.w[u] <= t.w[u]
      BY <2>2, <2>6, <2>8, <2>9
    <2>12. ASSUME NEW u \in open, NEW v \in open, s.w[u] <= s.w[v] PROVE t.w[u] <= t.w[v]
      <3>1. share(u) \in Nat /\ share(v) \in Nat /\ share(u) <= share(v) /\ s.w[u] \in Nat /\ s.w[v] \in Nat
        BY <2>2, <2>6, <2>7, <2>12
      <3>2. t.w[u] = s.w[u] + share(u) /\ t.w[v] = s.w[v] + share(v)
        BY <2>8, <2>9
      <3> QED BY <2>12, <3>1, <3>2
    <2>13. t.w[i] = max
      BY <2>8, <2>9
    <2> QED BY <1>4, <2>3, <2>9, <2>10, <2>11, <2>12, <2>13 DEF TakesHigh
  <1> QED BY <1>1, <1>3, <1>4

Donors(s, i) == {u \in DOMAIN s.w \ (s.high \cup s.low \cup {i}) : s.w[u] > MinWeight}

\* t is s after a look at position i for the minimum: what is missing is taken from those
\* above it; no more than they have above it leaves them in their order, and more than
\* that leaves none of them above it.
RaisesLow(s, t, i, n) ==
    /\ t \in Clamps(n) /\ t.high = s.high /\ t.pass = s.pass
    /\ \/ /\ t.w = s.w /\ t.low = s.low /\ t.violated = s.violated
          /\ i \in s.low \/ s.w[i] >= MinWeight
       \/ /\ i \notin s.low /\ s.w[i] < MinWeight
          /\ t.violated /\ t.low = s.low \cup {i} /\ t.w[i] = MinWeight
          /\ \A u \in 1..n \ ({i} \cup Donors(s, i)) : t.w[u] = s.w[u]
          /\ \/ \A u, v \in Donors(s, i) :
                   t.w[u] >= MinWeight /\ (s.w[u] <= s.w[v] => t.w[u] <= t.w[v])
             \/ \A u \in Donors(s, i) : t.w[u] <= MinWeight

LEMMA RaiseLowIs ==
  ASSUME NEW n \in Nat \ {0}, NEW s \in Clamps(n), NEW i \in 1..n,
         NEW t, t = Weight!RaiseLow(s, i)
  PROVE  t.at = s.at /\ RaisesLow(s, t, i, n)
  <1> DEFINE D == 1..n
             M == MinWeight
             donors == Donors(s, i)
             deficit == M - s.w[i]
             above == [u \in donors |-> s.w[u] - M]
             total == SumOf(above, donors)
             share(u) == (deficit * (s.w[u] - M)) \div total
             w == [u \in DOMAIN s.w |-> CASE u = i -> M
                                          [] u \in donors -> s.w[u] - share(u)
                                          [] OTHER -> s.w[u]]
  <1>1. /\ s.w \in [D -> Nat] /\ DOMAIN s.w = D /\ i \in D /\ M \in Nat
        /\ s.high \subseteq D /\ s.low \subseteq D /\ s.at \in Int /\ s.violated \in BOOLEAN /\ s.pass \in Nat
    BY WeightsAssumption DEF Clamps, WeightsAssumption
  <1>2. t = IF i \in s.low \/ deficit <= 0 THEN s
            ELSE [s EXCEPT !.w = w, !.low = s.low \cup {i}, !.violated = TRUE]
    BY WeightSums DEF Weight!RaiseLow, Donors
  <1>3. CASE i \in s.low \/ s.w[i] >= M
    <2>1. s.w[i] \in Nat
      BY <1>1
    <2>2. t = s
      BY <1>1, <1>2, <1>3, <2>1
    <2> QED BY <1>3, <2>2 DEF RaisesLow
  <1>4. CASE i \notin s.low /\ s.w[i] < M
    <2>1. deficit \in Nat /\ ~ (deficit <= 0) /\ deficit <= M
      BY <1>1, <1>4
    <2>2. IsFiniteSet(donors) /\ donors \subseteq D /\ i \notin donors /\ (\A u \in donors : s.w[u] \in Nat /\ s.w[u] > M)
      <3>1. IsFiniteSet(D)
        BY UpTo
      <3>2. donors \subseteq D /\ i \notin donors /\ \A u \in donors : s.w[u] \in Nat /\ s.w[u] > M
        BY <1>1 DEF Donors
      <3> HIDE DEF D, donors
      <3> QED BY <3>1, <3>2, FS_Subset
    <2>3. t = [s EXCEPT !.w = w, !.low = s.low \cup {i}, !.violated = TRUE]
      BY <1>2, <1>4, <2>1
    <2> HIDE DEF donors, deficit, M
    <2>4. \A u \in donors : above[u] = s.w[u] - M /\ above[u] \in Nat /\ above[u] # 0
      BY <1>1, <2>2
    <2> HIDE DEF above
    <2>5. total \in Nat /\ \A u \in donors : above[u] <= total
      <3>1. total \in Nat
        BY <2>2, <2>4, SumNat
      <3>2. ASSUME NEW u \in donors PROVE above[u] <= total
        <4>1. Integral(above, donors)
          BY <2>4 DEF Integral
        <4>2. /\ IsFiniteSet(donors \ {u}) /\ SumOf(above, donors \ {u}) \in Int
              /\ total = above[u] + SumOf(above, donors \ {u})
          BY <2>2, <4>1, SumTakes
        <4>3. SumOf(above, donors \ {u}) \in Nat
          BY <2>4, <4>2, SumNat
        <4> HIDE DEF total
        <4> QED BY <2>4, <4>2, <4>3
      <3> QED BY <3>1, <3>2
    <2> HIDE DEF total
    <2>6. ASSUME NEW u \in donors, NEW v \in donors, s.w[u] <= s.w[v]
          PROVE  /\ share(u) \in Nat /\ share(v) \in Nat /\ share(u) <= deficit
                 /\ deficit <= total => share(v) <= above[v] /\ above[v] - share(v) >= above[u] - share(u)
                 /\ total <= deficit => above[u] <= share(u)
      <3> DEFINE x == above[u]
                 y == above[v]
      <3>1. x \in Nat /\ y \in Nat /\ x <= y /\ x <= total /\ total \in Nat \ {0} /\ deficit \in Nat
        <4>1. x = s.w[u] - M /\ y = s.w[v] - M /\ x \in Nat /\ y \in Nat /\ x # 0
          BY <2>4
        <4>2. s.w[u] \in Nat /\ s.w[v] \in Nat /\ M \in Nat
          BY <1>1, <2>2
        <4>3. x <= total /\ total \in Nat /\ deficit \in Nat
          BY <2>1, <2>5
        <4> HIDE DEF x, y
        <4> QED BY <2>6, <4>1, <4>2, <4>3
      <3>2. share(u) = (deficit * x) \div total /\ share(v) = (deficit * y) \div total
        BY <2>4
      <3> HIDE DEF share, x, y
      <3>3. /\ (deficit * x) \div total \in Nat /\ (deficit * y) \div total \in Nat
            /\ deficit <= total => /\ (deficit * y) \div total <= y
                                   /\ y - (deficit * y) \div total >= x - (deficit * x) \div total
        BY <3>1, ShareIs
      <3>4. /\ (deficit * x) \div total <= deficit
            /\ total <= deficit => x <= (deficit * x) \div total
        BY <3>1, ShareIs
      <3> QED BY <3>2, <3>3, <3>4 DEF x, y
    <2> HIDE DEF share
    <2>7. \A u \in donors : share(u) \in Nat /\ s.w[u] - share(u) \in Nat
      <3> SUFFICES ASSUME NEW u \in donors PROVE share(u) \in Nat /\ s.w[u] - share(u) \in Nat
        OBVIOUS
      <3>1. s.w[u] \in Nat /\ s.w[u] > M
        BY <2>2
      <3>2. share(u) \in Nat /\ share(u) <= deficit
        BY <2>6, <3>1
      <3> QED BY <1>1, <2>1, <3>1, <3>2
    <2>8. /\ w \in [D -> Nat] /\ w[i] = M
          /\ \A u \in donors : w[u] = s.w[u] - share(u)
          /\ \A u \in D \ ({i} \cup donors) : w[u] = s.w[u]
      <3> HIDE DEF D
      <3> QED BY <1>1, <2>2, <2>7
    <2> HIDE DEF w
    <2>9. /\ t \in Clamps(n) /\ t.high = s.high /\ t.at = s.at /\ t.pass = s.pass
          /\ t.violated /\ t.low = s.low \cup {i} /\ t.w = w
      <3> DEFINE S == s.low \cup {i}
      <3>1. S \in SUBSET (1..n) /\ w \in [1..n -> Nat]
        BY <1>1, <2>8
      <3>2. t = [s EXCEPT !.w = w, !.low = S, !.violated = TRUE]
        BY <2>3
      <3> HIDE DEF S, D
      <3>3. /\ t \in Clamps(n) /\ t.high = s.high /\ t.at = s.at /\ t.pass = s.pass
            /\ t.violated /\ t.low = S /\ t.w = w
        BY <3>1, <3>2 DEF Clamps
      <3> QED BY <3>3 DEF S
    <2>10. CASE deficit <= total
      <3>1. ASSUME NEW u \in donors PROVE t.w[u] >= M
        <4>1. s.w[u] \in Nat /\ above[u] = s.w[u] - M
          BY <2>2, <2>4
        <4>2. share(u) \in Nat /\ share(u) <= above[u]
          BY <2>6, <2>10, <4>1
        <4>3. t.w[u] = s.w[u] - share(u)
          BY <2>8, <2>9
        <4> QED BY <1>1, <4>1, <4>2, <4>3
      <3>2. ASSUME NEW u \in donors, NEW v \in donors, s.w[u] <= s.w[v] PROVE t.w[u] <= t.w[v]
        <4>1. /\ s.w[u] \in Nat /\ above[u] = s.w[u] - M
              /\ s.w[v] \in Nat /\ above[v] = s.w[v] - M
              /\ M \in Nat
          BY <1>1, <2>2, <2>4
        <4>2. share(u) \in Nat /\ share(v) \in Nat /\ above[v] - share(v) >= above[u] - share(u)
          BY <2>6, <2>10, <3>2
        <4>3. t.w[u] = s.w[u] - share(u) /\ t.w[v] = s.w[v] - share(v)
          BY <2>8, <2>9
        <4> QED BY <4>1, <4>2, <4>3
      <3>3. \A u, v \in donors : t.w[u] >= M /\ (s.w[u] <= s.w[v] => t.w[u] <= t.w[v])
        BY <3>1, <3>2
      <3> QED BY <1>4, <2>8, <2>9, <3>3 DEF donors, M, RaisesLow
    <2>11. CASE total <= deficit
      <3>1. ASSUME NEW u \in donors PROVE t.w[u] <= M
        <4>1. s.w[u] \in Nat /\ above[u] = s.w[u] - M
          BY <2>2, <2>4
        <4>2. share(u) \in Nat /\ above[u] <= share(u)
          BY <2>6, <2>11, <4>1
        <4>3. t.w[u] = s.w[u] - share(u)
          BY <2>8, <2>9
        <4> QED BY <1>1, <4>1, <4>2, <4>3
      <3> QED BY <1>4, <2>8, <2>9, <3>1 DEF donors, M, RaisesLow
    <2> QED BY <2>1, <2>5, <2>10, <2>11
  <1> QED BY <1>1, <1>3, <1>4

LEMMA FieldsAre ==
  ASSUME NEW n \in Nat \ {0}, NEW s \in Clamps(n)
  PROVE  /\ s.w \in [1..n -> Nat] /\ DOMAIN s.w = 1..n /\ \A i \in 1..n : s.w[i] \in Nat /\ i \in Nat
         /\ s.high \subseteq 1..n /\ s.low \subseteq 1..n /\ Open(s) = (1..n) \ (s.high \cup s.low)
         /\ s.at \in Int /\ s.violated \in BOOLEAN /\ s.pass \in Nat
  BY DEF Clamps, Open

HighStep(s, z, i, n, max) == s.at = i /\ z.at = s.at + 1 /\ TakesHigh(s, z, i, n, max)
LowStep(s, z, i, n) == s.at = n + i /\ z.at = s.at + 1 /\ RaisesLow(s, z, i, n)

LEMMA HighSteps ==
  ASSUME NEW n \in Nat \ {0}, NEW max \in Nat \ {0}, NEW s \in Clamps(n), NEW i \in 1..n, s.at = i,
         NEW z, z = [Weight!TakeHigh(s, i, max) EXCEPT !.at = @ + 1]
  PROVE  HighStep(s, z, i, n, max)
  <1> DEFINE t == Weight!TakeHigh(s, i, max)
             at == t.at + 1
  <1>1. t.at = s.at /\ TakesHigh(s, t, i, n, max)
    BY TakeHighIs
  <1>2. z = [t EXCEPT !.at = at]
    OBVIOUS
  <1> HIDE DEF t
  <1>3. at \in Int /\ t \in Clamps(n)
    BY <1>1 DEF Clamps, TakesHigh
  <1> HIDE DEF at
  <1>4. /\ z \in Clamps(n) /\ z.w = t.w /\ z.high = t.high /\ z.low = t.low
        /\ z.violated = t.violated /\ z.pass = t.pass /\ z.at = at
    BY <1>2, <1>3 DEF Clamps
  <1>5. z.at = s.at + 1
    BY <1>1, <1>4 DEF at
  <1> QED BY <1>1, <1>4, <1>5 DEF HighStep, TakesHigh

LEMMA LowSteps ==
  ASSUME NEW n \in Nat \ {0}, NEW s \in Clamps(n), NEW i \in 1..n, s.at = n + i,
         NEW z, z = [Weight!RaiseLow(s, i) EXCEPT !.at = @ + 1]
  PROVE  LowStep(s, z, i, n)
  <1> DEFINE t == Weight!RaiseLow(s, i)
             at == t.at + 1
  <1>1. t.at = s.at /\ RaisesLow(s, t, i, n)
    BY RaiseLowIs
  <1>2. z = [t EXCEPT !.at = at]
    OBVIOUS
  <1> HIDE DEF t
  <1>3. at \in Int /\ t \in Clamps(n)
    BY <1>1 DEF Clamps, RaisesLow
  <1> HIDE DEF at
  <1>4. /\ z \in Clamps(n) /\ z.w = t.w /\ z.high = t.high /\ z.low = t.low
        /\ z.violated = t.violated /\ z.pass = t.pass /\ z.at = at
    BY <1>2, <1>3 DEF Clamps
  <1>5. z.at = s.at + 1
    BY <1>1, <1>4 DEF at
  <1> QED BY <1>1, <1>4, <1>5 DEF LowStep, RaisesLow

\* What the loop keeps in any case: something has a weight, and as long as a pass has
\* found nothing to change, what it has looked at is within bounds.
Weighing(s, n) ==
    /\ s \in Clamps(n) /\ 1 <= s.at /\ s.at <= 2 * n + 1 /\ 1 <= s.pass /\ s.pass <= Weight!Passes
    /\ \E i \in 1..n : s.w[i] > 0
Quiet(s, n, max) ==
    ~ s.violated =>
        \A i \in 1..n : /\ i < s.at => i \in s.high \/ s.w[i] <= max
                        /\ n + i < s.at => i \in s.low \/ s.w[i] >= MinWeight

LEMMA HighBasics ==
  ASSUME NEW n \in Nat \ {0}, NEW max \in Nat \ {0}, NEW s, NEW z, NEW i \in 1..n,
         Weighing(s, n), Quiet(s, n, max), HighStep(s, z, i, n, max)
  PROVE  Weighing(z, n) /\ Quiet(z, n, max)
  <1>1. s \in Clamps(n) /\ z \in Clamps(n)
    BY DEF Weighing, HighStep, TakesHigh
  <1>2. PICK k \in 1..n : s.w[k] > 0
    BY DEF Weighing
  <1>3. Weighing(z, n)
    <2>1. \E u \in 1..n : z.w[u] > 0
      <3>1. CASE z.w = s.w
        BY <1>2, <3>1
      <3>2. CASE z.w[i] = max
        BY <3>2
      <3> QED BY <3>1, <3>2 DEF HighStep, TakesHigh
    <2>2. 1 <= z.at /\ z.at <= 2 * n + 1 /\ z.pass = s.pass
      <3>1. z.at = i + 1 /\ i \in Nat /\ 1 <= i /\ i <= n /\ z.pass = s.pass
        BY DEF HighStep, TakesHigh
      <3> QED BY <3>1
    <2> QED BY <1>1, <2>1, <2>2 DEF Weighing
  <1>4. Quiet(z, n, max)
    <2> SUFFICES ASSUME ~ z.violated, NEW u \in 1..n
                 PROVE  /\ u < z.at => u \in z.high \/ z.w[u] <= max
                        /\ n + u < z.at => u \in z.low \/ z.w[u] >= MinWeight
      BY DEF Quiet
    <2>1. /\ z.w = s.w /\ z.high = s.high /\ ~ s.violated /\ (i \in s.high \/ s.w[i] <= max)
          /\ s.at = i /\ z.at = i + 1 /\ i \in Nat /\ i <= n /\ u \in Nat /\ 1 <= u
      BY DEF HighStep, TakesHigh
    <2>2. u < i => u \in s.high \/ s.w[u] <= max
      BY <2>1 DEF Quiet
    <2>3. u < z.at => u = i \/ u < i
      BY <2>1
    <2>4. ~ (n + u < z.at)
      BY <2>1
    <2> QED BY <2>1, <2>2, <2>3, <2>4
  <1> QED BY <1>3, <1>4

LEMMA LowBasics ==
  ASSUME NEW n \in Nat \ {0}, NEW max \in Nat \ {0}, NEW s, NEW z, NEW i \in 1..n,
         Weighing(s, n), Quiet(s, n, max), LowStep(s, z, i, n)
  PROVE  Weighing(z, n) /\ Quiet(z, n, max)
  <1>1. s \in Clamps(n) /\ z \in Clamps(n)
    BY DEF Weighing, LowStep, RaisesLow
  <1>2. PICK k \in 1..n : s.w[k] > 0
    BY DEF Weighing
  <1>3. Weighing(z, n)
    <2>1. \E u \in 1..n : z.w[u] > 0
      <3>1. CASE z.w = s.w
        BY <1>2, <3>1
      <3>2. CASE s.w[i] < MinWeight /\ z.w[i] = MinWeight
        <4>1. s.w[i] \in Nat /\ MinWeight \in Nat
          BY <1>1, FieldsAre, WeightsAssumption DEF WeightsAssumption
        <4> QED BY <3>2, <4>1
      <3> QED BY <3>1, <3>2 DEF LowStep, RaisesLow
    <2>2. 1 <= z.at /\ z.at <= 2 * n + 1 /\ z.pass = s.pass
      <3>1. z.at = n + i + 1 /\ i \in Nat /\ 1 <= i /\ i <= n /\ z.pass = s.pass
        BY DEF LowStep, RaisesLow
      <3> QED BY <3>1
    <2> QED BY <1>1, <2>1, <2>2 DEF Weighing
  <1>4. Quiet(z, n, max)
    <2> SUFFICES ASSUME ~ z.violated, NEW u \in 1..n
                 PROVE  /\ u < z.at => u \in z.high \/ z.w[u] <= max
                        /\ n + u < z.at => u \in z.low \/ z.w[u] >= MinWeight
      BY DEF Quiet
    <2>1. /\ z.w = s.w /\ z.high = s.high /\ z.low = s.low /\ ~ s.violated /\ (i \in s.low \/ s.w[i] >= MinWeight)
          /\ s.at = n + i /\ z.at = n + i + 1 /\ i \in Nat /\ 1 <= i /\ u \in Nat /\ 1 <= u /\ u <= n
      BY DEF LowStep, RaisesLow
    <2>2. u \in s.high \/ s.w[u] <= max
      <3>1. u < s.at
        BY <2>1
      <3> QED BY <2>1, <3>1 DEF Quiet
    <2>3. n + u < s.at => u \in s.low \/ s.w[u] >= MinWeight
      BY <2>1 DEF Quiet
    <2>4. n + u < z.at => u = i \/ n + u < s.at
      BY <2>1
    <2> QED BY <2>1, <2>2, <2>3, <2>4
  <1> QED BY <1>3, <1>4

\* What it keeps where there is room for the minimum of each: those at a bound are not
\* touched again; the others are in the order that they were in, but for the ones that
\* are looked at later in the pass, or else none of them is above the minimum; as long as
\* none has to be raised, the heavier reach the maximum first; and a pass that changes
\* something freezes something.
Frozen(s, max) ==
    /\ s.high \cap s.low = {}
    /\ \A j \in s.high : s.w[j] = max
    /\ \A j \in s.low : s.w[j] = MinWeight
StillOrdered(s, r, n) ==
    \A j \in Open(s) :
        /\ \A i \in Open(s) : r[j] <= r[i] => s.w[j] <= s.w[i]
        /\ \A i \in s.low : r[j] <= r[i] => s.w[j] < MinWeight /\ n < s.at /\ s.at <= n + j
        /\ n + j < s.at => s.w[j] >= MinWeight
AllLow(s) == \A j \in Open(s) : s.w[j] <= MinWeight
Heavy(r, n) == \A k \in 1..n : r[k] >= MinWeight
Spread(s, r, n, max) ==
    /\ s.low = {}
    /\ \A k \in 1..n : s.w[k] >= MinWeight
    /\ \A j \in s.high, i \in 1..n : r[j] <= r[i] => i \in s.high \/ s.w[i] > max
Counted(s) ==
    /\ Cardinality(s.high \cup s.low) >= s.pass - 1
    /\ s.violated => Cardinality(s.high \cup s.low) >= s.pass
Kept(s, r, n, max) ==
    /\ Frozen(s, max)
    /\ StillOrdered(s, r, n) \/ AllLow(s)
    /\ Heavy(r, n) => Spread(s, r, n, max)
    /\ Counted(s)

\* One more is frozen
LEMMA OneMoreCounted ==
  ASSUME NEW n \in Nat \ {0}, NEW s \in Clamps(n), NEW z \in Clamps(n), NEW i \in 1..n,
         i \notin s.high \cup s.low, z.high \cup z.low = (s.high \cup s.low) \cup {i},
         z.pass = s.pass, Counted(s)
  PROVE  Counted(z)
  <1> DEFINE S == s.high \cup s.low
             T == z.high \cup z.low
  <1>1. S \subseteq 1..n /\ s.pass \in Nat /\ i \notin S /\ T = S \cup {i}
    BY FieldsAre
  <1>2. IsFiniteSet(S)
    <2>1. IsFiniteSet(1..n)
      BY UpTo
    <2> HIDE DEF S
    <2> QED BY <1>1, <2>1, FS_Subset
  <1>3. Cardinality(S) >= s.pass - 1
    BY DEF Counted
  <1> HIDE DEF S, T
  <1>4. Cardinality(T) = Cardinality(S) + 1 /\ Cardinality(S) \in Nat
    BY <1>1, <1>2, FS_AddElement, FS_CardinalityType
  <1>5. Cardinality(T) >= z.pass /\ Cardinality(T) >= z.pass - 1
    BY <1>1, <1>3, <1>4
  <1> QED BY <1>5 DEF Counted, T

LEMMA HighKept ==
  ASSUME NEW n \in Nat \ {0}, NEW max \in Nat \ {0}, MinWeight <= max, NEW r \in [1..n -> Nat],
         NEW s \in Clamps(n), NEW z, NEW i \in 1..n, HighStep(s, z, i, n, max), Kept(s, r, n, max)
  PROVE  Kept(z, r, n, max)
  <1> DEFINE D == 1..n
             M == MinWeight
             O == Open(s)
             P == Open(z)
  <1>1. /\ s.w \in [D -> Nat] /\ (\A u \in D : s.w[u] \in Nat /\ u \in Nat)
        /\ s.high \subseteq D /\ s.low \subseteq D /\ O = D \ (s.high \cup s.low)
    BY FieldsAre
  <1>2. /\ z.w \in [D -> Nat] /\ (\A u \in D : z.w[u] \in Nat)
        /\ z.high \subseteq D /\ z.low \subseteq D /\ P = D \ (z.high \cup z.low)
    <2>1. z \in Clamps(n)
      BY DEF HighStep, TakesHigh
    <2> QED BY <2>1, FieldsAre
  <1>3. M \in Nat /\ M <= max /\ (\A u \in D : r[u] \in Nat)
    BY WeightsAssumption DEF WeightsAssumption
  <1>4. s.at = i /\ z.at = i + 1 /\ z.low = s.low /\ z.pass = s.pass /\ i \in D /\ i \in Nat /\ i <= n /\ 1 <= i
    BY DEF HighStep, TakesHigh
  <1>5. Frozen(s, max)
    BY DEF Kept
  <1>6. CASE z.w = s.w /\ z.high = s.high /\ z.violated = s.violated /\ (i \in s.high \/ s.w[i] <= max)
    <2>1. Frozen(z, max) /\ Counted(z) /\ P = O
      BY <1>1, <1>2, <1>4, <1>6 DEF Frozen, Counted, Kept
    <2>2. AllLow(s) => AllLow(z)
      BY <1>6, <2>1 DEF AllLow
    <2>3. ASSUME StillOrdered(s, r, n) PROVE StillOrdered(z, r, n)
      <3> SUFFICES ASSUME NEW j \in O
                   PROVE  /\ \A u \in O : r[j] <= r[u] => s.w[j] <= s.w[u]
                          /\ \A u \in s.low : r[j] <= r[u] => FALSE
                          /\ ~ (n + j < z.at)
        BY <1>4, <1>6, <2>1 DEF StillOrdered
      <3>1. /\ \A u \in O : r[j] <= r[u] => s.w[j] <= s.w[u]
            /\ \A u \in s.low : r[j] <= r[u] => n < s.at
        BY <2>3 DEF StillOrdered
      <3>2. j \in Nat /\ 1 <= j
        BY <1>1
      <3> QED BY <1>4, <3>1, <3>2
    <2>4. Heavy(r, n) => Spread(z, r, n, max)
      BY <1>4, <1>6 DEF Kept, Spread
    <2> QED BY <2>1, <2>2, <2>3, <2>4 DEF Kept
  <1>7. CASE /\ i \notin s.high /\ max < s.w[i]
             /\ z.violated /\ z.high = s.high \cup {i} /\ z.w[i] = max
             /\ \A u \in D \ ({i} \cup O) : z.w[u] = s.w[u]
             /\ \A u \in O \ {i} : s.w[u] <= z.w[u]
             /\ \A u, v \in O \ {i} : s.w[u] <= s.w[v] => z.w[u] <= z.w[v]
    <2>1. i \in O /\ P = O \ {i}
      <3>1. i \notin s.low
        BY <1>1, <1>3, <1>4, <1>5, <1>7 DEF Frozen
      <3> QED BY <1>1, <1>2, <1>4, <1>7, <3>1
    <2>2. Frozen(z, max)
      <3>1. z.high \cap z.low = {}
        BY <1>1, <1>4, <1>5, <1>7, <2>1 DEF Frozen
      <3>2. \A u \in s.high \cup s.low : u # i /\ u \notin O /\ z.w[u] = s.w[u]
        BY <1>1, <1>7, <2>1
      <3> QED BY <1>4, <1>5, <1>7, <3>1, <3>2 DEF Frozen
    <2>3. Counted(z)
      <3>1. i \notin s.high \cup s.low /\ z.high \cup z.low = (s.high \cup s.low) \cup {i} /\ z \in Clamps(n)
        BY <1>1, <1>4, <1>7, <2>1 DEF HighStep, TakesHigh
      <3> QED BY <1>4, <3>1, OneMoreCounted DEF Kept
    <2>4. ~ AllLow(s)
      BY <1>1, <1>3, <1>7, <2>1 DEF AllLow
    <2>5. StillOrdered(s, r, n)
      BY <2>4 DEF Kept
    <2>6. StillOrdered(z, r, n)
      <3> SUFFICES ASSUME NEW j \in P
                   PROVE  /\ \A u \in P : r[j] <= r[u] => z.w[j] <= z.w[u]
                          /\ \A u \in z.low : r[j] <= r[u] => FALSE
                          /\ ~ (n + j < z.at)
        BY DEF StillOrdered
      <3>1. /\ \A u \in O : r[j] <= r[u] => s.w[j] <= s.w[u]
            /\ \A u \in s.low : r[j] <= r[u] => n < s.at
        BY <2>1, <2>5 DEF StillOrdered
      <3>2. \A u \in P : r[j] <= r[u] => z.w[j] <= z.w[u]
        BY <1>7, <2>1, <3>1
      <3>3. j \in Nat /\ 1 <= j
        BY <1>2
      <3> QED BY <1>4, <3>1, <3>2, <3>3
    <2>7. ASSUME Heavy(r, n) PROVE Spread(z, r, n, max)
      <3>1. Spread(s, r, n, max)
        BY <2>7 DEF Kept
      <3>2. \A k \in D : z.w[k] >= M
        <4> SUFFICES ASSUME NEW k \in D PROVE z.w[k] >= M
          OBVIOUS
        <4>1. s.w[k] >= M /\ s.w[k] \in Nat /\ z.w[k] \in Nat
          BY <1>1, <1>2, <3>1 DEF Spread
        <4>2. k = i \/ z.w[k] = s.w[k] \/ s.w[k] <= z.w[k]
          BY <1>7
        <4> QED BY <1>3, <1>7, <4>1, <4>2
      <3>3. ASSUME NEW j \in z.high, NEW k \in D, r[j] <= r[k], k \notin z.high PROVE z.w[k] > max
        <4>1. k \in O /\ k # i
          BY <1>1, <1>7, <3>1, <3>3 DEF Spread
        <4>2. s.w[k] <= z.w[k]
          BY <1>7, <4>1
        <4>3. s.w[k] > max
          <5>1. CASE j = i
            BY <1>1, <1>7, <2>1, <2>5, <3>3, <4>1, <5>1 DEF StillOrdered
          <5>2. CASE j \in s.high
            BY <1>7, <3>1, <3>3, <5>2 DEF Spread
          <5> QED BY <1>7, <3>3, <5>1, <5>2
        <4>4. s.w[k] \in Nat /\ z.w[k] \in Nat
          BY <1>1, <1>2
        <4> QED BY <4>2, <4>3, <4>4
      <3> QED BY <1>4, <3>1, <3>2, <3>3 DEF Spread
    <2> QED BY <2>2, <2>3, <2>6, <2>7 DEF Kept
  <1> QED BY <1>6, <1>7 DEF HighStep, TakesHigh

LEMMA LowKept ==
  ASSUME NEW n \in Nat \ {0}, NEW max \in Nat \ {0}, MinWeight <= max, NEW r \in [1..n -> Nat],
         NEW s \in Clamps(n), NEW z, NEW i \in 1..n, LowStep(s, z, i, n), Kept(s, r, n, max)
  PROVE  Kept(z, r, n, max)
  <1> DEFINE D == 1..n
             M == MinWeight
             O == Open(s)
             P == Open(z)
             G == Donors(s, i)
  <1>1. /\ s.w \in [D -> Nat] /\ (\A u \in D : s.w[u] \in Nat /\ u \in Nat)
        /\ s.high \subseteq D /\ s.low \subseteq D /\ O = D \ (s.high \cup s.low)
    BY FieldsAre
  <1>2. /\ z \in Clamps(n) /\ z.w \in [D -> Nat] /\ (\A u \in D : z.w[u] \in Nat)
        /\ z.high \subseteq D /\ z.low \subseteq D /\ P = D \ (z.high \cup z.low)
    <2>1. z \in Clamps(n)
      BY DEF LowStep, RaisesLow
    <2> QED BY <2>1, FieldsAre
  <1>3. M \in Nat /\ M <= max /\ (\A u \in D : r[u] \in Nat)
    BY WeightsAssumption DEF WeightsAssumption
  <1>4. /\ s.at = n + i /\ z.at = n + i + 1 /\ z.high = s.high /\ z.pass = s.pass
        /\ i \in D /\ i \in Nat /\ i <= n /\ 1 <= i /\ n \in Nat
    <2>1. s.at = n + i /\ z.at = s.at + 1 /\ z.high = s.high /\ z.pass = s.pass
      BY DEF LowStep, RaisesLow
    <2> QED BY <2>1
  <1>5. Frozen(s, max)
    BY DEF Kept
  <1>6. CASE z.w = s.w /\ z.low = s.low /\ z.violated = s.violated /\ (i \in s.low \/ s.w[i] >= M)
    <2>1. Frozen(z, max) /\ Counted(z) /\ P = O
      BY <1>1, <1>2, <1>4, <1>6 DEF Frozen, Counted, Kept
    <2>2. AllLow(s) => AllLow(z)
      BY <1>6, <2>1 DEF AllLow
    <2>3. ASSUME StillOrdered(s, r, n) PROVE StillOrdered(z, r, n)
      <3> SUFFICES ASSUME NEW j \in O
                   PROVE  /\ \A u \in O : r[j] <= r[u] => s.w[j] <= s.w[u]
                          /\ \A u \in s.low : r[j] <= r[u] => s.w[j] < M /\ n < z.at /\ z.at <= n + j
                          /\ n + j < z.at => s.w[j] >= M
        BY <1>6, <2>1 DEF StillOrdered
      <3>1. /\ \A u \in O : r[j] <= r[u] => s.w[j] <= s.w[u]
            /\ \A u \in s.low : r[j] <= r[u] => s.w[j] < M /\ s.at <= n + j
            /\ n + j < s.at => s.w[j] >= M
        BY <2>3 DEF StillOrdered
      <3>2. j \in Nat /\ s.w[j] \in Nat /\ j \notin s.low
        BY <1>1
      <3>3. j = i => s.w[j] >= M
        BY <1>6, <3>2
      <3>4. ASSUME NEW u \in s.low, r[j] <= r[u] PROVE s.w[j] < M /\ n < z.at /\ z.at <= n + j
        BY <1>3, <1>4, <3>1, <3>2, <3>3, <3>4
      <3>5. n + j < z.at => s.w[j] >= M
        BY <1>4, <3>1, <3>2, <3>3
      <3> QED BY <3>1, <3>4, <3>5
    <2>4. Heavy(r, n) => Spread(z, r, n, max)
      BY <1>4, <1>6 DEF Kept, Spread
    <2> QED BY <2>1, <2>2, <2>3, <2>4 DEF Kept
  <1>7. CASE /\ i \notin s.low /\ s.w[i] < M
             /\ z.violated /\ z.low = s.low \cup {i} /\ z.w[i] = M
             /\ \A u \in D \ ({i} \cup G) : z.w[u] = s.w[u]
             /\ \/ \A u, v \in G : z.w[u] >= M /\ (s.w[u] <= s.w[v] => z.w[u] <= z.w[v])
                \/ \A u \in G : z.w[u] <= M
    <2>1. i \in O /\ P = O \ {i}
      <3>1. i \notin s.high
        BY <1>1, <1>3, <1>4, <1>5, <1>7 DEF Frozen
      <3> QED BY <1>1, <1>2, <1>4, <1>7, <3>1
    <2>2. G \subseteq P /\ \A u \in P : (u \in G <=> s.w[u] > M) /\ u \in D /\ u # i /\ u \in O
      BY <1>1, <2>1 DEF Donors
    <2>3. \A u \in P : u \notin G => z.w[u] = s.w[u] /\ s.w[u] <= M
      <3>1. \A u \in P : u \notin G => u \in D \ ({i} \cup G) /\ s.w[u] \in Nat /\ ~ (s.w[u] > M)
        BY <1>1, <2>2
      <3> HIDE DEF P, D, G
      <3> QED BY <1>3, <1>7, <3>1
    <2> HIDE DEF G
    <2>4. Frozen(z, max)
      <3>1. z.high \cap z.low = {}
        BY <1>1, <1>4, <1>5, <1>7, <2>1 DEF Frozen
      <3>2. \A u \in s.high \cup s.low : u # i /\ u \notin G /\ z.w[u] = s.w[u]
        BY <1>1, <1>7, <2>1, <2>2
      <3> QED BY <1>4, <1>5, <1>7, <3>1, <3>2 DEF Frozen
    <2>5. Counted(z)
      <3>1. i \notin s.high \cup s.low /\ z.high \cup z.low = (s.high \cup s.low) \cup {i}
        BY <1>1, <1>4, <1>7, <2>1
      <3> QED BY <1>2, <1>4, <3>1, OneMoreCounted DEF Kept
    <2>6. ~ Heavy(r, n)
      <3>1. Heavy(r, n) => s.w[i] >= M
        BY <1>4 DEF Kept, Spread
      <3> QED BY <1>1, <1>3, <1>4, <1>7, <3>1
    <2>7. StillOrdered(z, r, n) \/ AllLow(z)
      <3>1. CASE \A u \in G : z.w[u] <= M
        BY <2>3, <3>1 DEF AllLow
      <3>2. CASE AllLow(s)
        <4>1. G = {}
          BY <1>1, <1>3, <2>2, <3>2 DEF AllLow
        <4> QED BY <2>3, <4>1 DEF AllLow
      <3>3. CASE /\ StillOrdered(s, r, n)
                 /\ \A u, v \in G : z.w[u] >= M /\ (s.w[u] <= s.w[v] => z.w[u] <= z.w[v])
        <4> SUFFICES ASSUME NEW j \in P
                     PROVE  /\ \A u \in P : r[j] <= r[u] => z.w[j] <= z.w[u]
                            /\ \A u \in z.low : r[j] <= r[u] => z.w[j] < M /\ n < z.at /\ z.at <= n + j
                            /\ n + j < z.at => z.w[j] >= M
          BY DEF StillOrdered
        <4>1. /\ \A u \in O : r[j] <= r[u] => s.w[j] <= s.w[u]
              /\ \A u \in s.low : r[j] <= r[u] => s.w[j] < M /\ s.at <= n + j
              /\ n + j < s.at => s.w[j] >= M
          BY <2>1, <3>3 DEF StillOrdered
        <4>2. j \in Nat /\ s.w[j] \in Nat /\ j # i
          BY <1>1, <2>2
        <4>3. ASSUME NEW u \in P, r[j] <= r[u] PROVE z.w[j] <= z.w[u]
          <5>1. s.w[j] <= s.w[u] /\ s.w[u] \in Nat /\ z.w[u] \in Nat
            BY <1>1, <1>2, <2>2, <4>1, <4>3
          <5>2. CASE j \in G
            <6>1. u \in G
              BY <1>3, <2>2, <4>2, <5>1, <5>2
            <6> QED BY <3>3, <5>1, <5>2, <6>1
          <5>3. CASE j \notin G /\ u \in G
            BY <1>3, <2>3, <3>3, <4>2, <5>1, <5>3
          <5>4. CASE j \notin G /\ u \notin G
            BY <2>3, <5>1, <5>4
          <5> QED BY <5>2, <5>3, <5>4
        <4>4. ASSUME NEW u \in z.low, r[j] <= r[u] PROVE z.w[j] < M /\ n < z.at /\ z.at <= n + j
          <5>1. s.w[j] < M /\ s.at <= n + j
            <6>1. CASE u \in s.low
              BY <4>1, <4>4, <6>1
            <6>2. CASE u = i
              <7>1. s.w[j] <= s.w[i] /\ s.w[i] \in Nat /\ s.w[i] < M
                BY <1>1, <1>4, <1>7, <2>1, <4>1, <4>4, <6>2
              <7>2. s.w[j] < M
                BY <1>3, <4>2, <7>1
              <7> QED BY <1>3, <1>4, <4>1, <4>2, <7>2
            <6> QED BY <1>7, <6>1, <6>2
          <5>2. z.w[j] = s.w[j]
            BY <1>3, <2>2, <2>3, <4>2, <5>1
          <5> QED BY <1>4, <4>2, <5>1, <5>2
        <4>5. ASSUME n + j < z.at PROVE z.w[j] >= M
          <5>1. s.w[j] >= M
            BY <1>4, <4>1, <4>2, <4>5
          <5> QED BY <2>3, <3>3, <5>1
        <4> QED BY <4>3, <4>4, <4>5
      <3> QED BY <1>7, <3>1, <3>2, <3>3 DEF Kept
    <2> QED BY <2>4, <2>5, <2>6, <2>7 DEF Kept
  <1> QED BY <1>6, <1>7 DEF LowStep, RaisesLow

\* The clamp begins with nothing frozen.
LEMMA ClampBegins ==
  ASSUME NEW n \in Nat \ {0}, NEW max \in Nat \ {0}, NEW r \in [1..n -> Nat],
         NEW k \in 1..n, r[k] > 0,
         NEW z \in Clamps(n), z.w = r, z.high = {}, z.low = {}, z.at = 1, ~ z.violated, z.pass = 1
  PROVE  Weighing(z, n) /\ Quiet(z, n, max) /\ Kept(z, r, n, max)
  <1>1. Open(z) = 1..n
    BY FieldsAre
  <1>2. Weighing(z, n)
    <2>1. z.w[k] > 0
      OBVIOUS
    <2> QED BY <2>1 DEF Weighing, Weight!Passes
  <1>3. Quiet(z, n, max)
    BY DEF Quiet
  <1>4. Frozen(z, max) /\ StillOrdered(z, r, n)
    BY <1>1 DEF Frozen, StillOrdered
  <1>5. Heavy(r, n) => Spread(z, r, n, max)
    BY <1>1 DEF Heavy, Spread
  <1>6. Counted(z)
    <2>1. Cardinality({}) = 0
      BY FS_EmptySet
    <2>2. z.high \cup z.low = {}
      OBVIOUS
    <2>3. 0 >= z.pass - 1
      OBVIOUS
    <2> QED BY <2>1, <2>2, <2>3 DEF Counted
  <1> QED BY <1>2, <1>3, <1>4, <1>5, <1>6 DEF Kept

\* A pass that changed something is followed by another.
LEMMA PassAgain ==
  ASSUME NEW n \in Nat \ {0}, NEW max \in Nat \ {0}, NEW r \in [1..n -> Nat],
         NEW s, Weighing(s, n), s.at = 2 * n + 1, s.violated, s.pass < Weight!Passes,
         NEW z, z = [s EXCEPT !.at = 1, !.violated = FALSE, !.pass = @ + 1]
  PROVE  Weighing(z, n) /\ Quiet(z, n, max) /\ (Kept(s, r, n, max) => Kept(z, r, n, max))
  <1>1. s \in Clamps(n) /\ s.pass \in Nat
    BY DEF Weighing, Clamps
  <1>2. /\ z \in Clamps(n) /\ z.w = s.w /\ z.high = s.high /\ z.low = s.low
        /\ z.at = 1 /\ ~ z.violated /\ z.pass = s.pass + 1 /\ Open(z) = Open(s)
    <2> DEFINE b == FALSE
               p == s.pass + 1
    <2>1. b \in BOOLEAN /\ ~ b /\ p \in Nat /\ 1 \in Int
      BY <1>1
    <2>2. z = [s EXCEPT !.at = 1, !.violated = b, !.pass = p]
      OBVIOUS
    <2> HIDE DEF b, p
    <2>3. /\ z \in Clamps(n) /\ z.w = s.w /\ z.high = s.high /\ z.low = s.low
          /\ z.at = 1 /\ z.violated = b /\ z.pass = p
      BY <1>1, <2>1, <2>2 DEF Clamps
    <2> QED BY <2>1, <2>3 DEF p, Open
  <1>3. Weighing(z, n)
    BY <1>1, <1>2 DEF Weighing, Weight!Passes
  <1>4. Quiet(z, n, max)
    BY <1>2 DEF Quiet
  <1>5. ASSUME Kept(s, r, n, max) PROVE Kept(z, r, n, max)
    <2>1. Frozen(z, max)
      BY <1>2, <1>5 DEF Kept, Frozen
    <2>2. StillOrdered(s, r, n) => StillOrdered(z, r, n)
      <3> SUFFICES ASSUME StillOrdered(s, r, n), NEW j \in Open(s)
                   PROVE  /\ \A u \in Open(s) : r[j] <= r[u] => s.w[j] <= s.w[u]
                          /\ \A u \in s.low : r[j] <= r[u] => FALSE
                          /\ ~ (n + j < 1)
        BY <1>2 DEF StillOrdered
      <3>1. /\ \A u \in Open(s) : r[j] <= r[u] => s.w[j] <= s.w[u]
            /\ \A u \in s.low : r[j] <= r[u] => s.at <= n + j
        BY DEF StillOrdered
      <3>2. j \in Nat /\ j <= n
        BY <1>1, FieldsAre
      <3> QED BY <3>1, <3>2
    <2>3. AllLow(s) => AllLow(z)
      BY <1>2 DEF AllLow
    <2>4. Heavy(r, n) => Spread(z, r, n, max)
      BY <1>2, <1>5 DEF Kept, Spread
    <2>5. Counted(z)
      BY <1>1, <1>2, <1>5 DEF Kept, Counted
    <2> QED BY <1>5, <2>1, <2>2, <2>3, <2>4, <2>5 DEF Kept
  <1> QED BY <1>3, <1>4, <1>5

\* The minima of a sum
LEMMA SumAtLeast ==
  ASSUME NEW S, IsFiniteSet(S), NEW c \in Nat, NEW u, \A x \in S : u[x] \in Nat /\ c <= u[x]
  PROVE  Cardinality(S) \in Nat /\ Cardinality(S) * c \in Nat /\ Cardinality(S) * c <= SumOf(u, S)
  <1> DEFINE P == Picked(S)
             f == SumFold(u, S)
             Good == {s \in SUBSET S : f[s] \in Nat /\ Cardinality(s) * c <= f[s]}
  <1>1. Integral(u, S)
    BY DEF Integral
  <1>2. /\ f[{}] = 0 /\ \A s \in SUBSET S : s # {} => P[s] \in s /\ f[s] = u[P[s]] + f[s \ {P[s]}]
    BY <1>1, SumUnfolds
  <1> HIDE DEF f, P
  <1>3. Inductive(Good, S, P)
    <2>1. {} \in Good
      BY <1>2, FS_EmptySet
    <2>2. ASSUME NEW s \in SUBSET S, s # {}, s \ {P[s]} \in Good PROVE s \in Good
      <3> DEFINE x == P[s]
                 k == Cardinality(s \ {x})
                 a == u[x]
                 b == f[s \ {x}]
      <3>1. x \in s /\ a \in Nat /\ c <= a /\ f[s] = a + b /\ b \in Nat /\ k * c <= b
        BY <1>2, <2>2
      <3> HIDE DEF x
      <3>2. k = Cardinality(s) - 1 /\ k \in Nat /\ Cardinality(s) \in Nat
        BY <3>1, Smaller
      <3> HIDE DEF k, a, b
      <3>3. Cardinality(s) = k + 1 /\ (k + 1) * c = k * c + c /\ k * c \in Nat
        BY <3>2
      <3> QED BY <3>1, <3>3
    <2> HIDE DEF Good
    <2> QED BY <1>2, <2>1, <2>2 DEF Inductive
  <1>4. S \in Good
    <2> HIDE DEF Good
    <2> QED BY <1>3, FoldInduction
  <1>5. Cardinality(S) \in Nat
    BY FS_CardinalityType
  <1>6. Cardinality(S) * c \in Nat
    BY <1>5
  <1> QED BY <1>4, <1>5, <1>6 DEF SumOf, f

\* What the clamp returns: the weights, or their shares of the whole. The first of the two
\* only if all were above the maximum, which raw weights are not.
LEMMA NormalisedIs ==
  ASSUME data \in Selections, strategy \in Strategies, maxWeight \in MaxWeights,
         NEW w \in [1..Len(data) -> Nat], NEW k \in 1..Len(data), w[k] > 0,
         NEW q, q = Weight!Normalised(w)
  PROVE  /\ q \in [1..Len(data) -> Nat]
         /\ \A i, j \in 1..Len(data) : w[i] <= w[j] => q[i] <= q[j]
         /\ SumOf(q, 1..Len(data)) \in Nat /\ SumOf(q, 1..Len(data)) <= Weight!One
         /\ Weight!One < SumOf(q, 1..Len(data)) + Len(data)
  <1> DEFINE n == Len(data)
             D == 1..n
             one == Weight!One
             r == Weight!Raw(data, strategy)
             max == Weight!Ceiling(n, maxWeight)
             total == SumOf(w, D)
  <1>1. n \in Nat \ {0} /\ one \in Nat /\ maxWeight \in Nat
    <2>1. Len(data) \in Percent
      BY SelectionIs
    <2>2. maxWeight \in Nat
      BY WeightsAssumption DEF WeightsAssumption
    <2> QED BY <2>1, <2>2 DEF Percent, Weight!One
  <1>2. /\ max \in Nat \ {0} /\ n * (max + 1) \in Nat /\ one < n * (max + 1)
    BY <1>1, CeilingIs
  <1>3. IsFiniteSet(D) /\ Cardinality(D) = n
    BY <1>1, UpTo
  <1>4. r \in [D -> Nat] /\ SumOf(r, D) \in Nat /\ SumOf(r, D) <= one
    BY RawIs
  <1>5. w \in [D -> Nat] /\ DOMAIN w = D /\ k \in D
    OBVIOUS
  <1>6. q = IF \A i \in DOMAIN w : r[i] > max THEN w ELSE [i \in DOMAIN w |-> (one * w[i]) \div total]
    BY <1>5, WeightSums DEF Weight!Normalised
  <1> HIDE DEF n, r, max, one, D
  <1>7. ~ (\A i \in D : r[i] > max)
    <2> SUFFICES ASSUME \A i \in D : r[i] > max PROVE FALSE
      OBVIOUS
    <2>1. max + 1 \in Nat /\ \A i \in D : r[i] \in Nat /\ max + 1 <= r[i]
      BY <1>2, <1>4
    <2>2. n * (max + 1) <= SumOf(r, D)
      BY <1>3, <2>1, SumAtLeast
    <2> QED BY <1>1, <1>2, <1>4, <2>2
  <1>8. total \in Nat \ {0}
    <2>1. total \in Nat /\ Integral(w, D)
      BY <1>3, <1>5, SumNat
    <2>2. IsFiniteSet(D \ {k}) /\ w[k] \in Int /\ SumOf(w, D \ {k}) \in Int /\ total = w[k] + SumOf(w, D \ {k})
      BY <1>3, <1>5, <2>1, SumTakes
    <2>3. SumOf(w, D \ {k}) \in Nat
      BY <1>5, <2>2, SumNat
    <2> HIDE DEF total
    <2> QED BY <1>5, <2>1, <2>2, <2>3
  <1>9. q = [i \in D |-> (one * w[i]) \div total]
    BY <1>5, <1>6, <1>7
  <1>10. /\ q \in [D -> Nat]
         /\ SumOf(q, D) \in Nat /\ SumOf(q, D) <= one /\ one < SumOf(q, D) + n
    <2>1. \A i \in 1..Len(data) : w[i] \in Nat
      OBVIOUS
    <2>2. total \in Nat \ {0} /\ total = SumOf(w, 1..Len(data))
      BY <1>8 DEF D, n
    <2> DEFINE p == [i \in 1..Len(data) |-> (Weight!One * w[i]) \div total]
               Whole(x) == /\ x \in [1..Len(data) -> Nat]
                           /\ SumOf(x, 1..Len(data)) \in Nat /\ SumOf(x, 1..Len(data)) <= Weight!One
                           /\ Weight!One < SumOf(x, 1..Len(data)) + Len(data)
    <2>3. q = p
      BY <1>9 DEF D, n, one
    <2> HIDE DEF total
    <2>4. Whole(p)
      BY <2>1, <2>2, WholeShared
    <2> HIDE DEF p
    <2> QED BY <2>3, <2>4 DEF D, n, one
  <1>11. ASSUME NEW i \in D, NEW j \in D, w[i] <= w[j] PROVE q[i] <= q[j]
    <2> DEFINE x == w[i]
               y == w[j]
    <2>1. x \in Nat /\ y \in Nat /\ x <= y
      BY <1>5, <1>11
    <2>2. q[i] = (one * x) \div total /\ q[j] = (one * y) \div total
      BY <1>9
    <2> HIDE DEF x, y, total
    <2>3. (one * x) \div total <= (one * y) \div total
      BY <1>1, <1>8, <2>1, ShareIs
    <2> QED BY <2>2, <2>3
  <1> QED BY <1>10, <1>11 DEF D, n, one

\* After the last pass a position that weighs more than a heavier one is at the maximum,
\* and some position was below the minimum.
LEMMA PassesEnd ==
  ASSUME NEW n \in Nat \ {0}, n < Weight!Passes, NEW max \in Nat \ {0}, MinWeight <= max,
         NEW r \in [1..n -> Nat],
         NEW s, Weighing(s, n), Quiet(s, n, max), Kept(s, r, n, max),
         s.at = 2 * n + 1, s.violated => s.pass = Weight!Passes,
         NEW i \in 1..n, NEW j \in 1..n, r[i] > r[j], s.w[i] < s.w[j]
  PROVE  /\ \A k \in 1..n : s.w[k] <= s.w[j]
         /\ \E k \in 1..n : r[k] < MinWeight
  <1> DEFINE D == 1..n
             M == MinWeight
  <1>1. /\ s \in Clamps(n) /\ (\A u \in D : s.w[u] \in Nat /\ u \in Nat /\ 1 <= u /\ u <= n)
        /\ s.high \subseteq D /\ s.low \subseteq D /\ Open(s) = D \ (s.high \cup s.low)
    <2>1. s \in Clamps(n)
      BY DEF Weighing
    <2>2. \A u \in D : u \in Nat /\ 1 <= u /\ u <= n
      OBVIOUS
    <2> QED BY <2>1, <2>2, FieldsAre
  <1>2. M \in Nat /\ M <= max /\ (\A u \in D : r[u] \in Nat)
    BY WeightsAssumption DEF WeightsAssumption
  <1>3. ~ s.violated
    <2> DEFINE T == s.high \cup s.low
    <2>1. IsFiniteSet(D) /\ Cardinality(D) = n /\ T \subseteq D
      BY <1>1, UpTo
    <2>2. s.violated => Cardinality(T) >= s.pass
      BY DEF Kept, Counted
    <2> HIDE DEF D, T
    <2>3. Cardinality(T) <= n /\ Cardinality(T) \in Nat
      BY <2>1, FS_Subset, FS_CardinalityType
    <2> QED BY <2>2, <2>3 DEF Weight!Passes
  <1>4. Frozen(s, max) /\ (StillOrdered(s, r, n) \/ AllLow(s))
    BY DEF Kept
  <1>5. \A u \in D : M <= s.w[u] /\ s.w[u] <= max
    <2> SUFFICES ASSUME NEW u \in D PROVE M <= s.w[u] /\ s.w[u] <= max
      OBVIOUS
    <2>1. u < s.at /\ n + u < s.at
      BY <1>1
    <2>2. (u \in s.high \/ s.w[u] <= max) /\ (u \in s.low \/ s.w[u] >= M)
      BY <1>3, <2>1 DEF Quiet
    <2>3. (u \in s.high => s.w[u] = max) /\ (u \in s.low => s.w[u] = M)
      BY <1>4 DEF Frozen
    <2> QED BY <1>1, <1>2, <2>2, <2>3
  <1>6. r[j] <= r[i] /\ ~ (s.w[j] <= s.w[i]) /\ M < s.w[j] /\ s.w[i] < max
    BY <1>1, <1>2, <1>5
  <1>7. j \in s.high
    <2>1. j \notin s.low
      BY <1>1, <1>2, <1>4, <1>6 DEF Frozen
    <2>2. i \notin s.high
      BY <1>1, <1>4, <1>6 DEF Frozen
    <2>3. j \notin Open(s)
      <3> SUFFICES ASSUME j \in Open(s) PROVE FALSE
        OBVIOUS
      <3>1. ~ AllLow(s)
        BY <1>1, <1>2, <1>6 DEF AllLow
      <3>2. /\ i \in Open(s) => s.w[j] <= s.w[i]
            /\ i \in s.low => s.w[j] < M
        BY <1>4, <1>6, <3>1 DEF StillOrdered
      <3> QED BY <1>1, <1>2, <1>6, <2>2, <3>2
    <2> QED BY <1>1, <2>1, <2>3
  <1>8. s.w[j] = max
    BY <1>4, <1>7 DEF Frozen
  <1>9. ~ Heavy(r, n)
    <2> SUFFICES ASSUME Heavy(r, n) PROVE FALSE
      OBVIOUS
    <2>1. i \in s.high \/ s.w[i] > max
      BY <1>6, <1>7 DEF Kept, Spread
    <2> QED BY <1>1, <1>4, <1>6, <2>1 DEF Frozen
  <1> QED BY <1>2, <1>5, <1>8, <1>9 DEF Heavy

\* Inductive: the clamp, once begun, keeps what it keeps, and nothing is returned before its end.
Loop(s, r, n, max) ==
    /\ Weighing(s, n) /\ Quiet(s, n, max)
    /\ n * MinWeight <= Weight!One /\ n < Weight!Passes => Kept(s, r, n, max)
WeightInv ==
    /\ data \in Selections /\ strategy \in Strategies /\ maxWeight \in MaxWeights
    /\ Weight!FullyInvested /\ Weight!OrderKept
    /\ \/ clamp = Weight!Idle
       \/ /\ weights = <<>>
          /\ Loop(clamp, Weight!Raw(data, strategy), Len(data), Weight!Ceiling(Len(data), maxWeight))

LEMMA WeightInit == ASSUME Weight!Init PROVE WeightInv
  BY DEF Weight!Init, WeightInv, Strategies, Weight!FullyInvested, Weight!OrderKept

LEMMA WeightStays == ASSUME WeightInv, UNCHANGED weightVars PROVE WeightInv'
  <1>1. data' = data /\ strategy' = strategy /\ maxWeight' = maxWeight /\ clamp' = clamp /\ weights' = weights
    BY DEF weightVars
  <1>2. Weight!FullyInvested'
    BY <1>1 DEF WeightInv, Weight!FullyInvested
  <1>3. Weight!OrderKept'
    BY <1>1 DEF WeightInv, Weight!OrderKept
  <1> QED BY <1>1, <1>2, <1>3 DEF WeightInv

\* One step of the loop
LEMMA LoopGoesOn ==
  ASSUME NEW n \in Nat \ {0}, NEW max \in Nat \ {0}, n * MinWeight <= Weight!One => MinWeight <= max,
         NEW r \in [1..n -> Nat], NEW s, Loop(s, r, n, max), NEW i \in 1..n, NEW z,
         \/ s.at = i /\ z = [Weight!TakeHigh(s, i, max) EXCEPT !.at = @ + 1]
         \/ s.at = n + i /\ z = [Weight!RaiseLow(s, i) EXCEPT !.at = @ + 1]
  PROVE  Loop(z, r, n, max)
  <1>1. s \in Clamps(n) /\ Weighing(s, n) /\ Quiet(s, n, max)
    BY DEF Loop, Weighing
  <1>2. CASE s.at = i /\ z = [Weight!TakeHigh(s, i, max) EXCEPT !.at = @ + 1]
    <2>1. HighStep(s, z, i, n, max)
      BY <1>1, <1>2, HighSteps
    <2>2. Weighing(z, n) /\ Quiet(z, n, max)
      BY <1>1, <2>1, HighBasics
    <2>3. MinWeight <= max /\ Kept(s, r, n, max) => Kept(z, r, n, max)
      BY <1>1, <2>1, HighKept
    <2> QED BY <2>2, <2>3 DEF Loop
  <1>3. CASE s.at = n + i /\ z = [Weight!RaiseLow(s, i) EXCEPT !.at = @ + 1]
    <2>1. LowStep(s, z, i, n)
      BY <1>1, <1>3, LowSteps
    <2>2. Weighing(z, n) /\ Quiet(z, n, max)
      BY <1>1, <2>1, LowBasics
    <2>3. MinWeight <= max /\ Kept(s, r, n, max) => Kept(z, r, n, max)
      BY <1>1, <2>1, LowKept
    <2> QED BY <2>2, <2>3 DEF Loop
  <1> QED BY <1>2, <1>3

\* What is weighed, and the bounds of the clamp
LEMMA WeighedIs ==
  ASSUME WeightInv, NEW n, n = Len(data), NEW r, r = Weight!Raw(data, strategy),
         NEW max, max = Weight!Ceiling(n, maxWeight)
  PROVE  /\ n \in Nat \ {0} /\ r \in [1..n -> Nat] /\ \E k \in 1..n : r[k] > 0
         /\ max \in Nat \ {0} /\ (n * MinWeight <= Weight!One => MinWeight <= max)
  <1>1. n \in Nat \ {0}
    <2>1. Len(data) \in Percent
      BY SelectionIs DEF WeightInv
    <2> QED BY <2>1 DEF Percent
  <1>2. r \in [1..n -> Nat] /\ 0 < SumOf(r, 1..n)
    BY RawIs DEF WeightInv
  <1>3. max \in Nat \ {0} /\ (n * MinWeight <= Weight!One => MinWeight <= max)
    <2>1. maxWeight \in Nat
      BY WeightsAssumption DEF WeightInv, WeightsAssumption
    <2> QED BY <1>1, <2>1, CeilingIs
  <1>4. \E k \in 1..n : r[k] > 0
    <2> SUFFICES ASSUME ~ \E k \in 1..n : r[k] > 0 PROVE FALSE
      OBVIOUS
    <2>1. \A k \in 1..n : r[k] = 0
      <3>1. \A k \in 1..n : r[k] \in Nat
        BY <1>2
      <3> QED BY <3>1
    <2>2. IsFiniteSet(1..n)
      BY <1>1, UpTo
    <2>3. SumOf(r, 1..n) = 0
      BY <2>1, <2>2, ZeroSum
    <2> QED BY <1>2, <2>3
  <1> QED BY <1>1, <1>2, <1>3, <1>4

\* What is returned at the end of the loop
LEMMA ReturnedIs ==
  ASSUME WeightInv, UNCHANGED <<data, strategy, maxWeight>>,
         clamp.at = 2 * Len(data) + 1, clamp.violated => clamp.pass = Weight!Passes,
         clamp # Weight!Idle, weights' = Weight!Normalised(clamp.w)
  PROVE  Weight!FullyInvested' /\ Weight!OrderKept'
  <1> DEFINE n == Len(data)
             r == Weight!Raw(data, strategy)
             max == Weight!Ceiling(n, maxWeight)
             s == clamp
             w == s.w
             q == Weight!Normalised(w)
             D == 1..n
  <1>1. /\ n \in Nat \ {0} /\ r \in [1..n -> Nat] /\ max \in Nat \ {0}
        /\ n * MinWeight <= Weight!One => MinWeight <= max
    BY WeighedIs
  <1>2. Loop(s, r, n, max)
    BY DEF WeightInv
  <1>3. data \in Selections /\ strategy \in Strategies /\ maxWeight \in MaxWeights
    BY DEF WeightInv
  <1>4. data' = data /\ strategy' = strategy
    OBVIOUS
  <1>5. w \in [1..n -> Nat] /\ \E k \in 1..n : w[k] > 0
    <2>1. s \in Clamps(n) /\ \E k \in 1..n : s.w[k] > 0
      BY <1>2 DEF Loop, Weighing
    <2> QED BY <1>1, <2>1, FieldsAre
  <1>6. /\ q \in [1..n -> Nat]
        /\ \A i, j \in 1..n : w[i] <= w[j] => q[i] <= q[j]
        /\ SumOf(q, 1..n) \in Nat /\ SumOf(q, 1..n) <= Weight!One
        /\ Weight!One < SumOf(q, 1..n) + n
    <2>1. PICK k \in 1..n : w[k] > 0
      BY <1>5
    <2> QED BY <1>3, <1>5, <2>1, NormalisedIs
  <1>7. DOMAIN q = D /\ Len(q) = n /\ Weight!Total(q) = SumOf(q, D)
    <2>1. DOMAIN q = D
      BY <1>6
    <2>2. Len(q) = n
      BY <1>1, <1>6, ListOf
    <2> QED BY <2>1, <2>2, WeightSums
  <1>8. weights' = q
    OBVIOUS
  <1>9. ASSUME n * MinWeight <= Weight!One, n < Weight!Passes,
               NEW i \in D, NEW j \in D, r[i] > r[j], q[i] < q[j]
        PROVE  (\A k \in D : q[k] <= q[j]) /\ \E k \in D : r[k] < MinWeight
    <2>1. w[i] < w[j]
      <3>1. w[i] \in Nat /\ w[j] \in Nat /\ q[i] \in Nat /\ q[j] \in Nat
        BY <1>5, <1>6
      <3>2. ~ (w[j] <= w[i])
        <4>1. w[j] <= w[i] => q[j] <= q[i]
          BY <1>6
        <4> HIDE DEF q, w
        <4> QED BY <1>9, <3>1, <4>1
      <3> HIDE DEF w
      <3> QED BY <3>1, <3>2
    <2>2. (\A k \in D : w[k] <= w[j]) /\ \E k \in D : r[k] < MinWeight
      <3>1. MinWeight <= max /\ Weighing(s, n) /\ Quiet(s, n, max) /\ Kept(s, r, n, max)
        BY <1>1, <1>2, <1>9 DEF Loop
      <3>2. s.at = 2 * n + 1 /\ (s.violated => s.pass = Weight!Passes) /\ s.w[i] < s.w[j]
        BY <2>1
      <3> HIDE DEF n, r, max, s
      <3> QED BY <1>1, <1>9, <3>1, <3>2, PassesEnd
    <2> QED BY <1>6, <2>2
  <1> HIDE DEF q, w, s
  <1>10. Weight!FullyInvested'
    <2>1. Weight!Total(q) \in Weight!One - n .. Weight!One
      BY <1>1, <1>6, <1>7 DEF Weight!One
    <2> QED BY <1>7, <1>8, <2>1 DEF Weight!FullyInvested
  <1>11. Weight!OrderKept'
    <2>1. r' = r /\ n' = n
      BY <1>4
    <2> QED BY <1>4, <1>7, <1>8, <1>9 DEF Weight!OrderKept
  <1> QED BY <1>10, <1>11

LEMMA WeightStepKeeps == ASSUME WeightInv, Weight!Next PROVE WeightInv'
  <1> DEFINE n == Len(data)
             r == Weight!Raw(data, strategy)
             max == Weight!Ceiling(n, maxWeight)
  <1>1. data' = data /\ strategy' = strategy /\ maxWeight' = maxWeight
    BY DEF Weight!Next
  <1>2. /\ n \in Nat \ {0} /\ r \in [1..n -> Nat] /\ (\E k \in 1..n : r[k] > 0)
        /\ max \in Nat \ {0} /\ (n * MinWeight <= Weight!One => MinWeight <= max)
    BY WeighedIs
  <1>3. clamp.at # 0 => weights = <<>> /\ Loop(clamp, r, n, max)
    BY DEF WeightInv, Weight!Idle
  <1>4. ASSUME weights = <<>>, weights' = weights, Loop(clamp', r, n, max) PROVE WeightInv'
    <2>1. Weight!FullyInvested' /\ Weight!OrderKept'
      BY <1>4 DEF Weight!FullyInvested, Weight!OrderKept
    <2> QED BY <1>1, <1>4, <2>1 DEF WeightInv
  <1> HIDE DEF n, r, max
  <1>5. CASE Weight!Weigh
    <2> DEFINE b == FALSE
               none == {}
               z == [w |-> r, high |-> none, low |-> none, at |-> 1, violated |-> b, pass |-> 1]
    <2>1. clamp' = z
      BY <1>5 DEF Weight!Weigh, Weight!Idle, r
    <2>2. ~ b /\ b \in BOOLEAN /\ none = {} /\ none \in SUBSET (1..n) /\ 1 \in Int /\ 1 \in Nat
      OBVIOUS
    <2> HIDE DEF b, none
    <2>3. /\ z \in Clamps(n) /\ z.w = r /\ z.high = none /\ z.low = none
          /\ z.at = 1 /\ z.violated = b /\ z.pass = 1
      BY <1>2, <2>2 DEF Clamps
    <2> HIDE DEF z
    <2>4. Weighing(clamp', n) /\ Quiet(clamp', n, max) /\ Kept(clamp', r, n, max)
      BY <1>2, <2>1, <2>2, <2>3, ClampBegins
    <2>5. weights = <<>> /\ weights' = weights
      BY <1>5 DEF Weight!Weigh
    <2> QED BY <1>4, <2>4, <2>5 DEF Loop
  <1>6. CASE Weight!LookHigh
    <2> DEFINE i == clamp.at
    <2>1. /\ i \in 1..n /\ weights' = weights /\ clamp.at = i
          /\ clamp' = [Weight!TakeHigh(clamp, i, max) EXCEPT !.at = @ + 1]
      BY <1>6 DEF Weight!LookHigh, n, max
    <2> HIDE DEF i
    <2>2. weights = <<>> /\ Loop(clamp, r, n, max)
      BY <1>3, <2>1
    <2>3. Loop(clamp', r, n, max)
      BY <1>2, <2>1, <2>2, LoopGoesOn
    <2> QED BY <1>4, <2>1, <2>2, <2>3
  <1>7. CASE Weight!LookLow
    <2> DEFINE i == clamp.at - n
    <2>1. /\ clamp.at \in n + 1..2 * n /\ weights' = weights
          /\ clamp' = [Weight!RaiseLow(clamp, i) EXCEPT !.at = @ + 1]
      BY <1>7 DEF Weight!LookLow, n
    <2>2. i \in 1..n /\ clamp.at = n + i /\ clamp.at # 0
      BY <1>2, <2>1
    <2> HIDE DEF i
    <2>3. weights = <<>> /\ Loop(clamp, r, n, max)
      BY <1>3, <2>2
    <2>4. Loop(clamp', r, n, max)
      BY <1>2, <2>1, <2>2, <2>3, LoopGoesOn
    <2> QED BY <1>4, <2>1, <2>3, <2>4
  <1>8. CASE Weight!Again
    <2>1. /\ clamp.at = 2 * n + 1 /\ clamp.violated /\ clamp.pass < Weight!Passes /\ weights' = weights
          /\ clamp' = [clamp EXCEPT !.at = 1, !.violated = FALSE, !.pass = @ + 1]
      BY <1>8 DEF Weight!Again, n
    <2>2. clamp.at # 0
      BY <1>2, <2>1
    <2>3. weights = <<>> /\ Loop(clamp, r, n, max)
      BY <1>3, <2>2
    <2>4. Weighing(clamp, n)
      BY <2>3 DEF Loop
    <2>5. Weighing(clamp', n) /\ Quiet(clamp', n, max) /\ (Kept(clamp, r, n, max) => Kept(clamp', r, n, max))
      BY <1>2, <2>1, <2>4, PassAgain
    <2> QED BY <1>4, <2>1, <2>3, <2>5 DEF Loop
  <1>9. CASE Weight!Normalise
    <2>1. /\ clamp.at = 2 * n + 1 /\ (clamp.violated => clamp.pass = Weight!Passes)
          /\ weights' = Weight!Normalised(clamp.w) /\ clamp' = Weight!Idle
      BY <1>9 DEF Weight!Normalise, n
    <2>2. clamp # Weight!Idle
      <3>1. clamp.at # 0
        BY <1>2, <2>1
      <3> QED BY <3>1 DEF Weight!Idle
    <2>3. Weight!FullyInvested' /\ Weight!OrderKept'
      BY <1>1, <2>1, <2>2, ReturnedIs DEF n
    <2> QED BY <1>1, <2>1, <2>3 DEF WeightInv
  <1> QED BY <1>5, <1>6, <1>7, <1>8, <1>9 DEF Weight!Next

\* The clamp (clamp_positions) invests the whole of the money, whatever the strategy, the
\* scores, the volatilities and the bounds, and puts a lighter position above a heavier
\* one only at the maximum, for the sake of those raised to the minimum.
THEOREM ClampHolds == CalcSpec => []ClampSound
  <1>1. CalcInit => WeightInv
    BY WeightInit DEF CalcInit
  <1>2. WeightInv /\ [CalcNext]_calcVars => WeightInv'
    <2> SUFFICES ASSUME WeightInv, [CalcNext]_calcVars PROVE WeightInv'
      OBVIOUS
    <2>1. CASE WeightStep
      BY <2>1, WeightStepKeeps DEF WeightStep
    <2>2. CASE UNCHANGED weightVars
      BY <2>2, WeightStays
    <2>3. WeightStep \/ UNCHANGED weightVars
      BY DEF CalcNext, calcVars, TaxStep, HarvestStep, FactorStep, AlertStep, ExposureStep
    <2> QED BY <2>1, <2>2, <2>3
  <1>3. WeightInv => ClampSound
    BY DEF WeightInv, ClampSound
  <1> QED BY <1>1, <1>2, <1>3, PTL DEF CalcSpec

==============================================================================
