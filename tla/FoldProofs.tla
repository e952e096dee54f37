------------------------------ MODULE FoldProofs ------------------------------
(***************************************************************************)
(* Facts about folds over finite sets, sums, sorted lists, products and    *)
(* divisions that the proofs of several components rest on.                *)
(***************************************************************************)
EXTENDS Integers, Sequences, FiniteSetTheorems, SequenceTheorems, WellFoundedInduction, TLAPS

------------------------------------------------------------------------------
(* Folds over a finite set, as MapThenFoldSet defines them: pick an element, fold the
   rest, take the step that the set with it calls for.  The induction is that a set of
   naturals that is not empty has a least one. *)

LEMMA LeastOf ==
  ASSUME NEW T \in SUBSET Nat, T # {}
  PROVE  \E n \in T : \A m \in T : n <= m
  <1>1. PICK n \in T : \A m \in T : ~ (<<m, n>> \in OpToRel(<, Nat))
    BY NatLessThanWellFounded, WFMin
  <1>2. \A m \in T : ~ (m < n)
    BY <1>1 DEF OpToRel
  <1> QED BY <1>2

\* The greatest of finitely many
LEMMA GreatestOf ==
  ASSUME NEW n \in Nat, NEW s \in SUBSET (1..n), s # {}
  PROVE  \E x \in s : \A y \in s : x >= y
  <1> DEFINE T == {n - x : x \in s}
  <1>1. \A x \in s : x \in Int /\ n - x \in Nat
    OBVIOUS
  <1>2. T \in SUBSET Nat /\ T # {}
    BY <1>1
  <1>3. PICK y \in T : \A z \in T : y <= z
    <2> HIDE DEF T
    <2> QED BY <1>2, LeastOf
  <1>4. PICK x \in s : y = n - x
    OBVIOUS
  <1>5. ASSUME NEW z \in s PROVE x >= z
    <2>1. n - z \in T
      OBVIOUS
    <2> HIDE DEF T
    <2>2. n - x <= n - z
      BY <1>3, <1>4, <2>1
    <2> QED BY <1>1, <2>2
  <1> QED BY <1>5

\* What g makes of the subsets of S.
Folded(g, S, base, step, pick) ==
    g = [s \in SUBSET S |-> IF s = {} THEN base ELSE step[s][g[s \ {pick[s]}]]]

LEMMA Smaller ==
  ASSUME NEW S, IsFiniteSet(S), NEW s \in SUBSET S, NEW x \in s
  PROVE  /\ s \ {x} \in SUBSET S
         /\ Cardinality(s) \in Nat /\ Cardinality(s \ {x}) = Cardinality(s) - 1
         /\ Cardinality(s \ {x}) \in Nat
  BY FS_Subset, FS_RemoveElement, FS_CardinalityType

\* Such a fold exists: it is there for the subsets of up to n elements, for every n.
LEMMA FoldExists ==
  ASSUME NEW S, IsFiniteSet(S), NEW V, NEW base \in V, NEW pick, NEW step,
         \A s \in SUBSET S : s # {} => pick[s] \in s /\ step[s] \in [V -> V]
  PROVE  \E g : Folded(g, S, base, step, pick)
  <1> DEFINE Upto(n, g) == \A s \in SUBSET S : Cardinality(s) <= n =>
                 g[s] = IF s = {} THEN base ELSE step[s][g[s \ {pick[s]}]]
             Good == {n \in Nat : \E g \in [SUBSET S -> V] : Upto(n, g)}
  <1>1. 0 \in Good
    <2>1. \A s \in SUBSET S : Cardinality(s) <= 0 => s = {}
      BY FS_Subset, FS_CardinalityType, FS_EmptySet
    <2>2. Upto(0, [s \in SUBSET S |-> base])
      BY <2>1
    <2> QED BY <2>2
  <1>2. ASSUME NEW n \in Good PROVE n + 1 \in Good
    <2>1. PICK g \in [SUBSET S -> V] : Upto(n, g)
      OBVIOUS
    <2> DEFINE h == [s \in SUBSET S |-> IF Cardinality(s) <= n \/ s = {} THEN g[s]
                                        ELSE step[s][g[s \ {pick[s]}]]]
    <2>2. \A s \in SUBSET S : s # {} => g[s \ {pick[s]}] \in V
      OBVIOUS
    <2>3. h \in [SUBSET S -> V]
      <3>1. ASSUME NEW s \in SUBSET S PROVE h[s] \in V
        <4>1. CASE Cardinality(s) <= n \/ s = {}
          BY <4>1
        <4>2. CASE ~(Cardinality(s) <= n \/ s = {})
          BY <2>2, <4>2
        <4> QED BY <4>1, <4>2
      <3> QED BY <3>1
    <2>4. Upto(n + 1, h)
      <3> SUFFICES ASSUME NEW s \in SUBSET S, Cardinality(s) <= n + 1
                   PROVE  h[s] = IF s = {} THEN base ELSE step[s][h[s \ {pick[s]}]]
        OBVIOUS
      <3>1. CASE s = {}
        <4>1. Cardinality(s) <= n
          BY <3>1, FS_EmptySet
        <4> QED BY <2>1, <3>1, <4>1
      <3>2. CASE s # {}
        <4> DEFINE t == s \ {pick[s]}
        <4>1. t \in SUBSET S /\ Cardinality(t) <= n
          BY <3>2, Smaller
        <4>2. h[t] = g[t]
          BY <4>1
        <4>3. h[s] = step[s][g[t]]
          BY <2>1, <3>2
        <4> QED BY <3>2, <4>2, <4>3
      <3> QED BY <3>1, <3>2
    <2> HIDE DEF h
    <2>5. \E f \in [SUBSET S -> V] : Upto(n + 1, f)
      <3> HIDE DEF Upto
      <3> QED BY <2>3, <2>4
    <2>6. n + 1 \in Nat
      OBVIOUS
    <2> QED BY <2>5, <2>6
  <1>3. Good = Nat
    <2> HIDE DEF Good
    <2>1. Good \subseteq Nat
      BY DEF Good
    <2>2. SUFFICES ASSUME Nat \ Good # {} PROVE FALSE
      BY <2>1
    <2>3. PICK n \in Nat \ Good : \A m \in Nat \ Good : n <= m
      BY <2>2, LeastOf
    <2>4. n # 0 /\ n - 1 \in Nat /\ n - 1 \in Good
      BY <1>1, <2>3
    <2>5. n - 1 + 1 \in Good
      BY <1>2, <2>4
    <2> QED BY <2>3, <2>5
  <1>4. Cardinality(S) \in Good
    BY <1>3, FS_CardinalityType
  <1>5. PICK g \in [SUBSET S -> V] : Upto(Cardinality(S), g)
    BY <1>4
  <1>6. \A s \in SUBSET S : Cardinality(s) <= Cardinality(S)
    BY FS_Subset
  <1>7. \A s \in SUBSET S : g[s] = IF s = {} THEN base ELSE step[s][g[s \ {pick[s]}]]
    BY <1>5, <1>6
  <1>8. g = [s \in SUBSET S |-> g[s]]
    OBVIOUS
  <1> QED BY <1>7, <1>8 DEF Folded

\* What holds of the empty set, and of a set when of the rest of it, holds of all.
Inductive(Good, S, pick) ==
    /\ {} \in Good
    /\ \A s \in SUBSET S : s # {} => pick[s] \in s
    /\ \A s \in SUBSET S : s # {} /\ s \ {pick[s]} \in Good => s \in Good

LEMMA FoldInduction ==
  ASSUME NEW S, IsFiniteSet(S), NEW pick, NEW Good, Inductive(Good, S, pick)
  PROVE  SUBSET S \subseteq Good
  <1> USE DEF Inductive
  <1> DEFINE Sizes == {Cardinality(s) : s \in (SUBSET S) \ Good}
  <1>1. SUFFICES ASSUME (SUBSET S) \ Good # {} PROVE FALSE
    OBVIOUS
  <1>2. Sizes \in SUBSET Nat /\ Sizes # {}
    BY <1>1, FS_Subset, FS_CardinalityType
  <1>3. PICK s \in (SUBSET S) \ Good : \A m \in Sizes : Cardinality(s) <= m
    <2> HIDE DEF Sizes
    <2>1. PICK n \in Sizes : \A m \in Sizes : n <= m
      BY <1>2, LeastOf
    <2> QED BY <2>1 DEF Sizes
  <1>4. s # {} /\ pick[s] \in s
    OBVIOUS
  <1> DEFINE t == s \ {pick[s]}
  <1>5. /\ t \in SUBSET S /\ Cardinality(t) = Cardinality(s) - 1
        /\ Cardinality(s) \in Nat /\ Cardinality(t) \in Nat
    BY <1>4, Smaller
  <1>6. t \in Good
    <2> HIDE DEF t
    <2>1. t \notin Good => Cardinality(t) \in Sizes
      BY <1>5
    <2> HIDE DEF Sizes
    <2>2. Cardinality(t) \notin Sizes
      BY <1>3, <1>5
    <2> QED BY <2>1, <2>2
  <1> QED BY <1>4, <1>6

\* Induction over the naturals
LEMMA FromZeroOn ==
  ASSUME NEW G \in SUBSET Nat, 0 \in G, \A n \in G : n + 1 \in G
  PROVE  G = Nat
  <1>1. SUFFICES ASSUME Nat \ G # {} PROVE FALSE
    OBVIOUS
  <1>2. PICK n \in Nat \ G : \A m \in Nat \ G : n <= m
    BY <1>1, LeastOf
  <1>3. n # 0 /\ n - 1 \in Nat /\ n - 1 \in G
    BY <1>2
  <1>4. n - 1 + 1 \in G
    BY <1>3
  <1> QED BY <1>2, <1>4

------------------------------------------------------------------------------
(* Sums over a finite set, as FoldFunctionOnSet takes them *)

Picked(S) == [s \in SUBSET S |-> CHOOSE x \in s : TRUE]
Plus(u, S) == [s \in SUBSET S |-> [n \in Int |-> u[Picked(S)[s]] + n]]
SumFold(u, S) ==
    CHOOSE g : g = [s \in SUBSET S |-> IF s = {} THEN 0 ELSE LET x == CHOOSE x \in s : TRUE IN u[x] + g[s \ {x}]]
SumOf(u, S) == SumFold(u, S)[S]

Integral(u, S) == \A x \in S : u[x] \in Int

LEMMA SumUnfolds ==
  ASSUME NEW S, IsFiniteSet(S), NEW u, Integral(u, S)
  PROVE  /\ SumFold(u, S)[{}] = 0
         /\ \A s \in SUBSET S : s # {} =>
                /\ Picked(S)[s] \in s
                /\ SumFold(u, S)[s] = u[Picked(S)[s]] + SumFold(u, S)[s \ {Picked(S)[s]}]
         /\ \A s \in SUBSET S : SumFold(u, S)[s] \in Int
  <1> DEFINE P == Picked(S)
  <1>1. \A s \in SUBSET S : s # {} => P[s] \in s /\ P[s] \in S
    BY DEF Picked
  <1>2. \A s \in SUBSET S : s # {} => Plus(u, S)[s] \in [Int -> Int]
    BY <1>1 DEF Plus, Integral
  <1>3. PICK g : Folded(g, S, 0, Plus(u, S), P)
    <2> DEFINE F == Plus(u, S)
    <2>1. 0 \in Int /\ \A s \in SUBSET S : s # {} => P[s] \in s /\ F[s] \in [Int -> Int]
      BY <1>1, <1>2
    <2> HIDE DEF P, F
    <2>2. \E g : Folded(g, S, 0, F, P)
      BY <2>1, FoldExists
    <2> QED BY <2>2 DEF F
  <1>4. g[{}] = 0 /\ \A s \in SUBSET S : s # {} => g[s] = Plus(u, S)[s][g[s \ {P[s]}]]
    <2> HIDE DEF P
    <2> QED BY <1>3 DEF Folded
  <1> DEFINE Ints(h) == {s \in SUBSET S : h[s] \in Int}
  <1>5. SUBSET S \subseteq Ints(g)
    <2>1. {} \in Ints(g)
      BY <1>4
    <2>2. \A s \in SUBSET S : s # {} /\ s \ {P[s]} \in Ints(g) => s \in Ints(g)
      <3> HIDE DEF P
      <3> SUFFICES ASSUME NEW s \in SUBSET S, s # {}, g[s \ {P[s]}] \in Int PROVE g[s] \in Int
        OBVIOUS
      <3> DEFINE a == Plus(u, S)[s]
      <3>1. a \in [Int -> Int] /\ g[s] = a[g[s \ {P[s]}]]
        BY <1>2, <1>4
      <3> HIDE DEF a
      <3> QED BY <3>1
    <2> HIDE DEF Ints, P
    <2>3. Inductive(Ints(g), S, P)
      BY <1>1, <2>1, <2>2 DEF Inductive
    <2> QED BY <2>3, FoldInduction
  <1>6. \A s \in SUBSET S : s # {} => g[s] = u[P[s]] + g[s \ {P[s]}]
    <2> SUFFICES ASSUME NEW s \in SUBSET S, s # {} PROVE g[s] = u[P[s]] + g[s \ {P[s]}]
      OBVIOUS
    <2>1. g[s] = Plus(u, S)[s][g[s \ {P[s]}]] /\ g[s \ {P[s]}] \in Int
      BY <1>4, <1>5
    <2> HIDE DEF P
    <2>2. Plus(u, S)[s] = [n \in Int |-> u[P[s]] + n]
      BY DEF Plus, P
    <2> QED BY <2>1, <2>2
  <1> DEFINE Body(h) == [s \in SUBSET S |-> IF s = {} THEN 0 ELSE LET x == CHOOSE x \in s : TRUE IN u[x] + h[s \ {x}]]
  <1>7. g = Body(g)
    <2>1. g = [s \in SUBSET S |-> g[s]]
      BY <1>3 DEF Folded
    <2>2. \A s \in SUBSET S : g[s] = IF s = {} THEN 0 ELSE u[P[s]] + g[s \ {P[s]}]
      BY <1>4, <1>6
    <2> QED BY <2>1, <2>2 DEF Picked
  <1>8. SumFold(u, S) = Body(SumFold(u, S))
    BY <1>7 DEF SumFold
  <1> DEFINE f == SumFold(u, S)
  <1>9. f = Body(f)
    BY <1>8
  <1> HIDE DEF f
  <1>10. f[{}] = 0 /\ \A s \in SUBSET S : s # {} => f[s] = u[P[s]] + f[s \ {P[s]}]
    BY <1>9 DEF Picked
  <1>11. SUBSET S \subseteq Ints(f)
    <2>1. {} \in Ints(f)
      BY <1>10
    <2>2. \A s \in SUBSET S : s # {} /\ s \ {P[s]} \in Ints(f) => s \in Ints(f)
      <3> SUFFICES ASSUME NEW s \in SUBSET S, s # {}, f[s \ {P[s]}] \in Int PROVE f[s] \in Int
        OBVIOUS
      <3>1. u[P[s]] \in Int /\ f[s] = u[P[s]] + f[s \ {P[s]}]
        BY <1>1, <1>10 DEF Integral
      <3> HIDE DEF P
      <3> QED BY <3>1
    <2> HIDE DEF Ints, P
    <2>3. Inductive(Ints(f), S, P)
      BY <1>1, <2>1, <2>2 DEF Inductive
    <2> QED BY <2>3, FoldInduction
  <1> QED BY <1>1, <1>10, <1>11 DEF f

\* What holds of a subset of S when of all smaller ones, holds of all.
LEMMA SizeInduction ==
  ASSUME NEW S, IsFiniteSet(S), NEW Good,
         \A s \in SUBSET S :
             (\A t \in SUBSET S : Cardinality(t) < Cardinality(s) => t \in Good) => s \in Good
  PROVE  SUBSET S \subseteq Good
  <1> DEFINE Sizes == {Cardinality(s) : s \in (SUBSET S) \ Good}
  <1>1. SUFFICES ASSUME (SUBSET S) \ Good # {} PROVE FALSE
    OBVIOUS
  <1>2. Sizes \in SUBSET Nat /\ Sizes # {}
    BY <1>1, FS_Subset, FS_CardinalityType
  <1>3. PICK s \in (SUBSET S) \ Good : \A m \in Sizes : Cardinality(s) <= m
    <2> HIDE DEF Sizes
    <2>1. PICK n \in Sizes : \A m \in Sizes : n <= m
      BY <1>2, LeastOf
    <2> QED BY <2>1 DEF Sizes
  <1>4. ASSUME NEW t \in SUBSET S, Cardinality(t) < Cardinality(s) PROVE t \in Good
    <2>1. t \notin Good => Cardinality(t) \in Sizes
      OBVIOUS
    <2> HIDE DEF Sizes
    <2>2. Cardinality(t) \in Nat /\ Cardinality(s) \in Nat
      BY FS_Subset, FS_CardinalityType
    <2> QED BY <1>3, <1>4, <2>1, <2>2
  <1> QED BY <1>4

\* Whichever term is taken out first.
LEMMA SumFoldTakes ==
  ASSUME NEW S, IsFiniteSet(S), NEW u, Integral(u, S)
  PROVE  \A s \in SUBSET S : \A x \in s : SumFold(u, S)[s] = u[x] + SumFold(u, S)[s \ {x}]
  <1> DEFINE f == SumFold(u, S)
             P == Picked(S)
             Good == {s \in SUBSET S : \A x \in s : f[s] = u[x] + f[s \ {x}]}
  <1>1. /\ \A s \in SUBSET S : s # {} => P[s] \in s /\ f[s] = u[P[s]] + f[s \ {P[s]}]
        /\ \A s \in SUBSET S : f[s] \in Int
    BY SumUnfolds
  <1> HIDE DEF f, P
  <1>2. ASSUME NEW s \in SUBSET S, \A t \in SUBSET S : Cardinality(t) < Cardinality(s) => t \in Good
        PROVE  s \in Good
    <2> SUFFICES ASSUME NEW x \in s PROVE f[s] = u[x] + f[s \ {x}]
      OBVIOUS
    <2> DEFINE c == P[s]
    <2>1. c \in s /\ f[s] = u[c] + f[s \ {c}]
      BY <1>1
    <2> HIDE DEF c
    <2>2. CASE c = x
      BY <2>1, <2>2
    <2>3. CASE c # x
      <3> DEFINE r == (s \ {c}) \ {x}
      <3>1. s \ {c} \in Good /\ s \ {x} \in Good
        <4>1. /\ s \ {c} \in SUBSET S /\ s \ {x} \in SUBSET S
              /\ Cardinality(s \ {c}) < Cardinality(s) /\ Cardinality(s \ {x}) < Cardinality(s)
          BY <2>1, Smaller
        <4> QED BY <1>2, <4>1
      <3>2. f[s \ {c}] = u[x] + f[r]
        BY <2>3, <3>1
      <3>3. r = (s \ {x}) \ {c}
        OBVIOUS
      <3>4. f[s \ {x}] = u[c] + f[r]
        BY <2>1, <2>3, <3>1, <3>3
      <3>5. u[c] \in Int /\ u[x] \in Int /\ f[r] \in Int
        BY <1>1, <2>1 DEF Integral
      <3> HIDE DEF r
      <3> QED BY <2>1, <3>2, <3>4, <3>5
    <2> QED BY <2>2, <2>3
  <1> HIDE DEF Good
  <1>3. SUBSET S \subseteq Good
    BY <1>2, SizeInduction
  <1> QED BY <1>3 DEF Good, f

\* The sum over a part does not depend on what it is a part of.
LEMMA SumOfPart ==
  ASSUME NEW S, IsFiniteSet(S), NEW u, Integral(u, S), NEW T \in SUBSET S
  PROVE  SumFold(u, S)[T] = SumOf(u, T)
  <1> DEFINE f == SumFold(u, S)
             g == SumFold(u, T)
             P == Picked(T)
             Good == {s \in SUBSET T : f[s] = g[s]}
  <1>0. IsFiniteSet(T) /\ Integral(u, T)
    BY FS_Subset DEF Integral
  <1>1. /\ f[{}] = 0 /\ \A s \in SUBSET S : \A x \in s : f[s] = u[x] + f[s \ {x}]
    BY SumUnfolds, SumFoldTakes
  <1>2. /\ g[{}] = 0 /\ \A s \in SUBSET T : s # {} => P[s] \in s /\ g[s] = u[P[s]] + g[s \ {P[s]}]
    BY <1>0, SumUnfolds
  <1> HIDE DEF f, g, P
  <1>3. Inductive(Good, T, P)
    <2>1. ASSUME NEW s \in SUBSET T, s # {}, s \ {P[s]} \in Good PROVE s \in Good
      <3>1. P[s] \in s /\ s \in SUBSET S /\ g[s] = u[P[s]] + g[s \ {P[s]}] /\ f[s \ {P[s]}] = g[s \ {P[s]}]
        BY <1>2, <2>1
      <3>2. f[s] = u[P[s]] + f[s \ {P[s]}]
        BY <1>1, <3>1
      <3> QED BY <3>1, <3>2
    <2>2. {} \in Good
      BY <1>1, <1>2
    <2> HIDE DEF Good
    <2> QED BY <1>2, <2>1, <2>2 DEF Inductive
  <1> HIDE DEF Good
  <1>4. SUBSET T \subseteq Good
    BY <1>0, <1>3, FoldInduction
  <1> QED BY <1>4 DEF Good, f, g, SumOf

LEMMA SumEmpty == ASSUME NEW u PROVE SumOf(u, {}) = 0
  BY SumUnfolds, FS_EmptySet DEF SumOf, Integral

LEMMA SumInt ==
  ASSUME NEW S, IsFiniteSet(S), NEW u, Integral(u, S) PROVE SumOf(u, S) \in Int
  BY SumUnfolds DEF SumOf

LEMMA SumTakes ==
  ASSUME NEW S, IsFiniteSet(S), NEW u, Integral(u, S), NEW x \in S
  PROVE  /\ IsFiniteSet(S \ {x}) /\ Integral(u, S \ {x})
         /\ u[x] \in Int /\ SumOf(u, S \ {x}) \in Int
         /\ SumOf(u, S) = u[x] + SumOf(u, S \ {x})
  <1>1. IsFiniteSet(S \ {x}) /\ Integral(u, S \ {x}) /\ u[x] \in Int
    BY FS_RemoveElement DEF Integral
  <1>2. SumFold(u, S)[S] = u[x] + SumFold(u, S)[S \ {x}]
    BY SumFoldTakes
  <1>3. SumFold(u, S)[S \ {x}] = SumOf(u, S \ {x})
    BY SumOfPart
  <1>4. SumOf(u, S \ {x}) \in Int
    BY <1>1, SumInt
  <1> QED BY <1>1, <1>2, <1>3, <1>4 DEF SumOf

\* A sum grows with its terms, and is the same when they are.
LEMMA SumGrows ==
  ASSUME NEW S, IsFiniteSet(S), NEW u, Integral(u, S), NEW v, Integral(v, S),
         \A x \in S : u[x] <= v[x]
  PROVE  SumOf(u, S) <= SumOf(v, S)
  <1> DEFINE P == Picked(S)
             f == SumFold(u, S)
             g == SumFold(v, S)
             Good == {s \in SUBSET S : f[s] <= g[s]}
  <1>1. /\ f[{}] = 0 /\ g[{}] = 0
        /\ \A s \in SUBSET S : s # {} =>
              /\ P[s] \in s /\ f[s] = u[P[s]] + f[s \ {P[s]}] /\ g[s] = v[P[s]] + g[s \ {P[s]}]
        /\ \A s \in SUBSET S : f[s] \in Int /\ g[s] \in Int
    BY SumUnfolds
  <1> HIDE DEF f, g, P
  <1>2. Inductive(Good, S, P)
    <2>1. ASSUME NEW s \in SUBSET S, s # {}, s \ {P[s]} \in Good PROVE s \in Good
      <3> DEFINE x == P[s]
                 t == s \ {x}
      <3>1. x \in S /\ t \in SUBSET S /\ f[t] <= g[t] /\ f[s] = u[x] + f[t] /\ g[s] = v[x] + g[t]
        BY <1>1, <2>1
      <3> HIDE DEF x, t
      <3>2. u[x] \in Int /\ v[x] \in Int /\ u[x] <= v[x] /\ f[t] \in Int /\ g[t] \in Int
        BY <1>1, <3>1 DEF Integral
      <3>3. f[s] <= g[s]
        BY <3>1, <3>2
      <3> QED BY <3>3
    <2>2. {} \in Good
      BY <1>1
    <2> HIDE DEF Good
    <2> QED BY <1>1, <2>1, <2>2 DEF Inductive
  <1> HIDE DEF Good
  <1>3. SUBSET S \subseteq Good
    BY <1>2, FoldInduction
  <1> QED BY <1>3 DEF Good, f, g, SumOf

LEMMA SumSame ==
  ASSUME NEW S, IsFiniteSet(S), NEW u, Integral(u, S), NEW v, \A x \in S : u[x] = v[x]
  PROVE  SumOf(u, S) = SumOf(v, S)
  <1>1. Integral(v, S) /\ \A x \in S : u[x] <= v[x] /\ v[x] <= u[x]
    BY DEF Integral
  <1>2. SumOf(u, S) <= SumOf(v, S) /\ SumOf(v, S) <= SumOf(u, S)
    BY <1>1, SumGrows
  <1>3. SumOf(u, S) \in Int /\ SumOf(v, S) \in Int
    BY <1>1, SumInt
  <1> QED BY <1>2, <1>3

LEMMA ZeroSum ==
  ASSUME NEW S, IsFiniteSet(S), NEW z, \A x \in S : z[x] = 0
  PROVE  SumOf(z, S) = 0
  <1> DEFINE P == Picked(S)
             f == SumFold(z, S)
             Good == {s \in SUBSET S : f[s] = 0}
  <1>1. /\ f[{}] = 0
        /\ \A s \in SUBSET S : s # {} => P[s] \in s /\ f[s] = z[P[s]] + f[s \ {P[s]}]
    <2>1. Integral(z, S)
      BY DEF Integral
    <2> QED BY <2>1, SumUnfolds
  <1> HIDE DEF f, P
  <1>2. Inductive(Good, S, P)
    <2>1. ASSUME NEW s \in SUBSET S, s # {}, s \ {P[s]} \in Good PROVE s \in Good
      <3>1. P[s] \in S /\ f[s] = z[P[s]] + f[s \ {P[s]}] /\ f[s \ {P[s]}] = 0
        BY <1>1, <2>1
      <3>2. z[P[s]] = 0
        BY <3>1
      <3> QED BY <3>1, <3>2
    <2>2. {} \in Good
      BY <1>1
    <2> HIDE DEF Good
    <2> QED BY <1>1, <2>1, <2>2 DEF Inductive
  <1> HIDE DEF Good
  <1>3. SUBSET S \subseteq Good
    BY <1>2, FoldInduction
  <1> QED BY <1>3 DEF Good, f, SumOf

LEMMA SumNat ==
  ASSUME NEW S, IsFiniteSet(S), NEW u, \A x \in S : u[x] \in Nat
  PROVE  Integral(u, S) /\ SumOf(u, S) \in Nat
  <1> DEFINE z == [x \in S |-> 0]
  <1>1. Integral(u, S) /\ Integral(z, S) /\ \A x \in S : z[x] = 0 /\ z[x] <= u[x]
    BY DEF Integral
  <1> HIDE DEF z
  <1>2. SumOf(z, S) <= SumOf(u, S) /\ SumOf(u, S) \in Int
    BY <1>1, SumGrows, SumInt
  <1>3. SumOf(z, S) = 0
    BY <1>1, ZeroSum
  <1> QED BY <1>1, <1>2, <1>3

\* When two terms of a sum change, it changes by what they change.
LEMMA SumMoves ==
  ASSUME NEW S, IsFiniteSet(S), NEW u, Integral(u, S), NEW v, Integral(v, S),
         NEW x \in S, NEW y \in S \ {x}, \A z \in S \ {x, y} : v[z] = u[z]
  PROVE  SumOf(v, S) = SumOf(u, S) - u[x] - u[y] + v[x] + v[y]
  <1> DEFINE T == (S \ {x}) \ {y}
  <1>1. /\ IsFiniteSet(S \ {x}) /\ Integral(u, S \ {x}) /\ Integral(v, S \ {x})
        /\ SumOf(u, S) = u[x] + SumOf(u, S \ {x}) /\ SumOf(v, S) = v[x] + SumOf(v, S \ {x})
    BY SumTakes
  <1>2. /\ IsFiniteSet(T) /\ Integral(u, T) /\ SumOf(u, T) \in Int
        /\ SumOf(u, S \ {x}) = u[y] + SumOf(u, T) /\ SumOf(v, S \ {x}) = v[y] + SumOf(v, T)
    BY <1>1, SumTakes
  <1>3. SumOf(u, T) = SumOf(v, T)
    <2>1. \A z \in T : u[z] = v[z]
      OBVIOUS
    <2> HIDE DEF T
    <2> QED BY <1>2, <2>1, SumSame
  <1>4. u[x] \in Int /\ u[y] \in Int /\ v[x] \in Int /\ v[y] \in Int
    BY DEF Integral
  <1> HIDE DEF T
  <1> QED BY <1>1, <1>2, <1>3, <1>4

LEMMA SumMovesOne ==
  ASSUME NEW S, IsFiniteSet(S), NEW u, Integral(u, S), NEW v, Integral(v, S),
         NEW x \in S, \A z \in S \ {x} : v[z] = u[z]
  PROVE  SumOf(v, S) = SumOf(u, S) - u[x] + v[x]
  <1> DEFINE T == S \ {x}
  <1>1. /\ IsFiniteSet(T) /\ Integral(u, T) /\ SumOf(u, T) \in Int /\ u[x] \in Int /\ v[x] \in Int
        /\ SumOf(u, S) = u[x] + SumOf(u, T) /\ SumOf(v, S) = v[x] + SumOf(v, T)
    BY SumTakes
  <1>2. SumOf(u, T) = SumOf(v, T)
    <2> HIDE DEF T
    <2>1. \A z \in T : u[z] = v[z]
      BY DEF T
    <2> QED BY <1>1, <2>1, SumSame
  <1> HIDE DEF T
  <1> QED BY <1>1, <1>2

LEMMA SumOfOnes ==
  ASSUME NEW S, IsFiniteSet(S), NEW u, \A x \in S : u[x] = 1
  PROVE  SumOf(u, S) = Cardinality(S)
  <1> DEFINE P == Picked(S)
             f == SumFold(u, S)
             Good == {s \in SUBSET S : f[s] = Cardinality(s)}
  <1>1. Integral(u, S)
    BY DEF Integral
  <1>2. /\ f[{}] = 0 /\ \A s \in SUBSET S : s # {} => P[s] \in s /\ f[s] = u[P[s]] + f[s \ {P[s]}]
    BY <1>1, SumUnfolds
  <1> HIDE DEF f, P
  <1>3. Inductive(Good, S, P)
    <2>1. {} \in Good
      BY <1>2, FS_EmptySet
    <2>2. ASSUME NEW s \in SUBSET S, s # {}, s \ {P[s]} \in Good PROVE s \in Good
      <3> DEFINE x == P[s]
      <3>1. x \in s /\ u[x] = 1 /\ f[s] = 1 + f[s \ {x}] /\ f[s \ {x}] = Cardinality(s \ {x})
        BY <1>2, <2>2
      <3> HIDE DEF x
      <3>2. Cardinality(s \ {x}) = Cardinality(s) - 1 /\ Cardinality(s) \in Nat
        BY <3>1, FS_Subset, FS_RemoveElement, FS_CardinalityType
      <3> QED BY <3>1, <3>2
    <2> HIDE DEF Good
    <2> QED BY <1>2, <2>1, <2>2 DEF Inductive
  <1>4. S \in Good
    <2> HIDE DEF Good
    <2> QED BY <1>3, FoldInduction
  <1> QED BY <1>4 DEF SumOf, f

------------------------------------------------------------------------------
(* Sorting by counting: the place of x in S is how many come before it. *)

Orders(B, S) ==
    /\ \A x \in S : <<x, x>> \notin B
    /\ \A x, y \in S : x # y => <<x, y>> \in B \/ <<y, x>> \in B
    /\ \A x, y, z \in S : <<x, y>> \in B /\ <<y, z>> \in B => <<x, z>> \in B

Place(B, S, x) == Cardinality({y \in S : <<y, x>> \in B})

LEMMA PlacesRise ==
  ASSUME NEW S, IsFiniteSet(S), NEW B, Orders(B, S), NEW x \in S
  PROVE  /\ Place(B, S, x) \in 0..Cardinality(S) - 1
         /\ \A y \in S : <<y, x>> \in B => Place(B, S, y) < Place(B, S, x)
  <1> DEFINE Before(z) == {y \in S : <<y, z>> \in B}
  <1>1. ASSUME NEW z \in S
        PROVE  /\ IsFiniteSet(Before(z)) /\ Cardinality(Before(z)) \in Nat
    BY FS_Subset, FS_CardinalityType
  <1>2. /\ Cardinality(S \ {x}) = Cardinality(S) - 1 /\ Cardinality(S) \in Nat
        /\ IsFiniteSet(S \ {x}) /\ Cardinality(S \ {x}) \in Nat
    BY FS_RemoveElement, FS_CardinalityType
  <1>3. Before(x) \in SUBSET (S \ {x})
    BY DEF Orders
  <1>4. Cardinality(Before(x)) <= Cardinality(S \ {x})
    <2> HIDE DEF Before
    <2> QED BY <1>2, <1>3, FS_Subset
  <1>5. ASSUME NEW y \in S, <<y, x>> \in B PROVE Cardinality(Before(y)) < Cardinality(Before(x))
    <2>1. y \in Before(x) /\ Before(y) \in SUBSET (Before(x) \ {y})
      BY <1>5 DEF Orders
    <2> HIDE DEF Before
    <2>2. /\ IsFiniteSet(Before(x)) /\ IsFiniteSet(Before(x) \ {y})
          /\ Cardinality(Before(x) \ {y}) = Cardinality(Before(x)) - 1
          /\ Cardinality(Before(x)) \in Nat /\ Cardinality(Before(y)) \in Nat
      BY <1>1, <2>1, FS_RemoveElement
    <2>3. Cardinality(Before(y)) <= Cardinality(Before(x) \ {y})
      BY <2>1, <2>2, FS_Subset
    <2> QED BY <2>2, <2>3
  <1> HIDE DEF Before
  <1>6. Cardinality(Before(x)) \in 0..Cardinality(S) - 1
    BY <1>1, <1>2, <1>4
  <1> QED BY <1>5, <1>6 DEF Before, Place

\* Every place is taken.
LEMMA PlacesFilled ==
  ASSUME NEW S, IsFiniteSet(S), NEW B, Orders(B, S), NEW n \in 1..Cardinality(S)
  PROVE  \E x \in S : Place(B, S, x) = n - 1
  <1> DEFINE m == Cardinality(S)
             f == [x \in S |-> Place(B, S, x) + 1]
  <1>0. m \in Nat /\ IsFiniteSet(1..m) /\ Cardinality(1..m) = m
    BY FS_CardinalityType, FS_Interval
  <1>1. \A x \in S : Place(B, S, x) \in 0..m - 1
    BY PlacesRise
  <1>2. f \in [S -> 1..m]
    <2>1. \A x \in S : Place(B, S, x) + 1 \in 1..m
      <3> HIDE DEF m
      <3> QED BY <1>0, <1>1
    <2> QED BY <2>1
  <1>3. \A x, y \in S : f[x] = f[y] => x = y
    <2> SUFFICES ASSUME NEW x \in S, NEW y \in S, x # y PROVE f[x] # f[y]
      OBVIOUS
    <2>1. Place(B, S, x) < Place(B, S, y) \/ Place(B, S, y) < Place(B, S, x)
      BY PlacesRise DEF Orders
    <2>2. Place(B, S, x) \in Int /\ Place(B, S, y) \in Int
      BY <1>1
    <2>3. Place(B, S, x) + 1 # Place(B, S, y) + 1
      BY <2>1, <2>2
    <2> QED BY <2>3
  <1>4. f \in Injection(S, 1..m)
    BY <1>2, <1>3 DEF Injection, IsInjective
  <1> HIDE DEF f, m
  <1>5. f \in Surjection(S, 1..m)
    BY <1>0, <1>4, FS_Injection DEF m
  <1>6. PICK x \in S : f[x] = n
    BY <1>5 DEF Surjection, m
  <1>7. f[x] = Place(B, S, x) + 1 /\ Place(B, S, x) \in Int
    BY <1>1 DEF f
  <1> QED BY <1>6, <1>7

LEMMA OutscoresOrders ==
  ASSUME NEW n \in Nat, NEW v \in [1..n -> Int],
         NEW B, B = {p \in (1..n) \X (1..n) : v[p[1]] > v[p[2]] \/ (v[p[1]] = v[p[2]] /\ p[1] < p[2])}
  PROVE  Orders(B, 1..n)
  <1>1. \A x, y \in 1..n : <<x, y>> \in B <=> v[x] > v[y] \/ (v[x] = v[y] /\ x < y)
    OBVIOUS
  <1>2. \A x \in 1..n : v[x] \in Int /\ x \in Int
    OBVIOUS
  <1> DEFINE D == 1..n
  <1>3. \A x \in D : v[x] \in Int /\ x \in Int
    BY <1>2
  <1>4. \A x, y \in D : <<x, y>> \in B <=> v[x] > v[y] \/ (v[x] = v[y] /\ x < y)
    BY <1>1
  <1> HIDE DEF D
  <1>5. \A x \in D : <<x, x>> \notin B
    BY <1>3, <1>4
  <1>6. \A x, y \in D : x # y => <<x, y>> \in B \/ <<y, x>> \in B
    BY <1>3, <1>4
  <1>7. \A x, y, z \in D : <<x, y>> \in B /\ <<y, z>> \in B => <<x, z>> \in B
    BY <1>3, <1>4
  <1> QED BY <1>5, <1>6, <1>7 DEF Orders, D

LEMMA ListOf == ASSUME NEW S, NEW n \in Nat, NEW s \in [1..n -> S] PROVE s \in Seq(S) /\ Len(s) = n
  OBVIOUS

\* s lists S in the order B.
Lists(s, S, B) ==
    /\ s \in Seq(S) /\ Len(s) = Cardinality(S)
    /\ \A x \in S : \E i \in 1..Len(s) : s[i] = x
    /\ \A i, j \in 1..Len(s) : i < j => <<s[i], s[j]>> \in B
    /\ \A i \in 1..Len(s) : Place(B, S, s[i]) = i - 1

LEMMA SortedLists ==
  ASSUME NEW S, IsFiniteSet(S), NEW B, Orders(B, S),
         NEW s, s = [n \in 1..Cardinality(S) |-> CHOOSE x \in S : Place(B, S, x) = n - 1]
  PROVE  Lists(s, S, B)
  <1> DEFINE n == Cardinality(S)
             D == 1..n
  <1>0. n \in Nat
    BY FS_CardinalityType
  <1> HIDE DEF n
  <1>1. ASSUME NEW i \in D PROVE s[i] \in S /\ Place(B, S, s[i]) = i - 1
    <2>1. \E x \in S : Place(B, S, x) = i - 1
      BY PlacesFilled DEF n
    <2> QED BY <2>1 DEF n
  <1>2. \A x \in S : Place(B, S, x) \in 0..n - 1
    BY PlacesRise DEF n
  <1>3. \A x, y \in S : Place(B, S, x) < Place(B, S, y) => <<x, y>> \in B
    <2> SUFFICES ASSUME NEW x \in S, NEW y \in S, Place(B, S, x) < Place(B, S, y), <<x, y>> \notin B PROVE FALSE
      OBVIOUS
    <2>0. Place(B, S, x) \in Int /\ Place(B, S, y) \in Int
      BY <1>2
    <2>1. x # y
      BY <2>0
    <2>2. <<y, x>> \in B
      BY <2>1 DEF Orders
    <2>3. Place(B, S, y) < Place(B, S, x)
      BY <2>2, PlacesRise
    <2> QED BY <2>0, <2>3
  <1>4. \A x, y \in S : x # y => Place(B, S, x) # Place(B, S, y)
    <2> SUFFICES ASSUME NEW x \in S, NEW y \in S, x # y PROVE Place(B, S, x) # Place(B, S, y)
      OBVIOUS
    <2>0. Place(B, S, x) \in Int /\ Place(B, S, y) \in Int
      BY <1>2
    <2>1. <<x, y>> \in B \/ <<y, x>> \in B
      BY DEF Orders
    <2>2. Place(B, S, x) < Place(B, S, y) \/ Place(B, S, y) < Place(B, S, x)
      BY <2>1, PlacesRise
    <2> QED BY <2>0, <2>2
  <1>5. s \in Seq(S) /\ Len(s) = n
    <2>1. s = [i \in 1..n |-> s[i]]
      BY DEF n
    <2>2. s \in [1..n -> S]
      BY <1>1, <2>1
    <2> QED BY <1>0, <2>2, ListOf
  <1>6. ASSUME NEW x \in S PROVE \E i \in D : s[i] = x
    <2> DEFINE i == Place(B, S, x) + 1
    <2>1. i \in D /\ i - 1 = Place(B, S, x)
      BY <1>0, <1>2
    <2> HIDE DEF i, D
    <2>2. s[i] = x
      BY <1>1, <1>4, <2>1
    <2> QED BY <2>1, <2>2
  <1>7. ASSUME NEW i \in D, NEW j \in D, i < j PROVE <<s[i], s[j]>> \in B
    <2>1. i - 1 < j - 1
      BY <1>0, <1>7
    <2> HIDE DEF D
    <2> QED BY <1>1, <1>3, <2>1
  <1> HIDE DEF D
  <1> QED BY <1>1, <1>5, <1>6, <1>7 DEF Lists, D, n

LEMMA ImageCount ==
  ASSUME NEW n \in Nat, NEW f, \A i, j \in 1..n : f[i] = f[j] => i = j,
         NEW T, \A i \in 1..n : f[i] \in T, \A x \in T : \E i \in 1..n : f[i] = x
  PROVE  IsFiniteSet(T) /\ Cardinality(T) = n
  <1> DEFINE D == 1..n
             g == [i \in D |-> f[i]]
  <1>1. IsFiniteSet(D) /\ Cardinality(D) = n
    BY FS_Interval
  <1>2. g \in Bijection(D, T)
    <2>1. g \in [D -> T] /\ \A i, j \in D : g[i] = g[j] => i = j
      OBVIOUS
    <2>2. \A x \in T : \E i \in D : g[i] = x
      OBVIOUS
    <2> HIDE DEF D, g
    <2> QED BY <2>1, <2>2 DEF Bijection, Injection, Surjection, IsInjective
  <1>3. ExistsBijection(D, T)
    <2> HIDE DEF D, g
    <2> QED BY <1>2 DEF ExistsBijection
  <1> HIDE DEF D
  <1> QED BY <1>1, <1>3, FS_Bijection

------------------------------------------------------------------------------
(* Products and divisions *)

LEMMA ProductGrows ==
  ASSUME NEW a \in Nat, NEW x \in Nat, NEW y \in Nat, x <= y
  PROVE  a * x \in Nat /\ a * y \in Nat /\ a * x <= a * y
  <1>1. PICK n \in Nat : y = x + n
    <2>1. y - x \in Nat /\ y = x + (y - x)
      OBVIOUS
    <2> QED BY <2>1
  <1>2. a * y = a * x + a * n
    BY <1>1
  <1>3. a * x \in Nat /\ a * n \in Nat
    BY SMT
  <1> QED BY <1>2, <1>3

LEMMA MultipleGrows ==
  ASSUME NEW k \in Nat, NEW x \in Int, NEW y \in Int, x <= y
  PROVE  k * x \in Int /\ k * y \in Int /\ k * x <= k * y
  <1>1. PICK n \in Nat : y = x + n
    <2>1. y - x \in Nat /\ y = x + (y - x)
      OBVIOUS
    <2> QED BY <2>1
  <1>2. k * y = k * x + k * n
    BY <1>1
  <1>3. k * x \in Int /\ k * n \in Nat
    BY SMT
  <1> QED BY <1>2, <1>3

LEMMA QuotientIsNat == ASSUME NEW a \in Nat, NEW k \in Nat \ {0} PROVE a \div k \in Nat
  <1> DEFINE n == a \div k
  <1>1. n \in Int /\ k * n <= a /\ a < k * n + k
    BY SMT
  <1> HIDE DEF n
  <1>2. ASSUME n < 0 PROVE FALSE
    <2>1. k * (n + 1) <= 0
      BY <1>1, <1>2, SMT
    <2> QED BY <1>1, <2>1, SMT
  <1> QED BY <1>1, <1>2 DEF n

LEMMA Divides ==
  ASSUME NEW a \in Nat, NEW d \in Nat \ {0}
  PROVE  /\ a \div d \in Nat
         /\ (a \div d) * d <= a /\ a < (a \div d) * d + d
         /\ \A m \in Nat : m * d <= a => m <= a \div d
  <1>1. a \div d \in Nat /\ (a \div d) * d <= a /\ a < (a \div d) * d + d
    OBVIOUS
  <1>2. ASSUME NEW m \in Nat, m * d <= a PROVE m <= a \div d
    <2> DEFINE k == a \div d
    <2>1. k \in Nat /\ m * d <= a /\ a < k * d + d
      BY <1>1, <1>2
    <2> HIDE DEF k
    <2>2. SUFFICES ASSUME k + 1 <= m PROVE FALSE
      BY <2>1 DEF k
    <2>3. (k + 1) * d <= m * d
      BY <2>1, <2>2, ProductGrows
    <2>4. (k + 1) * d = k * d + d /\ k * d \in Nat /\ m * d \in Nat
      BY <2>1
    <2> QED BY <2>1, <2>3, <2>4
  <1> QED BY <1>1, <1>2

\* A division by a number that is not zero rounds down, and does not fall when what is divided grows.
LEMMA ShareGrows ==
  ASSUME NEW a \in Int, NEW b \in Int, a <= b, NEW k \in Nat \ {0}
  PROVE  a \div k \in Int /\ b \div k \in Int /\ a \div k <= b \div k
  <1> DEFINE m == a \div k
             n == b \div k
  <1>1. /\ m \in Int /\ n \in Int
        /\ k * m <= a /\ b < k * n + k
    BY SMT
  <1> HIDE DEF m, n
  <1>2. ASSUME n < m PROVE FALSE
    <2>1. n + 1 \in Int /\ n + 1 <= m
      BY <1>1, <1>2
    <2>2. k * (n + 1) <= k * m
      BY <1>1, <2>1, MultipleGrows
    <2>3. k * (n + 1) = k * n + k
      BY <1>1
    <2>4. k * n \in Int /\ k * m \in Int
      BY <1>1, SMT
    <2> HIDE DEF m, n
    <2> DEFINE p == k * n
               q == k * m
    <2>5. p + k <= q /\ q <= a /\ b < p + k /\ p \in Int /\ q \in Int
      BY <1>1, <2>2, <2>3, <2>4
    <2> HIDE DEF p, q
    <2> QED BY <2>5
  <1> QED BY <1>1, <1>2 DEF m, n

\* What part of e is x of t: more is not less, and not by more than it is more if e is at most t.
LEMMA ShareIs ==
  ASSUME NEW e \in Nat, NEW t \in Nat \ {0}, NEW x \in Nat, NEW y \in Nat, x <= y
  PROVE  /\ (e * x) \div t \in Nat /\ (e * y) \div t \in Nat /\ (e * x) \div t <= (e * y) \div t
         /\ y <= t => (e * y) \div t <= e
         /\ e <= t => (e * y) \div t <= y /\ y - (e * y) \div t >= x - (e * x) \div t
         /\ t <= e => y <= (e * y) \div t
  <1> DEFINE a == e * x
             b == e * y
             p == a \div t
             q == b \div t
  <1>1. a \in Nat /\ b \in Nat /\ a <= b
    BY ProductGrows
  <1> HIDE DEF a, b
  <1>2. /\ p \in Nat /\ p * t <= a /\ a < p * t + t
        /\ q \in Nat /\ q * t <= b /\ b < q * t + t
        /\ \A m \in Nat : m * t <= b => m <= q
        /\ \A m \in Nat : m * t <= a => m <= p
    BY <1>1, Divides
  <1> HIDE DEF p, q
  <1>3. p <= q
    <2>1. p * t <= b
      <3>1. p * t \in Nat
        BY <1>2
      <3> QED BY <1>1, <1>2, <3>1
    <2> QED BY <1>2, <2>1
  \* q * t <= b <= m * t bounds q by m
  <1>4. ASSUME NEW m \in Nat, b <= m * t PROVE q <= m
    <2>1. SUFFICES ASSUME m + 1 <= q PROVE FALSE
      BY <1>2
    <2>2. (m + 1) * t <= q * t
      BY <1>2, <2>1, ProductGrows
    <2>3. (m + 1) * t = m * t + t /\ m * t \in Nat /\ q * t \in Nat
      BY <1>2
    <2> HIDE DEF b
    <2> QED BY <1>1, <1>2, <1>4, <2>2, <2>3
  <1>5. y <= t => q <= e
    <2>1. y <= t => e * y <= e * t
      BY ProductGrows
    <2> QED BY <1>4, <2>1 DEF b
  <1>6. e <= t => q <= y
    <2>1. e <= t => y * e <= y * t
      BY ProductGrows
    <2>2. y * e = b
      BY DEF b
    <2> QED BY <1>4, <2>1, <2>2
  <1>7. t <= e => y <= q
    <2>1. t <= e => y * t <= y * e
      BY ProductGrows
    <2>2. y * e = b
      BY DEF b
    <2> QED BY <1>2, <2>1, <2>2
  <1>8. ASSUME e <= t PROVE y - q >= x - p
    <2>1. PICK d \in Nat : y = x + d
      <3>1. y - x \in Nat /\ y = x + (y - x)
        OBVIOUS
      <3> QED BY <3>1
    <2>2. b = a + d * e /\ d * e \in Nat
      BY <2>1 DEF a, b
    <2>3. d * e <= d * t /\ d * t \in Nat
      BY <1>8, <2>1, ProductGrows
    <2>4. SUFFICES ASSUME p + d + 1 <= q PROVE FALSE
      BY <1>2, <2>1
    <2>5. (p + d + 1) * t <= q * t /\ q * t \in Nat
      BY <1>2, <2>1, <2>4, ProductGrows
    <2>6. (p + d + 1) * t = p * t + d * t + t /\ p * t \in Nat
      BY <1>2, <2>1
    <2> HIDE DEF a, b
    <2> QED BY <1>1, <1>2, <2>2, <2>3, <2>5, <2>6
  <1> QED BY <1>2, <1>3, <1>5, <1>6, <1>7, <1>8 DEF p, q, a, b

\* What k comes to in shares by u, each rounded down: no more than k, and less by less
\* than one for each.
LEMMA SharesAdd ==
  ASSUME NEW S, IsFiniteSet(S), NEW u, \A x \in S : u[x] \in Nat,
         NEW k \in Nat, NEW t \in Nat \ {0}, t = SumOf(u, S),
         NEW q, \A x \in S : q[x] = (k * u[x]) \div t
  PROVE  /\ \A x \in S : q[x] \in Nat
         /\ SumOf(q, S) \in Nat /\ SumOf(q, S) <= k /\ k < SumOf(q, S) + Cardinality(S)
         /\ Cardinality(S) \in Nat
  <1> DEFINE P == Picked(S)
             f == SumFold(u, S)
             g == SumFold(q, S)
             size(s) == Cardinality(s)
             c == t - 1
             Below(a, b, z) == t * b <= k * a /\ k * a <= t * b + c * z
             Good == {s \in SUBSET S : Below(f[s], g[s], size(s))}
  <1>1. ASSUME NEW x \in S
        PROVE  q[x] \in Nat /\ Below(u[x], q[x], 1)
    <2> DEFINE a == k * u[x]
               b == q[x]
    <2>1. a \in Nat /\ b = a \div t
      BY SMT
    <2> HIDE DEF a, b
    <2>2. b \in Nat /\ b * t <= a /\ a < b * t + t
      BY <2>1, Divides
    <2>3. b * t = t * b /\ t * b \in Nat /\ c * 1 = t - 1
      BY <2>2
    <2>4. a <= t * b + c * 1
      BY <2>1, <2>2, <2>3
    <2> QED BY <2>2, <2>3, <2>4 DEF a, b
  <1>2. /\ Integral(u, S) /\ Integral(q, S) /\ SumOf(q, S) \in Nat
        /\ size(S) \in Nat
    BY <1>1, SumNat, FS_CardinalityType
  <1>3. /\ f[{}] = 0 /\ g[{}] = 0
        /\ \A s \in SUBSET S : s # {} =>
              /\ P[s] \in s /\ f[s] = u[P[s]] + f[s \ {P[s]}] /\ g[s] = q[P[s]] + g[s \ {P[s]}]
        /\ \A s \in SUBSET S : f[s] \in Int /\ g[s] \in Int
    <2>1. Integral(u, S) /\ Integral(q, S)
      BY <1>2
    <2>2. /\ f[{}] = 0 /\ \A s \in SUBSET S : f[s] \in Int
          /\ \A s \in SUBSET S : s # {} => P[s] \in s /\ f[s] = u[P[s]] + f[s \ {P[s]}]
      BY <2>1, SumUnfolds
    <2>3. /\ g[{}] = 0 /\ \A s \in SUBSET S : g[s] \in Int
          /\ \A s \in SUBSET S : s # {} => P[s] \in s /\ g[s] = q[P[s]] + g[s \ {P[s]}]
      BY <2>1, SumUnfolds
    <2> HIDE DEF f, g, P
    <2> QED BY <2>2, <2>3
  <1>4. f[S] = t /\ g[S] = SumOf(q, S)
    BY DEF SumOf
  <1>5. size({}) = 0 /\ \A s \in SUBSET S : size(s) \in Nat /\ \A x \in s : size(s) = 1 + size(s \ {x})
    <2>1. ASSUME NEW s \in SUBSET S, NEW x \in s PROVE size(s) = 1 + size(s \ {x})
      BY FS_Subset, FS_CardinalityType, FS_RemoveElement
    <2> QED BY <2>1, FS_Subset, FS_CardinalityType, FS_EmptySet
  <1> HIDE DEF f, g, P, size
  <1>6. ASSUME NEW a \in Int, NEW b \in Int, NEW z \in Nat, Below(a, b, z),
               NEW v \in Nat, NEW r \in Nat, Below(v, r, 1)
        PROVE  Below(v + a, r + b, 1 + z)
    <2>1. /\ k * (v + a) = k * v + k * a /\ t * (r + b) = t * r + t * b /\ c * (1 + z) = c * 1 + c * z
          /\ k * v \in Int /\ k * a \in Int /\ t * r \in Int /\ t * b \in Int /\ c * 1 \in Int /\ c * z \in Int
      <3>1. c \in Nat
        OBVIOUS
      <3> HIDE DEF c, Below
      <3>2. k * (v + a) = k * v + k * a /\ k * v \in Int /\ k * a \in Int
        OBVIOUS
      <3>3. t * (r + b) = t * r + t * b /\ t * r \in Int /\ t * b \in Int
        OBVIOUS
      <3>4. c * (1 + z) = c * 1 + c * z /\ c * 1 \in Int /\ c * z \in Int
        BY <3>1
      <3> QED BY <3>2, <3>3, <3>4
    <2> DEFINE p1 == k * v
               p2 == k * a
               p3 == t * r
               p4 == t * b
               p5 == c * 1
               p6 == c * z
    <2>2. /\ p1 \in Int /\ p2 \in Int /\ p3 \in Int /\ p4 \in Int /\ p5 \in Int /\ p6 \in Int
          /\ p3 <= p1 /\ p1 <= p3 + p5 /\ p4 <= p2 /\ p2 <= p4 + p6
      BY <1>6, <2>1
    <2> HIDE DEF p1, p2, p3, p4, p5, p6
    <2>3. p3 + p4 <= p1 + p2 /\ p1 + p2 <= (p3 + p4) + (p5 + p6)
      BY <2>2
    <2> QED BY <2>1, <2>3 DEF p1, p2, p3, p4, p5, p6
  <1>7. Inductive(Good, S, P)
    <2>1. {} \in Good
      <3>1. k * 0 = 0 /\ t * 0 = 0 /\ c * 0 = 0
        OBVIOUS
      <3>2. Below(0, 0, 0)
        BY <3>1
      <3> HIDE DEF Below
      <3> QED BY <1>3, <1>5, <3>2
    <2>2. ASSUME NEW s \in SUBSET S, s # {}, s \ {P[s]} \in Good PROVE s \in Good
      <3> DEFINE x == P[s]
                 w == s \ {x}
      <3>1. x \in S /\ x \in s /\ w \in SUBSET S /\ f[s] = u[x] + f[w] /\ g[s] = q[x] + g[w]
        BY <1>3, <2>2
      <3> HIDE DEF Below
      <3>2. Below(f[w], g[w], size(w)) /\ Below(u[x], q[x], 1) /\ size(s) = 1 + size(w)
        BY <1>1, <1>5, <2>2, <3>1
      <3>3. f[w] \in Int /\ g[w] \in Int /\ size(w) \in Nat /\ u[x] \in Nat /\ q[x] \in Nat
        BY <1>1, <1>3, <1>5, <3>1
      <3> HIDE DEF x, w
      <3>4. Below(u[x] + f[w], q[x] + g[w], 1 + size(w))
        BY <1>6, <3>2, <3>3
      <3> QED BY <3>1, <3>2, <3>4
    <2> HIDE DEF Good
    <2> QED BY <1>3, <2>1, <2>2 DEF Inductive
  <1>8. Below(t, SumOf(q, S), size(S))
    <2>1. S \in Good
      <3> HIDE DEF Good
      <3> QED BY <1>7, FoldInduction
    <2> HIDE DEF Below
    <2> QED BY <1>4, <2>1
  <1> DEFINE b == SumOf(q, S)
             n == size(S)
  <1>9. b \in Nat /\ n \in Nat /\ t * b <= k * t /\ k * t <= t * b + c * n
    BY <1>2, <1>8
  <1>10. n # 0
    <2>1. S # {}
      <3>1. SUFFICES ASSUME S = {} PROVE FALSE
        OBVIOUS
      <3>2. SumOf(u, S) = 0
        BY <3>1, SumEmpty
      <3> QED BY <3>2
    <2>2. PICK x \in S : TRUE
      BY <2>1
    <2>3. size(S) = 1 + size(S \ {x}) /\ size(S \ {x}) \in Nat
      BY <1>5, <2>2
    <2> QED BY <2>3
  <1> HIDE DEF b, n
  <1>11. b <= k
    <2>1. SUFFICES ASSUME k + 1 <= b PROVE FALSE
      BY <1>9
    <2>2. t * (k + 1) <= t * b /\ t * (k + 1) = k * t + t /\ k * t \in Nat /\ t * b \in Nat
      BY <1>9, <2>1, ProductGrows
    <2> QED BY <1>9, <2>2
  <1>12. k < b + n
    <2>1. SUFFICES ASSUME b + n <= k PROVE FALSE
      BY <1>9
    <2>2. t * (b + n) <= t * k
      BY <1>9, <2>1, ProductGrows
    <2>3. /\ t * (b + n) = t * b + t * n /\ t * k = k * t /\ c * n = t * n - n
          /\ t * b \in Nat /\ t * n \in Nat /\ k * t \in Nat
      BY <1>9
    <2> QED BY <1>9, <1>10, <2>2, <2>3
  <1> QED BY <1>1, <1>2, <1>9, <1>11, <1>12 DEF b, n, size

==============================================================================
