----------------------------- MODULE MCCalculators -----------------------------
(***************************************************************************)
(* Small instances, for TLC, of the calculators of the sidecar, and of its *)
(* circuit breaker, which needs a run without symmetry.  They share no     *)
(* state: the variable part says which of them a behaviour is about, and   *)
(* the others stand still.                                                 *)
(***************************************************************************)
EXTENDS Calculators, CircuitBreaker

CONSTANTS
    Parts,                              \* the components to check
    house, other                        \* owners of chunks

VARIABLE part

SomeIncomes == {[ordinary |-> o, st |-> s, lt |-> l, deductions |-> 29200, investment |-> s + l] :
               o \in {0, 90000, 125000, 235000, 750000}, s \in {-5000, 0, 20000}, l \in {0, 80000, 400000}}
SomeLots == {[ticker |-> t, loss |-> x, days |-> n] :
            t \in {"a", "b"}, x \in {100, 101, 60000, 300000}, n \in {365, 366}}
SomeTrades == {[ticker |-> "a", day |-> n, buy |-> y] : n \in {-31, -30}, y \in BOOLEAN}

Orders(n) == {s \in [1..n -> 1..n] : \A i, j \in 1..n : s[i] = s[j] => i = j}

\* two or three positions of any scores or of any volatilities, and six of which one gives
\* after a lighter one is full, or does not, as their order is
Four == <<91, 18, 17, 4>>
SomeSelections ==
    UNION {[1..n -> [score : {0, 1, 30, 39, 60}, vol : {10}]]
           \cup [1..n -> [score : {39}, vol : {0, 10, 40}]] : n \in {2, 3}}
    \cup {[i \in 1..6 |-> [score |-> IF i <= 4 THEN Four[o[i]] ELSE 0, vol |-> 10]] : o \in Orders(4)}
TwoRates == {[bracket |-> 37, lt |-> 20], [bracket |-> 22, lt |-> 0]}
OneIndustry == [t \in Universe |-> t = "d"]
OneSector == [t \in Universe |-> "s"]
TwoSectors == [p \in Position |-> IF p = "c" THEN "bonds" ELSE "tech"]
OneCountry == [p \in Position |-> "US"]
ClassOf == [p \in Position \cup {"cash"} |->
               CASE p = "c" -> "bonds" [] p = "cash" -> "cash" [] OTHER -> "stocks"]
TwoTargets == {[x \in {"stocks", "bonds", "cash"} |->
                   CASE x = "stocks" -> n [] x = "cash" -> 10 [] OTHER -> 90 - n] : n \in {30, 60}}

------------------------------------------------------------------------------
(* Questions to the RAG index, recordings to transcribe *)

Texts == [kind : {"text"}, n : 1..9, size : {3, 5}, overlap : 0..2]
Batches == {[kind |-> "vectors", texts |-> <<11, 12, 13, 14, 15, 16>>, size |-> 2, orders |-> o] :
               o \in Orders(2) \X Orders(2) \X Orders(2)}
           \cup {[kind |-> "vectors", texts |-> <<11, 12, 13>>, size |-> 2, orders |-> o] :
               o \in Orders(2) \X Orders(1)}
\* a chunk in utterances, or as a text that is longer or shorter than they are
Answers == {[split |-> TRUE, dated |-> TRUE, text |-> 0], [split |-> FALSE, dated |-> TRUE, text |-> 9],
            [split |-> FALSE, dated |-> FALSE, text |-> 1]}
Speeches == {[kind |-> "speech", n |-> 8, max |-> 4, overlap |-> 2, speech |-> S,
              answers |-> [k \in 1..8 |-> IF k <= 3 THEN a[k] ELSE a[1]]] : a \in [1..3 -> Answers], S \in
            {{[from |-> t[1], to |-> t[2]], [from |-> t[3], to |-> t[4]], [from |-> t[5], to |-> t[6]]} :
                t \in {x \in [1..6 -> 0..8] : /\ \A n \in 1..5 : x[n] <= x[n + 1]
                                             /\ \A n \in {1, 3, 5} : x[n] < x[n + 1]}}}
Owned(h, cl, ad) == [x \in Query!Column |-> CASE x = "household" -> h [] x = "client" -> cl
                                              [] x = "advisor" -> ad [] x = "account" -> "null"]
Chunks == {[source |-> s, at |-> n, tokens |-> 2, owners |-> o, near |-> x, recent |-> r] :
              s \in {"s1", "s2"}, n \in {1}, x \in {0, 1}, r \in {0, 2},
              o \in {Owned("null", "null", "null"), Owned(house, "null", "adv"), Owned(other, "cl", "null")}}
Questions == {[kind |-> "question", chunks |-> S, q |-> [scope |-> sc, found |-> 3, kept |-> k, client |-> cl,
                                    household |-> house, budget |-> 6]] :
                 S \in {{x, y} : x, y \in Chunks}, k \in {2, 3}, cl \in {"cl", "null"},
                 sc \in {[full |-> TRUE], [full |-> FALSE, ids |-> [x \in Query!Column |-> {house}]]}}
Kinds == {"text", "vectors", "speech", "question"}
SomeAsked == Texts \cup Batches \cup Speeches \cup Questions \cup {[kind |-> "none"]}

------------------------------------------------------------------------------

One(n, init, idle) == IF part = n THEN init ELSE idle

MCInit ==
    /\ part \in Parts
    /\ given \in {x \in Asked : x.kind = IF part \in Kinds THEN part ELSE "none"}
    \* a breaker that nobody asks: its fairness asks nothing of the other parts
    /\ One("breaker", BreakerInit, state = "CLOSED" /\ failures = 0 /\ wait = 0
           /\ platform = "up" /\ streak = 0 /\ call = [c \in Call |-> "never"])
    /\ One("weights", Weight!Init, data = <<>> /\ strategy = "equal" /\ maxWeight = 0
           /\ clamp = Weight!Idle /\ weights = <<>>)
    /\ One("tax", Tax!Init, filing = "mfj" /\ income = (CHOOSE x \in Incomes : TRUE) /\ actions = 2)
    /\ One("harvest", Harvest!Init, trades = {} /\ gains = 0 /\ rates = 0 /\ scanned = 2 /\ candidates = <<>>)
    /\ One("factors", Factor!Init, raw = 0 /\ subWeights = 0 /\ scores = <<>>)
    /\ One("alerts", Alert!Init, today = 830 /\ born = 1953 /\ balance = 0 /\ loss = 1)
    /\ One("exposure", Exposed!Init, target = (CHOOSE x \in Targets : TRUE)
           /\ exposure = [p \in Position \cup {"cash"} |-> IF p = "cash" THEN 100 ELSE 0])

MCNext ==
    /\ UNCHANGED part
    /\ \/ part = "breaker" /\ BreakerNext /\ UNCHANGED calcVars
       \/ /\ UNCHANGED <<given, breakerVars>>
          /\ \/ part = "weights" /\ WeightStep
             \/ part = "tax" /\ TaxStep
             \/ part = "harvest" /\ HarvestStep
             \/ part = "factors" /\ FactorStep
             \/ part = "alerts" /\ AlertStep
             \/ part = "exposure" /\ ExposureStep

MCSpec == MCInit /\ [][MCNext]_<<part, calcVars, breakerVars>> /\ BreakerFairness
==============================================================================
