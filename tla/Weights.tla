-------------------------------- MODULE Weights --------------------------------
(***************************************************************************)
(* The weights of a proposed portfolio (portfolio_construction/optimizer): *)
(* equal, by conviction or by inverse volatility, then clamped.  A weight  *)
(* is in ten-thousandths; positions are numbered in the order of the       *)
(* selection, on which clamping depends.                                   *)
(***************************************************************************)
EXTENDS Ranking

CONSTANTS
    Selections,         \* what is selected, in order: composite scores (0 for none), realized volatilities (0 for unknown)
    MinWeight,          \* clamp_positions' default
    MaxWeights          \* max_single_position of the intent

VARIABLES
    data,               \* one of Selections: per position [score, vol]
    strategy,
    maxWeight,
    clamp,              \* the loop of clamp_positions, Idle before and after it
    weights             \* <<>> until they are computed

vars == <<data, strategy, maxWeight, clamp, weights>>

One == 10000
Slack == 20             \* rounding of at most a few units per step
Passes == 100           \* of the clamp
Total(w) == FoldFunction(+, 0, w)

WeightEqual(d) == [i \in DOMAIN d |-> One \div Len(d)]
WeightConviction(d) ==
    LET total == Total([i \in DOMAIN d |-> d[i].score])
    IN IF total = 0 THEN WeightEqual(d) ELSE [i \in DOMAIN d |-> (One * d[i].score) \div total]

\* An unknown volatility is the median of the known ones, 25 if there are none.
Median(s) ==
    LET n == Len(s) IN IF n % 2 = 1 THEN s[n \div 2 + 1] ELSE (s[n \div 2] + s[n \div 2 + 1]) \div 2
WeightRiskParity(d) ==
    LET known == {i \in DOMAIN d : d[i].vol > 0}
        order == SortBy(known, LAMBDA i, k : d[i].vol < d[k].vol \/ (d[i].vol = d[k].vol /\ i < k))
        median == IF known = {} THEN 25 ELSE Median([k \in DOMAIN order |-> d[order[k]].vol])
        vol(i) == IF i \in known THEN d[i].vol ELSE median
        inverse == [i \in DOMAIN d |-> One \div vol(i)]
    IN [i \in DOMAIN d |-> (One * inverse[i]) \div Total(inverse)]

Raw(d, s) == CASE s = "equal" -> WeightEqual(d)
               [] s = "conviction" -> WeightConviction(d)
               [] s = "risk_parity" -> WeightRiskParity(d)

\* Too low a maximum for the number of positions is relaxed to equal weights.
Ceiling(n, max) == IF n * max < One THEN One \div n + 1 ELSE max

------------------------------------------------------------------------------
(* clamp_positions: s is the loop's state, with the weights and the frozen positions *)

Idle == [w |-> <<>>, high |-> {}, low |-> {}, at |-> 0, violated |-> FALSE, pass |-> 0]

\* all of the excess goes to the next position
TakeHigh_Next(s, i, max) ==
    LET excess == s.w[i] - max
        open == DOMAIN s.w \ (s.high \cup s.low \cup {i})
    IN IF i \in s.high \/ excess <= 0 THEN s
       ELSE [s EXCEPT !.w = [u \in DOMAIN s.w |-> CASE u = i -> max
                                [] u \in open /\ (\A v \in open : u <= v) -> s.w[u] + excess
                                [] OTHER -> s.w[u]],
                      !.high = @ \cup {i}, !.violated = TRUE]
TakeHigh(s, i, max) ==
    LET excess == s.w[i] - max
        open == DOMAIN s.w \ (s.high \cup s.low \cup {i})
        total == FoldFunctionOnSet(+, 0, s.w, open)
        share(u) == IF total > 0 THEN (excess * s.w[u]) \div total ELSE excess \div Cardinality(open)
    IN IF i \in s.high \/ excess <= 0 THEN s
       ELSE [s EXCEPT !.w = [u \in DOMAIN s.w |-> CASE u = i -> max
                                                    [] u \in open -> s.w[u] + share(u)
                                                    [] OTHER -> s.w[u]],
                      !.high = @ \cup {i}, !.violated = TRUE]

RaiseLow(s, i) ==
    LET deficit == MinWeight - s.w[i]
        donors == {u \in DOMAIN s.w \ (s.high \cup s.low \cup {i}) : s.w[u] > MinWeight}
        total == FoldFunctionOnSet(+, 0, [u \in donors |-> s.w[u] - MinWeight], donors)
    IN IF i \in s.low \/ deficit <= 0 THEN s
       ELSE [s EXCEPT !.w = [u \in DOMAIN s.w |-> CASE u = i -> MinWeight
                                 [] u \in donors -> s.w[u] - (deficit * (s.w[u] - MinWeight)) \div total
                                 [] OTHER -> s.w[u]],
                      !.low = @ \cup {i}, !.violated = TRUE]

\* unless every weight was above the maximum before the clamp
Normalised(w) ==
    LET total == Total(w) IN
    IF \A i \in DOMAIN w : Raw(data, strategy)[i] > Ceiling(Len(data), maxWeight) THEN w
    ELSE [i \in DOMAIN w |-> (One * w[i]) \div total]

Init ==
    /\ data \in Selections
    /\ strategy \in {"equal", "conviction", "risk_parity"}
    /\ maxWeight \in MaxWeights
    /\ clamp = Idle
    /\ weights = <<>>

Weigh ==
    /\ weights = <<>> /\ clamp.at = 0
    /\ clamp' = [Idle EXCEPT !.w = Raw(data, strategy), !.at = 1, !.pass = 1]
    /\ UNCHANGED weights
\* A pass looks at each position for the maximum, then at each for the minimum.
LookHigh ==
    /\ clamp.at \in 1..Len(data)
    /\ clamp' = [TakeHigh(clamp, clamp.at, Ceiling(Len(data), maxWeight)) EXCEPT !.at = @ + 1]
    /\ UNCHANGED weights
LookLow ==
    /\ clamp.at \in Len(data) + 1..2 * Len(data)
    /\ clamp' = [RaiseLow(clamp, clamp.at - Len(data)) EXCEPT !.at = @ + 1]
    /\ UNCHANGED weights
Again ==
    /\ clamp.at = 2 * Len(data) + 1 /\ clamp.violated /\ clamp.pass < Passes
    /\ clamp' = [clamp EXCEPT !.at = 1, !.violated = FALSE, !.pass = @ + 1]
    /\ UNCHANGED weights
Normalise ==
    /\ clamp.at = 2 * Len(data) + 1 /\ (clamp.violated => clamp.pass = Passes)
    /\ weights' = Normalised(clamp.w)
    /\ clamp' = Idle

Next == (Weigh \/ LookHigh \/ LookLow \/ Again \/ Normalise) /\ UNCHANGED <<data, strategy, maxWeight>>
Spec == Init /\ [][Next]_vars

------------------------------------------------------------------------------
(* Properties *)

\* Whatever was frozen at a bound and whatever found no one to take it: the whole of
\* the money is invested, up to the unit that rounding takes from each position.
FullyInvested == weights # <<>> => Total(weights) \in One - Len(weights) .. One

\* clamp_positions' docstring: weights "within bounds".
WithinBounds ==
    \A i \in DOMAIN weights :
        weights[i] \in MinWeight - Slack .. Ceiling(Len(data), maxWeight) + Slack

\* However the excess and the deficits go round: where there is room for the minimum of
\* each (n * min_weight <= 1.0) and for the passes, a position that weighed less before
\* the clamp weighs more after it only if it is at the maximum, where it froze before the
\* other gave to those that had to be raised.
OrderKept ==
    weights # <<>> /\ Len(data) * MinWeight <= One /\ Len(data) < Passes =>
        LET raw == Raw(data, strategy) IN
        \A i, j \in DOMAIN weights :
            raw[i] > raw[j] /\ weights[i] < weights[j] =>
                /\ \A k \in DOMAIN weights : weights[k] <= weights[j]
                /\ \E k \in DOMAIN weights : raw[k] < MinWeight
==============================================================================
