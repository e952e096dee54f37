------------------------------ MODULE FactorModel ------------------------------
(***************************************************************************)
(* One factor of the factor model (analytics/portfolio_factor_model_v2):   *)
(* percentile ranks among the peers of each security, sub-factors summed   *)
(* up with weights that correlation adjusts, reliability and breadth.      *)
(* Ranks and scores are in 0..100, rounded down.                           *)
(***************************************************************************)
EXTENDS Ranking

CONSTANTS Tickers, Industry, Sector,    \* of each ticker
          SubFactors, LowerIsBetter,
          Values,                       \* raw values, not negative
          IndustryPeers, SectorPeers,   \* the smallest buckets: 15 and 25 in the code
          MinSubFactors                 \* 3 in the code

NoValue == -1

VARIABLES
    raw,            \* ticker, sub-factor -> value
    weights,        \* of the sub-factors
    scores          \* ticker -> [score, reliability], or none yet

vars == <<raw, weights, scores>>

Most(a, b) == IF a > b THEN a ELSE b
Least(a, b) == IF a < b THEN a ELSE b
Has(t, sf) == raw[t][sf] # NoValue
Holders(sf) == {t \in Tickers : Has(t, sf)}
Known(t) == {sf \in SubFactors : Has(t, sf)}

\* A factor is active when 60 % of the universe has data for it, and as many have data
\* for each of three of its sub-factors.
Coverage == Cardinality({t \in Tickers : Known(t) # {}})
CountViableSubFactors == Cardinality({sf \in SubFactors : 10 * Cardinality(Holders(sf)) >= 6 * Cardinality(Tickers)})
Active == 10 * Coverage >= 6 * Cardinality(Tickers) /\ CountViableSubFactors >= MinSubFactors

\* The industry when it is large enough, else the sector, else all.
GetPeers(t, sf) ==
    LET industry == {u \in Holders(sf) : Industry[u] = Industry[t]}
        sector == {u \in Holders(sf) : Sector[u] = Sector[t]}
    IN CASE Cardinality(industry) >= IndustryPeers -> industry
         [] Cardinality(industry) < IndustryPeers /\ Cardinality(sector) >= SectorPeers -> sector
         [] OTHER -> Holders(sf)

\* The 5th and 95th percentiles, in twentieths, interpolated as numpy does for up to
\* 21 values; a value outside is moved to the border before it is ranked.
Rank(t, sf) ==
    LET peers == SetToSeq(GetPeers(t, sf))
        n == Len(peers)
        value == [i \in 1..n |-> raw[peers[i]][sf]]
        order == SortBy(1..n, LAMBDA i, k : value[i] < value[k] \/ (value[i] = value[k] /\ i < k))
        v == [k \in 1..n |-> value[order[k]]]
        p5 == 20 * v[1] + (n - 1) * (v[2] - v[1])
        p95 == 20 * v[n] - (n - 1) * (v[n] - v[n - 1])
        clipped == Most(p5, Least(p95, 20 * raw[t][sf]))
        below == Cardinality({i \in 1..n : 20 * v[i] < clipped})
        equal == Cardinality({i \in 1..n : 20 * v[i] = clipped})
    IN IF n = 1 \/ v[1] = v[n] THEN 50 ELSE (50 * (2 * below + equal)) \div n

\* every high value is good
SubScore_Raw(t, sf) == Rank(t, sf)
SubScore(t, sf) == IF sf \in LowerIsBetter THEN 100 - Rank(t, sf) ELSE Rank(t, sf)

\* A sub-factor that only one security has counts for nobody.
Ranked(t) == {sf \in Known(t) : Cardinality(Holders(sf)) >= 2}

\* _correlation_adjusted_weights: 1 / (1 + the mean correlation with the others), which
\* is between a half and one, whatever the correlations; in halves.
CorrelationWeights == [SubFactors -> 1..2]

\* By the weights of the sub-factors a ticker has, in hundredths of a point.
FactorScore(t) ==
    SumFunction([sf \in Ranked(t) |-> 100 * weights[sf] * SubScore(t, sf)])
        \div SumFunctionOnSet(weights, Ranked(t))
\* in hundredths
Reliability(t) ==
    LET n == Cardinality(Ranked(t)) IN (n * (50 + (50 * Least(n, 3)) \div 3)) \div Cardinality(SubFactors)

Score(t) ==
    LET n == Cardinality(Ranked(t))
        shrunk == 5000 + (Reliability(t) * (FactorScore(t) - 5000)) \div 100
        supportive == Cardinality({sf \in Ranked(t) : SubScore(t, sf) >= 50})
    IN CASE n = 0 -> 5000
         [] n = 1 -> Least(shrunk, 6500)
         [] n > 1 /\ 2 * supportive < n -> Least(shrunk, 7500)
         [] OTHER -> shrunk

Init ==
    /\ raw \in [Tickers -> [SubFactors -> Values \cup {NoValue}]]
    /\ weights \in CorrelationWeights
    /\ scores = <<>>

ScoreUniverse ==
    /\ scores = <<>>
    /\ scores' = [t \in Tickers |-> IF Active THEN [score |-> Score(t), reliability |-> Reliability(t)]
                                    ELSE [score |-> 5000, reliability |-> 0]]
    /\ UNCHANGED <<raw, weights>>

Next == ScoreUniverse
Spec == Init /\ [][Next]_vars

------------------------------------------------------------------------------
(* Properties *)

Better(sf, x, y) == IF sf \in LowerIsBetter THEN x < y ELSE x > y

\* Through winsorizing, ties, inversion, shrinkage and caps: of two securities of one
\* industry with the same data, one that is worse in nothing does not score less.
Dominance ==
    scores # <<>> =>
        \A t, u \in Tickers :
            /\ Industry[t] = Industry[u] /\ Sector[t] = Sector[u]
            /\ Known(t) = Known(u)
            /\ \A sf \in Known(t) : ~Better(sf, raw[u][sf], raw[t][sf])
            => scores[t].score >= scores[u].score
==============================================================================
