------------------------------- MODULE Exposure -------------------------------
(***************************************************************************)
(* The standing checks of a portfolio, and what a trade does to them:      *)
(* drift from the target (analytics/drift_detection.py), concentration     *)
(* (concentration_risk.py) and idle cash (cash_drag.py).  Weights are in   *)
(* percent, values in thousands of dollars; 0 is the severity "ok" or      *)
(* "info", 1 "warning", 2 "action_needed".                                 *)
(***************************************************************************)
EXTENDS Integers, FiniteSetsExt, Functions

CONSTANTS
    Position,           \* holdings; "cash" is beside them
    Sector, Country,    \* of each position
    Class,              \* asset class of each position and of the cash
    Targets,            \* possible targets: class -> percent
    Lot,                \* percent that a trade moves
    Value               \* of the portfolio

VARIABLES target, weights

vars == <<target, weights>>

Sum(S) == SumFunctionOnSet(weights, S)
Square(x) == x * x

------------------------------------------------------------------------------
(* DriftDetectionModel.score, with the default thresholds of 5 and 10 *)

Drift(c) == LET d == Sum({p \in DOMAIN weights : Class[p] = c}) - target[c] IN IF d < 0 THEN -d ELSE d
PositionSeverity(c) == CASE Drift(c) >= 10 -> 2 [] Drift(c) \in 5..9 -> 1 [] OTHER -> 0
DriftSeverity == Max({PositionSeverity(c) : c \in DOMAIN target})
Breaching == Cardinality({c \in DOMAIN target : PositionSeverity(c) # 0})
\* the mean square that drift_score is the root of, but for a factor
SquareDrift == SumFunction([c \in DOMAIN target |-> Square(Drift(c))])

------------------------------------------------------------------------------
(* ConcentrationRiskScorer.score *)

Hhi == SumFunction([p \in Position |-> Square(weights[p])])
Groups(of) == {{p \in Position : of[p] = g} : g \in {of[p] : p \in Position}}
\* what is over its limit: a flag, and by how much
Flags ==
    {<<"single_stock", p, weights[p] - 10>> : p \in {q \in Position : weights[q] > 10}}
    \cup {<<"sector", g, Sum(g) - 30>> : g \in {h \in Groups(Sector) : Sum(h) > 30}}
    \cup {<<"geography", g, Sum(g) - 50>> : g \in {h \in Groups(Country) : Sum(h) > 50}}
ConcentrationSeverity ==
    CASE Hhi > 1800 \/ (\E f \in Flags : f[3] > 15) -> 2
      [] Hhi <= 1800 /\ (\A f \in Flags : f[3] <= 15) /\ (Hhi > 1000 \/ Flags # {}) -> 1
      [] OTHER -> 0

------------------------------------------------------------------------------
(* CashDragDetector.score: 2 % is the default target, 5 and 15 % and 5,000 dollars
   above it the limits *)

Excess == weights["cash"] - 2
CashSeverity ==
    CASE Excess < 5 \/ Excess * Value < 500 -> 0
      [] Excess \in 5..14 /\ Excess * Value >= 500 -> 1
      [] OTHER -> 2

------------------------------------------------------------------------------

Init ==
    /\ target \in Targets
    /\ weights \in {w \in [Position \cup {"cash"} -> {Lot * n : n \in 0..(100 \div Lot)}] :
                        SumFunction(w) = 100}

Move(p, q) ==
    /\ p # q /\ weights[p] >= Lot
    /\ weights' = [weights EXCEPT ![p] = @ - Lot, ![q] = @ + Lot]
    /\ UNCHANGED target
Trade == \E p, q \in DOMAIN weights : Move(p, q)

Next == Trade
Spec == Init /\ [][Next]_vars

------------------------------------------------------------------------------
(* Properties *)

\* A trade that is for the better makes nothing worse: from a heavier position to a
\* lighter one of its sector and country it does not raise the severity of the
\* concentration, though it may raise the number of flags; towards the target on both
\* sides, no measure of the drift; out of the cash, not that of the cash.
Eases ==
    \A p, q \in DOMAIN weights : Move(p, q) =>
        /\ /\ "cash" \notin {p, q}
           /\ Sector[p] = Sector[q] /\ Country[p] = Country[q]
           /\ weights[p] >= weights[q] + Lot
           => ConcentrationSeverity' <= ConcentrationSeverity
        /\ /\ Class[p] # Class[q]
           /\ Sum({r \in DOMAIN weights : Class[r] = Class[p]}) - target[Class[p]] >= Lot
           /\ target[Class[q]] - Sum({r \in DOMAIN weights : Class[r] = Class[q]}) >= Lot
           => /\ DriftSeverity' <= DriftSeverity
              /\ Breaching' <= Breaching
              /\ SquareDrift' <= SquareDrift
        /\ p = "cash" => CashSeverity' <= CashSeverity
==============================================================================
