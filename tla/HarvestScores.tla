----------------------------- MODULE HarvestScores -----------------------------
(***************************************************************************)
(* The tax-loss harvesting scorer (analytics/tax_loss_harvesting.py).  The *)
(* lots of a client are scanned one by one and ranked by score; what a     *)
(* client bought within thirty days blocks its lots of that ticker.        *)
(* Dollars; a score is in hundredths of a point, days count from today.    *)
(***************************************************************************)
EXTENDS Integers, SequencesExt

CONSTANTS Lots,             \* possible lots: [ticker, loss, days]
          Trades,           \* possible trades: [ticker, day, buy]
          Gains,            \* realized gains of the year so far
          Rates,            \* [bracket, lt]: percent
          MaxLots           \* bound

VARIABLES
    trades, gains, rates,   \* of the request
    scanned,                \* lots scanned
    candidates              \* ranked, [lot, saving, blocked, score]

vars == <<trades, gains, rates, scanned, candidates>>

MinLoss == 100
LongTermDays == 366
WashDays == 30

Least(a, b) == IF a < b THEN a ELSE b

CheckWashSale(lot) ==
    \E t \in trades : t.ticker = lot.ticker /\ t.buy /\ t.day \in -WashDays..WashDays

\* 60 points for the saving, 30 for gains to offset, 10 for urgency; a tenth when blocked
ComputeScore(saving, loss, blocked) ==
    LET offset == IF gains > 0 THEN Least((loss * 3000) \div gains, 3000) ELSE 0
        raw == Least((saving * 6) \div 50, 6000) + offset + 1000
    IN IF blocked THEN raw \div 10 ELSE raw

Candidate(lot) ==
    LET saving == (lot.loss * (IF lot.days >= LongTermDays THEN rates.lt ELSE rates.bracket)) \div 100
        blocked == CheckWashSale(lot)
    IN [lot |-> lot, saving |-> saving, blocked |-> blocked,
        score |-> ComputeScore(saving, lot.loss, blocked)]

Saving == SumFunction([i \in DOMAIN candidates |->
                          IF candidates[i].blocked THEN 0 ELSE candidates[i].saving])
OverallSeverity ==
    CASE Saving >= 10000 -> "action_needed" [] Saving \in 2000..9999 -> "warning" [] OTHER -> "info"

Init ==
    /\ trades \in {{t} : t \in Trades} \cup {{}} /\ gains \in Gains /\ rates \in Rates
    /\ scanned = 0 /\ candidates = <<>>

\* A small loss is no candidate; the sort is stable.
Scan ==
    /\ scanned < MaxLots
    /\ scanned' = scanned + 1
    /\ \E lot \in Lots :
        candidates' = IF lot.loss <= MinLoss THEN candidates
                      ELSE LET c == Candidate(lot)
                               better == {i \in DOMAIN candidates : candidates[i].score >= c.score}
                           IN InsertAt(candidates, Cardinality(better) + 1, c)
    /\ UNCHANGED <<trades, gains, rates>>

Next == Scan
Spec == Init /\ [][Next]_vars

------------------------------------------------------------------------------
(* Properties *)

\* "Still show it, but rank very low": the largest loss that a purchase blocks ranks
\* below the smallest that can be harvested, unless that saves nothing to speak of; and
\* an urgent list begins with one that can be.
BlockedRankLast ==
    /\ \A i, j \in DOMAIN candidates :
           candidates[i].blocked /\ ~candidates[j].blocked /\ candidates[j].saving > 10 => j < i
    /\ OverallSeverity # "info" => ~candidates[1].blocked
==============================================================================
