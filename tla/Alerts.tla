--------------------------------- MODULE Alerts ---------------------------------
(***************************************************************************)
(* What a calendar drives: the required minimum distribution of an account *)
(* (analytics/rmd_calculator.py) and its place in the firm-wide ranking    *)
(* (firm_ranker.py), beside a loss to harvest before the year ends.  Days  *)
(* count from a first of January; leap years are left out.  Factors are    *)
(* thousandths, the ranks are in 100,000ths of a point.                    *)
(***************************************************************************)
EXTENDS Integers, SequencesExt

CONSTANTS
    FirstYear,          \* of the calendar
    Births,             \* years of birth of the owner
    Balances,           \* thousands of dollars at the end of the prior year
    Losses,             \* thousands of dollars that a harvest would save
    LastDay             \* bound

VARIABLES
    today,
    born, balance,      \* of the owner, of the account
    loss

vars == <<today, born, balance, loss>>

Year(d) == FirstYear + d \div 365
Day(year, n) == 365 * (year - FirstYear) + n
YearEnd(d) == Day(Year(d), 364)
Least(a, b) == IF a < b THEN a ELSE b

------------------------------------------------------------------------------
(* RMDCalculator.score; an account that is not reported has the severity "none" *)

Age(d) == Year(d) - born
\* tenths of a year, from 73 to 80 as in the table
DistributionPeriod(age) == <<265, 255, 246, 237, 229, 220, 211, 202>>[age - 72]
Required(d) == Age(d) >= 73
Approaching(d) == Age(d) \in 70..72
Amount(d) == IF Required(d) THEN (balance * 10) \div DistributionPeriod(Age(d)) ELSE 0

\* The first one may wait until April; but that is asked of today's year only.
Deadline(d) == IF Year(d) = born + 73 THEN Day(born + 74, 90) ELSE YearEnd(d)

Severity(d) ==
    LET left == Deadline(d) - d IN
    CASE Required(d) /\ Amount(d) > 0 /\ left <= 30 -> "action_needed"
      [] Required(d) /\ Amount(d) > 0 /\ left \in 31..90 -> "warning"
      [] Required(d) /\ Amount(d) > 0 /\ left > 90 -> "info"
      [] Approaching(d) -> "info"
      [] OTHER -> "none"

------------------------------------------------------------------------------
(* FirmWideOpportunityRanker.score *)

Confidence(severity) ==
    CASE severity = "action_needed" -> 950 [] severity = "warning" -> 750 [] OTHER -> 500

\* rmd_deadline: a cliff at thirty days, of a base that is already the highest
Cliff(left) == IF left <= 30 THEN 1000 ELSE 800
\* the other way round
TowardsYearEnd_Left(left) ==
    IF left <= 0 THEN 1000 ELSE 700 + (300 * left * left) \div (365 * 365)
\* tax_loss_harvest: from 0.7 to 1 with the square of the year that has passed
TowardsYearEnd(left) ==
    IF left <= 0 THEN 1000 ELSE 700 + (300 * (365 - left) * (365 - left)) \div (365 * 365)

RankScore(impact, severity, urgency) ==
    (Least(impact, 100) * Confidence(severity) * urgency) \div 1000

RmdRank(d) == RankScore(Amount(d), Severity(d), Cliff(Deadline(d) - d))
HarvestSeverity == CASE loss >= 10 -> "action_needed" [] loss \in 2..9 -> "warning" [] OTHER -> "info"
HarvestRank(d) == RankScore(loss, HarvestSeverity, TowardsYearEnd(YearEnd(d) - d))

------------------------------------------------------------------------------

Init == today = 0 /\ born \in Births /\ balance \in Balances /\ loss \in Losses

NextDay ==
    /\ today < LastDay
    /\ today' = today + 1
    /\ UNCHANGED <<born, balance, loss>>

Next == NextDay
Spec == Init /\ [][Next]_vars

------------------------------------------------------------------------------
(* Properties *)

\* Nothing that is left undone moves down the list of the firm: while the deadline
\* that is reported stays the same, no day lowers a rank.
Rises ==
    /\ Required(today) /\ Deadline(today') = Deadline(today) => RmdRank(today') >= RmdRank(today)
    /\ Year(today') = Year(today) => HarvestRank(today') >= HarvestRank(today)
UrgencyRises == [][Rises]_vars
==============================================================================
