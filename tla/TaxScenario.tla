------------------------------ MODULE TaxScenario ------------------------------
(***************************************************************************)
(* The what-if engine (analytics/tax_scenario_engine.py).  A scenario is a *)
(* list of proposed actions; each moves the components of the income, and  *)
(* the tax is computed from what they come to.  Amounts are dollars, rates *)
(* and taxes thousandths.                                                  *)
(***************************************************************************)
EXTENDS Integers, SequencesExt

CONSTANTS Incomes,          \* [ordinary, st, lt, deductions, investment]
          Amounts,
          MaxActions        \* bound: actions of a scenario

VARIABLES
    filing,                 \* the filing status
    income,                 \* adjusted by the actions so far
    actions                 \* number of them

vars == <<filing, income, actions>>

\* the last bracket has no limit
MfjBrackets == <<[limit |-> 23850, rate |-> 100], [limit |-> 96950, rate |-> 120],
                 [limit |-> 206700, rate |-> 220], [limit |-> 394600, rate |-> 240],
                 [limit |-> 501050, rate |-> 320], [limit |-> 751600, rate |-> 350],
                 [rate |-> 370]>>
SingleBrackets == <<[limit |-> 11925, rate |-> 100], [limit |-> 48475, rate |-> 120],
                    [limit |-> 103350, rate |-> 220], [limit |-> 197300, rate |-> 240],
                    [limit |-> 250525, rate |-> 320], [limit |-> 626350, rate |-> 350],
                    [rate |-> 370]>>
\* whatever the filing status
LtcgBrackets == <<[limit |-> 94050, rate |-> 0], [limit |-> 583750, rate |-> 150],
                  [rate |-> 200]>>
\* A status that BRACKET_TABLES does not list has the brackets of joint filers and the
\* threshold of all others.
Status == {"mfj", "single", "unlisted"}
Brackets(status) == IF status = "single" THEN SingleBrackets ELSE MfjBrackets
NiitThreshold(status) == IF status = "mfj" THEN 250000 ELSE 200000
NiitRate == 38

Least(a, b) == IF a < b THEN a ELSE b
Positive(x) == IF x > 0 THEN x ELSE 0
Size(x) == IF x < 0 THEN -x ELSE x

\* The part of from..to that lies in the i-th bracket.
Slice(brackets, i, from, to) ==
    LET low == IF i = 1 THEN 0 ELSE brackets[i - 1].limit
        high == IF i = Len(brackets) THEN to ELSE Least(to, brackets[i].limit)
    IN Positive(high - (IF from > low THEN from ELSE low))
TaxOf(brackets, from, to) ==
    FoldFunction(+, 0, [i \in DOMAIN brackets |-> brackets[i].rate * Slice(brackets, i, from, to)])

MarginalRate(taxable, brackets) ==
    brackets[CHOOSE i \in DOMAIN brackets :
                 /\ i < Len(brackets) => taxable <= brackets[i].limit
                 /\ i > 1 => taxable > brackets[i - 1].limit].rate

\* the whole income at its last rate
ApplyBrackets_Whole(taxable, brackets) == taxable * MarginalRate(taxable, brackets)
ApplyBrackets(taxable, brackets) == TaxOf(brackets, 0, taxable)

\* Long-term gains stack on the ordinary income.
ComputeLtcgTax(gains, ordinary) == TaxOf(LtcgBrackets, ordinary, ordinary + gains)

ComputeTax(status, x) ==
    LET total == x.ordinary + Positive(x.st)
        taxable == Positive(total - x.deductions)
        agi == total + Positive(x.lt)
        niit == NiitRate * Least(Positive(x.investment), Positive(agi - NiitThreshold(status)))
    IN ApplyBrackets(taxable, Brackets(status)) + ComputeLtcgTax(Positive(x.lt), taxable) + niit
Tax == ComputeTax(filing, income)

------------------------------------------------------------------------------
(* The actions of a scenario (score) *)

Init == filing \in Status /\ income \in Incomes /\ actions = 0

Propose ==
    /\ actions < MaxActions
    /\ actions' = actions + 1
    /\ UNCHANGED filing

RothConversion ==
    /\ Propose
    /\ \E x \in Amounts : income' = [income EXCEPT !.ordinary = @ + x]

\* Short-term gains first, then long-term, then up to 3,000 of ordinary income, of
\* each harvest anew; what remains is lost to this scenario.
HarvestLoss ==
    /\ Propose
    /\ \E x \in Amounts :
        LET st == Least(x, Positive(income.st))
            lt == Least(x - st, Positive(income.lt))
        IN income' = [income EXCEPT !.st = @ - st, !.lt = @ - lt,
                                    !.ordinary = @ - Least(x - st - lt, 3000),
                                    !.investment = @ - st - lt]

\* at most 60 % of the adjusted gross income, of each gift anew
CharitableGift ==
    /\ Propose
    /\ \E x \in Amounts :
        LET agi == income.ordinary + income.st + income.lt
        IN income' = [income EXCEPT !.deductions = @ + Least(x, (agi * 3) \div 5)]

RealizeGain ==
    /\ Propose
    /\ \E x \in Amounts :
        \/ income' = [income EXCEPT !.st = @ + x, !.investment = @ + x]
        \/ income' = [income EXCEPT !.lt = @ + x, !.investment = @ + x]

Next == RothConversion \/ HarvestLoss \/ CharitableGift \/ RealizeGain
Spec == Init /\ [][Next]_vars

------------------------------------------------------------------------------
(* Properties *)

\* The dearest dollar: taxed at 37 %, it moves a dollar of gains from 0 to 15 % and
\* another into the 3.8 % of the investment income tax.
Dearest == 370 + 150 + 38

\* No action of a scenario meets a cliff: across every limit, of the brackets, of the
\* gains stacked on them and of the investment income tax, the tax moves the way of
\* the income, and by no more than the dearest dollar for each dollar that moved.
Smooth ==
    LET moved == Size(income'.ordinary - income.ordinary) + Size(income'.st - income.st)
                 + Size(income'.lt - income.lt) + Size(income'.deductions - income.deductions)
        change == Tax' - Tax
    IN /\ Size(change) <= Dearest * moved
       /\ HarvestLoss => change <= 0
       /\ RothConversion \/ RealizeGain => change >= 0
NoCliff == [][Smooth]_vars
==============================================================================
