------------------------------ MODULE Calculators ------------------------------
(***************************************************************************)
(* The calculators of the sidecar, side by side: position weights, the     *)
(* tax what-if engine, the loss harvesting scorer, the factor model, what  *)
(* a calendar drives, and the standing checks of a portfolio.  They share  *)
(* no state, so that a step is a step of one of them.  What keeps no state *)
(* at all - cutting up a document or a recording, embedding, answering a   *)
(* question - is asked for once: RagQuery and Transcript say what comes    *)
(* of it.                                                                  *)
(***************************************************************************)
EXTENDS Integers, Sequences, FiniteSets

CONSTANTS
    Asked,                                                              \* of RagQuery and Transcript
    Selections, MinWeight, MaxWeights,                                  \* of Weights
    Incomes, Amounts, MaxActions,                                       \* of TaxScenario
    Lots, Trades, Gains, Rates, MaxLots,                                \* of HarvestScores
    Universe, Industry, MarketSector, SubFactors, LowerIsBetter, Values, \* of FactorModel
    IndustryPeers, SectorPeers, MinSubFactors,
    FirstYear, Births, Balances, Losses, LastDay,                       \* of Alerts
    Position, SectorOf, Country, Class, Targets, Lot, Value               \* of Exposure

VARIABLES
    given,                                                              \* one of Asked, for good
    data, strategy, maxWeight, clamp, weights,                          \* of Weights
    filing, income, actions,                                            \* of TaxScenario
    trades, gains, rates, scanned, candidates,                          \* of HarvestScores
    raw, subWeights, scores,                                            \* of FactorModel
    today, born, balance, loss,                                         \* of Alerts
    target, exposure                                                    \* of Exposure

weightVars == <<data, strategy, maxWeight, clamp, weights>>
taxVars == <<filing, income, actions>>
harvestVars == <<trades, gains, rates, scanned, candidates>>
factorVars == <<raw, subWeights, scores>>
alertVars == <<today, born, balance, loss>>
exposureVars == <<target, exposure>>
calcVars == <<given, weightVars, taxVars, harvestVars, factorVars, alertVars, exposureVars>>

Query == INSTANCE RagQuery
Audio == INSTANCE Transcript
Weight == INSTANCE Weights
Tax == INSTANCE TaxScenario
Harvest == INSTANCE HarvestScores
Factor == INSTANCE FactorModel WITH weights <- subWeights, Tickers <- Universe, Sector <- MarketSector
Alert == INSTANCE Alerts
Exposed == INSTANCE Exposure WITH weights <- exposure, Sector <- SectorOf

\* The numbers from 1 to n in some order
AllOf(order, n) == order \in [1..n -> 1..n] /\ \A i \in 1..n : \E j \in 1..n : order[j] = i

\* A window is longer than its overlap; a batch is answered once for each of its texts;
\* what is said lies within the recording.
ASSUME AskedAssumption ==
    \A a \in Asked :
        /\ a.kind = "text" => a.n \in Nat /\ a.size \in Nat /\ a.overlap \in 0..a.size - 1
        /\ a.kind = "vectors" =>
            /\ a.texts \in Seq(Nat) /\ a.size \in Nat \ {0}
            /\ LET batches == Query!SplitBatches(a.texts, a.size) IN
               \A b \in DOMAIN batches : AllOf(a.orders[b], Len(batches[b].texts))
        /\ a.kind = "speech" =>
            /\ a.n \in Nat \ {0} /\ a.max \in Nat /\ a.overlap \in 0..a.max - 1
            /\ IsFiniteSet(a.speech) /\ a.speech \subseteq [from : 0..a.n, to : 0..a.n]
            /\ \A u \in a.speech : u.from < u.to /\ \A v \in a.speech \ {u} : u.to <= v.from \/ v.to <= u.from
            /\ \A k \in 1..a.n : a.answers[k] \in [split : BOOLEAN, dated : BOOLEAN, text : Nat]
        /\ a.kind = "question" =>
            /\ IsFiniteSet(a.chunks)
            /\ \A c \in a.chunks : c.near \in Int /\ c.recent \in Int /\ c.tokens \in Nat
            /\ a.q.found \in Nat /\ a.q.kept \in Nat /\ a.q.budget \in Nat

\* A bracket is a rate of 10 percent at least, and long-term gains are taxed at nothing
\* or at more than that (tax_scenario_engine.py); the table of distribution periods ends
\* with the age of 80; the cash is a class of assets and no position.
ASSUME CalculatorsAssumption ==
    /\ Incomes \subseteq [ordinary : Int, st : Int, lt : Int, deductions : Int, investment : Int]
    /\ Amounts \subseteq Nat
    /\ Lots \subseteq [ticker : {l.ticker : l \in Lots}, loss : Nat, days : Nat]
    /\ Rates \subseteq [bracket : 10..100, lt : {0} \cup 10..100] /\ Gains \subseteq Int
    /\ IsFiniteSet(Universe) /\ IsFiniteSet(SubFactors) /\ Values \subseteq Nat
    /\ FirstYear \in Int /\ LastDay \in Nat /\ Balances \subseteq Nat /\ Losses \subseteq Nat
    /\ Births \subseteq {b \in Int : FirstYear + LastDay \div 365 - b <= 80}
    /\ IsFiniteSet(Position) /\ "cash" \notin Position /\ Lot \in Nat \ {0} /\ Value \in Nat
    /\ \A t \in Targets :
        /\ IsFiniteSet(DOMAIN t) /\ t \in [DOMAIN t -> Int]
        /\ \A p \in Position \cup {"cash"} : Class[p] \in DOMAIN t

\* Weights are in ten-thousandths: there are no more positions than that, and no
\* volatility is above as many percent.
ASSUME WeightsAssumption ==
    /\ MinWeight \in Nat /\ MaxWeights \subseteq Nat
    /\ \A d \in Selections : d \in Seq([score : Nat, vol : 0..Weight!One]) /\ Len(d) \in 1..Weight!One

CalcInit == given \in Asked /\ Weight!Init /\ Tax!Init /\ Harvest!Init /\ Factor!Init /\ Alert!Init /\ Exposed!Init

WeightStep == Weight!Next /\ UNCHANGED <<taxVars, harvestVars, factorVars, alertVars, exposureVars>>
TaxStep == Tax!Next /\ UNCHANGED <<weightVars, harvestVars, factorVars, alertVars, exposureVars>>
HarvestStep == Harvest!Next /\ UNCHANGED <<weightVars, taxVars, factorVars, alertVars, exposureVars>>
FactorStep == Factor!Next /\ UNCHANGED <<weightVars, taxVars, harvestVars, alertVars, exposureVars>>
AlertStep == Alert!Next /\ UNCHANGED <<weightVars, taxVars, harvestVars, factorVars, exposureVars>>
ExposureStep == Exposed!Next /\ UNCHANGED <<weightVars, taxVars, harvestVars, factorVars, alertVars>>

CalcNext == UNCHANGED given /\ (WeightStep \/ TaxStep \/ HarvestStep \/ FactorStep \/ AlertStep \/ ExposureStep)

CalcSpec == CalcInit /\ [][CalcNext]_calcVars

------------------------------------------------------------------------------
(* The properties of the calculators *)

\* Cutting something up and joining the answers loses and swaps nothing: a passage of
\* up to the overlap and a token is found whole in some chunk of a document; in whatever
\* order a batch is answered, each text gets its own vector; an utterance no longer than
\* the overlap is in the transcript whole and once, if the chunks that it reaches into
\* were answered in utterances.
PiecesFaithful ==
    /\ given.kind = "text" => Query!PassageWhole(given.n, given.size, given.overlap)
    /\ given.kind = "vectors" => Query!EmbedAligned(given.texts, given.size, given.orders)
    /\ given.kind = "speech" => Audio!UtteranceWhole(given.n, given.max, given.overlap, given.speech, given.answers)
\* Citing: of the chunks of a source the answer was given, the best one is cited.
CitationIsBest == given.kind = "question" => Query!CitationIsBest(given.chunks, given.q)
\* The clamp invests the whole, and puts a lighter position above a heavier one only at
\* the maximum, for the sake of those that are raised to the minimum.
ClampSound == Weight!OrderKept /\ Weight!FullyInvested
\* "produces weights summing to 1.0 within bounds"
WithinBounds == Weight!WithinBounds
\* A dollar more or less never moves the tax by more than the dearest dollar.
NoCliff == [][Tax!Propose => Tax!Smooth]_taxVars
\* What a purchase blocks ranks below what can be harvested, and a security that is
\* worse in nothing does not score less.
RankingSound == Harvest!BlockedRankLast /\ Factor!Dominance
\* What is left undone moves up the list of the firm, and a trade for the better does
\* not raise a severity.
SeverityFollows ==
    /\ [][Alert!NextDay => Alert!Rises]_alertVars
    /\ [][Exposed!Eases]_exposureVars
==============================================================================
