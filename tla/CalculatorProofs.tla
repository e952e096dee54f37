--------------------------- MODULE CalculatorProofs ---------------------------
(***************************************************************************)
(* Theorems about the calculators of the sidecar, for any inputs: alerts,  *)
(* the checks of a portfolio, the tax what-if engine, the ranking of       *)
(* harvests and the factor model.                                          *)
(***************************************************************************)
EXTENDS Calculators, FoldProofs

LEMMA Cardinalities ==
  \A S : /\ Exposed!Cardinality(S) = Cardinality(S) /\ Factor!Cardinality(S) = Cardinality(S)
         /\ Harvest!Cardinality(S) = Cardinality(S)
  BY DEF Exposed!Cardinality, Factor!Cardinality, Harvest!Cardinality, Cardinality

LEMMA SumsTaken ==
  ASSUME NEW u, NEW S
  PROVE  /\ Harvest!SumFunction(u) = SumOf(u, DOMAIN u)
         /\ Factor!SumFunction(u) = SumOf(u, DOMAIN u) /\ Factor!SumFunctionOnSet(u, S) = SumOf(u, S)
         /\ Exposed!SumFunction(u) = SumOf(u, DOMAIN u) /\ Exposed!SumFunctionOnSet(u, S) = SumOf(u, S)
         /\ Tax!FoldFunction(+, 0, u) = SumOf(u, DOMAIN u)
  <1>2. Harvest!SumFunction(u) = SumOf(u, DOMAIN u)
    BY DEF Harvest!SumFunction, Harvest!SumFunctionOnSet, Harvest!FoldFunctionOnSet, Harvest!MapThenFoldSet, SumOf, SumFold
  <1>3. Factor!SumFunction(u) = SumOf(u, DOMAIN u) /\ Factor!SumFunctionOnSet(u, S) = SumOf(u, S)
    BY DEF Factor!SumFunction, Factor!SumFunctionOnSet, Factor!FoldFunctionOnSet, Factor!MapThenFoldSet, SumOf, SumFold
  <1>4. Exposed!SumFunction(u) = SumOf(u, DOMAIN u) /\ Exposed!SumFunctionOnSet(u, S) = SumOf(u, S)
    BY DEF Exposed!SumFunction, Exposed!SumFunctionOnSet, Exposed!FoldFunctionOnSet, Exposed!MapThenFoldSet, SumOf, SumFold
  <1>5. Tax!FoldFunction(+, 0, u) = SumOf(u, DOMAIN u)
    BY DEF Tax!FoldFunction, Tax!FoldFunctionOnSet, Tax!MapThenFoldSet, SumOf, SumFold
  <1> QED BY <1>2, <1>3, <1>4, <1>5

------------------------------------------------------------------------------
(* Alerts *)

LEMMA QuotientGrows ==
  ASSUME NEW a \in Int, NEW b \in Int, a <= b
  PROVE  /\ a \div 1000 \in Int /\ b \div 1000 \in Int /\ a \div 1000 <= b \div 1000
         /\ a \div 133225 \in Int /\ b \div 133225 \in Int /\ a \div 133225 <= b \div 133225
  OBVIOUS

LEMMA RankIsInt ==
  ASSUME NEW impact \in Nat, NEW s, NEW u \in Nat
  PROVE  Alert!RankScore(impact, s, u) \in Int
  <1> DEFINE i == Alert!Least(impact, 100)
             a == Alert!Confidence(s)
  <1>1. i \in Nat /\ a \in Nat
    BY DEF Alert!Least, Alert!Confidence
  <1> HIDE DEF i, a
  <1>2. i * a \in Nat
    BY <1>1
  <1>3. (i * a) * u \in Nat
    BY <1>2, ProductGrows
  <1>4. ((i * a) * u) \div 1000 \in Int
    BY <1>3
  <1> QED BY <1>4 DEF Alert!RankScore, i, a

\* A rank grows with the confidence and the urgency.
LEMMA RankGrows ==
  ASSUME NEW impact \in Nat, NEW s, NEW t, NEW u \in Nat, NEW v \in Nat, u <= v,
         Alert!Confidence(s) <= Alert!Confidence(t)
  PROVE  Alert!RankScore(impact, s, u) <= Alert!RankScore(impact, t, v)
  <1> DEFINE i == Alert!Least(impact, 100)
             a == Alert!Confidence(s)
             b == Alert!Confidence(t)
  <1>1. i \in Nat /\ a \in Nat /\ b \in Nat /\ a <= b
    BY DEF Alert!Least, Alert!Confidence
  <1> HIDE DEF i, a, b
  <1>2. i * a \in Nat /\ i * b \in Nat /\ i * a <= i * b
    BY <1>1, ProductGrows
  <1>3. (i * a) * u \in Nat /\ (i * a) * v \in Nat /\ (i * a) * u <= (i * a) * v
    BY <1>2, ProductGrows
  <1>4. v * (i * a) \in Nat /\ v * (i * b) \in Nat /\ v * (i * a) <= v * (i * b)
    BY <1>2, ProductGrows
  <1>5. (i * a) * v = v * (i * a) /\ (i * b) * v = v * (i * b)
    BY <1>2
  <1> DEFINE x == (i * a) * u
             y == (i * b) * v
  <1>6. x \in Int /\ y \in Int /\ x <= y
    BY <1>3, <1>4, <1>5
  <1> HIDE DEF x, y
  <1>7. x \div 1000 <= y \div 1000
    BY <1>6, QuotientGrows
  <1> QED BY <1>7 DEF Alert!RankScore, x, y, i, a, b

LEMMA YearEndNears ==
  ASSUME NEW n \in 1..364
  PROVE  /\ Alert!TowardsYearEnd(n) \in Nat /\ Alert!TowardsYearEnd(n - 1) \in Nat
         /\ Alert!TowardsYearEnd(n) <= Alert!TowardsYearEnd(n - 1)
  <1> DEFINE a == 365 - n
             x == 300 * a * a
             y == 300 * (a + 1) * (a + 1)
  <1>1. a \in 1..364
    OBVIOUS
  <1> HIDE DEF a
  <1>2. a * a \in Nat /\ a * (a + 1) \in Nat /\ (a + 1) * (a + 1) \in Nat
        /\ a * a <= a * (a + 1) /\ (a + 1) * a <= (a + 1) * (a + 1) /\ a * (a + 1) = (a + 1) * a
    BY <1>1, ProductGrows
  <1>3. a * a <= (a + 1) * (a + 1)
    BY <1>2
  <1>3a. (a + 1) * (a + 1) <= 133225
    <2> DEFINE b == a + 1
    <2>1. b \in Nat /\ b <= 365
      BY <1>1
    <2> HIDE DEF b
    <2>2. b * b <= b * 365
      BY <2>1, ProductGrows
    <2> QED BY <2>1, <2>2 DEF b
  <1>4. x = 300 * (a * a) /\ y = 300 * ((a + 1) * (a + 1))
    BY <1>1
  <1>5. x \in Nat /\ y \in Nat /\ x <= y /\ y <= 300 * 133225
    BY <1>2, <1>3, <1>3a, <1>4
  <1> HIDE DEF x, y
  <1>6. x \div 133225 \in Nat /\ y \div 133225 \in Nat /\ x \div 133225 <= y \div 133225 /\ y \div 133225 <= 300
    BY <1>5
  <1>7. Alert!TowardsYearEnd(n) = 700 + x \div 133225
    BY DEF Alert!TowardsYearEnd, x, a
  <1>8. Alert!TowardsYearEnd(n - 1) = IF n - 1 <= 0 THEN 1000 ELSE 700 + y \div 133225
    <2>1. 365 - (n - 1) = a + 1
      BY DEF a
    <2> QED BY <2>1 DEF Alert!TowardsYearEnd, y
  <1> QED BY <1>6, <1>7, <1>8

AlertType == today \in 0..LastDay /\ born \in Births /\ balance \in Balances /\ loss \in Losses

LEMMA RisesDaily ==
  ASSUME AlertType, Alert!NextDay
  PROVE  Alert!Rises
  <1> DEFINE q == today \div 365
             r == (today + 1) \div 365
  <1>1. /\ today \in Nat /\ today' = today + 1 /\ born' = born /\ balance' = balance /\ loss' = loss
        /\ today + 1 <= LastDay /\ LastDay \in Nat /\ FirstYear \in Int /\ born \in Int
        /\ loss \in Nat /\ balance \in Nat
    BY CalculatorsAssumption DEF CalculatorsAssumption, AlertType, Alert!NextDay
  <1>2. q \in Nat /\ 365 * q <= today /\ today <= 365 * q + 364
    BY <1>1
  <1>3. r \in Nat /\ 365 * r <= today + 1 /\ today + 1 <= 365 * r + 364
    BY <1>1
  <1>4. FirstYear + q - born <= 80 /\ FirstYear + r - born <= 80
    <2>1. q <= LastDay \div 365 /\ r <= LastDay \div 365 /\ LastDay \div 365 \in Int
      BY <1>1
    <2>2. FirstYear + LastDay \div 365 - born <= 80
      BY CalculatorsAssumption DEF CalculatorsAssumption, AlertType
    <2> HIDE DEF q, r
    <2> QED BY <1>1, <1>2, <1>3, <2>1, <2>2
  <1>5. Alert!Year(today) = FirstYear + q /\ Alert!Year(today') = FirstYear + r
    BY <1>1 DEF Alert!Year
  <1> HIDE DEF q, r
  <1>6. Alert!YearEnd(today) = 365 * q + 364 /\ Alert!YearEnd(today') = 365 * r + 364
    BY <1>1, <1>2, <1>3, <1>5 DEF Alert!YearEnd, Alert!Day
  <1>7. ASSUME Alert!Year(today') = Alert!Year(today)
        PROVE  q = r
    <2>1. FirstYear + q = FirstYear + r
      BY <1>5, <1>7
    <2> QED BY <1>1, <1>2, <1>3, <2>1
  <1>8. ASSUME Alert!Year(today') = Alert!Year(today)
        PROVE  Alert!HarvestRank(today') >= Alert!HarvestRank(today)
    <2> DEFINE n == 365 * q + 364 - today
    <2>1. n \in 1..364
      BY <1>1, <1>2, <1>3, <1>7, <1>8
    <2>2. Alert!YearEnd(today) - today = n /\ Alert!YearEnd(today') - today' = n - 1
      BY <1>1, <1>2, <1>6, <1>7, <1>8
    <2> HIDE DEF n
    <2> DEFINE u == Alert!TowardsYearEnd(n)
               v == Alert!TowardsYearEnd(n - 1)
               s == Alert!HarvestSeverity
    <2>3. u \in Nat /\ v \in Nat /\ u <= v
      BY <2>1, YearEndNears
    <2>4. Alert!Confidence(s) <= Alert!Confidence(s)
      BY DEF Alert!Confidence
    <2>5. Alert!HarvestRank(today) = Alert!RankScore(loss, s, u)
      BY <2>2 DEF Alert!HarvestRank
    <2>6. Alert!HarvestRank(today') = Alert!RankScore(loss, s, v)
      BY <2>2 DEF Alert!HarvestRank
    <2> HIDE DEF u, v, s
    <2>7. Alert!RankScore(loss, s, u) <= Alert!RankScore(loss, s, v)
      BY <1>1, <2>3, <2>4, RankGrows
    <2>8. Alert!RankScore(loss, s, u) \in Int /\ Alert!RankScore(loss, s, v) \in Int
      BY <1>1, <2>3, RankIsInt
    <2> QED BY <2>5, <2>6, <2>7, <2>8
  <1>9. ASSUME Alert!Required(today), Alert!Deadline(today') = Alert!Deadline(today)
        PROVE  Alert!RmdRank(today') >= Alert!RmdRank(today)
    <2>1. q = r
      <3>1. Alert!Deadline(today) = IF FirstYear + q = born + 73 THEN 365 * (born + 74 - FirstYear) + 90 ELSE 365 * q + 364
        BY <1>1, <1>2, <1>3, <1>5, <1>6 DEF Alert!Deadline, Alert!Day
      <3>2. Alert!Deadline(today') = IF FirstYear + r = born + 73 THEN 365 * (born + 74 - FirstYear) + 90 ELSE 365 * r + 364
        BY <1>1, <1>2, <1>3, <1>5, <1>6 DEF Alert!Deadline, Alert!Day
      <3>3. r = q \/ r = q + 1
        BY <1>1, <1>2, <1>3
      <3> QED BY <1>1, <1>2, <1>3, <1>9, <3>1, <3>2, <3>3
    <2>2. Alert!Year(today') = Alert!Year(today)
      BY <1>5, <2>1
    <2> DEFINE age == Alert!Age(today)
               m == Alert!Deadline(today) - today
               n == Alert!Deadline(today') - today'
               i == Alert!Amount(today)
               s == Alert!Severity(today)
               t == Alert!Severity(today')
    <2>3. age \in 73..80 /\ Alert!Age(today') = age
      BY <1>1, <1>2, <1>4, <1>5, <1>9, <2>2 DEF Alert!Age, Alert!Required
    <2>4. n = m - 1 /\ m \in Int
      <3>1. Alert!Deadline(today) \in Int
        BY <1>1, <1>2, <1>5, <1>6 DEF Alert!Deadline, Alert!Day
      <3> QED BY <1>1, <1>9, <3>1
    <2>5. i \in Nat /\ Alert!Amount(today') = i
      <3>1. Alert!DistributionPeriod(age) \in 202..265
        BY <2>3 DEF Alert!DistributionPeriod
      <3>2. (balance * 10) \div Alert!DistributionPeriod(age) \in Nat
        <4> DEFINE p == Alert!DistributionPeriod(age)
        <4>1. p \in Nat \ {0} /\ balance * 10 \in Nat
          BY <1>1, <3>1
        <4> QED BY <4>1, QuotientIsNat
      <3> QED BY <2>3, <3>2 DEF Alert!Amount, Alert!Required
    <2>6. Alert!Required(today') /\ ~Alert!Approaching(today) /\ ~Alert!Approaching(today')
      BY <1>9, <2>3 DEF Alert!Required, Alert!Approaching
    <2>7. Alert!Confidence(s) <= Alert!Confidence(t)
      <3> HIDE DEF age, m, n, i
      <3>1. s = CASE i > 0 /\ m <= 30 -> "action_needed" [] i > 0 /\ m \in 31..90 -> "warning"
                  [] i > 0 /\ m > 90 -> "info" [] OTHER -> "none"
        BY <1>9, <2>5, <2>6 DEF Alert!Severity, m, i
      <3>2. t = CASE i > 0 /\ n <= 30 -> "action_needed" [] i > 0 /\ n \in 31..90 -> "warning"
                  [] i > 0 /\ n > 90 -> "info" [] OTHER -> "none"
        BY <2>5, <2>6 DEF Alert!Severity, n, i
      <3> HIDE DEF s, t
      <3>3. /\ Alert!Confidence("action_needed") = 950 /\ Alert!Confidence("warning") = 750
            /\ Alert!Confidence("info") = 500 /\ Alert!Confidence("none") = 500
        BY DEF Alert!Confidence
      <3>4. CASE i = 0
        <4>1. s = "none" /\ t = "none"
          BY <3>1, <3>2, <3>4
        <4> QED BY <3>3, <4>1
      <3>5. CASE i > 0
        <4>1. s = IF m <= 30 THEN "action_needed" ELSE IF m <= 90 THEN "warning" ELSE "info"
          BY <2>4, <3>1, <3>5
        <4>2. t = IF n <= 30 THEN "action_needed" ELSE IF n <= 90 THEN "warning" ELSE "info"
          BY <2>4, <3>2, <3>5
        <4>3. Alert!Confidence(s) = IF m <= 30 THEN 950 ELSE IF m <= 90 THEN 750 ELSE 500
          BY <3>3, <4>1
        <4>4. Alert!Confidence(t) = IF n <= 30 THEN 950 ELSE IF n <= 90 THEN 750 ELSE 500
          BY <3>3, <4>2
        <4> QED BY <2>4, <4>3, <4>4
      <3> QED BY <2>5, <3>4, <3>5
    <2>8. Alert!Cliff(m) \in Nat /\ Alert!Cliff(n) \in Nat /\ Alert!Cliff(m) <= Alert!Cliff(n)
      <3> HIDE DEF m, n
      <3> QED BY <2>4 DEF Alert!Cliff
    <2>9. Alert!RmdRank(today) = Alert!RankScore(i, s, Alert!Cliff(m))
      BY DEF Alert!RmdRank
    <2>10. Alert!RmdRank(today') = Alert!RankScore(i, t, Alert!Cliff(n))
      BY <2>5 DEF Alert!RmdRank
    <2> HIDE DEF age, m, n, i, s, t
    <2>11. Alert!RankScore(i, s, Alert!Cliff(m)) <= Alert!RankScore(i, t, Alert!Cliff(n))
      BY <2>5, <2>7, <2>8, RankGrows
    <2>12. Alert!RankScore(i, s, Alert!Cliff(m)) \in Int /\ Alert!RankScore(i, t, Alert!Cliff(n)) \in Int
      BY <2>5, <2>8, RankIsInt
    <2> QED BY <2>9, <2>10, <2>11, <2>12
  <1> QED BY <1>8, <1>9 DEF Alert!Rises

------------------------------------------------------------------------------
(* Exposure *)

Held == Position \cup {"cash"}
ExposureType == target \in Targets /\ exposure \in [Held -> Int]

LEMMA HeldFinite == IsFiniteSet(Held)
  <1>1. IsFiniteSet(Position)
    BY CalculatorsAssumption DEF CalculatorsAssumption
  <1> QED BY <1>1, FS_AddElement DEF Held

LEMMA MoveShifts ==
  ASSUME ExposureType, NEW p \in Held, NEW q \in Held, Exposed!Move(p, q)
  PROVE  /\ exposure' \in [Held -> Int] /\ target' = target /\ p # q
         /\ exposure'[p] = exposure[p] - Lot /\ exposure'[q] = exposure[q] + Lot
         /\ \A r \in Held \ {p, q} : exposure'[r] = exposure[r]
         /\ Lot \in Nat \ {0}
  BY CalculatorsAssumption DEF CalculatorsAssumption, ExposureType, Exposed!Move

\* What a trade does to the sum of a group: it changes by what enters and what leaves.
LEMMA GroupShifts ==
  ASSUME ExposureType, NEW p \in Held, NEW q \in Held, Exposed!Move(p, q), NEW S \in SUBSET Held
  PROVE  /\ Exposed!Sum(S) \in Int /\ Exposed!Sum(S)' \in Int
         /\ (p \in S <=> q \in S) => Exposed!Sum(S)' = Exposed!Sum(S)
         /\ p \in S /\ q \notin S => Exposed!Sum(S)' = Exposed!Sum(S) - Lot
         /\ p \notin S /\ q \in S => Exposed!Sum(S)' = Exposed!Sum(S) + Lot
  <1>1. Exposed!Sum(S) = SumOf(exposure, S) /\ Exposed!Sum(S)' = SumOf(exposure', S)
    BY SumsTaken DEF Exposed!Sum
  <1>2. IsFiniteSet(S) /\ Integral(exposure, S) /\ Integral(exposure', S)
    BY HeldFinite, FS_Subset, MoveShifts DEF Integral, ExposureType
  <1>3. SumOf(exposure, S) \in Int /\ SumOf(exposure', S) \in Int
    BY <1>2, SumInt
  <1>4. /\ exposure[p] \in Int /\ exposure[q] \in Int /\ Lot \in Nat /\ p # q
        /\ exposure'[p] = exposure[p] - Lot /\ exposure'[q] = exposure[q] + Lot
        /\ \A r \in S \ {p, q} : exposure'[r] = exposure[r]
    BY MoveShifts DEF ExposureType
  <1>5. CASE p \in S /\ q \in S
    <2>1. SumOf(exposure', S) = SumOf(exposure, S) - exposure[p] - exposure[q] + exposure'[p] + exposure'[q]
      BY <1>2, <1>4, <1>5, SumMoves
    <2> QED BY <1>1, <1>3, <1>4, <1>5, <2>1
  <1>6. CASE p \in S /\ q \notin S
    <2>1. SumOf(exposure', S) = SumOf(exposure, S) - exposure[p] + exposure'[p]
      BY <1>2, <1>4, <1>6, SumMovesOne
    <2> QED BY <1>1, <1>3, <1>4, <1>6, <2>1
  <1>7. CASE p \notin S /\ q \in S
    <2>1. SumOf(exposure', S) = SumOf(exposure, S) - exposure[q] + exposure'[q]
      BY <1>2, <1>4, <1>7, SumMovesOne
    <2> QED BY <1>1, <1>3, <1>4, <1>7, <2>1
  <1>8. CASE p \notin S /\ q \notin S
    <2>1. SumOf(exposure, S) = SumOf(exposure', S)
      BY <1>2, <1>4, <1>8, SumSame
    <2> QED BY <1>1, <1>3, <1>8, <2>1
  <1> QED BY <1>5, <1>6, <1>7, <1>8

LEMMA CashEases ==
  ASSUME ExposureType, NEW q \in Held, Exposed!Move("cash", q)
  PROVE  Exposed!CashSeverity' <= Exposed!CashSeverity
  <1> DEFINE e == Exposed!Excess
             f == Exposed!Excess'
  <1>1. e \in Int /\ f \in Int /\ f <= e
    BY MoveShifts DEF Exposed!Excess, Held, ExposureType
  <1>2. Value \in Nat
    BY CalculatorsAssumption DEF CalculatorsAssumption
  <1>3. Exposed!CashSeverity = CASE e < 5 \/ e * Value < 500 -> 0
                                 [] e \in 5..14 /\ e * Value >= 500 -> 1
                                 [] OTHER -> 2
    BY DEF Exposed!CashSeverity
  <1>4. Exposed!CashSeverity' = CASE f < 5 \/ f * Value < 500 -> 0
                                  [] f \in 5..14 /\ f * Value >= 500 -> 1
                                  [] OTHER -> 2
    BY DEF Exposed!CashSeverity
  <1> HIDE DEF e, f
  <1>5. CASE f < 5
    <2>1. Exposed!CashSeverity' = 0
      BY <1>1, <1>4, <1>5
    <2>2. Exposed!CashSeverity \in 0..2
      BY <1>3
    <2> QED BY <2>1, <2>2
  <1>6. CASE f >= 5
    <2> DEFINE x == e * Value
               y == f * Value
    <2>1. x \in Int /\ y \in Int /\ y <= x
      <3>1. f \in Nat /\ e \in Nat
        BY <1>1, <1>6
      <3>2. Value * f <= Value * e
        BY <1>1, <1>2, <3>1, ProductGrows
      <3> QED BY <1>1, <1>2, <3>2
    <2>2. /\ Exposed!CashSeverity = IF x < 500 THEN 0 ELSE IF e <= 14 THEN 1 ELSE 2
          /\ Exposed!CashSeverity' = IF y < 500 THEN 0 ELSE IF f <= 14 THEN 1 ELSE 2
      <3> HIDE DEF x, y
      <3>1. Exposed!CashSeverity = CASE e < 5 \/ x < 500 -> 0 [] e \in 5..14 /\ x >= 500 -> 1 [] OTHER -> 2
        BY <1>3 DEF x
      <3>2. Exposed!CashSeverity' = CASE f < 5 \/ y < 500 -> 0 [] f \in 5..14 /\ y >= 500 -> 1 [] OTHER -> 2
        BY <1>4 DEF y
      <3> QED BY <1>1, <1>6, <2>1, <3>1, <3>2
    <2> HIDE DEF x, y
    <2> QED BY <1>1, <1>6, <2>1, <2>2
  <1> QED BY <1>1, <1>5, <1>6

InClass(c) == {r \in Held : Class[r] = c}

LEMMA DriftsEase ==
  ASSUME ExposureType, NEW p \in Held, NEW q \in Held, Exposed!Move(p, q), Class[p] # Class[q],
         Exposed!Sum(InClass(Class[p])) - target[Class[p]] >= Lot,
         target[Class[q]] - Exposed!Sum(InClass(Class[q])) >= Lot,
         NEW c \in DOMAIN target
  PROVE  Exposed!Drift(c) \in Nat /\ Exposed!Drift(c)' \in Nat /\ Exposed!Drift(c)' <= Exposed!Drift(c)
  <1> DEFINE S == InClass(c)
             d == Exposed!Sum(S) - target[c]
             e == Exposed!Sum(S)' - target[c]
  <1>1. target[c] \in Int /\ target' = target /\ Lot \in Nat
    BY CalculatorsAssumption, MoveShifts DEF CalculatorsAssumption, ExposureType
  <1>2. DOMAIN exposure = Held /\ (DOMAIN exposure)' = Held
    BY MoveShifts DEF ExposureType
  <1>3. Exposed!Drift(c) = IF d < 0 THEN -d ELSE d
    BY <1>2 DEF Exposed!Drift, InClass
  <1>4. Exposed!Drift(c)' = IF e < 0 THEN -e ELSE e
    BY <1>1, <1>2 DEF Exposed!Drift, InClass
  <1>5. S \in SUBSET Held /\ (p \in S <=> c = Class[p]) /\ (q \in S <=> c = Class[q])
    BY DEF InClass
  <1>6. /\ Exposed!Sum(S) \in Int /\ Exposed!Sum(S)' \in Int
        /\ (p \in S <=> q \in S) => Exposed!Sum(S)' = Exposed!Sum(S)
        /\ p \in S /\ q \notin S => Exposed!Sum(S)' = Exposed!Sum(S) - Lot
        /\ p \notin S /\ q \in S => Exposed!Sum(S)' = Exposed!Sum(S) + Lot
    <2> HIDE DEF S
    <2> QED BY <1>5, GroupShifts
  <1>7. d \in Int /\ e \in Int
    BY <1>1, <1>6
  <1>8. CASE c = Class[p]
    <2>1. d >= Lot /\ e = d - Lot
      BY <1>1, <1>5, <1>6, <1>8
    <2> HIDE DEF d, e
    <2> QED BY <1>1, <1>3, <1>4, <1>7, <2>1
  <1>9. CASE c = Class[q]
    <2>1. -d >= Lot /\ e = d + Lot
      BY <1>1, <1>5, <1>6, <1>9
    <2> HIDE DEF d, e
    <2> QED BY <1>1, <1>3, <1>4, <1>7, <2>1
  <1>10. CASE c # Class[p] /\ c # Class[q]
    <2>1. e = d
      BY <1>5, <1>6, <1>10
    <2> HIDE DEF d, e
    <2> QED BY <1>3, <1>4, <1>7, <2>1
  <1> QED BY <1>8, <1>9, <1>10

LEMMA MostOf ==
  ASSUME NEW S \in SUBSET (0..2), S # {}
  PROVE  Exposed!Max(S) \in S /\ \A x \in S : x <= Exposed!Max(S)
  <1>1. \E x \in S : \A y \in S : x >= y
    <2>1. CASE 2 \in S
      BY <2>1
    <2>2. CASE 2 \notin S /\ 1 \in S
      BY <2>2
    <2>3. CASE 2 \notin S /\ 1 \notin S
      <3>1. \A y \in S : y = 0
        <4>1. \A y \in 0..2 : y = 0 \/ y = 1 \/ y = 2
          OBVIOUS
        <4> QED BY <2>3, <4>1
      <3>2. 0 \in S
        BY <3>1
      <3> QED BY <3>1, <3>2
    <2> QED BY <2>1, <2>2, <2>3
  <1> DEFINE m == CHOOSE x \in S : \A y \in S : x >= y
  <1>2. m \in S /\ \A y \in S : m >= y
    BY <1>1
  <1>3. Exposed!Max(S) = m
    BY DEF Exposed!Max
  <1> HIDE DEF m
  <1> QED BY <1>2, <1>3

LEMMA DriftEases ==
  ASSUME ExposureType, NEW p \in Held, NEW q \in Held, Exposed!Move(p, q), Class[p] # Class[q],
         Exposed!Sum({r \in DOMAIN exposure : Class[r] = Class[p]}) - target[Class[p]] >= Lot,
         target[Class[q]] - Exposed!Sum({r \in DOMAIN exposure : Class[r] = Class[q]}) >= Lot
  PROVE  /\ Exposed!DriftSeverity' <= Exposed!DriftSeverity
         /\ Exposed!Breaching' <= Exposed!Breaching
         /\ Exposed!SquareDrift' <= Exposed!SquareDrift
  <1> DEFINE T == DOMAIN target
             before(c) == Exposed!PositionSeverity(c)
             after(c) == Exposed!PositionSeverity(c)'
  <1>0. target' = target /\ IsFiniteSet(T) /\ Class[p] \in T
    BY CalculatorsAssumption, MoveShifts DEF CalculatorsAssumption, ExposureType, Held
  <1>1. ASSUME NEW c \in T
        PROVE  Exposed!Drift(c) \in Nat /\ Exposed!Drift(c)' \in Nat /\ Exposed!Drift(c)' <= Exposed!Drift(c)
    <2>1. DOMAIN exposure = Held
      BY DEF ExposureType
    <2> QED BY <2>1, DriftsEase DEF InClass
  <1>2. ASSUME NEW c \in T PROVE before(c) \in 0..2 /\ after(c) \in 0..2 /\ after(c) <= before(c)
    <2>1. before(c) = CASE Exposed!Drift(c) >= 10 -> 2 [] Exposed!Drift(c) \in 5..9 -> 1 [] OTHER -> 0
      BY DEF Exposed!PositionSeverity
    <2>2. after(c) = CASE Exposed!Drift(c)' >= 10 -> 2 [] Exposed!Drift(c)' \in 5..9 -> 1 [] OTHER -> 0
      BY DEF Exposed!PositionSeverity
    <2> HIDE DEF before, after
    <2> QED BY <1>1, <2>1, <2>2
  <1>3. Exposed!DriftSeverity' <= Exposed!DriftSeverity
    <2> DEFINE A == {before(c) : c \in T}
               B == {after(c) : c \in T}
    <2>1. Exposed!DriftSeverity = Exposed!Max(A) /\ Exposed!DriftSeverity' = Exposed!Max(B)
      BY <1>0 DEF Exposed!DriftSeverity
    <2>2. A \in SUBSET (0..2) /\ A # {} /\ B \in SUBSET (0..2) /\ B # {}
      BY <1>0, <1>2
    <2>3. \A y \in B : \E x \in A : y <= x
      BY <1>2
    <2> HIDE DEF A, B
    <2>4. /\ Exposed!Max(A) \in A /\ \A x \in A : x <= Exposed!Max(A)
          /\ Exposed!Max(B) \in B
      BY <2>2, MostOf
    <2>5. Exposed!Max(A) \in 0..2 /\ Exposed!Max(B) \in 0..2 /\ A \subseteq 0..2
      BY <2>2, <2>4
    <2> QED BY <2>1, <2>3, <2>4, <2>5
  <1>4. Exposed!Breaching' <= Exposed!Breaching
    <2> DEFINE A == {c \in T : before(c) # 0}
               B == {c \in T : after(c) # 0}
    <2>1. Exposed!Breaching = Cardinality(A) /\ Exposed!Breaching' = Cardinality(B)
      <3>1. Exposed!Breaching = Exposed!Cardinality(A)
        BY DEF Exposed!Breaching
      <3>2. Exposed!Breaching' = Exposed!Cardinality(B)
        BY <1>0 DEF Exposed!Breaching
      <3> QED BY <3>1, <3>2, Cardinalities
    <2>2. A \in SUBSET T
      OBVIOUS
    <2>3. B \in SUBSET A
      <3>1. \A c \in T : after(c) # 0 => before(c) # 0
        BY <1>2
      <3> QED BY <3>1
    <2> HIDE DEF A, B, T
    <2>4. IsFiniteSet(A) /\ Cardinality(B) <= Cardinality(A)
      BY <1>0, <2>2, <2>3, FS_Subset
    <2> QED BY <2>1, <2>4
  <1>5. Exposed!SquareDrift' <= Exposed!SquareDrift
    <2> DEFINE u == [c \in T |-> Exposed!Square(Exposed!Drift(c))]
               v == [c \in T |-> Exposed!Square(Exposed!Drift(c)')]
    <2>1. Exposed!SquareDrift = SumOf(u, T) /\ Exposed!SquareDrift' = SumOf(v, T)
      <3>1. Exposed!SquareDrift = Exposed!SumFunction(u) /\ Exposed!SquareDrift' = Exposed!SumFunction(v)
        BY <1>0 DEF Exposed!SquareDrift, Exposed!Square
      <3>2. DOMAIN u = T /\ DOMAIN v = T
        OBVIOUS
      <3> HIDE DEF u, v
      <3> QED BY <3>1, <3>2, SumsTaken
    <2>2. \A c \in T : u[c] \in Int /\ v[c] \in Int /\ v[c] <= u[c]
      <3> SUFFICES ASSUME NEW c \in T PROVE u[c] \in Int /\ v[c] \in Int /\ v[c] <= u[c]
        OBVIOUS
      <3> DEFINE d == Exposed!Drift(c)
                 e == Exposed!Drift(c)'
      <3>1. u[c] = d * d /\ v[c] = e * e
        BY DEF Exposed!Square
      <3>2. d \in Nat /\ e \in Nat /\ e <= d
        BY <1>1
      <3> HIDE DEF d, e, u, v
      <3>3. e * e <= e * d /\ d * e <= d * d /\ e * d = d * e /\ e * e \in Nat /\ d * d \in Nat /\ e * d \in Nat
        BY <3>2, ProductGrows
      <3> QED BY <3>1, <3>3
    <2> HIDE DEF u, v, T
    <2>3. SumOf(v, T) <= SumOf(u, T)
      BY <1>0, <2>2, SumGrows DEF Integral
    <2> QED BY <2>1, <2>3
  <1> QED BY <1>3, <1>4, <1>5

\* How far the worst flag is over its limit, and that there is one: by what the flags are made of.
LEMMA FlagsAre ==
  ASSUME ExposureType, NEW f
  PROVE  f \in Exposed!Flags <=>
            \/ \E r \in Position : exposure[r] > 10 /\ f = <<"single_stock", r, exposure[r] - 10>>
            \/ \E g \in Exposed!Groups(SectorOf) : Exposed!Sum(g) > 30 /\ f = <<"sector", g, Exposed!Sum(g) - 30>>
            \/ \E g \in Exposed!Groups(Country) : Exposed!Sum(g) > 50 /\ f = <<"geography", g, Exposed!Sum(g) - 50>>
  BY DEF Exposed!Flags

LEMMA FlagsFall ==
  ASSUME ExposureType, NEW p \in Position, NEW q \in Position, Exposed!Move(p, q),
         SectorOf[p] = SectorOf[q], Country[p] = Country[q], exposure[p] >= exposure[q] + Lot
  PROVE  /\ \A f \in Exposed!Flags : f[3] \in Int
         /\ \A f \in Exposed!Flags' : f[3] \in Int /\ \E g \in Exposed!Flags : f[3] <= g[3]
  <1>1. /\ p \in Held /\ q \in Held /\ p # q /\ Lot \in Nat
        /\ \A r \in Position : exposure[r] \in Int /\ exposure'[r] \in Int
        /\ exposure'[p] = exposure[p] - Lot /\ exposure'[q] = exposure[q] + Lot
        /\ \A r \in Position \ {p, q} : exposure'[r] = exposure[r]
    BY MoveShifts DEF ExposureType, Held
  <1>2. ASSUME NEW of, of[p] = of[q], NEW g \in Exposed!Groups(of)
        PROVE  /\ Exposed!Sum(g) \in Int
               /\ Exposed!Sum(g)' = Exposed!Sum(g)
    <2>1. g \in SUBSET Held /\ (p \in g <=> q \in g)
      BY <1>2 DEF Exposed!Groups, Held
    <2> QED BY <1>1, <2>1, GroupShifts
  <1>3. ASSUME NEW f \in Exposed!Flags PROVE f[3] \in Int
    <2>1. ASSUME NEW r \in Position, f = <<"single_stock", r, exposure[r] - 10>> PROVE f[3] \in Int
      BY <1>1, <2>1
    <2>2. ASSUME NEW g \in Exposed!Groups(SectorOf), f = <<"sector", g, Exposed!Sum(g) - 30>> PROVE f[3] \in Int
      BY <1>2, <2>2
    <2>3. ASSUME NEW g \in Exposed!Groups(Country), f = <<"geography", g, Exposed!Sum(g) - 50>> PROVE f[3] \in Int
      BY <1>2, <2>3
    <2> QED BY <2>1, <2>2, <2>3, FlagsAre
  <1>4. ASSUME NEW f \in Exposed!Flags' PROVE f[3] \in Int /\ \E g \in Exposed!Flags : f[3] <= g[3]
    <2>1. \/ \E r \in Position : exposure'[r] > 10 /\ f = <<"single_stock", r, exposure'[r] - 10>>
          \/ \E g \in Exposed!Groups(SectorOf) : Exposed!Sum(g)' > 30 /\ f = <<"sector", g, Exposed!Sum(g)' - 30>>
          \/ \E g \in Exposed!Groups(Country) : Exposed!Sum(g)' > 50 /\ f = <<"geography", g, Exposed!Sum(g)' - 50>>
      BY DEF Exposed!Flags, Exposed!Groups
    <2>2. ASSUME NEW r \in Position, exposure'[r] > 10, f = <<"single_stock", r, exposure'[r] - 10>>
          PROVE  f[3] \in Int /\ \E g \in Exposed!Flags : f[3] <= g[3]
      <3>1. PICK s \in Position : exposure[s] >= exposure'[r]
        <4>1. CASE r = q
          BY <1>1, <4>1
        <4>2. CASE r # q
          BY <1>1, <4>2
        <4> QED BY <4>1, <4>2
      <3> DEFINE g == <<"single_stock", s, exposure[s] - 10>>
      <3>2. exposure[s] > 10
        BY <1>1, <2>2, <3>1
      <3>3. g \in Exposed!Flags
        BY <3>2, FlagsAre
      <3>4. g[3] = exposure[s] - 10 /\ f[3] = exposure'[r] - 10
        BY <2>2
      <3> HIDE DEF g
      <3> QED BY <1>1, <3>1, <3>3, <3>4
    <2>3. ASSUME NEW g \in Exposed!Groups(SectorOf), Exposed!Sum(g)' > 30, f = <<"sector", g, Exposed!Sum(g)' - 30>>
          PROVE  f \in Exposed!Flags
      <3>1. Exposed!Sum(g) > 30 /\ f = <<"sector", g, Exposed!Sum(g) - 30>>
        BY <1>2, <2>3
      <3> QED BY <3>1, FlagsAre
    <2>4. ASSUME NEW g \in Exposed!Groups(Country), Exposed!Sum(g)' > 50, f = <<"geography", g, Exposed!Sum(g)' - 50>>
          PROVE  f \in Exposed!Flags
      <3>1. Exposed!Sum(g) > 50 /\ f = <<"geography", g, Exposed!Sum(g) - 50>>
        BY <1>2, <2>4
      <3> QED BY <3>1, FlagsAre
    <2>5. f \in Exposed!Flags => f[3] \in Int /\ f[3] <= f[3]
      BY <1>3
    <2> QED BY <2>1, <2>2, <2>3, <2>4, <2>5
  <1> QED BY <1>3, <1>4

LEMMA HhiFalls ==
  ASSUME ExposureType, NEW p \in Position, NEW q \in Position, Exposed!Move(p, q),
         exposure[p] >= exposure[q] + Lot
  PROVE  Exposed!Hhi \in Int /\ Exposed!Hhi' \in Int /\ Exposed!Hhi' <= Exposed!Hhi
  <1> DEFINE u == [r \in Position |-> exposure[r] * exposure[r]]
             v == [r \in Position |-> exposure'[r] * exposure'[r]]
             a == exposure[p]
             b == exposure[q]
  <1>1. /\ p \in Held /\ q \in Held /\ p # q /\ Lot \in Nat /\ IsFiniteSet(Position)
        /\ \A r \in Position : exposure[r] \in Int /\ exposure'[r] \in Int
        /\ exposure'[p] = a - Lot /\ exposure'[q] = b + Lot
        /\ \A r \in Position \ {p, q} : exposure'[r] = exposure[r]
    <2>1. p \in Held /\ q \in Held
      BY DEF Held
    <2> QED BY <2>1, MoveShifts, CalculatorsAssumption DEF CalculatorsAssumption, ExposureType, Held
  <1>2. Exposed!Hhi = SumOf(u, Position) /\ Exposed!Hhi' = SumOf(v, Position)
    <2>1. Exposed!Hhi = Exposed!SumFunction(u) /\ Exposed!Hhi' = Exposed!SumFunction(v)
      BY DEF Exposed!Hhi, Exposed!Square
    <2>2. DOMAIN u = Position /\ DOMAIN v = Position
      OBVIOUS
    <2> HIDE DEF u, v
    <2> QED BY <2>1, <2>2, SumsTaken
  <1>3. Integral(u, Position) /\ Integral(v, Position)
    <2>1. \A x \in Int : x * x \in Int
      OBVIOUS
    <2> QED BY <1>1, <2>1 DEF Integral
  <1>4. /\ \A r \in Position \ {p, q} : v[r] = u[r]
        /\ u[p] = a * a /\ u[q] = b * b /\ v[p] = (a - Lot) * (a - Lot) /\ v[q] = (b + Lot) * (b + Lot)
    BY <1>1
  <1>5. a \in Int /\ b \in Int /\ a - b - Lot \in Nat
    BY <1>1
  <1> HIDE DEF u, v, a, b
  <1>6. SumOf(v, Position) = SumOf(u, Position) - u[p] - u[q] + v[p] + v[q]
    BY <1>1, <1>3, <1>4, SumMoves
  <1>7. u[p] + u[q] - v[p] - v[q] = 2 * (Lot * (a - b - Lot))
    BY <1>1, <1>4, <1>5
  <1>8. Lot * (a - b - Lot) \in Nat
    BY <1>1, <1>5, ProductGrows
  <1>9. /\ SumOf(u, Position) \in Int /\ SumOf(v, Position) \in Int
        /\ u[p] \in Int /\ u[q] \in Int /\ v[p] \in Int /\ v[q] \in Int
    BY <1>1, <1>3, SumInt DEF Integral
  <1> QED BY <1>2, <1>6, <1>7, <1>8, <1>9

LEMMA ConcentrationEases ==
  ASSUME ExposureType, NEW p \in Position, NEW q \in Position, Exposed!Move(p, q),
         SectorOf[p] = SectorOf[q], Country[p] = Country[q], exposure[p] >= exposure[q] + Lot
  PROVE  Exposed!ConcentrationSeverity' <= Exposed!ConcentrationSeverity
  <1> DEFINE F == Exposed!Flags
             G == Exposed!Flags'
             h == Exposed!Hhi
             k == Exposed!Hhi'
  <1>1. h \in Int /\ k \in Int /\ k <= h
    BY HhiFalls
  <1>2. /\ \A f \in F : f[3] \in Int
        /\ \A f \in G : f[3] \in Int /\ \E g \in F : f[3] <= g[3]
    BY FlagsFall
  <1>3. /\ Exposed!ConcentrationSeverity = CASE h > 1800 \/ (\E f \in F : f[3] > 15) -> 2
                [] h <= 1800 /\ (\A f \in F : f[3] <= 15) /\ (h > 1000 \/ F # {}) -> 1
                [] OTHER -> 0
        /\ Exposed!ConcentrationSeverity' = CASE k > 1800 \/ (\E f \in G : f[3] > 15) -> 2
                [] k <= 1800 /\ (\A f \in G : f[3] <= 15) /\ (k > 1000 \/ G # {}) -> 1
                [] OTHER -> 0
    BY DEF Exposed!ConcentrationSeverity
  <1> DEFINE high == h > 1800 \/ \E f \in F : f[3] > 15
             highAfter == k > 1800 \/ \E f \in G : f[3] > 15
             some == h > 1000 \/ F # {}
             someAfter == k > 1000 \/ G # {}
  <1> HIDE DEF F, G, h, k
  <1>4. /\ h <= 1800 /\ (\A f \in F : f[3] <= 15) <=> ~high
        /\ k <= 1800 /\ (\A f \in G : f[3] <= 15) <=> ~highAfter
    BY <1>1, <1>2
  <1>5. Exposed!ConcentrationSeverity = IF high THEN 2 ELSE IF some THEN 1 ELSE 0
    BY <1>3, <1>4
  <1>6. Exposed!ConcentrationSeverity' = IF highAfter THEN 2 ELSE IF someAfter THEN 1 ELSE 0
    BY <1>3, <1>4
  <1>7. highAfter => high
    BY <1>1, <1>2
  <1>8. someAfter => some
    BY <1>1, <1>2
  <1> HIDE DEF high, highAfter, some, someAfter
  <1>9. CASE highAfter
    BY <1>5, <1>6, <1>7, <1>9
  <1>10. CASE ~highAfter
    BY <1>5, <1>6, <1>8, <1>10
  <1> QED BY <1>9, <1>10

LEMMA TradeEases == ASSUME ExposureType PROVE Exposed!Eases
  <1> SUFFICES ASSUME NEW p \in Held, NEW q \in Held, Exposed!Move(p, q)
               PROVE  /\ /\ "cash" \notin {p, q}
                         /\ SectorOf[p] = SectorOf[q] /\ Country[p] = Country[q]
                         /\ exposure[p] >= exposure[q] + Lot
                         => Exposed!ConcentrationSeverity' <= Exposed!ConcentrationSeverity
                      /\ /\ Class[p] # Class[q]
                         /\ Exposed!Sum({r \in DOMAIN exposure : Class[r] = Class[p]}) - target[Class[p]] >= Lot
                         /\ target[Class[q]] - Exposed!Sum({r \in DOMAIN exposure : Class[r] = Class[q]}) >= Lot
                         => /\ Exposed!DriftSeverity' <= Exposed!DriftSeverity
                            /\ Exposed!Breaching' <= Exposed!Breaching
                            /\ Exposed!SquareDrift' <= Exposed!SquareDrift
                      /\ p = "cash" => Exposed!CashSeverity' <= Exposed!CashSeverity
    <2>1. DOMAIN exposure = Held
      BY DEF ExposureType
    <2> QED BY <2>1 DEF Exposed!Eases
  <1>1. "cash" \notin {p, q} => p \in Position /\ q \in Position
    BY DEF Held
  <1> QED BY <1>1, ConcentrationEases, DriftEases, CashEases

------------------------------------------------------------------------------
(* Taxes: every tax is a sum of ramps, which start at a limit and rise by a dollar a dollar. *)

Ramp(t, c) == IF t > c THEN t - c ELSE 0

\* What comes to a ramp from t to u.
LEMMA RampRises ==
  ASSUME NEW t \in Nat, NEW u \in Nat, t <= u, NEW c \in Nat
  PROVE  /\ Ramp(t, c) \in Nat /\ Ramp(u, c) \in Nat /\ Ramp(t, c) <= Ramp(u, c)
         /\ Ramp(u, c) - Ramp(t, c) <= u - t
         /\ \A e \in Nat : c <= e => Ramp(u, e) - Ramp(t, e) <= Ramp(u, c) - Ramp(t, c)
         /\ \A g \in Nat : Ramp(u, c) - Ramp(t, c) <= Ramp(u + g, c) - Ramp(t + g, c)
  BY DEF Ramp

\* The part of from..to between two limits.
Part(low, high, from, to) == Ramp(to, low) - Ramp(to, high) - Ramp(from, low) + Ramp(from, high)

LEMMA SumUpTo ==
  ASSUME NEW n \in Nat, NEW u, Integral(u, 1..n + 1)
  PROVE  Integral(u, 1..n) /\ SumOf(u, 1..n + 1) = u[n + 1] + SumOf(u, 1..n)
  <1>1. IsFiniteSet(1..n + 1) /\ n + 1 \in 1..n + 1 /\ 1..n = (1..n + 1) \ {n + 1}
    <2>1. IsFiniteSet(1..n + 1)
      BY FS_Interval
    <2> QED BY <2>1
  <1> QED BY <1>1, SumTakes

LEMMA SumOfThree ==
  ASSUME NEW u, Integral(u, 1..3) PROVE SumOf(u, 1..3) = u[1] + u[2] + u[3]
  <1>1. Integral(u, 1..2) /\ SumOf(u, 1..3) = u[3] + SumOf(u, 1..2)
    BY SumUpTo, 2 + 1 = 3
  <1>2. Integral(u, 1..1) /\ SumOf(u, 1..2) = u[2] + SumOf(u, 1..1)
    BY <1>1, SumUpTo, 1 + 1 = 2
  <1>3. SumOf(u, 1..1) = u[1] + SumOf(u, 1..0)
    BY <1>2, SumUpTo, 0 + 1 = 1
  <1>4. SumOf(u, 1..0) = 0
    <2>1. 1..0 = {}
      OBVIOUS
    <2> QED BY <2>1, SumEmpty
  <1>5. u[1] \in Int /\ u[2] \in Int /\ u[3] \in Int
    BY DEF Integral
  <1> QED BY <1>1, <1>2, <1>3, <1>4, <1>5

LEMMA SumOfSeven ==
  ASSUME NEW u, Integral(u, 1..7)
  PROVE  SumOf(u, 1..7) = u[1] + u[2] + u[3] + u[4] + u[5] + u[6] + u[7]
  <1>1. Integral(u, 1..6) /\ SumOf(u, 1..7) = u[7] + SumOf(u, 1..6)
    BY SumUpTo, 6 + 1 = 7
  <1>2. Integral(u, 1..5) /\ SumOf(u, 1..6) = u[6] + SumOf(u, 1..5)
    BY <1>1, SumUpTo, 5 + 1 = 6
  <1>3. Integral(u, 1..4) /\ SumOf(u, 1..5) = u[5] + SumOf(u, 1..4)
    BY <1>2, SumUpTo, 4 + 1 = 5
  <1>4. Integral(u, 1..3) /\ SumOf(u, 1..4) = u[4] + SumOf(u, 1..3)
    BY <1>3, SumUpTo, 3 + 1 = 4
  <1>5. SumOf(u, 1..3) = u[1] + u[2] + u[3]
    BY <1>4, SumOfThree
  <1>6. \A i \in 1..7 : u[i] \in Int
    BY DEF Integral
  <1>7. u[1] \in Int /\ u[2] \in Int /\ u[3] \in Int /\ u[4] \in Int /\ u[5] \in Int /\ u[6] \in Int /\ u[7] \in Int
    BY <1>6
  <1> QED BY <1>1, <1>2, <1>3, <1>4, <1>5, <1>7

\* The tax on long-term gains of g above an income of t.
GainTax(t) == 150 * Ramp(t, 94050) + 50 * Ramp(t, 583750)

LEMMA TaxOfIs ==
  ASSUME NEW b, NEW from, NEW to
  PROVE  Tax!TaxOf(b, from, to) = SumOf([i \in DOMAIN b |-> b[i].rate * Tax!Slice(b, i, from, to)], DOMAIN b)
  <1> DEFINE u == [i \in DOMAIN b |-> b[i].rate * Tax!Slice(b, i, from, to)]
  <1>1. Tax!TaxOf(b, from, to) = Tax!FoldFunction(+, 0, u) /\ DOMAIN u = DOMAIN b
    BY DEF Tax!TaxOf
  <1> HIDE DEF u
  <1>2. Tax!TaxOf(b, from, to) = SumOf(u, DOMAIN b)
    <2>1. Tax!FoldFunction(+, 0, u) = SumOf(u, DOMAIN u)
      BY SumsTaken
    <2> QED BY <1>1, <2>1
  <1> QED BY <1>2 DEF u

LEMMA LtcgTaxIs ==
  ASSUME NEW t \in Nat, NEW g \in Nat
  PROVE  Tax!ComputeLtcgTax(g, t) = GainTax(t + g) - GainTax(t)
  <1> DEFINE b == Tax!LtcgBrackets
             s == t + g
             u == [i \in DOMAIN b |-> b[i].rate * Tax!Slice(b, i, t, s)]
  <1>1. /\ DOMAIN b = 1..3 /\ Len(b) = 3
        /\ b[1].limit = 94050 /\ b[2].limit = 583750
        /\ b[1].rate = 0 /\ b[2].rate = 150 /\ b[3].rate = 200
    BY DEF Tax!LtcgBrackets
  <1>2. s \in Nat /\ t <= s
    OBVIOUS
  <1>3. Tax!ComputeLtcgTax(g, t) = SumOf(u, DOMAIN b)
    BY TaxOfIs DEF Tax!ComputeLtcgTax
  <1>4. u = [i \in DOMAIN b |-> b[i].rate * Tax!Slice(b, i, t, s)]
    OBVIOUS
  <1> HIDE DEF b, s, u
  <1> DEFINE r(c) == Ramp(s, c) - Ramp(t, c)
  <1>5. /\ r(94050) \in Int /\ r(583750) \in Int
        /\ GainTax(s) - GainTax(t) = 150 * r(94050) + 50 * r(583750)
    BY <1>2 DEF Ramp, GainTax
  <1>6. /\ Tax!Slice(b, 1, t, s) = s - t - r(94050)
        /\ Tax!Slice(b, 2, t, s) = r(94050) - r(583750)
        /\ Tax!Slice(b, 3, t, s) = r(583750)
    <2>1. /\ Tax!Slice(b, 1, t, s) = Tax!Positive(Tax!Least(s, 94050) - (IF t > 0 THEN t ELSE 0))
          /\ Tax!Slice(b, 2, t, s) = Tax!Positive(Tax!Least(s, 583750) - (IF t > 94050 THEN t ELSE 94050))
          /\ Tax!Slice(b, 3, t, s) = Tax!Positive(s - (IF t > 583750 THEN t ELSE 583750))
      BY <1>1 DEF Tax!Slice
    <2>2. /\ Tax!Positive(Tax!Least(s, 94050) - (IF t > 0 THEN t ELSE 0)) = s - t - Ramp(s, 94050) + Ramp(t, 94050)
          /\ Tax!Positive(Tax!Least(s, 583750) - (IF t > 94050 THEN t ELSE 94050)) = Part(94050, 583750, t, s)
          /\ Tax!Positive(s - (IF t > 583750 THEN t ELSE 583750)) = Ramp(s, 583750) - Ramp(t, 583750)
      BY <1>2 DEF Tax!Positive, Tax!Least, Ramp, Part
    <2>3. Ramp(s, 94050) \in Int /\ Ramp(t, 94050) \in Int /\ Ramp(s, 583750) \in Int /\ Ramp(t, 583750) \in Int
      BY <1>2 DEF Ramp
    <2>4. Part(94050, 583750, t, s) = r(94050) - r(583750)
      BY <2>3 DEF Part
    <2> QED BY <1>2, <2>1, <2>2, <2>3, <2>4
  <1>7. u[1] = 0 /\ u[2] = 150 * (r(94050) - r(583750)) /\ u[3] = 200 * r(583750)
    <2>1. u[1] = 0 * Tax!Slice(b, 1, t, s) /\ u[2] = 150 * Tax!Slice(b, 2, t, s) /\ u[3] = 200 * Tax!Slice(b, 3, t, s)
      BY <1>1, <1>4
    <2> HIDE DEF r
    <2> QED BY <1>2, <1>5, <1>6, <2>1
  <1> HIDE DEF r
  <1>8. Integral(u, 1..3)
    <2>1. u[1] \in Int /\ u[2] \in Int /\ u[3] \in Int
      BY <1>5, <1>7
    <2>2. \A i \in 1..3 : i = 1 \/ i = 2 \/ i = 3
      OBVIOUS
    <2> QED BY <2>1, <2>2 DEF Integral
  <1>9. SumOf(u, 1..3) = u[1] + u[2] + u[3]
    BY <1>8, SumOfThree
  <1>10. SumOf(u, 1..3) = GainTax(s) - GainTax(t)
    BY <1>5, <1>7, <1>9
  <1> QED BY <1>1, <1>3, <1>10 DEF s

\* The tax on an ordinary income of t; the two tables differ in the limits alone.
BandTax(t, l1, l2, l3, l4, l5, l6) ==
    100 * t + 20 * Ramp(t, l1) + 100 * Ramp(t, l2) + 20 * Ramp(t, l3)
    + 80 * Ramp(t, l4) + 30 * Ramp(t, l5) + 20 * Ramp(t, l6)

LEMMA BandTaxIs ==
  ASSUME NEW t \in Nat, NEW b, DOMAIN b = 1..7, Len(b) = 7,
         b[1].limit \in Nat, b[2].limit \in Nat, b[3].limit \in Nat,
         b[4].limit \in Nat, b[5].limit \in Nat, b[6].limit \in Nat,
         b[1].limit <= b[2].limit, b[2].limit <= b[3].limit, b[3].limit <= b[4].limit,
         b[4].limit <= b[5].limit, b[5].limit <= b[6].limit,
         b[1].rate = 100, b[2].rate = 120, b[3].rate = 220, b[4].rate = 240, b[5].rate = 320,
         b[6].rate = 350, b[7].rate = 370
  PROVE  Tax!ApplyBrackets(t, b) = BandTax(t, b[1].limit, b[2].limit, b[3].limit, b[4].limit, b[5].limit, b[6].limit)
  <1> DEFINE l1 == b[1].limit
             l2 == b[2].limit
             l3 == b[3].limit
             l4 == b[4].limit
             l5 == b[5].limit
             l6 == b[6].limit
             u == [i \in DOMAIN b |-> b[i].rate * Tax!Slice(b, i, 0, t)]
             r1 == Ramp(t, l1)
             r2 == Ramp(t, l2)
             r3 == Ramp(t, l3)
             r4 == Ramp(t, l4)
             r5 == Ramp(t, l5)
             r6 == Ramp(t, l6)
  <1>1. Tax!ApplyBrackets(t, b) = SumOf(u, 1..7)
    BY TaxOfIs DEF Tax!ApplyBrackets
  <1>2. /\ u[1] = 100 * Tax!Slice(b, 1, 0, t) /\ u[2] = 120 * Tax!Slice(b, 2, 0, t)
        /\ u[3] = 220 * Tax!Slice(b, 3, 0, t) /\ u[4] = 240 * Tax!Slice(b, 4, 0, t)
        /\ u[5] = 320 * Tax!Slice(b, 5, 0, t) /\ u[6] = 350 * Tax!Slice(b, 6, 0, t)
        /\ u[7] = 370 * Tax!Slice(b, 7, 0, t)
    OBVIOUS
  <1> HIDE DEF u
  <1> DEFINE cut(low, high) == Tax!Positive(Tax!Least(t, high) - (IF 0 > low THEN 0 ELSE low))
  <1>3. /\ Tax!Slice(b, 1, 0, t) = cut(0, l1) /\ Tax!Slice(b, 2, 0, t) = cut(l1, l2)
        /\ Tax!Slice(b, 3, 0, t) = cut(l2, l3) /\ Tax!Slice(b, 4, 0, t) = cut(l3, l4)
        /\ Tax!Slice(b, 5, 0, t) = cut(l4, l5) /\ Tax!Slice(b, 6, 0, t) = cut(l5, l6)
        /\ Tax!Slice(b, 7, 0, t) = Tax!Positive(t - (IF 0 > l6 THEN 0 ELSE l6))
    BY DEF Tax!Slice
  <1>3a. /\ l1 \in Nat /\ l2 \in Nat /\ l3 \in Nat /\ l4 \in Nat /\ l5 \in Nat /\ l6 \in Nat
         /\ l1 <= l2 /\ l2 <= l3 /\ l3 <= l4 /\ l4 <= l5 /\ l5 <= l6
    OBVIOUS
  <1> HIDE DEF l1, l2, l3, l4, l5, l6
  <1>4. \A low, high \in Nat : low <= high => cut(low, high) = Ramp(t, low) - Ramp(t, high)
    BY DEF Tax!Positive, Tax!Least, Ramp
  <1>5. Tax!Positive(t - (IF 0 > l6 THEN 0 ELSE l6)) = r6 /\ Ramp(t, 0) = t
    BY <1>3a DEF Tax!Positive, Ramp
  <1> HIDE DEF cut
  <1>6. /\ cut(0, l1) = t - r1 /\ cut(l1, l2) = r1 - r2 /\ cut(l2, l3) = r2 - r3
        /\ cut(l3, l4) = r3 - r4 /\ cut(l4, l5) = r4 - r5 /\ cut(l5, l6) = r5 - r6
    BY <1>3a, <1>4, <1>5
  <1>7. r1 \in Int /\ r2 \in Int /\ r3 \in Int /\ r4 \in Int /\ r5 \in Int /\ r6 \in Int
    BY <1>3a DEF Ramp
  <1>8. BandTax(t, l1, l2, l3, l4, l5, l6) = 100 * t + 20 * r1 + 100 * r2 + 20 * r3 + 80 * r4 + 30 * r5 + 20 * r6
    BY DEF BandTax
  <1> HIDE DEF r1, r2, r3, r4, r5, r6
  <1>9. /\ u[1] = 100 * (t - r1) /\ u[2] = 120 * (r1 - r2) /\ u[3] = 220 * (r2 - r3)
        /\ u[4] = 240 * (r3 - r4) /\ u[5] = 320 * (r4 - r5) /\ u[6] = 350 * (r5 - r6) /\ u[7] = 370 * r6
    BY <1>2, <1>3, <1>5, <1>6
  <1>10. Integral(u, 1..7)
    <2>1. u[1] \in Int /\ u[2] \in Int /\ u[3] \in Int /\ u[4] \in Int /\ u[5] \in Int /\ u[6] \in Int /\ u[7] \in Int
      BY <1>7, <1>9
    <2>2. \A i \in 1..7 : i = 1 \/ i = 2 \/ i = 3 \/ i = 4 \/ i = 5 \/ i = 6 \/ i = 7
      OBVIOUS
    <2> QED BY <2>1, <2>2 DEF Integral
  <1>11. SumOf(u, 1..7) = u[1] + u[2] + u[3] + u[4] + u[5] + u[6] + u[7]
    BY <1>10, SumOfSeven
  <1>12. Tax!ApplyBrackets(t, b) = BandTax(t, l1, l2, l3, l4, l5, l6)
    BY <1>1, <1>7, <1>8, <1>9, <1>11
  <1> QED BY <1>12 DEF l1, l2, l3, l4, l5, l6

\* The tax on the ordinary income of a filing status.
OrdinaryTax(status, t) == Tax!ApplyBrackets(t, Tax!Brackets(status))

LEMMA JointUnlessSingle ==
  ASSUME NEW status \in Tax!Status, status # "single", NEW t
  PROVE  OrdinaryTax(status, t) = OrdinaryTax("mfj", t)
  BY DEF OrdinaryTax, Tax!Brackets

LEMMA OrdinaryTaxIs ==
  ASSUME NEW t \in Nat
  PROVE  /\ OrdinaryTax("mfj", t) = BandTax(t, 23850, 96950, 206700, 394600, 501050, 751600)
         /\ OrdinaryTax("single", t) = BandTax(t, 11925, 48475, 103350, 197300, 250525, 626350)
  <1>1. OrdinaryTax("mfj", t) = BandTax(t, 23850, 96950, 206700, 394600, 501050, 751600)
    <2> DEFINE b == Tax!MfjBrackets
    <2>1. /\ DOMAIN b = 1..7 /\ Len(b) = 7
          /\ b[1].rate = 100 /\ b[2].rate = 120 /\ b[3].rate = 220 /\ b[4].rate = 240 /\ b[5].rate = 320
          /\ b[6].rate = 350 /\ b[7].rate = 370
      BY DEF Tax!MfjBrackets
    <2>2. /\ b[1].limit = 23850 /\ b[2].limit = 96950 /\ b[3].limit = 206700 /\ b[4].limit = 394600
          /\ b[5].limit = 501050 /\ b[6].limit = 751600
      BY DEF Tax!MfjBrackets
    <2>3. Tax!Brackets("mfj") = b
      BY DEF Tax!Brackets
    <2> HIDE DEF b
    <2>4. /\ b[1].limit \in Nat /\ b[2].limit \in Nat /\ b[3].limit \in Nat
          /\ b[4].limit \in Nat /\ b[5].limit \in Nat /\ b[6].limit \in Nat
          /\ b[1].limit <= b[2].limit /\ b[2].limit <= b[3].limit /\ b[3].limit <= b[4].limit
          /\ b[4].limit <= b[5].limit /\ b[5].limit <= b[6].limit
      BY <2>2
    <2>5. Tax!ApplyBrackets(t, b) = BandTax(t, b[1].limit, b[2].limit, b[3].limit, b[4].limit, b[5].limit, b[6].limit)
      BY <2>1, <2>4, BandTaxIs
    <2> QED BY <2>2, <2>3, <2>5 DEF OrdinaryTax
  <1>2. OrdinaryTax("single", t) = BandTax(t, 11925, 48475, 103350, 197300, 250525, 626350)
    <2> DEFINE b == Tax!SingleBrackets
    <2>1. /\ DOMAIN b = 1..7 /\ Len(b) = 7
          /\ b[1].rate = 100 /\ b[2].rate = 120 /\ b[3].rate = 220 /\ b[4].rate = 240 /\ b[5].rate = 320
          /\ b[6].rate = 350 /\ b[7].rate = 370
      BY DEF Tax!SingleBrackets
    <2>2. /\ b[1].limit = 11925 /\ b[2].limit = 48475 /\ b[3].limit = 103350 /\ b[4].limit = 197300
          /\ b[5].limit = 250525 /\ b[6].limit = 626350
      BY DEF Tax!SingleBrackets
    <2>3. Tax!Brackets("single") = b
      BY DEF Tax!Brackets
    <2> HIDE DEF b
    <2>4. /\ b[1].limit \in Nat /\ b[2].limit \in Nat /\ b[3].limit \in Nat
          /\ b[4].limit \in Nat /\ b[5].limit \in Nat /\ b[6].limit \in Nat
          /\ b[1].limit <= b[2].limit /\ b[2].limit <= b[3].limit /\ b[3].limit <= b[4].limit
          /\ b[4].limit <= b[5].limit /\ b[5].limit <= b[6].limit
      BY <2>2
    <2>5. Tax!ApplyBrackets(t, b) = BandTax(t, b[1].limit, b[2].limit, b[3].limit, b[4].limit, b[5].limit, b[6].limit)
      BY <2>1, <2>4, BandTaxIs
    <2> QED BY <2>2, <2>3, <2>5 DEF OrdinaryTax
  <1> QED BY <1>1, <1>2

LEMMA GainTaxRises ==
  ASSUME NEW t \in Nat, NEW u \in Nat, t <= u
  PROVE  /\ GainTax(t) \in Nat /\ GainTax(u) \in Nat
         /\ GainTax(t) <= GainTax(u) /\ GainTax(u) - GainTax(t) <= 200 * (u - t)
         /\ \A g \in Nat : GainTax(u) - GainTax(t) <= GainTax(u + g) - GainTax(t + g)
  BY DEF GainTax, Ramp

\* What comes to the tax from t to u, less what gains that are pushed up add.
LEMMA OrdinaryTaxRises ==
  ASSUME NEW t \in Nat, NEW u \in Nat, t <= u, NEW status \in Tax!Status
  PROVE  /\ OrdinaryTax(status, t) \in Nat /\ OrdinaryTax(status, u) \in Nat
         /\ OrdinaryTax(status, t) <= OrdinaryTax(status, u)
         /\ OrdinaryTax(status, u) - OrdinaryTax(status, t) <= 370 * (u - t)
         /\ OrdinaryTax(status, u) - OrdinaryTax(status, t) - (GainTax(u) - GainTax(t)) <= 220 * (u - t)
  <1> DEFINE d(c) == Ramp(u, c) - Ramp(t, c)
             m == u - t
  <1>1. ASSUME NEW c \in Nat
        PROVE  Ramp(u, c) \in Nat /\ Ramp(t, c) \in Nat /\ d(c) \in Nat /\ d(c) <= m
    BY DEF Ramp
  <1>2. \A c, e \in Nat : c <= e => d(e) <= d(c)
    BY DEF Ramp
  <1>3. m \in Nat
    OBVIOUS
  <1>4. GainTax(u) - GainTax(t) = 150 * d(94050) + 50 * d(583750)
    BY <1>1 DEF GainTax
  <1>5. GainTax(u) \in Nat /\ GainTax(t) \in Nat
    BY GainTaxRises
  <1>6. CASE status # "single"
    <2> DEFINE x == OrdinaryTax("mfj", u)
               y == OrdinaryTax("mfj", t)
    <2>1. /\ x \in Nat /\ y \in Nat
          /\ x - y = 100 * m + 20 * d(23850) + 100 * d(96950) + 20 * d(206700) + 80 * d(394600)
                     + 30 * d(501050) + 20 * d(751600)
      <3>1. /\ x = 100 * u + 20 * Ramp(u, 23850) + 100 * Ramp(u, 96950) + 20 * Ramp(u, 206700)
                      + 80 * Ramp(u, 394600) + 30 * Ramp(u, 501050) + 20 * Ramp(u, 751600)
            /\ y = 100 * t + 20 * Ramp(t, 23850) + 100 * Ramp(t, 96950) + 20 * Ramp(t, 206700)
                      + 80 * Ramp(t, 394600) + 30 * Ramp(t, 501050) + 20 * Ramp(t, 751600)
        BY OrdinaryTaxIs DEF BandTax
      <3>2. /\ Ramp(u, 23850) \in Nat /\ Ramp(u, 96950) \in Nat /\ Ramp(u, 206700) \in Nat
            /\ Ramp(u, 394600) \in Nat /\ Ramp(u, 501050) \in Nat /\ Ramp(u, 751600) \in Nat
            /\ Ramp(t, 23850) \in Nat /\ Ramp(t, 96950) \in Nat /\ Ramp(t, 206700) \in Nat
            /\ Ramp(t, 394600) \in Nat /\ Ramp(t, 501050) \in Nat /\ Ramp(t, 751600) \in Nat
        BY <1>1
      <3> HIDE DEF x, y
      <3> QED BY <3>1, <3>2
    <2>2. /\ d(23850) \in Nat /\ d(96950) \in Nat /\ d(206700) \in Nat /\ d(394600) \in Nat
          /\ d(501050) \in Nat /\ d(751600) \in Nat /\ d(94050) \in Nat /\ d(583750) \in Nat
          /\ d(23850) <= m /\ d(94050) <= m /\ d(96950) <= d(94050) /\ d(206700) <= d(94050) /\ d(394600) <= d(94050)
          /\ d(501050) <= d(94050) /\ d(751600) <= d(583750) /\ d(751600) <= m
      <3> HIDE DEF d, m
      <3>1. /\ d(23850) \in Nat /\ d(96950) \in Nat /\ d(206700) \in Nat /\ d(394600) \in Nat
            /\ d(501050) \in Nat /\ d(751600) \in Nat /\ d(94050) \in Nat /\ d(583750) \in Nat
        BY <1>1
      <3>2. d(23850) <= m /\ d(94050) <= m /\ d(751600) <= m
        BY <1>1
      <3>3. d(96950) <= d(94050) /\ d(206700) <= d(94050)
        BY <1>2
      <3>4. d(394600) <= d(94050) /\ d(501050) <= d(94050)
        BY <1>2
      <3>5. d(751600) <= d(583750)
        BY <1>2
      <3> QED BY <3>1, <3>2, <3>3, <3>4, <3>5
    <2> HIDE DEF d, m, x, y
    <2>3. y <= x /\ x - y <= 370 * m /\ x - y - (GainTax(u) - GainTax(t)) <= 220 * m
      BY <1>3, <1>4, <2>1, <2>2
    <2>4. OrdinaryTax(status, u) = x /\ OrdinaryTax(status, t) = y
      BY <1>6, JointUnlessSingle DEF x, y
    <2> QED BY <2>1, <2>3, <2>4 DEF m
  <1>7. CASE status = "single"
    <2> DEFINE x == OrdinaryTax("single", u)
               y == OrdinaryTax("single", t)
    <2>1. /\ x \in Nat /\ y \in Nat
          /\ x - y = 100 * m + 20 * d(11925) + 100 * d(48475) + 20 * d(103350) + 80 * d(197300)
                     + 30 * d(250525) + 20 * d(626350)
      <3>1. /\ x = 100 * u + 20 * Ramp(u, 11925) + 100 * Ramp(u, 48475) + 20 * Ramp(u, 103350)
                      + 80 * Ramp(u, 197300) + 30 * Ramp(u, 250525) + 20 * Ramp(u, 626350)
            /\ y = 100 * t + 20 * Ramp(t, 11925) + 100 * Ramp(t, 48475) + 20 * Ramp(t, 103350)
                      + 80 * Ramp(t, 197300) + 30 * Ramp(t, 250525) + 20 * Ramp(t, 626350)
        BY OrdinaryTaxIs DEF BandTax
      <3>2. /\ Ramp(u, 11925) \in Nat /\ Ramp(u, 48475) \in Nat /\ Ramp(u, 103350) \in Nat
            /\ Ramp(u, 197300) \in Nat /\ Ramp(u, 250525) \in Nat /\ Ramp(u, 626350) \in Nat
            /\ Ramp(t, 11925) \in Nat /\ Ramp(t, 48475) \in Nat /\ Ramp(t, 103350) \in Nat
            /\ Ramp(t, 197300) \in Nat /\ Ramp(t, 250525) \in Nat /\ Ramp(t, 626350) \in Nat
        BY <1>1
      <3> HIDE DEF x, y
      <3> QED BY <3>1, <3>2
    <2>2. /\ d(11925) \in Nat /\ d(48475) \in Nat /\ d(103350) \in Nat /\ d(197300) \in Nat
          /\ d(250525) \in Nat /\ d(626350) \in Nat /\ d(94050) \in Nat /\ d(583750) \in Nat
          /\ d(11925) <= m /\ d(48475) <= m /\ d(94050) <= m
          /\ d(103350) <= d(94050) /\ d(197300) <= d(94050)
          /\ d(250525) <= d(94050) /\ d(626350) <= d(583750) /\ d(626350) <= m
      <3> HIDE DEF d, m
      <3>1. /\ d(11925) \in Nat /\ d(48475) \in Nat /\ d(103350) \in Nat /\ d(197300) \in Nat
            /\ d(250525) \in Nat /\ d(626350) \in Nat /\ d(94050) \in Nat /\ d(583750) \in Nat
        BY <1>1
      <3>2. d(11925) <= m /\ d(48475) <= m
        BY <1>1
      <3>3. d(94050) <= m /\ d(626350) <= m
        BY <1>1
      <3>4. d(103350) <= d(94050) /\ d(197300) <= d(94050)
        BY <1>2
      <3>5. d(250525) <= d(94050) /\ d(626350) <= d(583750)
        BY <1>2
      <3> QED BY <3>1, <3>2, <3>3, <3>4, <3>5
    <2> HIDE DEF d, m, x, y
    <2>3. y <= x /\ x - y <= 370 * m /\ x - y - (GainTax(u) - GainTax(t)) <= 220 * m
      BY <1>3, <1>4, <2>1, <2>2
    <2> QED BY <1>7, <2>1, <2>3 DEF m, x, y
  <1> QED BY <1>6, <1>7

\* The tax on an ordinary income of t and gains of g above it.
Stacked(status, t, g) == OrdinaryTax(status, t) + GainTax(t + g) - GainTax(t)

Climbs(status, t, u, g, h) ==
    /\ Stacked(status, t, g) \in Int /\ Stacked(status, u, g) \in Int
    /\ Stacked(status, t, h) \in Int /\ Stacked(status, u, h) \in Int
    /\ Stacked(status, t, g) <= Stacked(status, u, g)
    /\ Stacked(status, u, g) - Stacked(status, t, g) <= 420 * (u - t)
    /\ Stacked(status, t, g) <= Stacked(status, t, h)
    /\ Stacked(status, t, h) - Stacked(status, t, g) <= 200 * (h - g)
    /\ Stacked(status, u, g) <= Stacked(status, u, h)
    /\ Stacked(status, u, h) - Stacked(status, u, g) <= 200 * (h - g)

LEMMA StackedRises ==
  ASSUME NEW status \in Tax!Status, NEW t \in Nat, NEW u \in Nat, t <= u,
         NEW g \in Nat, NEW h \in Nat, g <= h
  PROVE  Climbs(status, t, u, g, h)
  <1> DEFINE a == OrdinaryTax(status, t)
             b == OrdinaryTax(status, u)
  <1> DEFINE p == GainTax(t)
             q == GainTax(u)
             r == GainTax(t + g)
             s == GainTax(u + g)
             v == GainTax(t + h)
             w == GainTax(u + h)
  <1>1. /\ a \in Nat /\ b \in Nat /\ a <= b
        /\ b - a - (q - p) <= 220 * (u - t)
    BY OrdinaryTaxRises
  <1>2. /\ t + g \in Nat /\ u + g \in Nat /\ t + h \in Nat /\ u + h \in Nat
        /\ t + g <= u + g /\ t + g <= t + h /\ u + g <= u + h
        /\ (u + g) - (t + g) = u - t /\ (t + h) - (t + g) = h - g /\ (u + h) - (u + g) = h - g
    OBVIOUS
  <1>3. p \in Nat /\ q \in Nat /\ r \in Nat /\ s \in Nat /\ v \in Nat /\ w \in Nat
    BY <1>2, GainTaxRises
  <1>4. q - p <= s - r
    BY GainTaxRises
  <1>5. s - r <= 200 * (u - t)
    BY <1>2, GainTaxRises
  <1>6. r <= v /\ v - r <= 200 * (h - g)
    BY <1>2, GainTaxRises
  <1>7. s <= w /\ w - s <= 200 * (h - g)
    BY <1>2, GainTaxRises
  <1>8. /\ Stacked(status, t, g) = a + r - p /\ Stacked(status, u, g) = b + s - q
        /\ Stacked(status, t, h) = a + v - p /\ Stacked(status, u, h) = b + w - q
    BY DEF Stacked
  <1> HIDE DEF a, b, p, q, r, s, v, w
  <1> QED BY <1>1, <1>3, <1>4, <1>5, <1>6, <1>7, <1>8 DEF Climbs

Near(status, t, u, g, h) ==
    /\ Stacked(status, t, g) \in Int /\ Stacked(status, u, h) \in Int
    /\ Tax!Size(Stacked(status, u, h) - Stacked(status, t, g)) <= 420 * Tax!Size(u - t) + 200 * Tax!Size(h - g)
    /\ t <= u /\ g <= h => Stacked(status, t, g) <= Stacked(status, u, h)

LEMMA StackedMoves ==
  ASSUME NEW status \in Tax!Status, NEW t \in Nat, NEW u \in Nat, NEW g \in Nat, NEW h \in Nat
  PROVE  Near(status, t, u, g, h)
  <1> DEFINE a == Stacked(status, t, g)
             b == Stacked(status, u, g)
             c == Stacked(status, t, h)
             d == Stacked(status, u, h)
  <1>1. CASE t <= u /\ g <= h
    <2>1. /\ a \in Int /\ b \in Int /\ d \in Int
          /\ a <= b /\ b - a <= 420 * (u - t) /\ b <= d /\ d - b <= 200 * (h - g)
      <3>1. Climbs(status, t, u, g, h)
        BY <1>1, StackedRises
      <3> QED BY <3>1 DEF Climbs
    <2> HIDE DEF a, b, c, d
    <2>2. d - a <= 420 * (u - t) + 200 * (h - g) /\ a <= d
      BY <2>1
    <2>3. Tax!Size(d - a) <= 420 * Tax!Size(u - t) + 200 * Tax!Size(h - g)
      BY <1>1, <2>1, <2>2 DEF Tax!Size
    <2> QED BY <2>1, <2>2, <2>3 DEF a, d, Near
  <1>2. CASE t <= u /\ h < g
    <2>1. /\ a \in Int /\ c \in Int /\ d \in Int
          /\ c <= d /\ d - c <= 420 * (u - t) /\ c <= a /\ a - c <= 200 * (g - h)
      <3>1. Climbs(status, t, u, h, g)
        BY <1>2, StackedRises
      <3> QED BY <3>1 DEF Climbs
    <2> HIDE DEF a, b, c, d
    <2>2. d - a <= 420 * (u - t) /\ a - d <= 200 * (g - h)
      BY <2>1
    <2>3. Tax!Size(d - a) <= 420 * Tax!Size(u - t) + 200 * Tax!Size(h - g)
      BY <1>2, <2>1, <2>2 DEF Tax!Size
    <2> QED BY <1>2, <2>1, <2>3 DEF a, d, Near
  <1>3. CASE u < t /\ g <= h
    <2>1. /\ a \in Int /\ b \in Int /\ d \in Int
          /\ b <= a /\ a - b <= 420 * (t - u) /\ b <= d /\ d - b <= 200 * (h - g)
      <3>1. Climbs(status, u, t, g, h)
        BY <1>3, StackedRises
      <3> QED BY <3>1 DEF Climbs
    <2> HIDE DEF a, b, c, d
    <2>2. d - a <= 200 * (h - g) /\ a - d <= 420 * (t - u)
      BY <2>1
    <2>3. Tax!Size(d - a) <= 420 * Tax!Size(u - t) + 200 * Tax!Size(h - g)
      BY <1>3, <2>1, <2>2 DEF Tax!Size
    <2> QED BY <1>3, <2>1, <2>3 DEF a, d, Near
  <1>4. CASE u < t /\ h < g
    <2>1. /\ a \in Int /\ c \in Int /\ d \in Int
          /\ d <= c /\ c - d <= 420 * (t - u) /\ c <= a /\ a - c <= 200 * (g - h)
      <3>1. Climbs(status, u, t, h, g)
        BY <1>4, StackedRises
      <3> QED BY <3>1 DEF Climbs
    <2> HIDE DEF a, b, c, d
    <2>2. a - d <= 420 * (t - u) + 200 * (g - h) /\ d <= a
      BY <2>1
    <2>3. Tax!Size(d - a) <= 420 * Tax!Size(u - t) + 200 * Tax!Size(h - g)
      BY <1>4, <2>1, <2>2 DEF Tax!Size
    <2> QED BY <1>4, <2>1, <2>3 DEF a, d, Near
  <1> QED BY <1>1, <1>2, <1>3, <1>4

Income == [ordinary : Int, st : Int, lt : Int, deductions : Int, investment : Int]
Taxable(x) == Tax!Positive((x.ordinary + Tax!Positive(x.st)) - x.deductions)
Surtax(status, x) ==
    Tax!Least(Tax!Positive(x.investment),
              Tax!Positive((x.ordinary + Tax!Positive(x.st) + Tax!Positive(x.lt)) - Tax!NiitThreshold(status)))
Moved(x, y) ==
    Tax!Size(y.ordinary - x.ordinary) + Tax!Size(y.st - x.st)
    + Tax!Size(y.lt - x.lt) + Tax!Size(y.deductions - x.deductions)

LEMMA ComputeTaxIs ==
  ASSUME NEW status, NEW x \in Income
  PROVE  /\ Taxable(x) \in Nat /\ Tax!Positive(x.lt) \in Nat /\ Surtax(status, x) \in Nat
         /\ Tax!ComputeTax(status, x) = Stacked(status, Taxable(x), Tax!Positive(x.lt)) + 38 * Surtax(status, x)
  <1> DEFINE a == x.ordinary
             s == x.st
             l == x.lt
             e == x.deductions
             v == x.investment
             n == Tax!NiitThreshold(status)
  <1>1. a \in Int /\ s \in Int /\ l \in Int /\ e \in Int /\ v \in Int /\ n \in Int
    BY DEF Income, Tax!NiitThreshold
  <1>2. Tax!Positive(l) \in Nat /\ Tax!Positive(s) \in Nat /\ Tax!Positive(v) \in Nat
    BY <1>1 DEF Tax!Positive
  <1>3. Taxable(x) \in Nat
    BY <1>1, <1>2 DEF Taxable, Tax!Positive
  <1>4. Surtax(status, x) \in Nat
    BY <1>1, <1>2 DEF Surtax, Tax!Positive, Tax!Least
  <1> DEFINE t == Taxable(x)
             g == Tax!Positive(l)
             w == Surtax(status, x)
  <1>5. Tax!ComputeTax(status, x) = OrdinaryTax(status, t) + Tax!ComputeLtcgTax(g, t) + 38 * w
    <2> DEFINE total == a + Tax!Positive(s)
    <2>1. t = Tax!Positive(total - e)
      BY DEF Taxable
    <2>2. w = Tax!Least(Tax!Positive(v), Tax!Positive((total + g) - n))
      BY DEF Surtax
    <2>3. Tax!ComputeTax(status, x) =
              Tax!ApplyBrackets(Tax!Positive(total - e), Tax!Brackets(status))
              + Tax!ComputeLtcgTax(g, Tax!Positive(total - e))
              + Tax!NiitRate * Tax!Least(Tax!Positive(v), Tax!Positive((total + g) - n))
      BY DEF Tax!ComputeTax
    <2>4. Tax!NiitRate = 38
      BY DEF Tax!NiitRate
    <2> HIDE DEF t, w, g
    <2> QED BY <2>1, <2>2, <2>3, <2>4 DEF OrdinaryTax
  <1>6. Tax!ComputeLtcgTax(g, t) = GainTax(t + g) - GainTax(t)
    <2> HIDE DEF t, g
    <2> QED BY <1>2, <1>3, LtcgTaxIs DEF t, g
  <1>7. Tax!ComputeTax(status, x) = OrdinaryTax(status, t) + (GainTax(t + g) - GainTax(t)) + 38 * w
    BY <1>5, <1>6
  <1> QED BY <1>2, <1>3, <1>4, <1>7 DEF Stacked

\* Between any two incomes the tax moves by no more than the dearest dollar for each that
\* moved, and it does not fall when the income rises.
LEMMA TaxIsSmooth ==
  ASSUME NEW status \in Tax!Status, NEW x \in Income, NEW y \in Income,
         Tax!Size(y.investment - x.investment) <= Tax!Size(y.st - x.st) + Tax!Size(y.lt - x.lt)
  PROVE  /\ Tax!ComputeTax(status, x) \in Int /\ Tax!ComputeTax(status, y) \in Int
         /\ Tax!Size(Tax!ComputeTax(status, y) - Tax!ComputeTax(status, x)) <= 558 * Moved(x, y)
         /\ /\ x.ordinary <= y.ordinary /\ x.st <= y.st /\ x.lt <= y.lt
            /\ y.deductions = x.deductions /\ x.investment <= y.investment
            => Tax!ComputeTax(status, x) <= Tax!ComputeTax(status, y)
  <1> DEFINE t == Taxable(x)
             u == Taxable(y)
             g == Tax!Positive(x.lt)
             h == Tax!Positive(y.lt)
             v == Surtax(status, x)
             w == Surtax(status, y)
             m == Moved(x, y)
             rises == /\ x.ordinary <= y.ordinary /\ x.st <= y.st /\ x.lt <= y.lt
                      /\ y.deductions = x.deductions /\ x.investment <= y.investment
  <1>1. /\ t \in Nat /\ u \in Nat /\ g \in Nat /\ h \in Nat /\ v \in Nat /\ w \in Nat
        /\ Tax!ComputeTax(status, x) = Stacked(status, t, g) + 38 * v
        /\ Tax!ComputeTax(status, y) = Stacked(status, u, h) + 38 * w
    BY ComputeTaxIs
  <1> DEFINE a == Stacked(status, t, g)
             b == Stacked(status, u, h)
  <1>2. /\ a \in Int /\ b \in Int
        /\ Tax!Size(b - a) <= 420 * Tax!Size(u - t) + 200 * Tax!Size(h - g)
        /\ t <= u /\ g <= h => a <= b
    <2> HIDE DEF t, u, g, h
    <2>1. Near(status, t, u, g, h)
      BY <1>1, StackedMoves
    <2> QED BY <2>1 DEF Near
  <1>3. /\ m \in Nat /\ Tax!Size(u - t) + Tax!Size(h - g) <= m /\ Tax!Size(w - v) <= m
        /\ rises => t <= u /\ g <= h /\ v <= w
    <2> DEFINE n == Tax!NiitThreshold(status)
    <2>1. /\ x.ordinary \in Int /\ x.st \in Int /\ x.lt \in Int /\ x.deductions \in Int /\ x.investment \in Int
          /\ y.ordinary \in Int /\ y.st \in Int /\ y.lt \in Int /\ y.deductions \in Int /\ y.investment \in Int
          /\ n \in Int
      BY DEF Income, Tax!NiitThreshold
    <2>1a. Tax!Positive(x.st) \in Int /\ Tax!Positive(y.st) \in Int /\ g \in Int /\ h \in Int
      BY <2>1 DEF Tax!Positive
    <2> HIDE DEF n
    <2>2. m \in Nat
      BY <2>1 DEF Moved, Tax!Size
    <2> DEFINE mo == Tax!Size(y.ordinary - x.ordinary)
               ms == Tax!Size(y.st - x.st)
               ml == Tax!Size(y.lt - x.lt)
               md == Tax!Size(y.deductions - x.deductions)
               ps == Tax!Positive(y.st) - Tax!Positive(x.st)
               pl == h - g
    <2>2a. mo \in Nat /\ ms \in Nat /\ ml \in Nat /\ md \in Nat /\ m = mo + ms + ml + md
      BY <2>1 DEF Moved, Tax!Size
    <2>2b. ps \in Int /\ pl \in Int /\ Tax!Size(ps) <= ms /\ Tax!Size(pl) <= ml
      BY <2>1 DEF Tax!Size, Tax!Positive
    <2>3. Tax!Size(u - t) + Tax!Size(h - g) <= m
      <3> DEFINE i == (x.ordinary + Tax!Positive(x.st)) - x.deductions
                 j == (y.ordinary + Tax!Positive(y.st)) - y.deductions
      <3>1. i \in Int /\ j \in Int /\ j - i = (y.ordinary - x.ordinary) + ps - (y.deductions - x.deductions)
        BY <2>1, <2>1a
      <3>2. t = Tax!Positive(i) /\ u = Tax!Positive(j)
        BY DEF Taxable
      <3>3. Tax!Size(j - i) <= mo + ms + md
        <4> HIDE DEF i, j, ps, ms
        <4> QED BY <2>1, <2>2a, <2>2b, <3>1 DEF Tax!Size
      <3> HIDE DEF i, j, t, u, mo, ms, ml, md, pl, m
      <3>4. Tax!Size(u - t) <= Tax!Size(j - i)
        BY <3>1, <3>2 DEF Tax!Size, Tax!Positive
      <3>5. Tax!Size(u - t) \in Int /\ Tax!Size(j - i) \in Int /\ Tax!Size(pl) \in Int
        BY <1>1, <2>2b, <3>1 DEF Tax!Size
      <3>6. Tax!Size(u - t) + Tax!Size(pl) <= m
        BY <2>2a, <2>2b, <3>3, <3>4, <3>5
      <3> QED BY <3>6 DEF pl
    <2>4. Tax!Size(w - v) <= m
      <3> DEFINE i == Tax!Positive((x.ordinary + Tax!Positive(x.st) + g) - n)
                 j == Tax!Positive((y.ordinary + Tax!Positive(y.st) + h) - n)
                 k == Tax!Positive(x.investment)
                 l == Tax!Positive(y.investment)
                 e == y.investment - x.investment
      <3>1. i \in Nat /\ j \in Nat /\ Tax!Size(j - i) <= Tax!Size((y.ordinary - x.ordinary) + ps + pl)
        <4> DEFINE p == (x.ordinary + Tax!Positive(x.st) + g) - n
                   q == (y.ordinary + Tax!Positive(y.st) + h) - n
        <4>1. p \in Int /\ q \in Int /\ q - p = (y.ordinary - x.ordinary) + ps + pl
          BY <2>1, <2>1a
        <4> HIDE DEF p, q
        <4>2. Tax!Positive(p) \in Nat /\ Tax!Positive(q) \in Nat
              /\ Tax!Size(Tax!Positive(q) - Tax!Positive(p)) <= Tax!Size(q - p)
          BY <4>1 DEF Tax!Size, Tax!Positive
        <4> QED BY <4>1, <4>2 DEF p, q
      <3>2. k \in Nat /\ l \in Nat /\ e \in Int /\ Tax!Size(l - k) <= Tax!Size(e)
        BY <2>1 DEF Tax!Size, Tax!Positive
      <3>3. v = Tax!Least(k, i) /\ w = Tax!Least(l, j)
        BY DEF Surtax, n
      <3>4. Tax!Size(e) <= ms + ml
        OBVIOUS
      <3> HIDE DEF i, j, k, l, ms, ml, md, ps, pl, m, v, w
      <3>5. Tax!Size((y.ordinary - x.ordinary) + ps + pl) <= mo + ms + ml
        BY <2>1, <2>2a, <2>2b DEF Tax!Size
      <3> DEFINE d == (y.ordinary - x.ordinary) + ps + pl
      <3>6. d \in Int /\ Tax!Size(j - i) <= Tax!Size(d) /\ Tax!Size(d) <= mo + ms + ml
        BY <2>1, <2>2b, <3>1, <3>5
      <3> HIDE DEF d, e, mo
      <3>7. Tax!Size(d) \in Int /\ Tax!Size(e) \in Int
        BY <3>2, <3>6 DEF Tax!Size
      <3>8. Tax!Size(j - i) <= m /\ Tax!Size(l - k) <= m
        BY <2>2a, <3>1, <3>2, <3>4, <3>6, <3>7 DEF Tax!Size
      <3> QED BY <2>2a, <3>1, <3>2, <3>3, <3>8 DEF Tax!Size, Tax!Least
    <2>5. rises => t <= u /\ g <= h
      BY <2>1 DEF Taxable, Tax!Positive
    <2>6. rises => v <= w
      BY <2>1 DEF Surtax, Tax!Positive, Tax!Least, n
    <2> QED BY <2>2, <2>3, <2>4, <2>5, <2>6
  <1> DEFINE p == Tax!Size(u - t)
             q == Tax!Size(h - g)
             r == Tax!Size(w - v)
             s == Tax!Size(b - a)
  <1>4. /\ p \in Nat /\ q \in Nat /\ r \in Nat /\ s \in Nat
        /\ (w - v = r \/ w - v = -r) /\ (b - a = s \/ b - a = -s)
    BY <1>1, <1>2 DEF Tax!Size
  <1>5. s <= 420 * p + 200 * q /\ p + q <= m /\ r <= m
    BY <1>2, <1>3
  <1> HIDE DEF t, u, g, h, v, w, m, a, b, p, q, r, s, rises
  <1>6. s <= 420 * m
    BY <1>3, <1>4, <1>5
  <1>7. Tax!Size((b + 38 * w) - (a + 38 * v)) <= 558 * m
    BY <1>1, <1>2, <1>3, <1>4, <1>5, <1>6 DEF Tax!Size
  <1>8. rises => a + 38 * v <= b + 38 * w
    BY <1>1, <1>2, <1>3
  <1>9. a + 38 * v \in Int /\ b + 38 * w \in Int
    BY <1>1, <1>2
  <1>10. Tax!ComputeTax(status, x) = a + 38 * v /\ Tax!ComputeTax(status, y) = b + 38 * w
    BY <1>1 DEF a, b
  <1> QED BY <1>7, <1>8, <1>9, <1>10 DEF m, rises

TaxType == filing \in Tax!Status /\ income \in Income

\* What each action does to the components of the income.
Raised(x, y) ==
    /\ x.ordinary <= y.ordinary /\ x.st <= y.st /\ x.lt <= y.lt
    /\ y.deductions = x.deductions /\ x.investment <= y.investment
Gained(x, y) == Tax!Size(y.investment - x.investment) <= Tax!Size(y.st - x.st) + Tax!Size(y.lt - x.lt)

LEMMA IncomeFields ==
  ASSUME NEW x \in Income
  PROVE  x.ordinary \in Int /\ x.st \in Int /\ x.lt \in Int /\ x.deductions \in Int /\ x.investment \in Int
  BY DEF Income

LEMMA RothRaises ==
  ASSUME TaxType, Tax!RothConversion
  PROVE  income' \in Income /\ filing' = filing /\ Gained(income, income') /\ Raised(income, income')
  <1>1. PICK x \in Amounts : income' = [income EXCEPT !.ordinary = @ + x]
    BY DEF Tax!RothConversion
  <1>2. x \in Nat
    BY CalculatorsAssumption DEF CalculatorsAssumption
  <1>3. filing' = filing /\ income \in Income
    BY DEF TaxType, Tax!RothConversion, Tax!Propose
  <1>4. income' \in Income
    BY <1>1, <1>2, <1>3, IncomeFields DEF Income
  <1>5. /\ income'.ordinary = income.ordinary + x /\ income'.st = income.st /\ income'.lt = income.lt
        /\ income'.deductions = income.deductions /\ income'.investment = income.investment
    BY <1>1, <1>3 DEF Income
  <1> QED BY <1>2, <1>3, <1>4, <1>5, IncomeFields DEF Gained, Raised, Tax!Size

LEMMA GainRaises ==
  ASSUME TaxType, Tax!RealizeGain
  PROVE  income' \in Income /\ filing' = filing /\ Gained(income, income') /\ Raised(income, income')
  <1>1. PICK x \in Amounts : \/ income' = [income EXCEPT !.st = @ + x, !.investment = @ + x]
                             \/ income' = [income EXCEPT !.lt = @ + x, !.investment = @ + x]
    BY DEF Tax!RealizeGain
  <1>2. x \in Nat
    BY CalculatorsAssumption DEF CalculatorsAssumption
  <1>3. filing' = filing /\ income \in Income
    BY DEF TaxType, Tax!RealizeGain, Tax!Propose
  <1>4. CASE income' = [income EXCEPT !.st = @ + x, !.investment = @ + x]
    <2>1. income' \in Income
      <3>1. income.st + x \in Int /\ income.investment + x \in Int
        BY <1>2, <1>3, IncomeFields
      <3> QED BY <1>3, <1>4, <3>1 DEF Income
    <2>2. /\ income'.ordinary = income.ordinary /\ income'.st = income.st + x /\ income'.lt = income.lt
          /\ income'.deductions = income.deductions /\ income'.investment = income.investment + x
      BY <1>3, <1>4 DEF Income
    <2> QED BY <1>2, <1>3, <2>1, <2>2, IncomeFields DEF Gained, Raised, Tax!Size
  <1>5. CASE income' = [income EXCEPT !.lt = @ + x, !.investment = @ + x]
    <2>1. income' \in Income
      <3>1. income.lt + x \in Int /\ income.investment + x \in Int
        BY <1>2, <1>3, IncomeFields
      <3> QED BY <1>3, <1>5, <3>1 DEF Income
    <2>2. /\ income'.ordinary = income.ordinary /\ income'.st = income.st /\ income'.lt = income.lt + x
          /\ income'.deductions = income.deductions /\ income'.investment = income.investment + x
      BY <1>3, <1>5 DEF Income
    <2> QED BY <1>2, <1>3, <2>1, <2>2, IncomeFields DEF Gained, Raised, Tax!Size
  <1> QED BY <1>1, <1>4, <1>5

LEMMA GiftMoves ==
  ASSUME TaxType, Tax!CharitableGift
  PROVE  income' \in Income /\ filing' = filing /\ Gained(income, income')
  <1>1. PICK x \in Amounts :
            income' = [income EXCEPT !.deductions = @ + Tax!Least(x, ((income.ordinary + income.st + income.lt) * 3) \div 5)]
    BY DEF Tax!CharitableGift
  <1>2. x \in Nat
    BY CalculatorsAssumption DEF CalculatorsAssumption
  <1>3. filing' = filing /\ income \in Income
    BY DEF TaxType, Tax!CharitableGift, Tax!Propose
  <1> DEFINE d == Tax!Least(x, ((income.ordinary + income.st + income.lt) * 3) \div 5)
  <1>4. d \in Int
    <2> DEFINE e == income.ordinary + income.st + income.lt
    <2>1. e \in Int
      BY <1>3, IncomeFields
    <2> HIDE DEF e
    <2>2. (e * 3) \div 5 \in Int
      BY <2>1
    <2> QED BY <1>2, <2>2 DEF Tax!Least, e
  <1>5. income' = [income EXCEPT !.deductions = @ + d]
    BY <1>1
  <1> HIDE DEF d
  <1>6. income' \in Income
    BY <1>3, <1>4, <1>5, IncomeFields DEF Income
  <1>7. income'.st = income.st /\ income'.lt = income.lt /\ income'.investment = income.investment
    BY <1>3, <1>5 DEF Income
  <1> QED BY <1>3, <1>6, <1>7, IncomeFields DEF Gained, Tax!Size

LEMMA HarvestLowers ==
  ASSUME TaxType, Tax!HarvestLoss
  PROVE  income' \in Income /\ filing' = filing /\ Gained(income, income') /\ Raised(income', income)
  <1>1. PICK x \in Amounts :
            LET st1 == Tax!Least(x, Tax!Positive(income.st))
                lt1 == Tax!Least(x - st1, Tax!Positive(income.lt))
            IN income' = [income EXCEPT !.st = @ - st1, !.lt = @ - lt1,
                                        !.ordinary = @ - Tax!Least(x - st1 - lt1, 3000),
                                        !.investment = @ - st1 - lt1]
    BY DEF Tax!HarvestLoss
  <1>2. x \in Nat
    BY CalculatorsAssumption DEF CalculatorsAssumption
  <1>3. filing' = filing /\ income \in Income
    BY DEF TaxType, Tax!HarvestLoss, Tax!Propose
  <1> DEFINE s == Tax!Least(x, Tax!Positive(income.st))
             l == Tax!Least(x - s, Tax!Positive(income.lt))
             o == Tax!Least(x - s - l, 3000)
  <1>4. income' = [income EXCEPT !.st = @ - s, !.lt = @ - l, !.ordinary = @ - o, !.investment = @ - s - l]
    BY <1>1
  <1>5. s \in Nat /\ s <= x
    BY <1>2, <1>3, IncomeFields DEF Tax!Least, Tax!Positive
  <1> HIDE DEF s
  <1>6. l \in Nat /\ l <= x - s
    BY <1>2, <1>3, <1>5, IncomeFields DEF Tax!Least, Tax!Positive
  <1> HIDE DEF l
  <1>7. o \in Nat
    BY <1>2, <1>5, <1>6 DEF Tax!Least
  <1> HIDE DEF o
  <1>8. income' \in Income
    <2>1. /\ income.st - s \in Int /\ income.lt - l \in Int /\ income.ordinary - o \in Int
          /\ income.investment - s - l \in Int
      BY <1>3, <1>5, <1>6, <1>7, IncomeFields
    <2> QED BY <1>3, <1>4, <2>1 DEF Income
  <1>9. /\ income'.ordinary = income.ordinary - o /\ income'.st = income.st - s /\ income'.lt = income.lt - l
        /\ income'.deductions = income.deductions /\ income'.investment = income.investment - s - l
    BY <1>3, <1>4 DEF Income
  <1>10. Gained(income, income')
    <2>1. /\ income'.investment - income.investment = -(s + l) /\ income'.st - income.st = -s
          /\ income'.lt - income.lt = -l
      BY <1>3, <1>5, <1>6, <1>9, IncomeFields
    <2>2. Tax!Size(-(s + l)) = s + l /\ Tax!Size(-s) = s /\ Tax!Size(-l) = l
      BY <1>5, <1>6 DEF Tax!Size
    <2> QED BY <1>5, <1>6, <2>1, <2>2 DEF Gained
  <1>11. Raised(income', income)
    BY <1>3, <1>5, <1>6, <1>7, <1>9, IncomeFields DEF Raised
  <1> QED BY <1>3, <1>8, <1>10, <1>11

LEMMA ProposalsAreSmooth ==
  ASSUME TaxType, Tax!Next
  PROVE  TaxType' /\ Tax!Smooth
  <1>1. income' \in Income /\ filing' = filing /\ Gained(income, income')
    BY RothRaises, HarvestLowers, GiftMoves, GainRaises DEF Tax!Next
  <1>2. income \in Income /\ filing \in Tax!Status
    BY DEF TaxType
  <1> DEFINE a == Tax!ComputeTax(filing, income)
             b == Tax!ComputeTax(filing, income')
             m == Moved(income, income')
  <1>3. Tax!Tax = a /\ Tax!Tax' = b
    BY <1>1 DEF Tax!Tax
  <1>4. a \in Int /\ b \in Int /\ Tax!Size(b - a) <= 558 * m /\ (Raised(income, income') => a <= b)
    BY <1>1, <1>2, TaxIsSmooth DEF Gained, Raised
  <1>5. Raised(income', income) => b <= a
    <2>1. Gained(income', income)
      BY <1>1, <1>2, IncomeFields DEF Gained, Tax!Size
    <2> QED BY <1>1, <1>2, <2>1, TaxIsSmooth DEF Gained, Raised
  <1>6. Tax!HarvestLoss => b - a <= 0
    BY <1>4, <1>5, HarvestLowers
  <1>7. Tax!RothConversion \/ Tax!RealizeGain => b - a >= 0
    BY <1>4, RothRaises, GainRaises
  <1>8. Tax!Dearest = 558
    BY DEF Tax!Dearest
  <1> HIDE DEF a, b
  <1>9. Tax!Smooth
    BY <1>3, <1>4, <1>6, <1>7, <1>8 DEF Tax!Smooth, Moved
  <1> QED BY <1>1, <1>2, <1>9 DEF TaxType

------------------------------------------------------------------------------
(* Harvests *)

\* A set of positions that has all before each of its own is a beginning.
LEMMA BeginningIs ==
  ASSUME NEW n \in Nat, NEW S \in SUBSET (1..n), \A i \in S : \A j \in 1..i : j \in S
  PROVE  Cardinality(S) \in 0..n /\ S = 1..Cardinality(S)
  <1> DEFINE m == Cardinality(S)
  <1>1. IsFiniteSet(1..n) /\ Cardinality(1..n) = n
    BY FS_Interval
  <1>2. IsFiniteSet(S) /\ m \in Nat /\ m <= n
    BY <1>1, FS_Subset, FS_CardinalityType
  <1>3. ASSUME NEW i \in S PROVE i \in 1..m
    <2>1. 1..i \in SUBSET S /\ i \in Nat /\ i >= 1
      OBVIOUS
    <2>2. Cardinality(1..i) = i
      BY <2>1, FS_Interval
    <2>3. Cardinality(1..i) <= m
      BY <1>2, <2>1, FS_Subset
    <2> QED BY <1>2, <2>1, <2>2, <2>3
  <1>4. ASSUME NEW i \in 1..m, i \notin S PROVE FALSE
    <2>1. i \in Nat /\ i - 1 \in Nat /\ i <= m
      BY <1>2
    <2>2. S \in SUBSET (1..i - 1)
      <3>1. ASSUME NEW j \in S PROVE j \in 1..i - 1
        <4>1. j \in 1..n /\ (j >= i => i \in 1..j)
          BY <2>1
        <4> QED BY <1>4, <2>1, <4>1
      <3> QED BY <3>1
    <2>3. IsFiniteSet(1..i - 1) /\ Cardinality(1..i - 1) = i - 1
      <3>1. i - 1 >= 1 \/ i - 1 = 0
        BY <2>1
      <3>2. CASE i - 1 = 0
        <4>1. 1..i - 1 = {}
          BY <3>2
        <4> QED BY <3>2, <4>1, FS_EmptySet
      <3>3. CASE i - 1 >= 1
        BY <2>1, <3>3, FS_Interval
      <3> QED BY <3>1, <3>2, <3>3
    <2>4. m <= i - 1
      BY <2>2, <2>3, FS_Subset
    <2> QED BY <1>2, <2>1, <2>4
  <1> HIDE DEF m
  <1>5. S = 1..m
    BY <1>3, <1>4
  <1> QED BY <1>2, <1>5 DEF m

\* t is s with e put in at k.
Inserted(t, S, s, k, e) ==
    /\ t \in Seq(S) /\ Len(t) = Len(s) + 1
    /\ \A i \in 1..Len(s) + 1 : t[i] = IF i < k THEN s[i] ELSE IF i = k THEN e ELSE s[i - 1]

LEMMA InsertedIs ==
  ASSUME NEW S, NEW s \in Seq(S), NEW k \in 1..Len(s) + 1, NEW e \in S
  PROVE  Inserted(Harvest!InsertAt(s, k, e), S, s, k, e)
  <1> DEFINE a == SubSeq(s, 1, k - 1)
             b == SubSeq(s, k, Len(s))
             t == a \o <<e>> \o b
  <1>1. Harvest!InsertAt(s, k, e) = t
    BY DEF Harvest!InsertAt
  <1>2. Len(s) \in Nat /\ k \in Nat /\ k >= 1 /\ k <= Len(s) + 1
    OBVIOUS
  <1>3. a \in Seq(S) /\ Len(a) = k - 1 /\ \A i \in 1..k - 1 : a[i] = s[i]
    BY <1>2
  <1>4. b \in Seq(S) /\ Len(b) = Len(s) - k + 1 /\ \A i \in 1..Len(s) - k + 1 : b[i] = s[k + i - 1]
    BY <1>2
  <1> HIDE DEF a, b
  <1>5. a \o <<e>> \in Seq(S) /\ Len(a \o <<e>>) = k /\ (a \o <<e>>)[k] = e
        /\ \A i \in 1..k - 1 : (a \o <<e>>)[i] = a[i]
    BY <1>2, <1>3
  <1> DEFINE c == a \o <<e>>
  <1> HIDE DEF c
  <1>6. c \in Seq(S) /\ Len(c) = k /\ c[k] = e /\ \A i \in 1..k - 1 : c[i] = s[i]
    BY <1>3, <1>5 DEF c
  <1>7. t = c \o b
    BY DEF c
  <1> HIDE DEF t
  <1>8. /\ t \in Seq(S) /\ Len(t) = Len(c) + Len(b)
        /\ \A i \in 1..Len(c) + Len(b) : t[i] = IF i <= Len(c) THEN c[i] ELSE b[i - Len(c)]
    BY <1>4, <1>6, <1>7
  <1>8a. Len(c) + Len(b) = Len(s) + 1
    BY <1>2, <1>4, <1>6
  <1>9. ASSUME NEW i \in 1..Len(s) + 1
        PROVE  t[i] = IF i < k THEN s[i] ELSE IF i = k THEN e ELSE s[i - 1]
    <2>0. i \in Nat /\ i >= 1 /\ i <= Len(s) + 1 /\ t[i] = IF i <= k THEN c[i] ELSE b[i - k]
      BY <1>2, <1>6, <1>8, <1>8a
    <2>1. CASE i < k
      <3>1. t[i] = c[i] /\ c[i] = s[i]
        BY <1>2, <1>6, <2>0, <2>1
      <3> QED BY <2>1, <3>1
    <2>2. CASE i = k
      <3>1. t[i] = e
        BY <1>2, <1>6, <2>0, <2>2
      <3> QED BY <1>2, <2>2, <3>1
    <2>3. CASE i > k
      <3>1. t[i] = b[i - k]
        BY <1>2, <2>0, <2>3
      <3>2. i - k \in 1..Len(s) - k + 1 /\ k + (i - k) - 1 = i - 1
        BY <1>2, <2>0, <2>3
      <3>3. b[i - k] = s[k + (i - k) - 1]
        BY <1>4, <3>2
      <3>4. t[i] = s[i - 1]
        BY <3>1, <3>2, <3>3
      <3> QED BY <1>2, <2>0, <2>3, <3>4
    <2> QED BY <1>2, <2>0, <2>1, <2>2, <2>3
  <1>10. t \in Seq(S) /\ Len(t) = Len(s) + 1
    BY <1>8, <1>8a
  <1>11. Harvest!InsertAt(s, k, e) = t
    BY <1>1 DEF t
  <1>12. Inserted(t, S, s, k, e)
    BY <1>9, <1>10 DEF Inserted
  <1> QED BY <1>11, <1>12

Scored == [lot : Lots, saving : Nat, blocked : BOOLEAN, score : Int]
\* What a purchase blocks scores no more than 1,000, what saves anything else does.
BlockedScoresLow(c) == IF c.blocked THEN c.score <= 1000 ELSE c.saving > 0 => c.score > 1000

HarvestInv ==
    /\ trades \in SUBSET Trades /\ gains \in Gains /\ rates \in Rates
    /\ candidates \in Seq(Scored)
    /\ \A i \in DOMAIN candidates : BlockedScoresLow(candidates[i])
    /\ \A i, j \in DOMAIN candidates : i <= j => candidates[i].score >= candidates[j].score

LEMMA CandidateIs ==
  ASSUME HarvestInv, NEW lot \in Lots, lot.loss > 100
  PROVE  Harvest!Candidate(lot) \in Scored /\ BlockedScoresLow(Harvest!Candidate(lot))
  <1> DEFINE r == IF lot.days >= Harvest!LongTermDays THEN rates.lt ELSE rates.bracket
             saving == (lot.loss * r) \div 100
             blocked == Harvest!CheckWashSale(lot)
             c == Harvest!Candidate(lot)
  <1>1. lot.loss \in Nat /\ gains \in Int /\ (r = 0 \/ r \in 10..100)
    <2>1. lot \in [ticker : {l.ticker : l \in Lots}, loss : Nat, days : Nat]
      BY CalculatorsAssumption DEF CalculatorsAssumption
    <2>2. rates \in [bracket : 10..100, lt : {0} \cup 10..100] /\ gains \in Int
      BY CalculatorsAssumption DEF CalculatorsAssumption, HarvestInv
    <2> QED BY <2>1, <2>2
  <1> HIDE DEF r
  <1>2. saving \in Nat /\ (saving = 0 \/ saving >= 10)
    <2>1. CASE r = 0
      <3>1. lot.loss * r = 0
        BY <1>1, <2>1
      <3> QED BY <3>1
    <2>2. CASE r \in 10..100
      <3> DEFINE p == lot.loss * r
      <3>1. 10 * 101 <= 10 * lot.loss
        BY <1>1
      <3>2. lot.loss * 10 <= p /\ p \in Nat
        BY <1>1, <2>2, ProductGrows
      <3>3. p >= 1010
        BY <1>1, <3>1, <3>2
      <3> HIDE DEF p
      <3>4. p \div 100 \in Nat /\ p \div 100 >= 10
        BY <3>2, <3>3
      <3> QED BY <3>4 DEF p
    <2> QED BY <1>1, <2>1, <2>2
  <1>3. blocked \in BOOLEAN
    BY DEF Harvest!CheckWashSale
  <1>4. c = [lot |-> lot, saving |-> saving, blocked |-> blocked,
             score |-> Harvest!ComputeScore(saving, lot.loss, blocked)]
    BY DEF Harvest!Candidate, r
  <1> HIDE DEF saving, blocked, c
  <1> DEFINE q == (lot.loss * 3000) \div gains
             offset == IF gains > 0 THEN Harvest!Least(q, 3000) ELSE 0
             s == (saving * 6) \div 50
             raw1 == Harvest!Least(s, 6000) + offset + 1000
  <1>5. Harvest!ComputeScore(saving, lot.loss, blocked) = IF blocked THEN raw1 \div 10 ELSE raw1
    BY DEF Harvest!ComputeScore
  <1>6. offset \in Int /\ offset >= 0
    <2>1. CASE gains > 0
      <3>1. q \in Nat
        <4>1. lot.loss * 3000 \in Nat /\ gains \in Nat \ {0}
          BY <1>1, <2>1
        <4> QED BY <4>1, QuotientIsNat
      <3> HIDE DEF q
      <3>2. offset = Harvest!Least(q, 3000)
        BY <2>1
      <3> QED BY <3>1, <3>2 DEF Harvest!Least
    <2>2. CASE ~(gains > 0)
      BY <2>2
    <2> QED BY <2>1, <2>2
  <1>6a. offset <= 3000
    <2>1. CASE gains > 0
      <3>1. q \in Nat
        <4>1. lot.loss * 3000 \in Nat /\ gains \in Nat \ {0}
          BY <1>1, <2>1
        <4> QED BY <4>1, QuotientIsNat
      <3> HIDE DEF q
      <3>2. offset = Harvest!Least(q, 3000)
        BY <2>1
      <3> QED BY <3>1, <3>2 DEF Harvest!Least
    <2>2. CASE ~(gains > 0)
      BY <2>2
    <2> QED BY <2>1, <2>2
  <1>7. s \in Nat /\ (saving > 0 => s >= 1)
    BY <1>2
  <1> HIDE DEF offset, s
  <1>8. raw1 \in Int /\ raw1 >= 1000 /\ raw1 <= 10000 /\ (saving > 0 => raw1 >= 1001)
    <2> DEFINE l == Harvest!Least(s, 6000)
    <2>1. l \in Nat /\ l <= 6000 /\ (s >= 1 => l >= 1)
      BY <1>7 DEF Harvest!Least
    <2>2. raw1 = (l + offset) + 1000
      OBVIOUS
    <2> HIDE DEF l, raw1
    <2> QED BY <1>6, <1>6a, <1>7, <2>1, <2>2
  <1> HIDE DEF raw1
  <1>9. raw1 \div 10 \in Int /\ raw1 \div 10 <= 1000
    BY <1>8
  <1>10. c.score = IF blocked THEN raw1 \div 10 ELSE raw1
    BY <1>4, <1>5
  <1>11. c.score \in Int
    BY <1>3, <1>8, <1>9, <1>10
  <1>12. c \in Scored
    BY <1>2, <1>3, <1>4, <1>11 DEF Scored
  <1>13. c.saving = saving /\ c.blocked = blocked
    BY <1>4
  <1>14. BlockedScoresLow(c)
    <2>1. CASE blocked
      BY <1>3, <1>9, <1>10, <1>13, <2>1 DEF BlockedScoresLow
    <2>2. CASE ~blocked
      BY <1>3, <1>8, <1>10, <1>13, <2>2 DEF BlockedScoresLow
    <2> QED BY <2>1, <2>2
  <1> QED BY <1>12, <1>14 DEF c

\* The list stays sorted when a candidate is put in behind those that score as much.
LEMMA ScanKeeps == ASSUME HarvestInv, Harvest!Scan PROVE HarvestInv'
  <1>1. PICK lot \in Lots :
            candidates' = IF lot.loss <= Harvest!MinLoss THEN candidates
                          ELSE LET c == Harvest!Candidate(lot)
                                   better == {i \in DOMAIN candidates : candidates[i].score >= c.score}
                               IN Harvest!InsertAt(candidates, Harvest!Cardinality(better) + 1, c)
    BY DEF Harvest!Scan
  <1>2. trades' = trades /\ gains' = gains /\ rates' = rates
    BY DEF Harvest!Scan
  <1>3. lot.loss \in Nat
    <2>1. lot \in [ticker : {l.ticker : l \in Lots}, loss : Nat, days : Nat]
      BY CalculatorsAssumption DEF CalculatorsAssumption
    <2> QED BY <2>1
  <1>4. CASE lot.loss <= 100
    <2>1. candidates' = candidates
      BY <1>1, <1>4 DEF Harvest!MinLoss
    <2> QED BY <1>2, <2>1 DEF HarvestInv
  <1>5. CASE lot.loss > 100
    <2> DEFINE c == Harvest!Candidate(lot)
               n == Len(candidates)
               better == {i \in DOMAIN candidates : candidates[i].score >= c.score}
               m == Cardinality(better)
               t == candidates'
    <2>1. c \in Scored /\ BlockedScoresLow(c)
      BY <1>5, CandidateIs
    <2>2. candidates' = Harvest!InsertAt(candidates, m + 1, c)
      <3>1. ~(lot.loss <= Harvest!MinLoss)
        BY <1>3, <1>5 DEF Harvest!MinLoss
      <3> QED BY <1>1, <3>1, Cardinalities
    <2>3. /\ candidates \in Seq(Scored) /\ n \in Nat /\ DOMAIN candidates = 1..n
          /\ \A i \in 1..n : BlockedScoresLow(candidates[i]) /\ candidates[i].score \in Int
          /\ \A i, j \in 1..n : i <= j => candidates[i].score >= candidates[j].score
      <3>1. candidates \in Seq(Scored)
        BY DEF HarvestInv
      <3>2. n \in Nat /\ DOMAIN candidates = 1..n
        BY <3>1
      <3>3. \A i \in 1..n : BlockedScoresLow(candidates[i])
        BY <3>2 DEF HarvestInv
      <3>4. \A i \in 1..n : candidates[i].score \in Int
        <4>1. \A i \in 1..n : candidates[i] \in Scored
          BY <3>1
        <4>2. \A x \in Scored : x.score \in Int
          BY DEF Scored
        <4> QED BY <4>1, <4>2
      <3>5. \A i, j \in 1..n : i <= j => candidates[i].score >= candidates[j].score
        BY <3>2 DEF HarvestInv
      <3> QED BY <3>1, <3>2, <3>3, <3>4, <3>5
    <2> HIDE DEF c
    <2>4. c.score \in Int
      BY <2>1 DEF Scored
    <2>5. m \in 0..n /\ better = 1..m
      <3>1. better \in SUBSET (1..n)
        BY <2>3
      <3>2. \A i \in better : \A j \in 1..i : j \in better
        <4> SUFFICES ASSUME NEW i \in better, NEW j \in 1..i PROVE j \in better
          OBVIOUS
        <4>1. i \in 1..n /\ candidates[i].score >= c.score
          BY <2>3
        <4>2. j \in 1..n /\ j <= i
          BY <2>3, <4>1
        <4>3. candidates[j].score >= candidates[i].score /\ candidates[j].score \in Int /\ candidates[i].score \in Int
          BY <2>3, <4>1, <4>2
        <4>4. candidates[j].score >= c.score
          BY <2>4, <4>1, <4>3
        <4> QED BY <2>3, <4>2, <4>4
      <3> HIDE DEF better
      <3> QED BY <2>3, <3>1, <3>2, BeginningIs
    <2>6. \A i \in 1..n : candidates[i].score >= c.score <=> i <= m
      <3>1. \A i \in 1..n : i \in better <=> candidates[i].score >= c.score
        BY <2>3
      <3> HIDE DEF better, m
      <3> QED BY <2>3, <2>5, <3>1
    <2> HIDE DEF better, m, t, n
    <2>7. /\ t \in Seq(Scored) /\ Len(t) = n + 1 /\ DOMAIN t = 1..n + 1
          /\ \A i \in 1..n + 1 : t[i] = IF i < m + 1 THEN candidates[i] ELSE IF i = m + 1 THEN c ELSE candidates[i - 1]
      <3>1. m + 1 \in 1..Len(candidates) + 1
        BY <2>3, <2>5 DEF n
      <3>2. Inserted(Harvest!InsertAt(candidates, m + 1, c), Scored, candidates, m + 1, c)
        BY <2>1, <2>3, <3>1, InsertedIs
      <3>3. Inserted(t, Scored, candidates, m + 1, c)
        BY <2>2, <3>2 DEF t
      <3>4. t \in Seq(Scored) /\ Len(t) = n + 1
        BY <3>3 DEF Inserted, n
      <3>5. \A i \in 1..n + 1 : t[i] = IF i < m + 1 THEN candidates[i] ELSE IF i = m + 1 THEN c ELSE candidates[i - 1]
        BY <3>3 DEF Inserted, n
      <3> QED BY <3>4, <3>5
    <2>8. ASSUME NEW i \in 1..n + 1
          PROVE  \/ i <= m /\ i \in 1..n /\ t[i] = candidates[i]
                 \/ i = m + 1 /\ t[i] = c
                 \/ i > m + 1 /\ i - 1 \in 1..n /\ i - 1 > m /\ t[i] = candidates[i - 1]
      BY <2>3, <2>5, <2>7
    <2>9. \A i \in 1..n + 1 : BlockedScoresLow(t[i]) /\ t[i].score \in Int
      BY <2>1, <2>3, <2>4, <2>8
    <2>10. ASSUME NEW i \in 1..n + 1, NEW j \in 1..n + 1, i <= j PROVE t[i].score >= t[j].score
      <3>0. m \in Nat /\ i \in Nat /\ j \in Nat
        BY <2>5
      <3>1. CASE i <= m /\ i \in 1..n /\ t[i] = candidates[i]
        <4>1. candidates[i].score \in Int /\ candidates[i].score >= c.score
          BY <2>3, <2>6, <3>1
        <4>2. j > m + 1 /\ j - 1 \in 1..n => candidates[i].score >= candidates[j - 1].score
          BY <2>3, <3>0, <3>1
        <4>3. j \in 1..n => candidates[i].score >= candidates[j].score
          BY <2>3, <2>10, <3>1
        <4> QED BY <2>8, <3>1, <4>1, <4>2, <4>3
      <3>2. CASE i = m + 1 /\ t[i] = c
        <4>1. j > m + 1 /\ j - 1 \in 1..n /\ j - 1 > m => c.score >= candidates[j - 1].score
          BY <2>3, <2>4, <2>6, <3>0
        <4> QED BY <2>4, <2>8, <2>10, <3>0, <3>2, <4>1
      <3>3. CASE i > m + 1 /\ i - 1 \in 1..n /\ i - 1 > m /\ t[i] = candidates[i - 1]
        <4>1. j > m + 1 /\ j - 1 \in 1..n /\ t[j] = candidates[j - 1]
          BY <2>8, <2>10, <3>0, <3>3
        <4>2. i - 1 <= j - 1
          BY <2>10, <3>0
        <4>3. candidates[i - 1].score >= candidates[j - 1].score
          BY <2>3, <3>3, <4>1, <4>2
        <4> QED BY <3>3, <4>1, <4>3
      <3> QED BY <2>8, <3>1, <3>2, <3>3
    <2> QED BY <1>2, <2>7, <2>9, <2>10 DEF HarvestInv, t
  <1> QED BY <1>3, <1>4, <1>5

LEMMA CandidatesAre ==
  ASSUME HarvestInv
  PROVE  /\ Len(candidates) \in Nat /\ DOMAIN candidates = 1..Len(candidates)
         /\ \A i \in DOMAIN candidates :
                /\ candidates[i].saving \in Nat /\ candidates[i].score \in Int
                /\ candidates[i].blocked \in BOOLEAN /\ BlockedScoresLow(candidates[i])
         /\ \A i, j \in DOMAIN candidates : i <= j => candidates[i].score >= candidates[j].score
  <1>1. candidates \in Seq(Scored)
    BY DEF HarvestInv
  <1>2. \A i \in DOMAIN candidates : candidates[i] \in Scored
    BY <1>1
  <1>3. \A x \in Scored : x.saving \in Nat /\ x.score \in Int /\ x.blocked \in BOOLEAN
    BY DEF Scored
  <1> QED BY <1>1, <1>2, <1>3 DEF HarvestInv

\* An urgent list has something that can be harvested and saves something.
LEMMA UrgentHasOne ==
  ASSUME HarvestInv, Harvest!OverallSeverity # "info"
  PROVE  \E i \in DOMAIN candidates : ~candidates[i].blocked /\ candidates[i].saving > 0
  <1> DEFINE D == DOMAIN candidates
             u == [i \in D |-> IF candidates[i].blocked THEN 0 ELSE candidates[i].saving]
  <1>1. Harvest!Saving = SumOf(u, D)
    <2>1. Harvest!Saving = Harvest!SumFunction(u)
      BY DEF Harvest!Saving
    <2>2. DOMAIN u = D
      OBVIOUS
    <2> HIDE DEF u, D
    <2> QED BY <2>1, <2>2, SumsTaken
  <1>2. IsFiniteSet(D)
    <2>1. 1 \in Int /\ Len(candidates) \in Int /\ D = 1..Len(candidates)
      BY CandidatesAre
    <2> HIDE DEF D
    <2> QED BY <2>1, FS_Interval
  <1>3. SUFFICES ASSUME \A i \in D : candidates[i].blocked \/ ~(candidates[i].saving > 0) PROVE FALSE
    OBVIOUS
  <1>4. \A i \in D : u[i] = 0
    BY <1>3, CandidatesAre
  <1>5. SumOf(u, D) = 0
    <2> HIDE DEF u, D
    <2> QED BY <1>2, <1>4, ZeroSum
  <1> HIDE DEF u, D
  <1>11. Harvest!OverallSeverity = "info"
    BY <1>1, <1>5 DEF Harvest!OverallSeverity
  <1> QED BY <1>11

LEMMA BlockedIsLast == ASSUME HarvestInv PROVE Harvest!BlockedRankLast
  <1>1. ASSUME NEW i \in DOMAIN candidates, NEW j \in DOMAIN candidates,
               candidates[i].blocked, ~candidates[j].blocked, candidates[j].saving > 0
        PROVE  j < i
    <2>1. candidates[i].score <= 1000 /\ candidates[j].score > 1000
          /\ candidates[i].score \in Int /\ candidates[j].score \in Int
      BY <1>1, CandidatesAre DEF BlockedScoresLow
    <2>2. i \in Int /\ j \in Int /\ (i <= j => candidates[i].score >= candidates[j].score)
      BY CandidatesAre
    <2> QED BY <2>1, <2>2
  <1>2. ASSUME NEW i \in DOMAIN candidates, NEW j \in DOMAIN candidates,
               candidates[i].blocked, ~candidates[j].blocked, candidates[j].saving > 10
        PROVE  j < i
    <2>1. candidates[j].saving > 0
      BY <1>2, CandidatesAre
    <2> QED BY <1>1, <1>2, <2>1
  <1>3. ASSUME Harvest!OverallSeverity # "info" PROVE ~candidates[1].blocked
    <2>1. PICK j \in DOMAIN candidates : ~candidates[j].blocked /\ candidates[j].saving > 0
      BY <1>3, UrgentHasOne
    <2>2. 1 \in DOMAIN candidates /\ ~(j < 1)
      BY CandidatesAre
    <2> QED BY <1>1, <2>1, <2>2
  <1> QED BY <1>2, <1>3 DEF Harvest!BlockedRankLast

------------------------------------------------------------------------------
(* The factor model *)

\* SetToSeq lists every member of a finite set once.
LEMMA ListsAll ==
  ASSUME NEW S, IsFiniteSet(S)
  PROVE  LET s == Factor!SetToSeq(S) IN
         /\ s \in Seq(S) /\ Len(s) = Cardinality(S) /\ Factor!Range(s) = S
  <1> DEFINE s == Factor!SetToSeq(S)
             n == Cardinality(S)
             I == {s[i] : i \in 1..n}
  <1>1. n \in Nat /\ Factor!Cardinality(S) = n /\ ExistsBijection(1..n, S)
    BY FS_CardinalityType, Cardinalities
  <1>2. PICK f \in Bijection(1..n, S) : TRUE
    BY <1>1 DEF ExistsBijection
  <1>3. f \in [1..n -> S] /\ \A i, k \in 1..n : f[i] = f[k] => i = k
    BY <1>2 DEF Bijection, Injection, IsInjective
  <1>4. s \in [1..n -> S] /\ \A i, k \in 1..n : s[i] = s[k] => i = k
    <2>1. s = CHOOSE g \in [1..n -> S] : Factor!IsInjective(g)
      BY <1>1 DEF Factor!SetToSeq
    <2>2. Factor!IsInjective(f)
      BY <1>3 DEF Factor!IsInjective
    <2> HIDE DEF s, n
    <2>3. s \in [1..n -> S] /\ Factor!IsInjective(s)
      BY <1>3, <2>1, <2>2
    <2> QED BY <2>3 DEF Factor!IsInjective
  <1> HIDE DEF s, n
  <1>5. s \in Bijection(1..n, I) /\ I \in SUBSET S
    BY <1>4 DEF Bijection, Injection, Surjection, IsInjective
  <1>6. Cardinality(I) = n
    <2>1. IsFiniteSet(1..n) /\ Cardinality(1..n) = n
      BY <1>1, FS_Interval
    <2>2. ExistsBijection(1..n, I)
      BY <1>5 DEF ExistsBijection
    <2> HIDE DEF I
    <2> QED BY <2>1, <2>2, FS_Bijection
  <1>7. I = S
    BY <1>5, <1>6, FS_Subset DEF n
  <1>8. s \in Seq(S) /\ Len(s) = n /\ DOMAIN s = 1..n
    BY <1>1, <1>4, SeqDef
  <1> QED BY <1>7, <1>8 DEF Factor!Range, s, n

LEMMA CountGrows ==
  ASSUME NEW S, IsFiniteSet(S), NEW T \in SUBSET S, NEW U \in SUBSET T
  PROVE  Cardinality(U) \in Nat /\ Cardinality(T) \in Nat /\ Cardinality(U) <= Cardinality(T)
  BY FS_Subset, FS_CardinalityType

\* The values of the peers, the smallest first.
Listed(P) == Len(Factor!SetToSeq(P))
InOrder(value, n) ==
    LET order == Factor!SortBy(1..n, LAMBDA i, k : value[i] < value[k] \/ (value[i] = value[k] /\ i < k))
    IN [k \in 1..n |-> value[order[k]]]
Sorted(P, sf) == InOrder([i \in 1..Listed(P) |-> raw[Factor!SetToSeq(P)[i]][sf]], Listed(P))

Clipped(v, n, x) ==
    LET p5 == 20 * v[1] + (n - 1) * (v[2] - v[1])
        p95 == 20 * v[n] - (n - 1) * (v[n] - v[n - 1])
    IN Factor!Most(p5, Factor!Least(p95, 20 * x))
Under(v, n, c) == {i \in 1..n : 20 * v[i] < c}
Level(v, n, c) == {i \in 1..n : 20 * v[i] = c}
Percentile(v, n, x) ==
    IF n = 1 \/ v[1] = v[n] THEN 50
    ELSE (50 * (2 * Cardinality(Under(v, n, Clipped(v, n, x)))
                + Cardinality(Level(v, n, Clipped(v, n, x))))) \div n

LEMMA RankIsPercentile ==
  ASSUME NEW t, NEW sf
  PROVE  Factor!Rank(t, sf)
           = Percentile(Sorted(Factor!GetPeers(t, sf), sf), Listed(Factor!GetPeers(t, sf)), raw[t][sf])
  <1> DEFINE P == Factor!GetPeers(t, sf)
             v == Sorted(P, sf)
             n == Listed(P)
             c == Clipped(v, n, raw[t][sf])
  <1>1. Factor!Rank(t, sf)
          = IF n = 1 \/ v[1] = v[n] THEN 50
            ELSE (50 * (2 * Factor!Cardinality(Under(v, n, c)) + Factor!Cardinality(Level(v, n, c)))) \div n
    <2> HIDE DEF Factor!GetPeers, Factor!SetToSeq, Factor!SortBy, Factor!Cardinality, Factor!Most, Factor!Least
    <2> QED BY DEF Factor!Rank, Sorted, InOrder, Listed, Clipped, Under, Level
  <1>2. Factor!Cardinality(Under(v, n, c)) = Cardinality(Under(v, n, c))
        /\ Factor!Cardinality(Level(v, n, c)) = Cardinality(Level(v, n, c))
    BY Cardinalities
  <1> HIDE DEF v, n, c, P
  <1>3. Factor!Rank(t, sf)
          = IF n = 1 \/ v[1] = v[n] THEN 50
            ELSE (50 * (2 * Cardinality(Under(v, n, c)) + Cardinality(Level(v, n, c)))) \div n
    BY <1>1, <1>2
  <1> QED BY <1>3 DEF Percentile, v, n, c, P

LEMMA SortedAreInt ==
  ASSUME NEW P, IsFiniteSet(P), P # {}, NEW sf, \A p \in P : raw[p][sf] \in Int
  PROVE  Listed(P) \in Nat \ {0} /\ \A k \in 1..Listed(P) : Sorted(P, sf)[k] \in Int
  <1> DEFINE peers == Factor!SetToSeq(P)
             n == Listed(P)
             D == 1..n
             value == [i \in D |-> raw[peers[i]][sf]]
             w == [i \in D |-> 0 - value[i]]
             before(i, k) == value[i] < value[k] \/ (value[i] = value[k] /\ i < k)
             B == {p \in D \X D : w[p[1]] > w[p[2]] \/ (w[p[1]] = w[p[2]] /\ p[1] < p[2])}
             order == Factor!SortBy(D, before)
             v == [k \in D |-> value[order[k]]]
  <1>1. n \in Nat \ {0} /\ \A i \in D : peers[i] \in P
    <2>2. peers \in Seq(P) /\ Len(peers) = Cardinality(P)
      BY ListsAll
    <2>3. Cardinality(P) \in Nat \ {0}
      BY FS_CardinalityType, FS_EmptySet
    <2> HIDE DEF peers
    <2>4. \A i \in 1..Len(peers) : peers[i] \in P
      BY <2>2
    <2> QED BY <2>2, <2>3, <2>4 DEF Listed, peers
  <1>2. Sorted(P, sf) = v
    BY DEF Sorted, InOrder, Listed
  <1>3. \A i \in D : value[i] \in Int
    BY <1>1
  <1> HIDE DEF peers, n, value
  <1>4. w \in [D -> Int]
    BY <1>3
  <1>5. Orders(B, D)
    <2> HIDE DEF w
    <2> QED BY <1>1, <1>4, OutscoresOrders
  <1>6. \A i, k \in D : <<i, k>> \in B <=> before(i, k)
    BY <1>3
  <1> HIDE DEF w, B
  <1>7. IsFiniteSet(D) /\ Cardinality(D) = n /\ Factor!Cardinality(D) = n
    BY <1>1, FS_Interval, Cardinalities
  <1>8. order = [m \in D |-> CHOOSE x \in D : Factor!Cardinality({y \in D : before(y, x)}) = m - 1]
    BY <1>7 DEF Factor!SortBy
  <1> HIDE DEF order
  <1>9. ASSUME NEW m \in D PROVE order[m] \in D
    <2>1. ASSUME NEW x \in D PROVE Place(B, D, x) = Factor!Cardinality({y \in D : before(y, x)})
      <3>1. {y \in D : <<y, x>> \in B} = {y \in D : before(y, x)}
        <4> HIDE DEF before
        <4> QED BY <1>6
      <3> QED BY <3>1, Cardinalities DEF Place
    <2>2. \E x \in D : Place(B, D, x) = m - 1
      <3>1. m \in 1..Cardinality(D)
        BY <1>7
      <3> HIDE DEF D
      <3> QED BY <1>5, <1>7, <3>1, PlacesFilled
    <2>3. order[m] = CHOOSE x \in D : Factor!Cardinality({y \in D : before(y, x)}) = m - 1
      BY <1>8
    <2> HIDE DEF before, D
    <2> QED BY <2>1, <2>2, <2>3
  <1>10. \A k \in D : v[k] \in Int
    BY <1>3, <1>9
  <1> HIDE DEF v
  <1> QED BY <1>1, <1>2, <1>10 DEF n

\* A higher value among the same peers does not rank lower, clipped or not.
LEMMA PercentileGrows ==
  ASSUME NEW n \in Nat \ {0}, NEW v, \A k \in 1..n : v[k] \in Int,
         NEW x \in Int, NEW y \in Int, x <= y
  PROVE  /\ Percentile(v, n, x) \in Int /\ Percentile(v, n, y) \in Int
         /\ Percentile(v, n, x) <= Percentile(v, n, y)
  <1>1. CASE n = 1 \/ v[1] = v[n]
    BY <1>1 DEF Percentile
  <1>2. CASE ~(n = 1 \/ v[1] = v[n])
    <2> DEFINE c == Clipped(v, n, x)
               d == Clipped(v, n, y)
    <2>1. c \in Int /\ d \in Int /\ c <= d
      <3> DEFINE p == 20 * v[1] + (n - 1) * (v[2] - v[1])
                 q == 20 * v[n] - (n - 1) * (v[n] - v[n - 1])
      <3>1. p \in Int /\ q \in Int
        <4>1. v[1] \in Int /\ v[2] \in Int /\ v[n] \in Int /\ v[n - 1] \in Int /\ n - 1 \in Int
          BY <1>2
        <4>2. v[2] - v[1] \in Int /\ v[n] - v[n - 1] \in Int
          BY <4>1
        <4> DEFINE a == v[2] - v[1]
                   b == v[n] - v[n - 1]
                   m == n - 1
        <4>3. a \in Int /\ b \in Int /\ m \in Int
          BY <4>1, <4>2
        <4> HIDE DEF a, b, m
        <4>4. m * a \in Int /\ m * b \in Int
          BY <4>3, SMT
        <4>5. p = 20 * v[1] + m * a /\ q = 20 * v[n] - m * b
          BY DEF a, b, m
        <4> QED BY <4>1, <4>4, <4>5
      <3>2. c = Factor!Most(p, Factor!Least(q, 20 * x)) /\ d = Factor!Most(p, Factor!Least(q, 20 * y))
        BY DEF Clipped
      <3> HIDE DEF p, q, c, d
      <3> QED BY <3>1, <3>2 DEF Factor!Most, Factor!Least
    <2> HIDE DEF c, d
    <2> DEFINE i == Cardinality(Under(v, n, c))
               j == Cardinality(Under(v, n, d))
               k == Cardinality(Level(v, n, c))
               l == Cardinality(Level(v, n, d))
    <2>2. IsFiniteSet(1..n)
      BY FS_Interval
    <2>3. i \in Nat /\ j \in Nat /\ i <= j
      <3>1. Under(v, n, d) \in SUBSET (1..n) /\ Under(v, n, c) \in SUBSET Under(v, n, d)
        BY <2>1 DEF Under
      <3> QED BY <2>2, <3>1, CountGrows
    <2>4. k \in Nat /\ l \in Nat
      <3>1. Level(v, n, c) \in SUBSET (1..n) /\ Level(v, n, d) \in SUBSET (1..n)
        BY DEF Level
      <3> QED BY <2>2, <3>1, CountGrows
    <2>5. i + k <= j + l
      <3> DEFINE U == Under(v, n, c) \cup Level(v, n, c)
                 V == Under(v, n, d) \cup Level(v, n, d)
      <3>1. V \in SUBSET (1..n) /\ U \in SUBSET V
        BY <2>1 DEF Under, Level
      <3>2. Cardinality(U) <= Cardinality(V)
        <4> HIDE DEF U, V
        <4> QED BY <2>2, <3>1, CountGrows
      <3>3. Cardinality(U) = i + k
        <4>1. /\ Under(v, n, c) \cap Level(v, n, c) = {}
              /\ Under(v, n, c) \in SUBSET (1..n) /\ Level(v, n, c) \in SUBSET (1..n)
          BY <2>1 DEF Under, Level
        <4>2. IsFiniteSet(Under(v, n, c)) /\ IsFiniteSet(Level(v, n, c))
          BY <2>2, <4>1, FS_Subset
        <4> HIDE DEF i, k
        <4>3. Cardinality(Under(v, n, c) \cup Level(v, n, c))
                = Cardinality(Under(v, n, c)) + Cardinality(Level(v, n, c))
                  - Cardinality(Under(v, n, c) \cap Level(v, n, c))
          BY <4>2, FS_Union
        <4>4. Cardinality(Under(v, n, c) \cap Level(v, n, c)) = 0
          BY <4>1, FS_EmptySet
        <4>5. Cardinality(Under(v, n, c) \cup Level(v, n, c)) = i + (k - 0)
          BY <4>3, <4>4 DEF i, k
        <4> QED BY <2>3, <2>4, <4>5
      <3>4. Cardinality(V) = j + l
        <4>1. /\ Under(v, n, d) \cap Level(v, n, d) = {}
              /\ Under(v, n, d) \in SUBSET (1..n) /\ Level(v, n, d) \in SUBSET (1..n)
          BY <2>1 DEF Under, Level
        <4>2. IsFiniteSet(Under(v, n, d)) /\ IsFiniteSet(Level(v, n, d))
          BY <2>2, <4>1, FS_Subset
        <4> HIDE DEF j, l
        <4>3. Cardinality(Under(v, n, d) \cup Level(v, n, d))
                = Cardinality(Under(v, n, d)) + Cardinality(Level(v, n, d))
                  - Cardinality(Under(v, n, d) \cap Level(v, n, d))
          BY <4>2, FS_Union
        <4>4. Cardinality(Under(v, n, d) \cap Level(v, n, d)) = 0
          BY <4>1, FS_EmptySet
        <4>5. Cardinality(Under(v, n, d) \cup Level(v, n, d)) = j + (l - 0)
          BY <4>3, <4>4 DEF j, l
        <4> QED BY <2>3, <2>4, <4>5
      <3> QED BY <3>2, <3>3, <3>4
    <2>6. Percentile(v, n, x) = (50 * (2 * i + k)) \div n /\ Percentile(v, n, y) = (50 * (2 * j + l)) \div n
      BY <1>2 DEF Percentile, c, d
    <2> HIDE DEF i, j, k, l
    <2> DEFINE a == 50 * (2 * i + k)
               b == 50 * (2 * j + l)
    <2>7. a \in Int /\ b \in Int /\ a <= b
      BY <2>3, <2>4, <2>5
    <2> HIDE DEF a, b
    <2>8. a \div n \in Int /\ b \div n \in Int /\ a \div n <= b \div n
      BY <2>7, ShareGrows
    <2> QED BY <2>6, <2>8 DEF a, b
  <1> QED BY <1>1, <1>2

FactorInv ==
    /\ raw \in [Universe -> [SubFactors -> Values \cup {-1}]]
    /\ subWeights \in [SubFactors -> 1..2]
    /\ \/ scores = <<>>
       \/ scores = [t \in Universe |-> IF Factor!Active THEN [score |-> Factor!Score(t), reliability |-> Factor!Reliability(t)]
                                      ELSE [score |-> 5000, reliability |-> 0]]

\* Two of one industry with the same data, the first of which is worse in nothing.
NotWorse(t, u) ==
    /\ Industry[t] = Industry[u] /\ MarketSector[t] = MarketSector[u]
    /\ Factor!Known(t) = Factor!Known(u)
    /\ \A sf \in Factor!Known(t) : ~Factor!Better(sf, raw[u][sf], raw[t][sf])

LEMMA SubScoreGrows ==
  ASSUME FactorInv, NEW t \in Universe, NEW u \in Universe, NotWorse(t, u),
         NEW sf \in Factor!Ranked(t)
  PROVE  /\ Factor!SubScore(t, sf) \in Int /\ Factor!SubScore(u, sf) \in Int
         /\ Factor!SubScore(u, sf) <= Factor!SubScore(t, sf)
  <1> DEFINE P == Factor!GetPeers(t, sf)
             v == Sorted(P, sf)
             n == Listed(P)
  <1>1. sf \in SubFactors /\ sf \in Factor!Known(t) /\ sf \in Factor!Known(u)
    BY DEF Factor!Ranked, Factor!Known, NotWorse
  <1>2. t \in Factor!Holders(sf) /\ u \in Factor!Holders(sf)
    BY <1>1 DEF Factor!Known, Factor!Holders
  <1>3. \A p \in Factor!Holders(sf) : p \in Universe /\ raw[p][sf] \in Int
    <2> SUFFICES ASSUME NEW p \in Factor!Holders(sf) PROVE p \in Universe /\ raw[p][sf] \in Int
      OBVIOUS
    <2>1. p \in Universe
      BY DEF Factor!Holders
    <2>2. raw[p] \in [SubFactors -> Values \cup {-1}]
      BY <2>1 DEF FactorInv
    <2>3. raw[p][sf] \in Values \cup {-1}
      BY <1>1, <2>2
    <2> QED BY <2>1, <2>3, CalculatorsAssumption DEF CalculatorsAssumption
  <1>4. P = Factor!GetPeers(u, sf)
    BY DEF Factor!GetPeers, NotWorse
  <1>5. t \in P /\ P \subseteq Factor!Holders(sf)
    <2>1. t \in {x \in Factor!Holders(sf) : Industry[x] = Industry[t]}
          /\ t \in {x \in Factor!Holders(sf) : MarketSector[x] = MarketSector[t]}
      BY <1>2
    <2> QED BY <1>2, <2>1 DEF Factor!GetPeers
  <1> HIDE DEF P, v, n
  <1>6. IsFiniteSet(P) /\ P # {} /\ \A p \in P : raw[p][sf] \in Int
    <2>1. IsFiniteSet(Universe) /\ P \subseteq Universe
      BY <1>3, <1>5, CalculatorsAssumption DEF CalculatorsAssumption
    <2> QED BY <1>3, <1>5, <2>1, FS_Subset
  <1>7. n \in Nat \ {0} /\ \A k \in 1..n : v[k] \in Int
    BY <1>6, SortedAreInt DEF v, n
  <1>8. Factor!Rank(t, sf) = Percentile(v, n, raw[t][sf]) /\ Factor!Rank(u, sf) = Percentile(v, n, raw[u][sf])
    BY <1>4, RankIsPercentile DEF v, n, P
  <1>9. raw[t][sf] \in Int /\ raw[u][sf] \in Int
    BY <1>2, <1>3
  <1> DEFINE r == Factor!Rank(t, sf)
             s == Factor!Rank(u, sf)
  <1>10. /\ r \in Int /\ s \in Int
         /\ raw[t][sf] <= raw[u][sf] => r <= s
         /\ raw[u][sf] <= raw[t][sf] => s <= r
    <2>1. \/ raw[t][sf] <= raw[u][sf] \/ raw[u][sf] <= raw[t][sf]
      BY <1>9
    <2> QED BY <1>7, <1>8, <1>9, <2>1, PercentileGrows
  <1>11. ~Factor!Better(sf, raw[u][sf], raw[t][sf])
    BY <1>1 DEF NotWorse
  <1>12. Factor!SubScore(t, sf) = IF sf \in LowerIsBetter THEN 100 - r ELSE r
    BY DEF Factor!SubScore
  <1>13. Factor!SubScore(u, sf) = IF sf \in LowerIsBetter THEN 100 - s ELSE s
    BY DEF Factor!SubScore
  <1> HIDE DEF r, s
  <1>14. CASE sf \in LowerIsBetter
    <2>1. s >= r
      BY <1>9, <1>10, <1>11, <1>14 DEF Factor!Better
    <2> QED BY <1>10, <1>12, <1>13, <1>14, <2>1
  <1>15. CASE sf \notin LowerIsBetter
    <2>1. s <= r
      BY <1>9, <1>10, <1>11, <1>15 DEF Factor!Better
    <2> QED BY <1>10, <1>12, <1>13, <1>15, <2>1
  <1> QED BY <1>14, <1>15

LEMMA RankedSame ==
  ASSUME FactorInv, NEW t \in Universe, NEW u \in Universe, NotWorse(t, u)
  PROVE  /\ Factor!Ranked(u) = Factor!Ranked(t) /\ Factor!Ranked(t) \in SUBSET SubFactors
         /\ IsFiniteSet(Factor!Ranked(t)) /\ Factor!Reliability(u) = Factor!Reliability(t)
  <1>1. Factor!Ranked(u) = Factor!Ranked(t)
    BY DEF Factor!Ranked, NotWorse
  <1>2. Factor!Ranked(t) \in SUBSET SubFactors
    BY DEF Factor!Ranked, Factor!Known
  <1>3. IsFiniteSet(SubFactors)
    BY CalculatorsAssumption DEF CalculatorsAssumption
  <1> QED BY <1>1, <1>2, <1>3, FS_Subset DEF Factor!Reliability

LEMMA FactorScoreGrows ==
  ASSUME FactorInv, NEW t \in Universe, NEW u \in Universe, NotWorse(t, u), Factor!Ranked(t) # {}
  PROVE  /\ Factor!FactorScore(t) \in Int /\ Factor!FactorScore(u) \in Int
         /\ Factor!FactorScore(u) <= Factor!FactorScore(t)
  <1> DEFINE K == Factor!Ranked(t)
             a == [sf \in K |-> (100 * subWeights[sf]) * Factor!SubScore(t, sf)]
             b == [sf \in K |-> (100 * subWeights[sf]) * Factor!SubScore(u, sf)]
             w == SumOf(subWeights, K)
  <1>1. Factor!Ranked(u) = K /\ K \in SUBSET SubFactors /\ IsFiniteSet(K)
    BY RankedSame
  <1>2. \A sf \in K : subWeights[sf] \in 1..2
    BY <1>1 DEF FactorInv
  <1>3. \A sf \in K : a[sf] \in Int /\ b[sf] \in Int /\ b[sf] <= a[sf]
    <2> SUFFICES ASSUME NEW sf \in K PROVE a[sf] \in Int /\ b[sf] \in Int /\ b[sf] <= a[sf]
      OBVIOUS
    <2> DEFINE x == Factor!SubScore(t, sf)
               y == Factor!SubScore(u, sf)
               k == 100 * subWeights[sf]
    <2>1. x \in Int /\ y \in Int /\ y <= x
      BY SubScoreGrows
    <2>2. a[sf] = k * x /\ b[sf] = k * y
      OBVIOUS
    <2>3. k \in Nat
      BY <1>2
    <2> HIDE DEF x, y, k
    <2>4. k * x \in Int /\ k * y \in Int /\ k * y <= k * x
      BY <2>1, <2>3, MultipleGrows
    <2> QED BY <2>2, <2>4
  <1>4. DOMAIN a = K /\ DOMAIN b = K
    OBVIOUS
  <1>5. Factor!FactorScore(t) = Factor!SumFunction(a) \div Factor!SumFunctionOnSet(subWeights, K)
    BY DEF Factor!FactorScore
  <1>6. Factor!FactorScore(u) = Factor!SumFunction(b) \div Factor!SumFunctionOnSet(subWeights, K)
    BY <1>1 DEF Factor!FactorScore
  <1> HIDE DEF a, b, K, w
  <1>7. Factor!FactorScore(t) = SumOf(a, K) \div w /\ Factor!FactorScore(u) = SumOf(b, K) \div w
    BY <1>4, <1>5, <1>6, SumsTaken DEF w
  <1>8. SumOf(a, K) \in Int /\ SumOf(b, K) \in Int /\ SumOf(b, K) <= SumOf(a, K)
    <2>1. Integral(a, K) /\ Integral(b, K)
      BY <1>3 DEF Integral
    <2> QED BY <1>1, <1>3, <2>1, SumInt, SumGrows
  <1>9. w \in Nat \ {0}
    <2>1. PICK sf \in K : TRUE
      BY DEF K
    <2>2. Integral(subWeights, K) /\ IsFiniteSet(K \ {sf}) /\ \A x \in K \ {sf} : subWeights[x] \in Nat
      BY <1>1, <1>2, FS_RemoveElement DEF Integral
    <2>3. w = subWeights[sf] + SumOf(subWeights, K \ {sf})
      BY <1>1, <2>2, SumTakes DEF w
    <2>4. SumOf(subWeights, K \ {sf}) \in Nat
      BY <2>2, SumNat
    <2> QED BY <1>2, <2>3, <2>4
  <1> QED BY <1>7, <1>8, <1>9, ShareGrows

\* Shrinkage and caps do not turn the order round.
LEMMA ScoreGrows ==
  ASSUME FactorInv, NEW t \in Universe, NEW u \in Universe, NotWorse(t, u)
  PROVE  Factor!Score(t) >= Factor!Score(u)
  <1> DEFINE K == Factor!Ranked(t)
             n == Cardinality(K)
             r == Factor!Reliability(t)
             f == Factor!FactorScore(t)
             g == Factor!FactorScore(u)
             x == 5000 + (r * (f - 5000)) \div 100
             y == 5000 + (r * (g - 5000)) \div 100
             S == {sf \in K : Factor!SubScore(t, sf) >= 50}
             T == {sf \in K : Factor!SubScore(u, sf) >= 50}
             i == Cardinality(S)
             j == Cardinality(T)
  <1>1. Factor!Ranked(u) = K /\ K \in SUBSET SubFactors /\ IsFiniteSet(K) /\ Factor!Reliability(u) = r
    BY RankedSame
  <1>2. n \in Nat /\ (K = {} <=> n = 0)
    BY <1>1, FS_CardinalityType, FS_EmptySet
  <1>3. Factor!Score(t) = CASE n = 0 -> 5000
                            [] n = 1 -> Factor!Least(x, 6500)
                            [] n > 1 /\ 2 * i < n -> Factor!Least(x, 7500)
                            [] OTHER -> x
    BY Cardinalities DEF Factor!Score
  <1>4. Factor!Score(u) = CASE n = 0 -> 5000
                            [] n = 1 -> Factor!Least(y, 6500)
                            [] n > 1 /\ 2 * j < n -> Factor!Least(y, 7500)
                            [] OTHER -> y
    BY <1>1, Cardinalities DEF Factor!Score
  <1>5. i \in Nat /\ j \in Nat /\ j <= i
    <2>1. S \in SUBSET K /\ T \in SUBSET S
      BY SubScoreGrows
    <2> HIDE DEF S, T, K
    <2> QED BY <1>1, <2>1, CountGrows
  <1>6. CASE K = {}
    <2>1. Factor!Score(t) = 5000 /\ Factor!Score(u) = 5000
      <3> HIDE DEF n, i, j, x, y, K
      <3> QED BY <1>2, <1>3, <1>4, <1>6
    <2> QED BY <2>1
  <1>7. CASE K # {}
    <2>1. f \in Int /\ g \in Int /\ g <= f
      BY <1>7, FactorScoreGrows
    <2>2. r \in Nat
      <3> DEFINE m == Cardinality(SubFactors)
                 e == 50 + (50 * Factor!Least(n, 3)) \div 3
      <3>1. r = (n * e) \div m
        BY Cardinalities DEF Factor!Reliability
      <3>2. m \in Nat \ {0}
        <4>1. IsFiniteSet(SubFactors) /\ SubFactors # {}
          BY <1>1, <1>7, CalculatorsAssumption DEF CalculatorsAssumption
        <4> QED BY <4>1, FS_CardinalityType, FS_EmptySet
      <3> HIDE DEF n, K, m, r
      <3>3. e \in Nat
        BY <1>2 DEF Factor!Least
      <3> HIDE DEF e
      <3>4. n * e \in Nat
        BY <1>2, <3>3, ProductGrows
      <3> QED BY <3>1, <3>2, <3>4, QuotientIsNat
    <2>3. x \in Int /\ y \in Int /\ y <= x
      <3> HIDE DEF f, g, r
      <3> DEFINE d == f - 5000
                 e == g - 5000
      <3>1. d \in Int /\ e \in Int /\ e <= d
        BY <2>1
      <3> HIDE DEF d, e
      <3>2. r * d \in Int /\ r * e \in Int /\ r * e <= r * d
        BY <2>2, <3>1, MultipleGrows
      <3> DEFINE p == r * d
                 q == r * e
      <3>3. x = 5000 + p \div 100 /\ y = 5000 + q \div 100
        BY DEF d, e
      <3>4. p \in Int /\ q \in Int /\ q <= p
        BY <3>2
      <3> HIDE DEF p, q, x, y
      <3> QED BY <3>3, <3>4
    <2> HIDE DEF n, i, j, x, y, K
    <2>4. n >= 1
      BY <1>2, <1>7
    <2>5. CASE n = 1
      <3>1. Factor!Score(t) = Factor!Least(x, 6500) /\ Factor!Score(u) = Factor!Least(y, 6500)
        BY <1>3, <1>4, <2>5
      <3> QED BY <2>3, <3>1 DEF Factor!Least
    <2>6. CASE n > 1
      <3>1. Factor!Score(t) = IF 2 * i < n THEN Factor!Least(x, 7500) ELSE x
        BY <1>2, <1>3, <2>6
      <3>2. Factor!Score(u) = IF 2 * j < n THEN Factor!Least(y, 7500) ELSE y
        BY <1>2, <1>4, <2>6
      <3>3. 2 * i < n => 2 * j < n
        BY <1>2, <1>5
      <3> QED BY <2>3, <3>1, <3>2, <3>3 DEF Factor!Least
    <2> QED BY <1>2, <2>4, <2>5, <2>6
  <1> QED BY <1>6, <1>7

LEMMA NotWorseScores == ASSUME FactorInv PROVE Factor!Dominance
  <1> SUFFICES ASSUME scores # <<>>, NEW t \in Universe, NEW u \in Universe, NotWorse(t, u)
               PROVE  scores[t].score >= scores[u].score
    BY DEF Factor!Dominance, NotWorse
  <1>1. scores = [x \in Universe |-> IF Factor!Active THEN [score |-> Factor!Score(x), reliability |-> Factor!Reliability(x)]
                                    ELSE [score |-> 5000, reliability |-> 0]]
    BY DEF FactorInv
  <1>2. CASE Factor!Active
    <2>1. scores[t].score = Factor!Score(t) /\ scores[u].score = Factor!Score(u)
      BY <1>1, <1>2
    <2> QED BY <2>1, ScoreGrows
  <1>3. CASE ~Factor!Active
    <2>1. scores[t].score = 5000 /\ scores[u].score = 5000
      BY <1>1, <1>3
    <2> QED BY <2>1
  <1> QED BY <1>2, <1>3

------------------------------------------------------------------------------
(* All calculators together *)

\* Inductive: what each calculator's properties need of its own state.
CalcInv == AlertType /\ ExposureType /\ TaxType /\ HarvestInv /\ FactorInv

LEMMA CalcInitInv == ASSUME CalcInit PROVE CalcInv
  <1>1. AlertType
    BY CalculatorsAssumption DEF CalcInit, Alert!Init, AlertType, CalculatorsAssumption
  <1>2. ExposureType
    <2>1. target \in Targets /\ exposure \in [Held -> {Lot * n : n \in 0..(100 \div Lot)}]
      BY DEF CalcInit, Exposed!Init, Held
    <2>2. \A x \in {Lot * n : n \in 0..(100 \div Lot)} : x \in Int
      <3> SUFFICES ASSUME NEW n \in 0..(100 \div Lot) PROVE Lot * n \in Int
        OBVIOUS
      <3>1. Lot \in Int /\ n \in Int
        BY CalculatorsAssumption DEF CalculatorsAssumption
      <3> QED BY <3>1
    <2> QED BY <2>1, <2>2 DEF ExposureType
  <1>3. TaxType
    <2>1. Incomes \subseteq Income
      BY CalculatorsAssumption DEF CalculatorsAssumption, Income
    <2> QED BY <2>1 DEF CalcInit, Tax!Init, TaxType
  <1>4. HarvestInv
    <2>1. trades \in SUBSET Trades /\ gains \in Gains /\ rates \in Rates /\ candidates = <<>>
      BY DEF CalcInit, Harvest!Init
    <2>2. candidates \in Seq(Scored) /\ DOMAIN candidates = {}
      BY <2>1
    <2> QED BY <2>1, <2>2 DEF HarvestInv
  <1>5. FactorInv
    BY DEF CalcInit, Factor!Init, Factor!NoValue, Factor!CorrelationWeights, FactorInv
  <1> QED BY <1>1, <1>2, <1>3, <1>4, <1>5 DEF CalcInv

LEMMA RankIsPercentileAfter ==
  ASSUME NEW t, NEW sf
  PROVE  Factor!Rank(t, sf)'
           = Percentile(Sorted(Factor!GetPeers(t, sf), sf)', Listed(Factor!GetPeers(t, sf))', raw[t][sf]')
  <1> DEFINE P == Factor!GetPeers(t, sf)'
             n == Listed(P)
             v == InOrder([i \in 1..n |-> raw'[Factor!SetToSeq(P)[i]][sf]], n)
             c == Clipped(v, n, raw'[t][sf])
  <1>1. Factor!Rank(t, sf)'
          = IF n = 1 \/ v[1] = v[n] THEN 50
            ELSE (50 * (2 * Factor!Cardinality(Under(v, n, c)) + Factor!Cardinality(Level(v, n, c)))) \div n
    BY DEF Factor!Rank, InOrder, Listed, Clipped, Under, Level, Factor!SortBy
  <1>2. Factor!Cardinality(Under(v, n, c)) = Cardinality(Under(v, n, c))
        /\ Factor!Cardinality(Level(v, n, c)) = Cardinality(Level(v, n, c))
    BY Cardinalities
  <1>3. Sorted(Factor!GetPeers(t, sf), sf)' = v /\ Listed(Factor!GetPeers(t, sf))' = n
    BY DEF Sorted, Listed
  <1> HIDE DEF v, n, c, P
  <1>4. Factor!Rank(t, sf)'
          = IF n = 1 \/ v[1] = v[n] THEN 50
            ELSE (50 * (2 * Cardinality(Under(v, n, c)) + Cardinality(Level(v, n, c)))) \div n
    BY <1>1, <1>2
  <1> QED BY <1>3, <1>4 DEF Percentile, c

\* What a score is reads no more of the state than the raw values and the weights.
LEMMA FactorReads ==
  ASSUME raw' = raw, subWeights' = subWeights
  PROVE  /\ Factor!Active' = Factor!Active
         /\ \A t \in Universe : Factor!Score(t)' = Factor!Score(t) /\ Factor!Reliability(t)' = Factor!Reliability(t)
  <1>1. \A sf : Factor!Holders(sf)' = Factor!Holders(sf)
    BY DEF Factor!Holders, Factor!Has
  <1>2. \A t : Factor!Known(t)' = Factor!Known(t)
    BY DEF Factor!Known, Factor!Has
  <1>3. Factor!Active' = Factor!Active
    <2>1. Factor!Coverage' = Factor!Coverage
      BY <1>2 DEF Factor!Coverage
    <2>2. Factor!CountViableSubFactors' = Factor!CountViableSubFactors
      BY <1>1 DEF Factor!CountViableSubFactors
    <2> QED BY <2>1, <2>2 DEF Factor!Active
  <1>4. ASSUME NEW t \in Universe
        PROVE  Factor!Score(t)' = Factor!Score(t) /\ Factor!Reliability(t)' = Factor!Reliability(t)
    <2>1. Factor!Ranked(t)' = Factor!Ranked(t)
      BY <1>1, <1>2 DEF Factor!Ranked
    <2>2. ASSUME NEW sf PROVE Factor!SubScore(t, sf)' = Factor!SubScore(t, sf)
      <3> DEFINE P == Factor!GetPeers(t, sf)
      <3>1. P' = P
        BY <1>1 DEF Factor!GetPeers
      <3>2. Factor!Rank(t, sf) = Percentile(Sorted(P, sf), Listed(P), raw[t][sf])
        BY RankIsPercentile
      <3>3. Factor!Rank(t, sf)' = Percentile(Sorted(P, sf)', Listed(P)', raw[t][sf]')
        BY RankIsPercentileAfter
      <3>4. Sorted(P, sf)' = Sorted(P, sf) /\ Listed(P)' = Listed(P)
        <4> HIDE DEF P
        <4> QED BY <3>1 DEF Sorted, Listed
      <3> HIDE DEF P
      <3>5. Factor!Rank(t, sf)' = Factor!Rank(t, sf)
        BY <3>2, <3>3, <3>4
      <3> QED BY <3>5 DEF Factor!SubScore
    <2>3. Factor!FactorScore(t)' = Factor!FactorScore(t)
      BY <2>1, <2>2 DEF Factor!FactorScore
    <2>4. Factor!Reliability(t)' = Factor!Reliability(t)
      BY <2>1 DEF Factor!Reliability
    <2> QED BY <2>1, <2>2, <2>3, <2>4 DEF Factor!Score
  <1> QED BY <1>3, <1>4

\* A step of one calculator keeps its own part and leaves the others' state alone.
LEMMA CalcStepInv == ASSUME CalcInv, [CalcNext]_calcVars PROVE CalcInv'
  <1>1. UNCHANGED alertVars => AlertType'
    BY DEF CalcInv, AlertType, alertVars
  <1>2. UNCHANGED exposureVars => ExposureType'
    BY DEF CalcInv, ExposureType, exposureVars
  <1>3. UNCHANGED taxVars => TaxType'
    BY DEF CalcInv, TaxType, taxVars
  <1>4. UNCHANGED harvestVars => HarvestInv'
    BY DEF CalcInv, HarvestInv, BlockedScoresLow, harvestVars
  <1>5. UNCHANGED factorVars => FactorInv'
    <2> SUFFICES ASSUME UNCHANGED factorVars PROVE FactorInv'
      OBVIOUS
    <2>1. scores' = scores /\ raw' = raw /\ subWeights' = subWeights
      BY DEF factorVars
    <2>2. scores' = <<>> \/ scores' = [t \in Universe |-> IF Factor!Active THEN [score |-> Factor!Score(t), reliability |-> Factor!Reliability(t)]
                                      ELSE [score |-> 5000, reliability |-> 0]]
      BY <2>1 DEF CalcInv, FactorInv
    <2> QED BY <2>1, <2>2, FactorReads DEF CalcInv, FactorInv
  <1>6. CASE WeightStep
    BY <1>1, <1>2, <1>3, <1>4, <1>5, <1>6 DEF WeightStep, CalcInv
  <1>7. CASE TaxStep
    <2>1. TaxType'
      BY <1>7, ProposalsAreSmooth DEF TaxStep, CalcInv
    <2> QED BY <1>1, <1>2, <1>4, <1>5, <1>7, <2>1 DEF TaxStep, CalcInv
  <1>8. CASE HarvestStep
    <2>1. HarvestInv'
      BY <1>8, ScanKeeps DEF HarvestStep, Harvest!Next, CalcInv
    <2> QED BY <1>1, <1>2, <1>3, <1>5, <1>8, <2>1 DEF HarvestStep, CalcInv
  <1>9. CASE FactorStep
    <2>1. FactorInv'
      BY <1>9, FactorReads DEF FactorStep, Factor!Next, Factor!ScoreUniverse, CalcInv, FactorInv
    <2> QED BY <1>1, <1>2, <1>3, <1>4, <1>9, <2>1 DEF FactorStep, CalcInv
  <1>10. CASE AlertStep
    <2>1. AlertType'
      BY <1>10, CalculatorsAssumption
      DEF AlertStep, Alert!Next, Alert!NextDay, CalcInv, AlertType, CalculatorsAssumption
    <2> QED BY <1>2, <1>3, <1>4, <1>5, <1>10, <2>1 DEF AlertStep, CalcInv
  <1>11. CASE ExposureStep
    <2>1. PICK p \in Held, q \in Held : Exposed!Move(p, q)
      BY <1>11 DEF ExposureStep, Exposed!Next, Exposed!Trade, CalcInv, ExposureType
    <2>2. ExposureType'
      BY <2>1, MoveShifts DEF CalcInv, ExposureType
    <2> QED BY <1>1, <1>3, <1>4, <1>5, <1>11, <2>2 DEF ExposureStep, CalcInv
  <1>12. CASE UNCHANGED calcVars
    BY <1>1, <1>2, <1>3, <1>4, <1>5, <1>12 DEF calcVars, CalcInv
  <1> QED BY <1>6, <1>7, <1>8, <1>9, <1>10, <1>11, <1>12 DEF CalcNext

\* The invariant of the calculators' state, types and all: the list of harvest candidates
\* stays sorted by score (rank_opportunities), what a purchase blocks scores at most a
\* tenth of the full score, and the factor scores are those of the current values.
THEOREM CalcInvariant == CalcSpec => []CalcInv
  <1>1. CalcInit => CalcInv
    BY CalcInitInv
  <1>2. CalcInv /\ [CalcNext]_calcVars => CalcInv'
    BY CalcStepInv
  <1> QED BY <1>1, <1>2, PTL DEF CalcSpec

\* The ranking of harvests and of securities (rank_opportunities, score_universe),
\* whatever the lots, trades, peers, weights and values.
THEOREM RankingHolds == CalcSpec => []RankingSound
  <1>1. CalcInv => RankingSound
    BY BlockedIsLast, NotWorseScores DEF CalcInv, RankingSound
  <1> QED BY <1>1, CalcInvariant, PTL

\* What is left undone rises from day to day (firm_ranker), and no trade for the better
\* raises a severity of drift, concentration or cash (the check of each analytic).
THEOREM SeverityHolds == CalcSpec => SeverityFollows
  <1>1. CalcInv /\ [CalcNext]_calcVars => [Alert!NextDay => Alert!Rises]_alertVars
    <2> SUFFICES ASSUME CalcInv, Alert!NextDay PROVE Alert!Rises
      OBVIOUS
    <2> QED BY RisesDaily DEF CalcInv
  <1>2. CalcInv /\ [CalcNext]_calcVars => [Exposed!Eases]_exposureVars
    BY TradeEases DEF CalcInv
  <1> QED BY <1>1, <1>2, CalcInvariant, PTL DEF CalcSpec, SeverityFollows

\* No action of a scenario (tax_scenario_engine.py) meets a cliff: a dollar more or less
\* of income never moves the tax by more than the dearest dollar, in any order of actions.
THEOREM NoCliffHolds == CalcSpec => NoCliff
  <1>1. CalcInv /\ [CalcNext]_calcVars => [Tax!Propose => Tax!Smooth]_taxVars
    <2> SUFFICES ASSUME CalcInv, [CalcNext]_calcVars, Tax!Propose, ~UNCHANGED taxVars PROVE Tax!Smooth
      OBVIOUS
    <2>1. TaxStep
      BY DEF CalcNext, calcVars, WeightStep, TaxStep, HarvestStep, FactorStep, AlertStep, ExposureStep
    <2> QED BY <2>1, ProposalsAreSmooth DEF TaxStep, CalcInv
  <1> QED BY <1>1, CalcInvariant, PTL DEF CalcSpec, NoCliff

==============================================================================
