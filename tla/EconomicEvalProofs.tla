-------------------------- MODULE EconomicEvalProofs -------------------------
(***************************************************************************)
(* Proofs about the economic evaluation, for any battery, prices and       *)
(* forecasts: whatever a policy goes by, every hour it divides the whole   *)
(* of the power, keeps its battery in its band and sells within the cap in *)
(* every rolling day; the model with a right forecast is the oracle; and   *)
(* over the same hours the "even" policy is the backtest.                  *)
(*                                                                         *)
(* A run is capped by its discharge window, the property by its record:    *)
(* RunInv ties the two, since a window that drops what is older than a day *)
(* still holds what the record says the run sold in the last day.  SameInv *)
(* ties the "even" run to the backtest: the same battery, window of        *)
(* discharges and past prices, the one in fractions, the other in whole    *)
(* units.                                                                  *)
(***************************************************************************)
EXTENDS SameHours, BessProofs

-----------------------------------------------------------------------------
(* An evaluation.                                                          *)

\* The battery passed __post_init__, and prices and forecasts are those the evaluation
\* began with.
InEvaluation ==
  /\ ValidBattery(battery)
  /\ \E e \in Evaluations : battery = e.battery /\ actuals = e.actuals /\ forecasts = e.forecasts

\* The trailing windows hold prices.
TrailingTyped == \A l \in EvalLegs : shorts[l] \in Seq(Int) /\ baselines[l] \in Seq(Int)

\* What the battery and the series of an evaluation are.
LEMMA EvaluationFacts ==
  ASSUME InEvaluation
  PROVE  /\ battery.power \in Nat \ {0} /\ battery.commit \in Nat /\ battery.commit <= battery.power
         /\ battery.in \in Nat \ {0} /\ battery.out \in Nat \ {0}
         /\ battery.lo \in Int /\ battery.hi \in Int /\ battery.start \in Int
         /\ battery.lo <= battery.start /\ battery.start <= battery.hi
         /\ battery.cap # None => battery.cap \in Nat /\ battery.out * battery.cap \in Nat
         /\ battery.lookback \in Nat
         /\ \A l \in EvalLegs : IsSeries(actuals[l]) /\ IsSeries(forecasts[l])
<1>1. /\ {battery.power, battery.lo, battery.hi, battery.start, battery.in,
          battery.out, battery.commit} \subseteq Int
      /\ battery.cap \in Int \cup {None} /\ battery.lookback \in Nat
      /\ \A l \in EvalLegs : IsSeries(actuals[l]) /\ IsSeries(forecasts[l])
  BY EvaluationAssumption DEF InEvaluation
<1>2. battery.cap # None => battery.cap \in Nat
  BY <1>1 DEF InEvaluation, ValidBattery
<1>3. battery.out \in Nat \ {0}
  BY <1>1 DEF InEvaluation, ValidBattery
<1>4. battery.cap # None => battery.out * battery.cap \in Nat
  BY <1>2, <1>3
<1>. QED BY <1>1, <1>2, <1>3, <1>4 DEF InEvaluation, ValidBattery

\* The hours of the evaluation, in order; every leg has a price at each.
LEMMA TimesFacts ==
  ASSUME InEvaluation
  PROVE  \E n \in Nat :
           /\ DOMAIN EvalTimes = 1..n
           /\ \A k \in 1..n : EvalTimes[k] \in Int /\ \A l \in EvalLegs : EvalTimes[k] \in DOMAIN actuals[l]
           /\ \A j, k \in 1..n : j < k => EvalTimes[j] < EvalTimes[k]
<1> DEFINE U == {t \in DOMAIN actuals[Arbitrage] : \A l \in EvalLegs : t \in DOMAIN actuals[l]}
<1>1. U \in SUBSET Int /\ IsFiniteSet(U)
  <2>1. IsSeries(actuals[Arbitrage])
    BY EvaluationFacts DEF EvalLegs
  <2>2. U \subseteq DOMAIN actuals[Arbitrage]
    OBVIOUS
  <2>. QED BY <2>1, <2>2, FS_Subset DEF IsSeries
<1>2. EvalTimes = Ascending(U) /\ \A t \in U : \A l \in EvalLegs : t \in DOMAIN actuals[l]
  BY DEF EvalTimes
<1> HIDE DEF U
<1>3. /\ DOMAIN Ascending(U) = 1..Cardinality(U) /\ Cardinality(U) \in Nat
      /\ \A k \in DOMAIN Ascending(U) : Ascending(U)[k] \in U
      /\ \A j, k \in 1..Cardinality(U) : j < k => Ascending(U)[j] < Ascending(U)[k]
  BY <1>1, AscendingFrom, AscendingRises
<1>. QED BY <1>1, <1>2, <1>3

-----------------------------------------------------------------------------
(* The scores of a leg.                                                    *)

\* A normal level is a positive fraction, which a price may be divided by.
LEMMA NormalLevelFacts ==
  ASSUME TrailingTyped, NEW l \in EvalLegs, NormalLevel(l) # None
  PROVE  NormalLevel(l) \in Fractions /\ Inverted(NormalLevel(l)) \in Fractions
<1>1. baselines[l] \in Seq(Int) /\ baselines[l] # << >> /\ ~(SumOf(baselines[l]) <= 0)
  BY DEF NormalLevel, TrailingTyped
<1>2. Len(baselines[l]) \in Nat \ {0}
  <2>1. Len(baselines[l]) \in Nat /\ Len(baselines[l]) # 0
    BY <1>1, LenProperties, EmptySeq
  <2>. QED BY <2>1
<1>3. SumOf(baselines[l]) \in Nat \ {0}
  BY <1>1, SumOfType
<1>4. PICK n \in Nat \ {0}, d \in Nat \ {0} : n = SumOf(baselines[l]) /\ d = Len(baselines[l])
  BY <1>2, <1>3
<1>5. NormalLevel(l) = Frac(n, d)
  BY <1>1, <1>4 DEF NormalLevel
<1>. QED BY <1>5, FracIs, InvertedIs DEF Is

\* Both scores of a price, or of a missing one, are fractions.
LEMMA ScoreFacts ==
  ASSUME TrailingTyped, NEW l \in EvalLegs, NEW value \in Fractions \cup {None}
  PROVE  RatioStrength(value, l) \in Fractions /\ AbsDeviationStrength(value, l) \in Fractions
<1>1. Zero \in Fractions
  BY DEF Zero, Whole, Fractions
<1>2. CASE value = None \/ NormalLevel(l) = None
  BY <1>1, <1>2 DEF RatioStrength, AbsDeviationStrength
<1>3. CASE ~(value = None \/ NormalLevel(l) = None)
  <2> DEFINE level == NormalLevel(l)
             deviation == value ++ Minus(level)
             size == <<Magnitude(deviation[1]), deviation[2]>>
  <2>1. value \in Fractions /\ level \in Fractions /\ Inverted(level) \in Fractions
    BY <1>3, NormalLevelFacts
  <2>2. deviation \in Fractions
    BY <2>1, FractionsClosed
  <2>3. size \in Fractions
    <3> HIDE DEF deviation
    <3>. QED BY <2>2 DEF Fractions, Magnitude
  <2>4. AbsDeviationStrength(value, l) = size ** Inverted(level)
    BY <1>3 DEF AbsDeviationStrength
  <2>5. RatioStrength(value, l) = Clipped(value ** Inverted(level))
    BY <1>3 DEF RatioStrength
  <2> HIDE DEF size, level
  <2>6. size ** Inverted(level) \in Fractions
    BY <2>1, <2>3, FractionsClosed
  <2>7. Clipped(value ** Inverted(level)) \in Fractions
    BY <1>1, <2>1, FractionsClosed DEF Clipped
  <2>. QED BY <2>4, <2>5, <2>6, <2>7
<1>. QED BY <1>2, <1>3

\* Whatever a policy goes by, a leg has a strength.
LEMMA PolicyStrength ==
  ASSUME InEvaluation, TrailingTyped, NEW policy, NEW l \in EvalLegs, NEW t
  PROVE  Strength(policy, l, t) \in Fractions
<1>1. At(forecasts[l], t) \in Fractions \cup {None} /\ At(actuals[l], t) \in Fractions \cup {None}
  BY EvaluationFacts DEF At, IsSeries, Whole, Fractions
<1>2. RecentMean(l) \in Fractions \cup {None}
  <2>1. CASE shorts[l] = << >>
    BY <2>1 DEF RecentMean
  <2>2. CASE shorts[l] # << >>
    <3>1. shorts[l] \in Seq(Int)
      BY DEF TrailingTyped
    <3>2. Len(shorts[l]) \in Nat \ {0}
      <4>1. Len(shorts[l]) \in Nat /\ Len(shorts[l]) # 0
        BY <2>2, <3>1, LenProperties, EmptySeq
      <4>. QED BY <4>1
    <3>3. SumOf(shorts[l]) \in Int
      BY <3>1, SumOfType
    <3>4. Frac(SumOf(shorts[l]), Len(shorts[l])) \in Fractions
      BY <3>2, <3>3, FracIs DEF Is
    <3>. QED BY <2>2, <3>4 DEF RecentMean
  <2>. QED BY <2>1, <2>2
<1>3. LegRelativeStrength(shorts[l], baselines[l]) \in Fractions
  <2>1. LegRelativeStrength(shorts[l], baselines[l]) \in NonNegative
    BY StrengthFacts DEF TrailingTyped
  <2>. QED BY <2>1 DEF NonNegative, Fractions
<1>4. /\ RatioStrength(At(forecasts[l], t), l) \in Fractions
      /\ AbsDeviationStrength(At(forecasts[l], t), l) \in Fractions
  BY <1>1, ScoreFacts
<1>5. /\ RatioStrength(At(actuals[l], t), l) \in Fractions
      /\ AbsDeviationStrength(At(actuals[l], t), l) \in Fractions
  BY <1>1, ScoreFacts
<1>6. AbsDeviationStrength(RecentMean(l), l) \in Fractions
  BY <1>2, ScoreFacts
<1>. QED BY <1>3, <1>4, <1>5, <1>6 DEF Strength

-----------------------------------------------------------------------------
(* Dividing the power.                                                     *)

\* Shares, over one denominator, that add up to a total.
AddUp(g, S, total) ==
  \E d \in Nat \ {0} : \E nums :
    /\ OnInts(nums, S)
    /\ \A x \in S : Is(g[x], nums[x], d) /\ nums[x] >= 0
    /\ Is(total, SumFunctionOnSet(nums, S), d)

\* A split of a total by weights adds up to the total.
LEMMA SplitAddsUp ==
  ASSUME NEW S, IsFiniteSet(S), S # {}, NEW weights, DOMAIN weights = S,
         \A x \in S : weights[x] \in Fractions, NEW total \in NonNegative
  PROVE  DOMAIN WeightedSplit(weights, total) = S /\ AddUp(WeightedSplit(weights, total), S, total)
<1> DEFINE split == WeightedSplit(weights, total)
           clipped == [x \in S |-> Clipped(weights[x])]
           positive == SumOver(clipped)
<1>1. /\ DOMAIN split = S
      /\ \A x \in S : split[x] = IF total \preceq Zero THEN Zero
                                 ELSE IF positive \preceq Zero THEN total ** <<1, Cardinality(S)>>
                                 ELSE total ** (clipped[x] ** Inverted(positive))
  BY DEF WeightedSplit
<1>2. \A x \in S : clipped[x] \in NonNegative
  BY DEF Clipped, Zero, Whole, NonNegative, Fractions
<1>3. DOMAIN clipped = S
  OBVIOUS
<1> HIDE DEF clipped, split
<1>4. PICK d \in Nat \ {0} : \E nums : OnInts(nums, S) /\ \A x \in S : Is(clipped[x], nums[x], d)
  <2>1. \A x \in S : clipped[x] \in Fractions
    BY <1>2 DEF NonNegative, Fractions
  <2>. QED BY <2>1, CommonDenominator
<1>5. PICK nums : OnInts(nums, S) /\ \A x \in S : Is(clipped[x], nums[x], d)
  BY <1>4
<1>6. \A x \in S : nums[x] \in Nat
  BY <1>2, <1>5, AmountIs DEF OnInts
<1>7. PICK N \in Int : N = SumFunctionOnSet(nums, S) /\ Is(positive, N, d)
  BY <1>3, <1>5, SumOverCommon
<1>8. PICK p \in Nat, q \in Nat \ {0} : total = <<p, q>> /\ Is(total, p, q)
  BY DEF NonNegative, Is, Fractions
<1>9. Is(Zero, 0, q) /\ Is(Zero, 0, d) /\ Is(Zero, 0, 1)
  BY DEF Is, Fractions, Zero, Whole
<1>10. CASE total \preceq Zero
  <2> DEFINE none == [x \in S |-> 0]
  <2>1. p = 0
    BY <1>8, <1>9, <1>10, PrecedesIs
  <2>2. OnInts(none, S) /\ \A x \in S : none[x] = 0 /\ none[x] >= 0 /\ Is(split[x], none[x], q)
    BY <1>1, <1>9, <1>10 DEF OnInts
  <2> HIDE DEF none
  <2>3. SumFunctionOnSet(none, S) = 0
    <3>1. SumFunctionOnSet(none, {}) = SumFunctionOnSet(none, S)
      BY <2>2, SumIgnoresZeros
    <3>. QED BY <3>1, FS_EmptySet, SumUnfolds
  <2>4. Is(total, SumFunctionOnSet(none, S), q)
    BY <1>8, <2>1, <2>3
  <2>5. AddUp(split, S, total)
    BY <2>2, <2>4 DEF AddUp
  <2>. QED BY <1>1, <2>5 DEF split
<1>11. CASE ~(total \preceq Zero) /\ positive \preceq Zero
  <2> DEFINE c == Cardinality(S)
             ones == [x \in S |-> 1]
             each == [x \in S |-> p]
  <2>1. c \in Nat \ {0}
    BY FS_CardinalityType, FS_EmptySet
  <2>2. OnInts(ones, S) /\ OnInts(each, S) /\ \A x \in S : ones[x] = 1 /\ each[x] = p /\ each[x] >= 0
    BY DEF OnInts
  <2> HIDE DEF ones, each, c
  <2>3. SumFunctionOnSet(ones, S) = c
    BY <2>2, SumCounts DEF c
  <2>4. SumFunctionOnSet(each, S) = p * c
    <3>1. \A x \in S : each[x] = p * ones[x]
      BY <2>2
    <3>. QED BY <2>2, <2>3, <3>1, SumScaled
  <2>5. Is(total, p * c, q * c)
    BY <1>8, <2>1, IsScales
  <2>6. q * c \in Nat \ {0}
    BY <2>1
  <2>7. ASSUME NEW x \in S PROVE Is(split[x], each[x], q * c)
    <3>1. split[x] = total ** <<1, c>>
      BY <1>1, <1>11 DEF c
    <3>2. Is(<<1, c>>, 1, c)
      BY <2>1 DEF Is, Fractions
    <3>3. total ** <<1, c>> = Frac(p * 1, q * c)
      BY <1>8, <2>1, <3>2, TimesIs
    <3>4. p * 1 = p
      OBVIOUS
    <3>. QED BY <2>2, <2>6, <3>1, <3>3, <3>4, FracIs
  <2>8. AddUp(split, S, total)
    BY <2>2, <2>4, <2>5, <2>6, <2>7 DEF AddUp
  <2>. QED BY <1>1, <2>8 DEF split
<1>12. CASE ~(total \preceq Zero) /\ ~(positive \preceq Zero)
  <2>1. N \in Nat \ {0}
    <3>1. N > 0
      BY <1>7, <1>9, <1>12, PrecedesIs
    <3>. QED BY <3>1
  <2>2. Is(Inverted(positive), d, N)
    BY <1>7, <2>1, InvertedIs
  <2> DEFINE tops == [x \in S |-> p * nums[x]]
  <2>3. \A x \in S : tops[x] = p * nums[x] /\ tops[x] \in Nat
    BY <1>6, Product
  <2> HIDE DEF tops
  <2>4. OnInts(tops, S) /\ \A x \in S : tops[x] >= 0
    BY <2>3 DEF OnInts
  <2>5. SumFunctionOnSet(tops, S) = p * N
    BY <1>5, <1>7, <2>3, <2>4, SumScaled
  <2>6. q * N \in Nat \ {0} /\ Is(total, p * N, q * N)
    BY <1>8, <2>1, IsScales
  <2>7. ASSUME NEW x \in S PROVE Is(split[x], tops[x], q * N)
    <3>1. split[x] = total ** (clipped[x] ** Inverted(positive))
      BY <1>1, <1>12
    <3>2. PICK n \in Nat : n = nums[x]
      BY <1>6
    <3>3. n * d \in Nat /\ p * n \in Nat /\ p * (n * d) \in Nat
      OBVIOUS
    <3>4. d * N \in Nat \ {0} /\ q * (d * N) \in Nat \ {0}
      BY <2>1
    <3>5. Is(clipped[x] ** Inverted(positive), n * d, d * N)
      <4>1. Is(clipped[x], n, d)
        BY <1>5, <3>2
      <4>2. clipped[x] ** Inverted(positive) = Frac(n * d, d * N)
        BY <2>1, <2>2, <4>1, TimesIs
      <4>. QED BY <3>3, <3>4, <4>2, FracIs
    <3>6. split[x] = Frac(p * (n * d), q * (d * N))
      BY <1>8, <3>1, <3>3, <3>4, <3>5, TimesIs
    <3>7. (p * (n * d)) * (q * N) = (p * n) * (q * (d * N))
      <4>1. PICK M \in Nat : M = N
        BY <2>1
      <4>2. (p * (n * d)) * (q * M) = (p * n) * (q * (d * M))
        OBVIOUS
      <4>. QED BY <4>1, <4>2
    <3>8. split[x] = Frac(p * n, q * N)
      BY <2>6, <3>3, <3>4, <3>6, <3>7, FracSame
    <3>9. tops[x] = p * n
      BY <2>3, <3>2
    <3>. QED BY <2>6, <3>3, <3>8, <3>9, FracIs
  <2>8. AddUp(split, S, total)
    BY <2>4, <2>5, <2>6, <2>7 DEF AddUp
  <2>. QED BY <1>1, <2>8 DEF split
<1>. QED BY <1>10, <1>11, <1>12

\* An allocation that divides the whole of the power.
Divides(mw) ==
  /\ DOMAIN mw = EvalLegs /\ \A l \in EvalLegs : mw[l] \in NonNegative
  /\ SumOver(mw) = Whole(battery.power)

\* Three shares over one denominator whose numerators add up to the power divide it.
LEMMA ThreeShares ==
  ASSUME InEvaluation, NEW mw, DOMAIN mw = EvalLegs, NEW d \in Nat \ {0},
         NEW u \in Nat, NEW v \in Nat, NEW a \in Nat,
         Is(mw[Up], u, d), Is(mw[Down], v, d), Is(mw[Arbitrage], a, d),
         Is(Whole(battery.power), u + v + a, d)
  PROVE  Divides(mw)
<1> DEFINE nums == [l \in EvalLegs |-> IF l = Up THEN u ELSE IF l = Down THEN v ELSE a]
<1>1. Up # Down /\ Up # Arbitrage /\ Down # Arbitrage /\ EvalLegs = {Up, Down, Arbitrage}
  BY DEF Up, Down, Arbitrage, EvalLegs
<1>2. nums[Up] = u /\ nums[Down] = v /\ nums[Arbitrage] = a
  BY <1>1
<1> HIDE DEF nums
<1>3. OnInts(nums, EvalLegs) /\ \A l \in EvalLegs : Is(mw[l], nums[l], d) /\ nums[l] >= 0
  BY <1>1, <1>2 DEF OnInts
<1>4. IsFiniteSet(EvalLegs) /\ SumFunctionOnSet(nums, EvalLegs) = u + v + a
  <2>1. nums[Up] \in Int /\ nums[Down] \in Int
    BY <1>2
  <2>2. IsFiniteSet({Up, Down}) /\ SumFunctionOnSet(nums, {Up, Down}) = nums[Up] + nums[Down]
    BY <1>1, <2>1, SumOfTwo
  <2>3. EvalLegs = {Up, Down} \cup {Arbitrage} /\ EvalLegs \ {Arbitrage} = {Up, Down}
    BY <1>1
  <2>4. IsFiniteSet(EvalLegs)
    BY <2>2, <2>3, FS_AddElement
  <2>5. SumFunctionOnSet(nums, EvalLegs)
          = nums[Arbitrage] + SumFunctionOnSet(nums, EvalLegs \ {Arbitrage})
    <3>1. OnInts(nums, EvalLegs) /\ Arbitrage \in EvalLegs
      BY <1>1, <1>3
    <3>. QED BY <2>4, <3>1, SumTakes
  <2>6. SumFunctionOnSet(nums, EvalLegs) = a + (u + v)
    BY <1>2, <2>2, <2>3, <2>5, Zenon
  <2>. QED BY <2>4, <2>6
<1>5. SumOver(mw) = Frac(u + v + a, d)
  BY <1>3, <1>4, SumOverCommon
<1>6. Frac(u + v + a, d) = Whole(battery.power)
  <2>1. PICK p \in Int, n \in Int : p = battery.power /\ n = u + v + a
    BY EvaluationFacts
  <2>. QED BY <2>1, WholeReduced
<1>7. \A l \in EvalLegs : mw[l] \in NonNegative
  BY <1>3, AmountIs DEF OnInts
<1>. QED BY <1>5, <1>6, <1>7 DEF Divides

\* The power held for capacity, halved, and the rest are the whole of the power.
LEMMA EvenDivides ==
  ASSUME InEvaluation
  PROVE  Divides(EvenAllocation)
<1>1. PICK p \in Nat, c \in Nat : p = battery.power /\ c = battery.commit /\ c <= p
  BY EvaluationFacts
<1> DEFINE mw == EvenAllocation
<1>2. /\ DOMAIN mw = EvalLegs /\ mw[Up] = Frac(c, 2) /\ mw[Down] = Frac(c, 2)
      /\ mw[Arbitrage] = Whole(p - c)
  BY <1>1 DEF EvenAllocation, EvalLegs, Up, Down, Arbitrage
<1> HIDE DEF mw
<1>3. Is(mw[Up], c, 2) /\ Is(mw[Down], c, 2)
  BY <1>2, FracIs
<1>4. PICK b \in Nat : b = p - c
  BY <1>1
<1>5. PICK a \in Nat : a = b * 2
  OBVIOUS
<1>6. Is(mw[Arbitrage], a, 2)
  BY <1>2, <1>4, <1>5, WholeOver
<1>7. Is(Whole(battery.power), c + c + a, 2)
  <2>1. Is(Whole(p), p * 2, 2)
    BY WholeOver
  <2>2. c + c + a = p * 2
    BY <1>1, <1>4, <1>5
  <2>. QED BY <1>1, <2>1, <2>2
<1>8. Divides(mw)
  BY <1>2, <1>3, <1>6, <1>7, ThreeShares
<1>. QED BY <1>8 DEF mw

\* A split between capacity and arbitrage, and of the capacity between its legs, divides
\* the whole of the power.
LEMMA SplitDivides ==
  ASSUME InEvaluation, NEW strengths, \A l \in EvalLegs : strengths[l] \in Fractions
  PROVE  Divides(SplitBy(strengths))
<1> DEFINE fcr == (strengths[Up] ++ strengths[Down]) ** <<1, 2>>
           weights == [g \in {"FCR", Arbitrage} |-> IF g = "FCR" THEN fcr ELSE strengths[Arbitrage]]
           groups == GroupSplit(strengths)
           legs == [l \in {Up, Down} |-> strengths[l]]
           pair == WeightedSplit(legs, groups["FCR"])
           mw == SplitBy(strengths)
<1>1. Up # Down /\ Up # Arbitrage /\ Down # Arbitrage /\ EvalLegs = {Up, Down, Arbitrage}
      /\ Arbitrage # "FCR"
  BY DEF Up, Down, Arbitrage, EvalLegs
<1>2. PICK power \in Nat : power = battery.power
  BY EvaluationFacts
<1>3. groups = WeightedSplit(weights, Whole(power))
  BY <1>2 DEF GroupSplit
<1>4. mw = [l \in EvalLegs |-> IF l = Arbitrage THEN groups[l] ELSE pair[l]]
  BY DEF SplitBy, LegSplit
<1>5. \A g \in {"FCR", Arbitrage} : weights[g] \in Fractions
  <2>1. strengths[Up] \in Fractions /\ strengths[Down] \in Fractions /\ strengths[Arbitrage] \in Fractions
    BY <1>1
  <2>2. <<1, 2>> \in Fractions
    BY DEF Fractions
  <2>3. strengths[Up] ++ strengths[Down] \in Fractions
    BY <2>1, FractionsClosed
  <2>4. fcr \in Fractions
    BY <2>2, <2>3, FractionsClosed
  <2> HIDE DEF fcr
  <2>. QED BY <2>1, <2>4
<1>6. DOMAIN weights = {"FCR", Arbitrage}
  OBVIOUS
<1>7. Whole(power) \in NonNegative
  BY DEF Whole, NonNegative
<1>8. IsFiniteSet({"FCR", Arbitrage}) /\ IsFiniteSet({Up, Down})
  <2>1. ASSUME NEW a, NEW b PROVE IsFiniteSet({a, b})
    <3>1. IsFiniteSet({b} \cup {a})
      BY FS_Singleton, FS_AddElement
    <3>2. {b} \cup {a} = {a, b}
      OBVIOUS
    <3>. QED BY <3>1, <3>2
  <2>. QED BY <2>1
<1> HIDE DEF weights
<1>9. AddUp(groups, {"FCR", Arbitrage}, Whole(power))
  <2>1. {"FCR", Arbitrage} # {}
    OBVIOUS
  <2>. QED BY <1>3, <1>5, <1>6, <1>7, <1>8, <2>1, SplitAddsUp
<1> HIDE DEF groups
<1>10. PICK d \in Nat \ {0}, f \in Nat, a \in Nat :
         Is(groups["FCR"], f, d) /\ Is(groups[Arbitrage], a, d) /\ Is(Whole(power), f + a, d)
  <2>1. PICK d \in Nat \ {0} : \E nums :
          /\ OnInts(nums, {"FCR", Arbitrage})
          /\ \A x \in {"FCR", Arbitrage} : Is(groups[x], nums[x], d) /\ nums[x] >= 0
          /\ Is(Whole(power), SumFunctionOnSet(nums, {"FCR", Arbitrage}), d)
    BY <1>9 DEF AddUp
  <2>2. PICK nums :
          /\ OnInts(nums, {"FCR", Arbitrage})
          /\ \A x \in {"FCR", Arbitrage} : Is(groups[x], nums[x], d) /\ nums[x] >= 0
          /\ Is(Whole(power), SumFunctionOnSet(nums, {"FCR", Arbitrage}), d)
    BY <2>1
  <2>3. nums["FCR"] \in Nat /\ nums[Arbitrage] \in Nat
    BY <2>2 DEF OnInts
  <2>4. SumFunctionOnSet(nums, {"FCR", Arbitrage}) = nums["FCR"] + nums[Arbitrage]
    <3>1. PICK x, y : x = "FCR" /\ y = Arbitrage
      OBVIOUS
    <3>2. SumFunctionOnSet(nums, {x, y}) = nums[x] + nums[y]
      <4>1. x # y /\ nums[x] \in Int /\ nums[y] \in Int
        BY <1>1, <2>3, <3>1
      <4>. QED BY <4>1, SumOfTwo
    <3>. QED BY <3>1, <3>2
  <2>. QED BY <2>2, <2>3, <2>4
<1>11. groups["FCR"] \in NonNegative
  BY <1>10, AmountIs
<1>12. DOMAIN pair = {Up, Down} /\ AddUp(pair, {Up, Down}, groups["FCR"])
  <2>1. {Up, Down} # {} /\ DOMAIN legs = {Up, Down} /\ \A l \in {Up, Down} : legs[l] \in Fractions
    BY <1>1
  <2> HIDE DEF legs
  <2>. QED BY <1>8, <1>11, <2>1, SplitAddsUp
<1> HIDE DEF legs, pair
<1>13. PICK e \in Nat \ {0}, u \in Nat, v \in Nat :
         Is(pair[Up], u, e) /\ Is(pair[Down], v, e) /\ Is(groups["FCR"], u + v, e)
  <2>1. PICK e \in Nat \ {0} : \E nums :
          /\ OnInts(nums, {Up, Down})
          /\ \A x \in {Up, Down} : Is(pair[x], nums[x], e) /\ nums[x] >= 0
          /\ Is(groups["FCR"], SumFunctionOnSet(nums, {Up, Down}), e)
    BY <1>12 DEF AddUp
  <2>2. PICK nums :
          /\ OnInts(nums, {Up, Down})
          /\ \A x \in {Up, Down} : Is(pair[x], nums[x], e) /\ nums[x] >= 0
          /\ Is(groups["FCR"], SumFunctionOnSet(nums, {Up, Down}), e)
    BY <2>1
  <2>3. nums[Up] \in Nat /\ nums[Down] \in Nat
    BY <2>2 DEF OnInts
  <2>4. SumFunctionOnSet(nums, {Up, Down}) = nums[Up] + nums[Down]
    <3>1. Up # Down /\ nums[Up] \in Int /\ nums[Down] \in Int
      BY <1>1, <2>3
    <3>. QED BY <3>1, SumOfTwo
  <2>. QED BY <2>2, <2>3, <2>4
<1>14. /\ DOMAIN mw = EvalLegs /\ mw[Up] = pair[Up] /\ mw[Down] = pair[Down]
       /\ mw[Arbitrage] = groups[Arbitrage]
  BY <1>1, <1>4
<1> HIDE DEF mw
<1>15. f * e = (u + v) * d
  BY <1>10, <1>13, IsAgree
<1>16. PICK k \in Nat \ {0} : k = d * e
  OBVIOUS
<1>17. PICK u1 \in Nat, v1 \in Nat, a1 \in Nat : u1 = u * d /\ v1 = v * d /\ a1 = a * e
  OBVIOUS
<1>18. Is(mw[Up], u1, k) /\ Is(mw[Down], v1, k)
  <2>1. e * d = d * e
    OBVIOUS
  <2>2. Is(pair[Up], u, e) /\ Is(pair[Down], v, e)
    BY <1>13
  <2>3. Is(pair[Up], u * d, e * d) /\ Is(pair[Down], v * d, e * d)
    BY <2>2, IsScales
  <2>. QED BY <1>14, <1>16, <1>17, <2>1, <2>3
<1>19. Is(mw[Arbitrage], a1, k)
  <2>1. PICK g : g = groups[Arbitrage] /\ Is(g, a, d)
    BY <1>10
  <2>2. Is(g, a * e, d * e)
    BY <2>1, IsScales
  <2>. QED BY <1>14, <1>16, <1>17, <2>1, <2>2
<1>20. Is(Whole(battery.power), u1 + v1 + a1, k)
  <2>1. Is(Whole(power), (f + a) * e, k)
    BY <1>10, <1>16, IsScales
  <2>2. (f + a) * e = f * e + a * e /\ (u + v) * d = u * d + v * d
    OBVIOUS
  <2>3. (f + a) * e = u1 + v1 + a1
    BY <1>15, <1>17, <2>2
  <2>. QED BY <1>2, <2>1, <2>3
<1>21. Divides(mw)
  BY <1>14, <1>18, <1>19, <1>20, ThreeShares
<1>. QED BY <1>21 DEF mw

\* Every policy divides the whole of the power, every hour.
LEMMA AllocationDivides ==
  ASSUME InEvaluation, TrailingTyped, NEW policy, NEW t
  PROVE  Divides(Allocation(policy, t))
<1>1. Divides(EvenAllocation)
  BY EvenDivides
<1>2. Divides(RankedAllocation(policy, t))
  <2> DEFINE strengths == [l \in EvalLegs |-> Strength(policy, l, t)]
  <2>1. \A l \in EvalLegs : strengths[l] \in Fractions
    BY PolicyStrength
  <2> HIDE DEF strengths
  <2>2. Divides(SplitBy(strengths))
    BY <2>1, SplitDivides
  <2>. QED BY <2>2 DEF RankedAllocation, strengths
<1>. QED BY <1>1, <1>2 DEF Allocation

-----------------------------------------------------------------------------
(* The discharge window of a run.                                          *)

\* An entry of a discharge window, the entries since a time, and what they sold.
Sale == [time : Int, amount : NonNegative]
Unexpired(window, c) == {k \in DOMAIN window : window[k].time >= c}
Held(window, c) == SumOver([k \in Unexpired(window, c) |-> window[k].amount])

\* What a discharge window holds is an amount.
LEMMA SaleFacts ==
  ASSUME NEW window \in Seq(Sale), NEW c \in Int
  PROVE  /\ Len(window) \in Nat /\ DOMAIN window = 1..Len(window) /\ IsFiniteSet(DOMAIN window)
         /\ \A k \in DOMAIN window : /\ window[k].time \in Int /\ window[k].amount \in NonNegative
                                     /\ window[k].amount \in Fractions
         /\ Unexpired(window, c) \subseteq DOMAIN window /\ IsFiniteSet(Unexpired(window, c))
         /\ Held(window, c) \in NonNegative
<1>1. Len(window) \in Nat /\ DOMAIN window = 1..Len(window) /\ IsFiniteSet(DOMAIN window)
  <2>1. Len(window) \in Nat /\ DOMAIN window = 1..Len(window)
    BY LenProperties
  <2>. QED BY <2>1, FS_Interval
<1>2. \A k \in DOMAIN window : /\ window[k].time \in Int /\ window[k].amount \in NonNegative
                               /\ window[k].amount \in Fractions
  <2>1. \A k \in 1..Len(window) : window[k] \in Sale
    BY ElementOfSeq
  <2>. QED BY <1>1, <2>1 DEF Sale, NonNegative, Fractions
<1>3. Unexpired(window, c) \subseteq DOMAIN window
  BY DEF Unexpired
<1>4. IsFiniteSet(Unexpired(window, c))
  BY <1>1, <1>3, FS_Subset
<1>5. Held(window, c) \in NonNegative
  <2> DEFINE f == [k \in Unexpired(window, c) |-> window[k].amount]
  <2>1. DOMAIN f = Unexpired(window, c) /\ \A k \in Unexpired(window, c) : f[k] \in NonNegative
    BY <1>2, <1>3
  <2> HIDE DEF f
  <2>2. SumOver(f) \in NonNegative
    BY <1>4, <2>1, SumOverAmounts
  <2>. QED BY <2>2 DEF Held, f
<1>. QED BY <1>1, <1>2, <1>3, <1>4, <1>5

\* Popping off entries older than a day loses no sale of the last day.
LEMMA PruneKeepsHeld ==
  ASSUME NEW window \in Seq(Sale), NEW t \in Int, NEW c \in Int, c >= t - Day
  PROVE  Recent(window, t) \in Seq(Sale) /\ Held(Recent(window, t), c) = Held(window, c)
<1> DEFINE fresh == {k \in DOMAIN window : window[k].time >= t - Day}
           R == Recent(window, t)
           n == Len(window)
<1>0. Day \in Int
  BY SeriesAssumption
<1>1. /\ n \in Nat /\ DOMAIN window = 1..n
      /\ \A k \in DOMAIN window : window[k].time \in Int
      /\ Unexpired(window, c) \subseteq fresh
  <2>1. \A k \in DOMAIN window : window[k].time \in Int
    BY SaleFacts
  <2>2. Unexpired(window, c) \subseteq fresh
    BY <1>0, <2>1 DEF Unexpired
  <2>. QED BY <2>1, <2>2, SaleFacts
<1>2. CASE fresh = {}
  <2>1. R = << >>
    BY <1>2 DEF Recent
  <2>2. R \in Seq(Sale)
    BY <2>1, EmptySeq
  <2>3. Unexpired(R, c) = {} /\ Unexpired(window, c) = {}
    BY <1>1, <1>2, <2>1 DEF Unexpired
  <2>4. Held(R, c) = Zero /\ Held(window, c) = Zero
    BY <2>3, SumOverNone DEF Held
  <2>. QED BY <2>2, <2>4
<1>3. CASE fresh # {}
  <2>1. PICK i \in fresh : i = Min(fresh) /\ \A k \in fresh : i <= k
    <3>1. fresh \subseteq 1..n
      BY <1>1
    <3>2. \E i \in fresh : \A k \in fresh : i <= k
      <4> HIDE DEF fresh
      <4>. QED BY <1>1, <1>3, <3>1, SmallestNumber
    <3>. QED BY <3>2 DEF Min
  <2>2. i \in 1..n
    BY <1>1, <2>1
  <2>3. R = SubSeq(window, i, n)
    BY <1>3, <2>1 DEF Recent
  <2>4. /\ R \in Seq(Sale) /\ Len(R) = n - i + 1
        /\ \A m \in 1..(n - i + 1) : R[m] = window[m + i - 1]
    <3>1. /\ SubSeq(window, i, n) \in Seq(Sale)
          /\ Len(SubSeq(window, i, n)) = n - i + 1
          /\ \A m \in 1..(n - i + 1) : SubSeq(window, i, n)[m] = window[i + m - 1]
      BY <1>1, <2>2, SubSeqProperties
    <3>2. PICK part : part = SubSeq(window, i, n)
      OBVIOUS
    <3>3. ASSUME NEW m \in 1..(n - i + 1) PROVE part[m] = window[m + i - 1]
      <4>1. part[m] = window[i + m - 1]
        BY <3>1, <3>2
      <4>2. i + m - 1 = m + i - 1
        BY <1>1, <2>2
      <4>. QED BY <4>1, <4>2, Zenon
    <3>. QED BY <2>3, <3>1, <3>2, <3>3, Zenon
  <2> HIDE DEF R
  <2>5. /\ DOMAIN R = 1..(n - i + 1) /\ Unexpired(R, c) \subseteq DOMAIN R /\ IsFiniteSet(Unexpired(R, c))
        /\ \A m \in DOMAIN R : R[m].amount \in Fractions
    BY <2>4, SaleFacts
  <2> DEFINE name == [m \in 1..(n - i + 1) |-> m + i - 1]
             f == [m \in Unexpired(R, c) |-> R[m].amount]
             g == [k \in Unexpired(window, c) |-> window[k].amount]
  <2>6. {name[m] : m \in Unexpired(R, c)} = Unexpired(window, c)
    <3>1. ASSUME NEW m \in Unexpired(R, c) PROVE name[m] \in Unexpired(window, c)
      BY <1>1, <2>2, <2>4, <2>5 DEF Unexpired
    <3>2. ASSUME NEW k \in Unexpired(window, c)
          PROVE  \E m \in Unexpired(R, c) : name[m] = k
      <4>1. k \in 1..n /\ i <= k /\ window[k].time >= c
        BY <1>1, <2>1 DEF Unexpired
      <4>2. k - i + 1 \in 1..(n - i + 1) /\ (k - i + 1) + i - 1 = k
        BY <1>1, <2>2, <4>1
      <4>3. R[k - i + 1] = window[k]
        BY <2>4, <4>2
      <4>4. k - i + 1 \in Unexpired(R, c) /\ name[k - i + 1] = k
        BY <2>5, <4>1, <4>2, <4>3 DEF Unexpired
      <4>. QED BY <4>4
    <3> HIDE DEF name
    <3>. QED BY <3>1, <3>2
  <2>7. \A m \in Unexpired(R, c) : name[m] \in Unexpired(window, c) /\ g[name[m]] = f[m]
    <3>1. ASSUME NEW m \in Unexpired(R, c) PROVE name[m] \in Unexpired(window, c) /\ window[name[m]] = R[m]
      BY <1>1, <2>2, <2>4, <2>5, <2>6
    <3> HIDE DEF name
    <3>. QED BY <3>1
  <2>8. \A m, k \in Unexpired(R, c) : name[m] = name[k] => m = k
    BY <1>1, <2>2, <2>5
  <2>9. DOMAIN f = Unexpired(R, c) /\ DOMAIN g = Unexpired(window, c) /\ \A m \in Unexpired(R, c) : f[m] \in Fractions
    BY <2>5
  <2> HIDE DEF name, f, g
  <2>10. SumOver(g) = SumOver(f)
    <3>1. PICK U : U = Unexpired(R, c)
      OBVIOUS
    <3>2. /\ IsFiniteSet(U) /\ DOMAIN f = U /\ DOMAIN g = {name[m] : m \in U}
          /\ \A m \in U : f[m] \in Fractions /\ g[name[m]] = f[m]
          /\ \A m, k \in U : name[m] = name[k] => m = k
      BY <2>5, <2>6, <2>7, <2>8, <2>9, <3>1
    <3>. QED BY <3>2, SumOverRenamed
  <2>11. Held(window, c) = Held(R, c)
    BY <2>10 DEF Held, f, g
  <2>. QED BY <2>4, <2>11 DEF R
<1>. QED BY <1>2, <1>3

\* An entry appended adds its amount to what is held since a time it is not before.
LEMMA AppendAddsHeld ==
  ASSUME NEW window \in Seq(Sale), NEW e \in Sale, NEW c \in Int
  PROVE  /\ Append(window, e) \in Seq(Sale)
         /\ e.time >= c => Held(Append(window, e), c) = e.amount ++ Held(window, c)
         /\ ~(e.time >= c) => Held(Append(window, e), c) = Held(window, c)
<1> DEFINE longer == Append(window, e)
           n == Len(window)
           g == [k \in Unexpired(longer, c) |-> longer[k].amount]
           f == [k \in Unexpired(window, c) |-> g[k]]
<1>1. /\ longer \in Seq(Sale) /\ Len(longer) = n + 1
      /\ longer[n + 1] = e /\ \A k \in 1..n : longer[k] = window[k]
  BY AppendProperties
<1>2. n \in Nat /\ DOMAIN window = 1..n /\ IsFiniteSet(Unexpired(window, c))
  BY SaleFacts
<1> HIDE DEF longer
<1>3. /\ DOMAIN longer = 1..(n + 1) /\ Unexpired(longer, c) \subseteq DOMAIN longer
      /\ \A k \in DOMAIN longer : longer[k].amount \in Fractions
  BY <1>1, SaleFacts
<1>4. Unexpired(window, c) \subseteq Unexpired(longer, c)
  BY <1>1, <1>2, <1>3 DEF Unexpired
<1>5. SumOver(f) = Held(window, c)
  <2>1. \A k \in Unexpired(window, c) : g[k] = window[k].amount
    BY <1>1, <1>2, <1>4 DEF Unexpired
  <2>2. f = [k \in Unexpired(window, c) |-> window[k].amount]
    <3> HIDE DEF g
    <3>. QED BY <2>1
  <2> HIDE DEF f
  <2>. QED BY <2>2, Zenon DEF Held
<1>6. SumOver(g) = Held(longer, c)
  BY DEF Held
<1>7. ASSUME e.time >= c PROVE Held(longer, c) = e.amount ++ Held(window, c)
  <2>1. /\ IsFiniteSet(Unexpired(longer, c)) /\ n + 1 \in Unexpired(longer, c)
        /\ \A x : x \in Unexpired(window, c) <=> x \in Unexpired(longer, c) /\ x # n + 1
    BY <1>1, <1>2, <1>3, <1>7, SaleFacts DEF Unexpired
  <2>2. /\ DOMAIN g = Unexpired(longer, c) /\ g[n + 1] = e.amount
        /\ \A k \in Unexpired(longer, c) : g[k] \in Fractions
        /\ DOMAIN f = Unexpired(window, c) /\ f = [k \in Unexpired(window, c) |-> f[k]]
        /\ \A k \in Unexpired(window, c) : f[k] = g[k]
    BY <1>1, <1>3, <2>1
  <2> HIDE DEF f, g
  <2>3. SumOver(g) = g[n + 1] ++ SumOver(f)
    <3>1. PICK R, S, u, p, q :
            R = Unexpired(longer, c) /\ S = Unexpired(window, c) /\ u = n + 1 /\ p = f /\ q = g
      OBVIOUS
    <3>2. /\ IsFiniteSet(R) /\ u \in R /\ \A x : x \in S <=> x \in R /\ x # u
          /\ DOMAIN p = S /\ p = [x \in S |-> p[x]]
          /\ DOMAIN q = R /\ \A x \in R : q[x] \in Fractions
          /\ \A x \in S : p[x] = q[x]
      BY <2>1, <2>2, <3>1
    <3>3. SumOver(q) = q[u] ++ SumOver(p)
      BY <3>2, OneMore
    <3>. QED BY <3>1, <3>3
  <2>. QED BY <1>5, <1>6, <2>2, <2>3
<1>8. ASSUME ~(e.time >= c) PROVE Held(longer, c) = Held(window, c)
  <2>1. Unexpired(longer, c) = Unexpired(window, c)
    BY <1>1, <1>2, <1>3, <1>8 DEF Unexpired
  <2>2. f = g
    BY <2>1
  <2>. QED BY <1>5, <1>6, <2>2
<1>. QED BY <1>1, <1>7, <1>8 DEF longer

-----------------------------------------------------------------------------
(* An hour of a battery.                                                   *)

\* A state of charge within the band.
Within(stored) ==
  stored \in Fractions /\ Whole(battery.lo) \preceq stored /\ stored \preceq Whole(battery.hi)

\* A move keeps the battery in its band.  The window then holds what it held and what was
\* sold, which with it is within the cap.
MoveIs(run, t, move) ==
  /\ Within(move.soc) /\ move.window \in Seq(Sale) /\ move.discharged \in NonNegative
  /\ battery.cap # None =>
       /\ (move.discharged ++ Held(run.window, t - Day)) \preceq Whole(battery.out * battery.cap)
       /\ \A c \in Int : c >= t - Day =>
            Held(move.window, c) = IF move.discharged # Zero /\ t >= c
                                     THEN move.discharged ++ Held(run.window, c)
                                     ELSE Held(run.window, c)

\* What a run must have kept for a move at t: its battery in the band, and the day before
\* t within the cap.
BeforeMove(run, t) ==
  /\ InEvaluation /\ t \in Int
  /\ Within(run.soc) /\ run.window \in Seq(Sale)
  /\ battery.cap # None => Held(run.window, t - Day) \preceq Whole(battery.out * battery.cap)

\* The cap, in stored energy, is a whole number.
LEMMA CapHolds ==
  ASSUME InEvaluation, battery.cap # None
  PROVE  \E top \in Nat : top = battery.out * battery.cap /\ Whole(top) \in Fractions
BY EvaluationFacts DEF Whole, Fractions

\* Doing nothing is a move.
LEMMA StillFacts ==
  ASSUME NEW run, NEW t, BeforeMove(run, t), NEW move, move.soc = run.soc, move.window = run.window,
         move.discharged = Zero
  PROVE  MoveIs(run, t, move)
<1>1. Zero \in NonNegative
  BY DEF Zero, Whole, NonNegative
<1>2. ASSUME battery.cap # None
      PROVE  (Zero ++ Held(run.window, t - Day)) \preceq Whole(battery.out * battery.cap)
  <2>1. t - Day \in Int
    BY SeriesAssumption DEF BeforeMove
  <2>2. Held(run.window, t - Day) \in Fractions
    BY <2>1, SaleFacts, AmountIsFraction DEF BeforeMove
  <2>3. PICK top \in Nat : top = battery.out * battery.cap /\ Whole(top) \in Fractions
    BY <1>2, CapHolds DEF BeforeMove
  <2>. QED BY <1>2, <2>2, <2>3, NothingAdded DEF BeforeMove
<1>. QED BY <1>1, <1>2 DEF MoveIs, BeforeMove

\* Charging what there is room for is a move.
LEMMA ChargeFacts ==
  ASSUME NEW run, NEW t, BeforeMove(run, t), NEW power \in Fractions, NEW x
  PROVE  MoveIs(run, t, EvalCharge(run, x, Room(run, power)))
<1> DEFINE room == Room(run, power)
           move == EvalCharge(run, x, room)
<1>1. Within(run.soc) /\ Within(run.soc ++ room)
  <2>1. PICK lo \in Int, hi \in Int, in \in Int : lo = battery.lo /\ hi = battery.hi /\ in = battery.in
    BY EvaluationFacts DEF BeforeMove
  <2>2. Whole(in) ** power \in Fractions
    BY FractionsClosed DEF Whole, Fractions
  <2>3. /\ run.soc \in Fractions /\ Whole(lo) \preceq run.soc /\ run.soc \preceq Whole(hi)
        /\ room = Clipped(Lesser(Whole(in) ** power, Whole(hi) ++ Minus(run.soc)))
    BY <2>1 DEF BeforeMove, Within, Room
  <2> HIDE DEF room
  <2>4. /\ run.soc ++ room \in Fractions /\ Whole(lo) \preceq (run.soc ++ room)
        /\ (run.soc ++ room) \preceq Whole(hi)
    BY <2>2, <2>3, AddWithin
  <2>. QED BY <2>1, <2>3, <2>4 DEF Within
<1> HIDE DEF room
<1>2. move.soc \in {run.soc, run.soc ++ room} /\ move.window = run.window /\ move.discharged = Zero
  BY DEF EvalCharge, Still
<1> HIDE DEF move
<1>3. MoveIs(run, t, [soc |-> run.soc, window |-> run.window, discharged |-> Zero])
  BY StillFacts
<1>4. Within(move.soc)
  BY <1>1, <1>2
<1>5. MoveIs(run, t, move)
  BY <1>2, <1>3, <1>4 DEF MoveIs
<1>. QED BY <1>5 DEF move, room

\* Selling what is wanted, or what the cap leaves of it, is a move.
LEMMA DischargeFacts ==
  ASSUME NEW run, NEW t, BeforeMove(run, t), NEW power \in Fractions, NEW x
  PROVE  MoveIs(run, t, EvalDischarge(run, t, x, Wanted(run, power)))
<1> DEFINE wanted == Wanted(run, power)
           capped == battery.cap # None
           left == EvalRemaining(run.window, t)
           amount == IF capped THEN Lesser(wanted, left) ELSE wanted
           kept == IF capped THEN Recent(run.window, t) ELSE run.window
           move == EvalDischarge(run, t, x, wanted)
           W == run.window
           sale == [time |-> t, amount |-> amount]
<1>0. W \in Seq(Sale) /\ t \in Int /\ t - Day \in Int /\ Within(run.soc)
  BY SeriesAssumption DEF BeforeMove
<1>1. /\ wanted \in NonNegative
      /\ \A a \in NonNegative : a \preceq wanted => Within(run.soc ++ Minus(a))
  <2>1. PICK lo \in Int, hi \in Int, out \in Int : lo = battery.lo /\ hi = battery.hi /\ out = battery.out
    BY EvaluationFacts DEF BeforeMove
  <2>2. Whole(out) ** power \in Fractions
    BY FractionsClosed DEF Whole, Fractions
  <2>3. /\ run.soc \in Fractions /\ Whole(lo) \preceq run.soc /\ run.soc \preceq Whole(hi)
        /\ wanted = Clipped(Lesser(Whole(out) ** power, run.soc ++ Minus(Whole(lo))))
    BY <2>1 DEF BeforeMove, Within, Wanted
  <2> HIDE DEF wanted
  <2>4. /\ wanted \in NonNegative
        /\ \A a \in NonNegative : a \preceq wanted =>
             /\ run.soc ++ Minus(a) \in Fractions /\ Whole(lo) \preceq (run.soc ++ Minus(a))
             /\ (run.soc ++ Minus(a)) \preceq Whole(hi)
    BY <2>2, <2>3, TakeWithin
  <2>. QED BY <2>1, <2>4 DEF Within
<1> HIDE DEF wanted
<1>2. ASSUME capped
      PROVE  /\ Recent(W, t) \in Seq(Sale) /\ left \in NonNegative
             /\ \A c \in Int : c >= t - Day => Held(Recent(W, t), c) = Held(W, c)
             /\ \A a \in Fractions : a \preceq left =>
                  (a ++ Held(W, t - Day)) \preceq Whole(battery.out * battery.cap)
  <2>1. /\ Recent(W, t) \in Seq(Sale)
        /\ \A c \in Int : c >= t - Day => Held(Recent(W, t), c) = Held(W, c)
    <3> HIDE DEF W
    <3>1. ASSUME NEW c \in Int, c >= t - Day
          PROVE  Recent(W, t) \in Seq(Sale) /\ Held(Recent(W, t), c) = Held(W, c)
      BY <1>0, <3>1, PruneKeepsHeld
    <3>2. t - Day >= t - Day
      BY <1>0
    <3>. QED BY <1>0, <3>1, <3>2
  <2>2. PICK top \in Nat : top = battery.out * battery.cap
    BY <1>2, CapHolds DEF BeforeMove
  <2>3. PICK R \in Seq(Sale) : R = Recent(W, t)
    BY <2>1
  <2> DEFINE f == [k \in DOMAIN R |-> R[k].amount]
             total == SumOver(f)
  <2>4. left = Clipped(Whole(top) ++ Minus(total))
    BY <2>2, <2>3 DEF EvalRemaining
  <2>5. /\ DOMAIN f = DOMAIN R /\ \A k \in DOMAIN R : f[k] \in NonNegative
        /\ IsFiniteSet(DOMAIN R) /\ Unexpired(R, t - Day) \in SUBSET DOMAIN R
    BY <1>0, <2>3, SaleFacts
  <2>6. Held(R, t - Day) = SumOver([k \in Unexpired(R, t - Day) |-> f[k]])
    <3>1. [k \in Unexpired(R, t - Day) |-> f[k]] = [k \in Unexpired(R, t - Day) |-> R[k].amount]
      BY <2>5
    <3> HIDE DEF f
    <3>. QED BY <3>1, Zenon DEF Held
  <2> HIDE DEF f
  <2>7. total \in NonNegative
    BY <2>5, SumOverAmounts
  <2>8. Held(R, t - Day) \preceq total
    BY <2>5, <2>6, SumOverPart
  <2> HIDE DEF total
  <2>9. total \in Fractions /\ Held(R, t - Day) \in Fractions /\ Held(R, t - Day) = Held(W, t - Day)
    <3>1. t - Day >= t - Day
      BY <1>0
    <3>. QED BY <1>0, <2>1, <2>3, <2>7, <3>1, SaleFacts, AmountIsFraction
  <2>10. left \in NonNegative
    <3>1. Whole(top) \in Fractions
      BY DEF Whole, Fractions
    <3>2. Whole(top) ++ Minus(total) \in Fractions
      BY <2>9, <3>1, FractionsClosed
    <3>. QED BY <2>4, <3>2 DEF Clipped, Zero, Whole, Fractions, NonNegative
  <2>11. ASSUME NEW a \in Fractions, a \preceq left
         PROVE  (a ++ Held(W, t - Day)) \preceq Whole(top)
    <3>1. Held(W, t - Day) \preceq Whole(top)
      BY <1>2, <2>2 DEF BeforeMove
    <3>2. PICK held \in Fractions : held = Held(W, t - Day)
      BY <2>9
    <3>. QED BY <2>4, <2>8, <2>9, <2>11, <3>1, <3>2, CapLeaves
  <2>. QED BY <2>1, <2>2, <2>10, <2>11
<1> HIDE DEF left
<1>3. amount \in NonNegative /\ amount \preceq wanted /\ (capped => amount \preceq left)
  <2>1. ASSUME capped PROVE amount \in NonNegative /\ amount \preceq wanted /\ amount \preceq left
    BY <1>1, <1>2, <2>1, LesserFacts
  <2>2. ASSUME ~capped PROVE amount \in NonNegative /\ amount \preceq wanted
    <3>1. PICK d \in Nat \ {0}, n \in Int : Is(wanted, n, d)
      BY <1>1, AmountIsFraction, TwoFractions
    <3>2. n <= n
      OBVIOUS
    <3>3. wanted \preceq wanted
      BY <3>1, <3>2, PrecedesIs
    <3>. QED BY <1>1, <2>2, <3>3
  <2>. QED BY <2>1, <2>2
<1>4. Zero \in NonNegative
  BY DEF Zero, Whole, NonNegative
<1>5. ASSUME amount = Zero
      PROVE  move.soc = run.soc /\ move.window = kept /\ move.discharged = Zero
  BY <1>5 DEF EvalDischarge, Still, left
<1>6. ASSUME amount # Zero
      PROVE  /\ move.soc = run.soc ++ Minus(amount) /\ move.discharged = amount
             /\ move.window = IF capped THEN Append(kept, sale) ELSE kept
  BY <1>6 DEF EvalDischarge, Still, left
<1> HIDE DEF amount, move
<1>7. sale \in Sale
  BY <1>0, <1>3 DEF Sale
<1>8. sale.time = t /\ sale.amount = amount
  OBVIOUS
<1> HIDE DEF sale
<1>9. CASE ~capped
  <2>1. kept = W
    BY <1>9
  <2>2. move.window = W /\ move.discharged \in NonNegative
    BY <1>3, <1>4, <1>5, <1>6, <1>9, <2>1
  <2>3. Within(move.soc)
    BY <1>0, <1>1, <1>3, <1>5, <1>6
  <2>4. MoveIs(run, t, move)
    BY <1>0, <1>9, <2>2, <2>3 DEF MoveIs
  <2>. QED BY <2>4 DEF move, wanted
<1>10. CASE capped /\ amount = Zero
  <2>1. move.soc = run.soc /\ move.window = Recent(W, t) /\ move.discharged = Zero
    BY <1>5, <1>10
  <2>2. Zero \in Fractions /\ Zero \preceq left
    BY <1>3, <1>4, <1>10, AmountIsFraction
  <2>3. MoveIs(run, t, move)
    BY <1>0, <1>2, <1>4, <1>10, <2>1, <2>2 DEF MoveIs
  <2>. QED BY <2>3 DEF move, wanted
<1>11. CASE capped /\ amount # Zero
  <2>1. /\ move.soc = run.soc ++ Minus(amount) /\ move.discharged = amount
        /\ move.window = Append(Recent(W, t), sale)
    BY <1>6, <1>11
  <2>2. amount \in Fractions /\ amount \preceq left
    BY <1>3, <1>11, AmountIsFraction
  <2>3. ASSUME NEW c \in Int, c >= t - Day
        PROVE  /\ move.window \in Seq(Sale)
               /\ Held(move.window, c) = IF t >= c THEN amount ++ Held(W, c) ELSE Held(W, c)
    <3>1. PICK R \in Seq(Sale) : R = Recent(W, t) /\ Held(R, c) = Held(W, c)
      BY <1>2, <1>11, <2>3
    <3>2. /\ Append(R, sale) \in Seq(Sale)
          /\ sale.time >= c => Held(Append(R, sale), c) = sale.amount ++ Held(R, c)
          /\ ~(sale.time >= c) => Held(Append(R, sale), c) = Held(R, c)
      BY <1>7, AppendAddsHeld
    <3>. QED BY <1>8, <2>1, <3>1, <3>2
  <2>4. t - Day >= t - Day
    BY <1>0
  <2>5. Within(move.soc)
    BY <1>1, <1>3, <2>1
  <2>6. (move.discharged ++ Held(W, t - Day)) \preceq Whole(battery.out * battery.cap)
    BY <1>2, <1>11, <2>1, <2>2
  <2>7. move.window \in Seq(Sale)
    BY <1>0, <2>3, <2>4
  <2>8. MoveIs(run, t, move)
    BY <1>3, <1>11, <2>1, <2>3, <2>5, <2>6, <2>7 DEF MoveIs
  <2>. QED BY <2>8 DEF move, wanted
<1>. QED BY <1>9, <1>10, <1>11

\* Whatever the z-score of the price makes it do, an hour is a move.
LEMMA EvalMoveFacts ==
  ASSUME NEW run, NEW t, BeforeMove(run, t), NEW power \in Fractions
  PROVE  MoveIs(run, t, EvalMove(run, power, t))
<1> DEFINE x == actuals[Arbitrage][t]
<1>1. MoveIs(run, t, EvalCharge(run, x, Room(run, power)))
  BY ChargeFacts
<1>2. MoveIs(run, t, EvalDischarge(run, t, x, Wanted(run, power)))
  BY DischargeFacts
<1>3. MoveIs(run, t, Still(run))
  BY StillFacts DEF Still
<1> HIDE DEF x
<1>4. EvalMove(run, power, t)
        \in {EvalCharge(run, x, Room(run, power)),
             EvalDischarge(run, t, x, Wanted(run, power)), Still(run)}
  BY DEF EvalMove, x
<1>. QED BY <1>1, <1>2, <1>3, <1>4

-----------------------------------------------------------------------------
(* The record of a run.                                                    *)

\* The hours of the first k not before c, and what the record says was sold in some of them.
SinceHour(k, c) == {j \in 1..k : EvalTimes[j] >= c}
Sold(log, S) == SumOver([j \in S |-> log[j].discharged])

\* A record of the first n hours.
RecordOf(log, n) ==
  /\ log = [k \in 1..n |-> log[k]]
  /\ \A k \in 1..n : /\ log[k].time = EvalTimes[k] /\ log[k].discharged \in NonNegative
                     /\ Divides(log[k].mw) /\ Within(log[k].soc)

\* A run after n hours: its window still tells what the last day of it has sold.
RunInv(run, n) ==
  /\ RecordOf(run.log, n)
  /\ Within(run.soc) /\ run.window \in Seq(Sale)
  /\ battery.cap # None =>
       /\ \A c \in Int : (n > 0 => c >= EvalTimes[n] - Day)
                           => Held(run.window, c) = Sold(run.log, SinceHour(n, c))
       /\ \A k \in 1..n : Sold(run.log, SinceHour(k, EvalTimes[k] - Day))
                            \preceq Whole(battery.out * battery.cap)

\* What was sold is an amount, and in fewer hours no more of it.
LEMMA SoldFacts ==
  ASSUME NEW n \in Nat, NEW log, RecordOf(log, n), NEW S \in SUBSET (1..n)
  PROVE  /\ IsFiniteSet(S) /\ Sold(log, S) \in NonNegative
         /\ \A T \in SUBSET S : Sold(log, T) \preceq Sold(log, S)
<1> DEFINE f == [j \in S |-> log[j].discharged]
<1>1. IsFiniteSet(S)
  <2>1. IsFiniteSet(1..n)
    BY FS_Interval
  <2>. QED BY <2>1, FS_Subset
<1>2. DOMAIN f = S /\ \A j \in S : f[j] \in NonNegative
  BY DEF RecordOf
<1>3. SumOver(f) = Sold(log, S)
  BY DEF Sold
<1>4. ASSUME NEW T \in SUBSET S PROVE Sold(log, T) = SumOver([j \in T |-> f[j]])
  <2>1. [j \in T |-> f[j]] = [j \in T |-> log[j].discharged]
    OBVIOUS
  <2> HIDE DEF f
  <2>. QED BY <2>1, Zenon DEF Sold
<1> HIDE DEF f
<1>5. SumOver(f) \in NonNegative
  BY <1>1, <1>2, SumOverAmounts
<1>6. ASSUME NEW T \in SUBSET S PROVE SumOver([j \in T |-> f[j]]) \preceq SumOver(f)
  BY <1>1, <1>2, SumOverPart
<1>. QED BY <1>1, <1>3, <1>4, <1>5, <1>6

\* One more hour of the record.
LEMMA RecordGrows ==
  ASSUME NEW n \in Nat, NEW log, RecordOf(log, n),
         NEW longer, longer = [k \in 1..(n + 1) |-> longer[k]], \A k \in 1..n : longer[k] = log[k],
         longer[n + 1].time = EvalTimes[n + 1], longer[n + 1].discharged \in NonNegative,
         Divides(longer[n + 1].mw), Within(longer[n + 1].soc)
  PROVE  RecordOf(longer, n + 1)
<1>1. ASSUME NEW k \in 1..(n + 1)
      PROVE  /\ longer[k].time = EvalTimes[k] /\ longer[k].discharged \in NonNegative
             /\ Divides(longer[k].mw) /\ Within(longer[k].soc)
  <2>1. CASE k = n + 1
    BY <2>1
  <2>2. CASE k # n + 1
    <3>1. k \in 1..n
      BY <2>2
    <3>. QED BY <3>1 DEF RecordOf
  <2>. QED BY <2>1, <2>2
<1>. QED BY <1>1 DEF RecordOf

\* What two records tell alike they sell alike.
LEMMA SoldAlike ==
  ASSUME NEW log, NEW other, NEW S, \A k \in S : log[k] = other[k]
  PROVE  Sold(log, S) = Sold(other, S)
BY DEF Sold

\* What the hour sold, on top of what was sold before.
LEMMA SoldGrows ==
  ASSUME NEW n \in Nat, NEW log, NEW longer, RecordOf(longer, n + 1),
         \A k \in 1..n : longer[k] = log[k],
         NEW c \in Int, \A k \in 1..(n + 1) : EvalTimes[k] \in Int
  PROVE  Sold(longer, SinceHour(n + 1, c))
           = IF longer[n + 1].discharged # Zero /\ EvalTimes[n + 1] >= c
               THEN longer[n + 1].discharged ++ Sold(log, SinceHour(n, c))
               ELSE Sold(log, SinceHour(n, c))
<1> DEFINE R == SinceHour(n + 1, c)
           S == SinceHour(n, c)
           g == [j \in R |-> longer[j].discharged]
           f == [j \in S |-> log[j].discharged]
<1>1. /\ R \subseteq 1..(n + 1) /\ S \subseteq 1..n /\ S \subseteq R
      /\ EvalTimes[n + 1] >= c => n + 1 \in R
      /\ \A j : j \in S <=> j \in R /\ j # n + 1
      /\ ~(EvalTimes[n + 1] >= c) => R = S
  BY DEF SinceHour
<1>2. SumOver(g) = Sold(longer, R) /\ SumOver(f) = Sold(log, S)
  BY DEF Sold
<1>3. CASE EvalTimes[n + 1] >= c
  <2>1. /\ DOMAIN f = S /\ f = [j \in S |-> f[j]] /\ DOMAIN g = R
        /\ \A j \in R : g[j] \in Fractions
        /\ \A j \in S : f[j] = g[j]
        /\ g[n + 1] = longer[n + 1].discharged
    BY <1>1, <1>3, AmountIsFraction DEF RecordOf
  <2>2. IsFiniteSet(R)
    <3> HIDE DEF R
    <3>. QED BY <1>1, SoldFacts
  <2> HIDE DEF f, g, R, S
  <2>3. /\ SumOver(g) = g[n + 1] ++ SumOver(f)
        /\ g[n + 1] = Zero => SumOver(g) = SumOver(f)
    <3>1. PICK A, B, u, p, q : A = R /\ B = S /\ u = n + 1 /\ p = f /\ q = g
      OBVIOUS
    <3>2. /\ IsFiniteSet(A) /\ u \in A /\ \A x : x \in B <=> x \in A /\ x # u
          /\ DOMAIN p = B /\ p = [x \in B |-> p[x]]
          /\ DOMAIN q = A /\ \A x \in A : q[x] \in Fractions
          /\ \A x \in B : p[x] = q[x]
      BY <1>1, <1>3, <2>1, <2>2, <3>1
    <3>3. SumOver(q) = q[u] ++ SumOver(p) /\ (q[u] = Zero => SumOver(q) = SumOver(p))
      BY <3>2, OneMore
    <3>. QED BY <3>1, <3>3
  <2>4. Sold(longer, R) = IF longer[n + 1].discharged # Zero
                            THEN longer[n + 1].discharged ++ Sold(log, S)
                            ELSE Sold(log, S)
    BY <1>2, <2>1, <2>3
  <2>. QED BY <1>3, <2>4 DEF R, S
<1>4. CASE ~(EvalTimes[n + 1] >= c)
  <2>1. Sold(longer, S) = Sold(log, S)
    <3> HIDE DEF S
    <3>. QED BY <1>1, SoldAlike
  <2> HIDE DEF R, S
  <2>2. Sold(longer, R) = Sold(log, S)
    BY <1>1, <1>4, <2>1
  <2>. QED BY <1>4, <2>2 DEF R, S
<1>. QED BY <1>3, <1>4

\* The last day of a run is within the cap, however far the next hour is.
LEMMA RunBeforeMove ==
  ASSUME InEvaluation, NEW n \in Nat, n + 1 \in DOMAIN EvalTimes, NEW run, RunInv(run, n)
  PROVE  BeforeMove(run, EvalTimes[n + 1])
<1> DEFINE t == EvalTimes[n + 1]
           c == t - Day
<1>1. PICK N \in Nat :
        /\ DOMAIN EvalTimes = 1..N
        /\ \A k \in 1..N : EvalTimes[k] \in Int
        /\ \A j, k \in 1..N : j < k => EvalTimes[j] < EvalTimes[k]
  BY TimesFacts
<1>2. t \in Int /\ c \in Int /\ Day \in Int /\ \A k \in 1..n : k \in 1..N /\ EvalTimes[k] < t
  <2>1. n + 1 \in 1..N /\ EvalTimes[n + 1] \in Int
    BY <1>1
  <2>2. \A k \in 1..n : k \in 1..N /\ k < n + 1
    BY <2>1
  <2>3. Day \in Int
    BY SeriesAssumption
  <2>4. \A k \in 1..n : EvalTimes[k] < EvalTimes[n + 1]
    BY <1>1, <2>1, <2>2
  <2>. QED BY <2>1, <2>2, <2>3, <2>4
<1>3. ASSUME battery.cap # None
      PROVE  Held(run.window, c) \preceq Whole(battery.out * battery.cap)
  <2>1. PICK top \in Nat : top = battery.out * battery.cap /\ Whole(top) \in Fractions
    BY <1>3, CapHolds
  <2>2. n > 0 => c >= EvalTimes[n] - Day
    BY <1>1, <1>2
  <2>3. Held(run.window, c) = Sold(run.log, SinceHour(n, c))
    <3> HIDE DEF c
    <3>. QED BY <1>2, <1>3, <2>2 DEF RunInv
  <2>4. CASE n = 0
    <3>1. SinceHour(n, c) = {}
      BY <2>4 DEF SinceHour
    <3>2. Held(run.window, c) = Zero
      BY <2>3, <3>1, SumOverNone DEF Sold
    <3>3. Is(Zero, 0, 1) /\ Is(Whole(top), top, 1)
      BY DEF Is, Fractions, Zero, Whole
    <3>4. Zero \preceq Whole(top)
      <4>1. 0 <= top
        OBVIOUS
      <4>. QED BY <3>3, <4>1, PrecedesIs
    <3>. QED BY <2>1, <3>2, <3>4
  <2>5. CASE n > 0
    <3> DEFINE S == SinceHour(n, EvalTimes[n] - Day)
               T == SinceHour(n, c)
    <3>1. Sold(run.log, S) \preceq Whole(top)
      BY <1>3, <2>1, <2>5 DEF RunInv
    <3>2. T \in SUBSET S /\ S \in SUBSET (1..n)
      BY <1>1, <1>2, <2>5 DEF SinceHour
    <3> HIDE DEF S, T
    <3>3. Sold(run.log, T) \preceq Sold(run.log, S) /\ Sold(run.log, S) \in Fractions
          /\ Sold(run.log, T) \in Fractions
      <4>1. RecordOf(run.log, n) /\ T \in SUBSET (1..n)
        BY <3>2 DEF RunInv
      <4>. QED BY <3>2, <4>1, SoldFacts, AmountIsFraction
    <3>4. Sold(run.log, T) \preceq Whole(top)
      BY <2>1, <3>1, <3>3, PrecedesFollows
    <3>. QED BY <2>1, <2>3, <3>4 DEF T
  <2>. QED BY <2>4, <2>5
<1>. QED BY <1>2, <1>3 DEF BeforeMove, RunInv

\* An hour of a run.
LEMMA RunHour ==
  ASSUME InEvaluation, NEW n \in Nat, n + 1 \in DOMAIN EvalTimes, NEW run, RunInv(run, n),
         NEW mw, Divides(mw)
  PROVE  RunInv(EvalHourWith(mw, run, EvalTimes[n + 1]), n + 1)
<1> DEFINE t == EvalTimes[n + 1]
           move == EvalMove(run, mw[Arbitrage], t)
           after == EvalHourWith(mw, run, t)
           r == after.log[n + 1]
<1>1. PICK N \in Nat :
        /\ DOMAIN EvalTimes = 1..N
        /\ \A k \in 1..N : EvalTimes[k] \in Int
        /\ \A j, k \in 1..N : j < k => EvalTimes[j] < EvalTimes[k]
  BY TimesFacts
<1>2. t \in Int /\ t - Day \in Int /\ Day \in Int /\ \A k \in 1..n : k \in 1..N /\ EvalTimes[k] < t
  <2>1. n + 1 \in 1..N /\ EvalTimes[n + 1] \in Int
    BY <1>1
  <2>2. \A k \in 1..n : k \in 1..N /\ k < n + 1
    BY <2>1
  <2>3. Day \in Int
    BY SeriesAssumption
  <2>4. \A k \in 1..n : EvalTimes[k] < EvalTimes[n + 1]
    BY <1>1, <2>1, <2>2
  <2>. QED BY <2>1, <2>2, <2>3, <2>4
<1>3. MoveIs(run, t, move)
  <2>1. mw[Arbitrage] \in Fractions
    BY AmountIsFraction DEF Divides, EvalLegs
  <2>. QED BY <2>1, RunBeforeMove, EvalMoveFacts
<1> HIDE DEF move
<1>4. PICK entry : /\ entry.time = t /\ entry.mw = mw /\ entry.soc = move.soc
                   /\ entry.discharged = move.discharged
                   /\ after.log = Append(run.log, entry)
                   /\ after.soc = move.soc /\ after.window = move.window
  BY DEF EvalHourWith, Recorded, move
<1> HIDE DEF after
<1>5. /\ RecordOf(after.log, n + 1) /\ after.log[n + 1] = entry
      /\ \A k \in 1..n : after.log[k] = run.log[k]
  <2>1. RecordOf(run.log, n)
    BY DEF RunInv
  <2>2. /\ entry.time = EvalTimes[n + 1] /\ entry.discharged \in NonNegative
        /\ Divides(entry.mw) /\ Within(entry.soc)
    BY <1>3, <1>4 DEF MoveIs
  <2>3. PICK log, longer : log = run.log /\ longer = after.log
    OBVIOUS
  <2>4. /\ longer = [k \in 1..(n + 1) |-> longer[k]] /\ longer[n + 1] = entry
        /\ \A k \in 1..n : longer[k] = log[k]
    <3>1. log = [k \in 1..n |-> log[k]] /\ longer = Append(log, entry)
      BY <1>4, <2>1, <2>3 DEF RecordOf
    <3>. QED BY <3>1, LogGrows
  <2>5. RecordOf(longer, n + 1)
    BY <2>1, <2>2, <2>3, <2>4, RecordGrows
  <2>. QED BY <2>3, <2>4, <2>5
<1>6. Within(after.soc) /\ after.window \in Seq(Sale)
  BY <1>3, <1>4 DEF MoveIs
<1>7. ASSUME battery.cap # None, NEW c \in Int, c >= t - Day
      PROVE  /\ Held(after.window, c) = Sold(after.log, SinceHour(n + 1, c))
             /\ Held(run.window, c) = Sold(run.log, SinceHour(n, c))
  <2>1. n > 0 => c >= EvalTimes[n] - Day
    BY <1>1, <1>2, <1>7
  <2>2. Held(run.window, c) = Sold(run.log, SinceHour(n, c))
    BY <1>7, <2>1 DEF RunInv
  <2>3. Held(after.window, c) = IF entry.discharged # Zero /\ t >= c
                                  THEN entry.discharged ++ Held(run.window, c)
                                  ELSE Held(run.window, c)
    BY <1>3, <1>4, <1>7 DEF MoveIs
  <2>4. Sold(after.log, SinceHour(n + 1, c))
          = IF entry.discharged # Zero /\ t >= c
              THEN entry.discharged ++ Sold(run.log, SinceHour(n, c))
              ELSE Sold(run.log, SinceHour(n, c))
    <3>1. \A k \in 1..(n + 1) : EvalTimes[k] \in Int
      BY <1>1
    <3>. QED BY <1>5, <3>1, SoldGrows
  <2>. QED BY <2>2, <2>3, <2>4
<1>8. ASSUME battery.cap # None
      PROVE  Sold(after.log, SinceHour(n + 1, t - Day)) \preceq Whole(battery.out * battery.cap)
  <2>1. t - Day >= t - Day /\ t >= t - Day
    BY <1>2, SeriesAssumption
  <2>2. PICK top \in Nat : top = battery.out * battery.cap
    BY <1>8, CapHolds
  <2>3. (entry.discharged ++ Held(run.window, t - Day)) \preceq Whole(top)
    BY <1>3, <1>4, <1>8, <2>2 DEF MoveIs
  <2>4. Held(after.window, t - Day) = IF entry.discharged # Zero
                                        THEN entry.discharged ++ Held(run.window, t - Day)
                                        ELSE Held(run.window, t - Day)
    BY <1>2, <1>3, <1>4, <1>8, <2>1 DEF MoveIs
  <2>5. Held(after.window, t - Day) = Sold(after.log, SinceHour(n + 1, t - Day))
    BY <1>2, <1>7, <1>8, <2>1
  <2>6. Held(run.window, t - Day) \preceq Whole(top)
    BY <1>8, <2>2, RunBeforeMove DEF BeforeMove
  <2>. QED BY <2>2, <2>3, <2>4, <2>5, <2>6
<1>9. ASSUME battery.cap # None, NEW k \in 1..(n + 1)
      PROVE  Sold(after.log, SinceHour(k, EvalTimes[k] - Day)) \preceq Whole(battery.out * battery.cap)
  <2>1. CASE k = n + 1
    BY <1>8, <1>9, <2>1
  <2>2. CASE k # n + 1
    <3>1. k \in 1..n
      BY <2>2
    <3>2. Sold(after.log, SinceHour(k, EvalTimes[k] - Day)) = Sold(run.log, SinceHour(k, EvalTimes[k] - Day))
      <4>1. \A j \in SinceHour(k, EvalTimes[k] - Day) : after.log[j] = run.log[j]
        BY <1>5, <3>1 DEF SinceHour
      <4>. QED BY <4>1, SoldAlike
    <3>. QED BY <1>9, <3>1, <3>2 DEF RunInv
  <2>. QED BY <2>1, <2>2
<1>10. RunInv(after, n + 1)
  BY <1>5, <1>6, <1>7, <1>9 DEF RunInv
<1>. QED BY <1>10 DEF after

-----------------------------------------------------------------------------
(* Every policy keeps the battery.                                         *)

\* The inductive invariant: after hour - 1 of the hours, every run is as RunInv says.
EvalInv ==
  /\ InEvaluation /\ TrailingTyped
  /\ hour \in Nat \ {0} /\ \A k \in 1..(hour - 1) : k \in DOMAIN EvalTimes
  /\ DOMAIN runs = Policies /\ \A p \in Policies : RunInv(runs[p], hour - 1)

\* An evaluation starts there,
LEMMA EvalStarts == EvalInit => EvalInv
<1> SUFFICES ASSUME EvalInit PROVE EvalInv
  OBVIOUS
<1>1. InEvaluation
  BY DEF EvalInit, EvalStart, InEvaluation
<1>2. TrailingTyped
  BY EmptySeq DEF EvalInit, EvalStart, TrailingTyped
<1>3. hour = 1 /\ runs = [p \in Policies |-> StartRun]
  BY DEF EvalInit, EvalStart
<1>4. RunInv(StartRun, 0)
  <2>1. StartRun.log = << >> /\ StartRun.window = << >> /\ StartRun.soc = Whole(battery.start)
    BY DEF StartRun
  <2>2. << >> = [k \in 1..0 |-> << >>[k]]
    OBVIOUS
  <2>3. RecordOf(StartRun.log, 0)
    BY <2>1, <2>2 DEF RecordOf
  <2>4. Within(StartRun.soc)
    <3>1. PICK lo \in Int, hi \in Int, start \in Int :
            /\ lo = battery.lo /\ hi = battery.hi /\ start = battery.start
            /\ lo <= start /\ start <= hi
      BY <1>1, EvaluationFacts
    <3>2. Is(Whole(lo), lo, 1) /\ Is(Whole(start), start, 1) /\ Is(Whole(hi), hi, 1)
      BY WholeIs
    <3>3. Whole(lo) \preceq Whole(start) /\ Whole(start) \preceq Whole(hi)
      BY <3>1, <3>2, PrecedesIs
    <3>. QED BY <2>1, <3>1, <3>2, <3>3 DEF Within, Is
  <2>5. StartRun.window \in Seq(Sale)
    BY <2>1, EmptySeq
  <2>6. ASSUME NEW c \in Int
        PROVE  Held(StartRun.window, c) = Sold(StartRun.log, SinceHour(0, c))
    <3>1. Unexpired(StartRun.window, c) = {} /\ SinceHour(0, c) = {}
      BY <2>1, EmptySeq DEF Unexpired, SinceHour
    <3>2. Held(StartRun.window, c) = Zero /\ Sold(StartRun.log, SinceHour(0, c)) = Zero
      BY <3>1, SumOverNone DEF Held, Sold
    <3>. QED BY <3>2
  <2>. QED BY <2>3, <2>4, <2>5, <2>6 DEF RunInv
<1>. QED BY <1>1, <1>2, <1>3, <1>4 DEF EvalInv

\* and what an hour appends to the trailing windows are prices.
LEMMA ExtendTyped ==
  ASSUME InEvaluation, NEW windows, \A l \in EvalLegs : windows[l] \in Seq(Int), NEW n \in Nat, NEW t,
         \A l \in EvalLegs : t \in DOMAIN actuals[l]
  PROVE  \A l \in EvalLegs : Extend(windows, n, t)[l] \in Seq(Int)
<1> SUFFICES ASSUME NEW l \in EvalLegs PROVE Extend(windows, n, t)[l] \in Seq(Int)
  OBVIOUS
<1>1. PICK price \in Int : price = actuals[l][t]
  BY EvaluationFacts DEF IsSeries
<1>2. PICK longer \in Seq(Int) : longer = Append(windows[l], price)
  BY AppendProperties
<1>3. Extend(windows, n, t)[l] = Newest(longer, n)
  BY <1>1, <1>2 DEF Extend
<1>. QED BY <1>3, NewestType

\* An hour of every policy keeps it,
LEMMA HourKeepsEval == EvalInv /\ EvalHour => EvalInv'
<1> SUFFICES ASSUME EvalInv, EvalHour PROVE EvalInv'
  OBVIOUS
<1> USE DEF EvalInv
<1>1. battery' = battery /\ actuals' = actuals /\ forecasts' = forecasts /\ hour' = hour + 1
      /\ EvalTimes' = EvalTimes
  BY DEF EvalHour, EvalTimes
<1>2. PICK n \in Nat : n = hour - 1 /\ hour = n + 1 /\ n + 1 \in DOMAIN EvalTimes
  BY DEF EvalHour
<1>3. PICK t : t = EvalTimes[n + 1]
  OBVIOUS
<1>4. /\ runs' = [p \in Policies |-> EvalStep(p, runs[p], t)]
      /\ shorts' = Extend(shorts, battery.lookback, t)
      /\ baselines' = Extend(baselines, BaselineMultiplier * battery.lookback, t)
  BY <1>2, <1>3 DEF EvalHour
<1>5. InEvaluation'
  BY <1>1 DEF InEvaluation, ValidBattery
<1>6. TrailingTyped'
  <2>1. \A l \in EvalLegs : t \in DOMAIN actuals[l]
    BY <1>2, <1>3, TimesFacts
  <2>2. battery.lookback \in Nat /\ BaselineMultiplier * battery.lookback \in Nat
    BY EvaluationFacts, SeriesAssumption
  <2>3. \A l \in EvalLegs : shorts'[l] \in Seq(Int)
    BY <1>4, <2>1, <2>2, ExtendTyped DEF TrailingTyped
  <2>4. \A l \in EvalLegs : baselines'[l] \in Seq(Int)
    <3>1. PICK m \in Nat : m = BaselineMultiplier * battery.lookback
      BY <2>2
    <3>. QED BY <1>4, <2>1, <3>1, ExtendTyped DEF TrailingTyped
  <2>. QED BY <2>3, <2>4 DEF TrailingTyped
<1>7. hour' \in Nat \ {0} /\ \A k \in 1..(hour' - 1) : k \in DOMAIN EvalTimes'
  <2>1. hour' - 1 = n + 1 /\ \A k \in 1..(n + 1) : k \in 1..n \/ k = n + 1
    BY <1>1, <1>2
  <2>. QED BY <1>1, <1>2, <2>1
<1>8. ASSUME NEW p \in Policies PROVE RunInv(runs[p], hour - 1)'
  <2>1. Divides(Allocation(p, t))
    BY AllocationDivides
  <2>2. PICK after : after = EvalHourWith(Allocation(p, t), runs[p], t)
    OBVIOUS
  <2>3. RunInv(after, n + 1)
    <3>1. RunInv(runs[p], n)
      BY <1>2
    <3>2. PICK mw, run : mw = Allocation(p, t) /\ run = runs[p]
      OBVIOUS
    <3>. QED BY <1>2, <1>3, <2>1, <2>2, <3>1, <3>2, RunHour
  <2>4. runs'[p] = after /\ hour' - 1 = n + 1
    BY <1>1, <1>2, <1>4, <2>2 DEF EvalStep
  <2>5. RunInv(after, n + 1)'
    BY <1>1, <2>3 DEF RunInv, RecordOf, Within, Divides, SinceHour
  <2>. QED BY <2>4, <2>5 DEF RunInv, RecordOf, SinceHour
<1>9. DOMAIN runs' = Policies
  BY <1>4
<1>. QED BY <1>5, <1>6, <1>7, <1>8, <1>9

\* and so does every step.
LEMMA StepKeepsEval == EvalInv /\ [EvalHour]_evalVars => EvalInv'
<1> SUFFICES ASSUME EvalInv, [EvalHour]_evalVars PROVE EvalInv'
  OBVIOUS
<1>1. CASE EvalHour
  BY <1>1, HourKeepsEval
<1>2. CASE UNCHANGED evalVars
  <2>1. /\ battery' = battery /\ actuals' = actuals /\ forecasts' = forecasts /\ hour' = hour
        /\ shorts' = shorts /\ baselines' = baselines /\ runs' = runs /\ EvalTimes' = EvalTimes
    BY <1>2 DEF evalVars, EvalTimes
  <2>2. InEvaluation' /\ TrailingTyped'
    BY <2>1 DEF EvalInv, InEvaluation, ValidBattery, TrailingTyped
  <2>3. ASSUME NEW p \in Policies PROVE RunInv(runs[p], hour - 1)'
    <3>1. PICK run, n : run = runs[p] /\ n = hour - 1 /\ RunInv(run, n)
      BY DEF EvalInv
    <3>2. RunInv(run, n)'
      BY <2>1, <3>1 DEF RunInv, RecordOf, Within, Divides, SinceHour
    <3>3. run = runs'[p] /\ n = hour' - 1
      BY <2>1, <3>1
    <3>. QED BY <3>2, <3>3 DEF RunInv, RecordOf, SinceHour
  <2>. QED BY <2>1, <2>2, <2>3 DEF EvalInv
<1>. QED BY <1>1, <1>2

\* A run's record of itself then tells that the power was divided and the battery kept.
LEMMA EvalInvEnough == EvalInv => PoliciesKeepTheBattery
<1> SUFFICES ASSUME EvalInv PROVE PoliciesKeepTheBattery
  OBVIOUS
<1>1. ASSUME NEW p \in DOMAIN runs, NEW k \in DOMAIN PolicyLog(p)
      PROVE  /\ SumOver(PolicyLog(p)[k].mw) = Whole(battery.power)
             /\ \A l \in DOMAIN PolicyLog(p)[k].mw : Zero \preceq PolicyLog(p)[k].mw[l]
             /\ battery.cap # None =>
                  SumOver([j \in {i \in 1..k : PolicyLog(p)[i].time >= PolicyLog(p)[k].time - Day}
                             |-> PolicyLog(p)[j].discharged]) \preceq Whole(battery.out * battery.cap)
             /\ Whole(battery.lo) \preceq PolicyLog(p)[k].soc
             /\ PolicyLog(p)[k].soc \preceq Whole(battery.hi)
  <2>1. PICK log : log = PolicyLog(p)
    OBVIOUS
  <2>2. PICK n \in Nat : n = hour - 1 /\ RecordOf(log, n) /\ RunInv(runs[p], n)
    BY <2>1 DEF EvalInv, RunInv, PolicyLog
  <2>3. /\ DOMAIN log = 1..n /\ k \in 1..n /\ \A j \in 1..n : log[j].time = EvalTimes[j]
        /\ Divides(log[k].mw) /\ Within(log[k].soc)
    BY <2>1, <2>2 DEF RecordOf
  <2>4. ASSUME NEW l \in DOMAIN log[k].mw PROVE Zero \preceq log[k].mw[l]
    <3>1. log[k].mw[l] \in NonNegative
      BY <2>3 DEF Divides
    <3>2. PICK a \in Nat, b \in Nat \ {0} : log[k].mw[l] = <<a, b>>
      BY <3>1 DEF NonNegative
    <3>3. 0 * b <= a * 1
      BY <3>2
    <3>. QED BY <3>2, <3>3 DEF \preceq, Zero, Whole
  <2>5. {i \in 1..k : log[i].time >= log[k].time - Day} = SinceHour(k, EvalTimes[k] - Day)
    BY <2>3 DEF SinceHour
  <2>6. ASSUME battery.cap # None
        PROVE  Sold(log, SinceHour(k, EvalTimes[k] - Day)) \preceq Whole(battery.out * battery.cap)
    BY <2>1, <2>2, <2>3, <2>6 DEF RunInv, PolicyLog
  <2>7. ASSUME battery.cap # None
        PROVE  SumOver([j \in {i \in 1..k : log[i].time >= log[k].time - Day}
                          |-> log[j].discharged]) \preceq Whole(battery.out * battery.cap)
    BY <2>5, <2>6, <2>7, Zenon DEF Sold
  <2>. QED BY <2>1, <2>3, <2>4, <2>7 DEF Divides, Within
<1>2. DividesAllPower
  BY <1>1 DEF DividesAllPower
<1>3. \A p \in DOMAIN runs : \A k \in DOMAIN PolicyLog(p) :
        LET log == PolicyLog(p)
            recent == {j \in 1..k : log[j].time >= log[k].time - Day}
        IN /\ battery.cap # None =>
                SumOver([j \in recent |-> log[j].discharged]) \preceq Whole(battery.out * battery.cap)
           /\ Whole(battery.lo) \preceq log[k].soc /\ log[k].soc \preceq Whole(battery.hi)
  BY <1>1
<1>. QED BY <1>2, <1>3 DEF PoliciesKeepTheBattery

\* Whatever the prices and the forecasts, every policy divides the whole of the power every
\* hour, keeps its battery in its band, and sells within the cap in every rolling day.
THEOREM PoliciesCorrect == EvalSpec => []PoliciesKeepTheBattery
<1>. QED BY EvalStarts, StepKeepsEval, EvalInvEnough, PTL DEF EvalSpec

-----------------------------------------------------------------------------
(* A right forecast.                                                       *)

\* No forecast differs from the price it forecasts, and an hour that is forecast for every leg.
ForecastsRight ==
  \A l \in EvalLegs : \A t \in DOMAIN forecasts[l] :
    t \in DOMAIN actuals[l] /\ forecasts[l][t] = actuals[l][t]
Predicted(t) == \A l \in EvalLegs : t \in DOMAIN forecasts[l]

\* The model and the oracle have earned the same capacity revenue in the predicted hours,
\* and are the same run where every price is predicted.
SameSoFar ==
  /\ \A k \in 1..(hour - 1) :
       Predicted(EvalTimes[k]) => runs["model"].log[k].eur = runs["oracle"].log[k].eur
  /\ forecasts = actuals => runs["model"] = runs["oracle"]

\* What SameSoFar needs beside itself is that the records are of the hours so far.
OracleInv == EvalInv /\ (ForecastsRight => SameSoFar)

\* Where the forecast is right, the two divide the power alike.
LEMMA AllocatesAlike ==
  ASSUME ForecastsRight, NEW t, Predicted(t)
  PROVE  Allocation("model", t) = Allocation("oracle", t)
<1>1. ASSUME NEW l \in EvalLegs PROVE Strength("model", l, t) = Strength("oracle", l, t)
  <2>1. At(forecasts[l], t) = At(actuals[l], t)
    BY DEF At, ForecastsRight, Predicted
  <2>. QED BY <2>1 DEF Strength
<1>2. [l \in EvalLegs |-> Strength("model", l, t)] = [l \in EvalLegs |-> Strength("oracle", l, t)]
  BY <1>1
<1>3. RankedAllocation("model", t) = RankedAllocation("oracle", t)
  BY <1>2, Zenon DEF RankedAllocation
<1>. QED BY <1>3 DEF Allocation

\* Both begin as the same run,
LEMMA OracleStarts == EvalInit => OracleInv
<1> SUFFICES ASSUME EvalInit PROVE OracleInv
  OBVIOUS
<1>1. runs = [p \in Policies |-> StartRun] /\ hour = 1
  BY DEF EvalInit, EvalStart
<1>2. SameSoFar
  BY <1>1 DEF SameSoFar, Policies
<1>. QED BY <1>2, EvalStarts DEF OracleInv

\* an hour's entry of the record is the capacity revenue of its division of the power,
\* and it rewrites no earlier entry,
LEMMA HourEarns ==
  ASSUME NEW n \in Nat, NEW run, RecordOf(run.log, n), NEW mw, NEW t
  PROVE  /\ EvalHourWith(mw, run, t).log[n + 1].eur = CapacityRevenue(mw, t)
         /\ \A k \in 1..n : EvalHourWith(mw, run, t).log[k] = run.log[k]
<1>1. PICK entry : /\ entry.eur = CapacityRevenue(mw, t)
                   /\ EvalHourWith(mw, run, t).log = Append(run.log, entry)
  BY DEF EvalHourWith, Recorded
<1>2. PICK log, longer :
        log = run.log /\ longer = Append(log, entry) /\ longer = EvalHourWith(mw, run, t).log
  BY <1>1
<1>3. log = [k \in 1..n |-> log[k]]
  BY <1>2 DEF RecordOf
<1>4. Append(log, entry)[n + 1] = entry /\ \A k \in 1..n : Append(log, entry)[k] = log[k]
  BY <1>3, LogGrows
<1>. QED BY <1>1, <1>2, <1>4, Zenon

\* so an hour keeps the two alike,
LEMMA HourKeepsOracle == OracleInv /\ EvalHour => OracleInv'
<1> SUFFICES ASSUME OracleInv, EvalHour PROVE OracleInv'
  OBVIOUS
<1>1. EvalInv /\ EvalInv'
  BY HourKeepsEval DEF OracleInv
<1>2. actuals' = actuals /\ forecasts' = forecasts /\ hour' = hour + 1 /\ EvalTimes' = EvalTimes
  BY DEF EvalHour, EvalTimes
<1>3. PICK n \in Nat : n = hour - 1 /\ hour' - 1 = n + 1 /\ n + 1 \in DOMAIN EvalTimes /\ hour = n + 1
  BY <1>1, <1>2 DEF EvalHour, EvalInv
<1>4. PICK t : t = EvalTimes[n + 1]
  OBVIOUS
<1>5. runs' = [p \in Policies |-> EvalHourWith(Allocation(p, t), runs[p], t)]
  BY <1>3, <1>4 DEF EvalHour, EvalStep
<1>6. \A l \in EvalLegs : t \in DOMAIN actuals[l]
  BY <1>1, <1>3, <1>4, TimesFacts DEF EvalInv
<1> SUFFICES ASSUME ForecastsRight PROVE SameSoFar'
  BY <1>1, <1>2 DEF OracleInv, ForecastsRight
<1>7. SameSoFar
  BY DEF OracleInv
<1>8. PICK model, oracle, m, o :
        /\ model = runs["model"] /\ oracle = runs["oracle"]
        /\ m = Allocation("model", t) /\ o = Allocation("oracle", t)
  OBVIOUS
<1>9. runs'["model"] = EvalHourWith(m, model, t) /\ runs'["oracle"] = EvalHourWith(o, oracle, t)
  BY <1>5, <1>8 DEF Policies
<1>10. Predicted(t) => m = o
  BY <1>8, AllocatesAlike
<1>11. RecordOf(model.log, n) /\ RecordOf(oracle.log, n)
  BY <1>1, <1>3, <1>8 DEF EvalInv, RunInv, Policies
<1>12. ASSUME NEW k \in 1..(n + 1), Predicted(EvalTimes[k])
       PROVE  runs'["model"].log[k].eur = runs'["oracle"].log[k].eur
  <2>1. CASE k = n + 1
    <3>1. m = o
      BY <1>4, <1>10, <1>12, <2>1
    <3>2. /\ EvalHourWith(m, model, t).log[n + 1].eur = CapacityRevenue(m, t)
          /\ EvalHourWith(o, oracle, t).log[n + 1].eur = CapacityRevenue(o, t)
      BY <1>11, HourEarns
    <3>. QED BY <1>9, <2>1, <3>1, <3>2
  <2>2. CASE k # n + 1
    <3>1. k \in 1..n
      BY <2>2
    <3>2. /\ EvalHourWith(m, model, t).log[k] = model.log[k]
          /\ EvalHourWith(o, oracle, t).log[k] = oracle.log[k]
      BY <1>11, <3>1, HourEarns
    <3>3. model.log[k].eur = oracle.log[k].eur
      BY <1>3, <1>7, <1>8, <1>12, <3>1 DEF SameSoFar
    <3>. QED BY <1>9, <3>2, <3>3
  <2>. QED BY <2>1, <2>2
<1>13. ASSUME forecasts = actuals PROVE runs'["model"] = runs'["oracle"]
  <2>1. m = o /\ model = oracle
    BY <1>6, <1>7, <1>8, <1>10, <1>13 DEF Predicted, SameSoFar
  <2>. QED BY <1>9, <2>1
<1>14. ASSUME NEW k \in 1..(hour' - 1), Predicted(EvalTimes[k])'
       PROVE  runs'["model"].log[k].eur = runs'["oracle"].log[k].eur
  <2>1. Predicted(EvalTimes[k])
    BY <1>2, <1>14 DEF Predicted
  <2>. QED BY <1>3, <1>12, <1>14, <2>1
<1>. QED BY <1>2, <1>13, <1>14 DEF SameSoFar

\* and so does every step.
LEMMA StepKeepsOracle == OracleInv /\ [EvalHour]_evalVars => OracleInv'
<1> SUFFICES ASSUME OracleInv, [EvalHour]_evalVars PROVE OracleInv'
  OBVIOUS
<1>1. CASE EvalHour
  BY <1>1, HourKeepsOracle
<1>2. CASE UNCHANGED evalVars
  <2>1. EvalInv'
    BY StepKeepsEval DEF OracleInv
  <2>2. /\ actuals' = actuals /\ forecasts' = forecasts /\ hour' = hour /\ runs' = runs
        /\ EvalTimes' = EvalTimes
    BY <1>2 DEF evalVars, EvalTimes
  <2>. QED BY <2>1, <2>2 DEF OracleInv, ForecastsRight, SameSoFar, Predicted
<1>. QED BY <1>1, <1>2

\* The scored hours are predicted ones.
LEMMA OracleInvEnough == OracleInv => PerfectForecastIsOracle
<1> SUFFICES ASSUME OracleInv, ForecastsRight
             PROVE  /\ ScoredRevenue("model") = ScoredRevenue("oracle")
                    /\ forecasts = actuals => runs["model"] = runs["oracle"]
  BY DEF PerfectForecastIsOracle, ForecastsRight
<1>0. PICK n \in Nat : n = hour - 1
  BY DEF OracleInv, EvalInv
<1>1. PICK model, oracle :
        /\ model = runs["model"].log /\ oracle = runs["oracle"].log
        /\ RecordOf(model, n) /\ RecordOf(oracle, n)
  BY <1>0 DEF OracleInv, EvalInv, RunInv, Policies
<1>2. /\ DOMAIN model = 1..n /\ DOMAIN oracle = 1..n
      /\ \A k \in 1..n : model[k].time = EvalTimes[k] /\ oracle[k].time = EvalTimes[k]
  BY <1>1 DEF RecordOf
<1>3. ASSUME NEW k \in 1..n, EvalTimes[k] \in Scored PROVE model[k].eur = oracle[k].eur
  <2>1. Predicted(EvalTimes[k])
    BY <1>3 DEF Scored, Predicted
  <2>. QED BY <1>0, <1>1, <1>3, <2>1 DEF OracleInv, SameSoFar
<1>4. /\ ScoredRevenue("model") = [k \in {j \in 1..n : EvalTimes[j] \in Scored} |-> model[k].eur]
      /\ ScoredRevenue("oracle") = [k \in {j \in 1..n : EvalTimes[j] \in Scored} |-> oracle[k].eur]
  <2>1. /\ {j \in DOMAIN model : model[j].time \in Scored} = {j \in 1..n : EvalTimes[j] \in Scored}
        /\ {j \in DOMAIN oracle : oracle[j].time \in Scored} = {j \in 1..n : EvalTimes[j] \in Scored}
    BY <1>2
  <2>. QED BY <1>1, <2>1, Zenon DEF ScoredRevenue
<1>5. ScoredRevenue("model") = ScoredRevenue("oracle")
  BY <1>3, <1>4
<1>. QED BY <1>5 DEF OracleInv, SameSoFar

\* Where the forecast is right, the model earns the oracle's capacity revenue in every hour
\* that is scored, and with a forecast of every price it is the oracle.
THEOREM PerfectForecastCorrect == EvalSpec => []PerfectForecastIsOracle
<1>. QED BY OracleStarts, StepKeepsOracle, OracleInvEnough, PTL DEF EvalSpec
-----------------------------------------------------------------------------
(* The "even" policy and the backtest.                                     *)

\* The "even" run after the hour, beside the record of the backtest's period.
SameEntry(entry, tick) ==
  /\ entry.action = tick.action
  /\ entry.soc = Whole(tick.soc)
  /\ entry.dkk = Whole(tick.energyRevenue)
  /\ entry.eur = SumOver(tick.legRevenue)
  /\ entry.capBinding = tick.capBinding

\* A discharge window of the backtest as the evaluation keeps it, in fractions.
InFractions(window) ==
  [k \in DOMAIN window |-> [time |-> window[k].time, amount |-> Whole(window[k].amount)]]

\* The "even" policy's battery and windows are the backtest's.
SameState ==
  /\ battery = config /\ actuals = Actuals(w)
  /\ hour = position
  /\ shorts[Arbitrage] = history
  /\ runs["even"].soc = Whole(soc)
  /\ runs["even"].window = InFractions(dischargeWindow)
SameRecord ==
  /\ runs["even"].log = [k \in 1..(position - 1) |-> runs["even"].log[k]]
  /\ \A k \in 1..(position - 1) : SameEntry(runs["even"].log[k], ticks[k])
SameInv == BandInv /\ (Compared => SameState /\ SameRecord)

\* What an evaluation beside a window reads is what the backtest's periods read.
LEMMA ReadsAlike ==
  ASSUME InRun, Compared, actuals = Actuals(w)
  PROVE  /\ config.strategy = "threshold" /\ config.allocation = "even" /\ config.legs = {Up, Down}
         /\ MarketOf[Up] = MarketOf[Down]
         /\ EvalTimes = w.times
         /\ \A l \in EvalLegs : DOMAIN w.price \subseteq DOMAIN actuals[l]
         /\ actuals[Arbitrage] = w.price
         /\ \A l \in {Up, Down} : actuals[l] = w.capacity[l] /\ IsSeries(w.capacity[l])
         /\ IsSeries(w.price)
         /\ \A k \in Periods(w) : w.times[k] \in DOMAIN w.price /\ Length(w, k) = 1
<1>1. /\ config.strategy = "threshold" /\ config.allocation = "even" /\ config.legs = {Up, Down}
      /\ MarketOf[Up] = MarketOf[Down]
      /\ w.times = Ascending(DOMAIN w.price)
      /\ \A k \in DOMAIN w.times : k > 1 => w.times[k] - w.times[k - 1] = Hour
      /\ \A l \in config.legs : DOMAIN w.price \subseteq DOMAIN w.capacity[l]
  BY DEF Compared, Comparable, config
<1>2. Up # Down /\ Up # Arbitrage /\ Down # Arbitrage /\ EvalLegs = {Up, Down, Arbitrage}
  BY DEF Up, Down, Arbitrage, EvalLegs
<1>3. actuals[Arbitrage] = w.price /\ \A l \in {Up, Down} : actuals[l] = w.capacity[l]
  BY <1>2 DEF Actuals, Compared
<1>4. \A l \in EvalLegs : DOMAIN w.price \subseteq DOMAIN actuals[l]
  BY <1>1, <1>2, <1>3
<1>5. EvalTimes = w.times
  <2>1. {t \in DOMAIN actuals[Arbitrage] : \A l \in EvalLegs : t \in DOMAIN actuals[l]} = DOMAIN w.price
    BY <1>3, <1>4
  <2>. QED BY <1>1, <2>1 DEF EvalTimes
<1>6. IsSeries(w.price) /\ \A l \in {Up, Down} : IsSeries(w.capacity[l])
  BY <1>1, LegFacts, WindowAssumption DEF InRun
<1>7. ASSUME NEW k \in Periods(w) PROVE w.times[k] \in DOMAIN w.price /\ Length(w, k) = 1
  <2>1. w.times \in Seq(DOMAIN w.price)
    BY WindowAssumption DEF InRun
  <2>2. Len(w.times) \in Nat /\ DOMAIN w.times = 1..Len(w.times) /\ w.times[k] \in DOMAIN w.price
    BY <1>7, <2>1, LenProperties, ElementOfSeq DEF Periods
  <2>3. Length(w, k) = 1
    <3>1. CASE k < Len(w.times)
      <4>1. k + 1 \in DOMAIN w.times /\ (k + 1) - 1 = k /\ k + 1 > 1
        BY <1>7, <2>2, <3>1 DEF Periods
      <4>2. w.times[k + 1] - w.times[k] = Hour
        BY <1>1, <4>1
      <4>. QED BY <3>1, <4>2, HourAssumption DEF Length, PeriodLength
    <3>2. CASE ~(k < Len(w.times)) /\ k > 1
      BY <1>1, <1>7, <3>2, HourAssumption DEF Length, PeriodLength, Periods
    <3>3. CASE ~(k < Len(w.times)) /\ ~(k > 1)
      BY <3>3, HourAssumption DEF Length, PeriodLength
    <3>. QED BY <3>1, <3>2, <3>3
  <2>. QED BY <2>2, <2>3
<1>. QED BY <1>1, <1>3, <1>4, <1>5, <1>6, <1>7

\* Both keep the same of a discharge window.
LEMMA RecentAlike ==
  ASSUME NEW window \in Seq(Entry), NEW t \in Int
  PROVE  /\ Recent(InFractions(window), t) = InFractions(Recent(window, t))
         /\ Recent(window, t) \in Seq(Entry)
<1> DEFINE n == Len(window)
           same == InFractions(window)
           fresh == {k \in DOMAIN window : window[k].time >= t - Day}
<1>1. n \in Nat /\ DOMAIN window = 1..n /\ \A k \in 1..n : window[k] \in Entry
  BY LenProperties, ElementOfSeq
<1>2. /\ DOMAIN same = 1..n /\ Len(same) = n
      /\ \A k \in 1..n : same[k] = [time |-> window[k].time, amount |-> Whole(window[k].amount)]
  <2>1. same = [k \in 1..n |-> [time |-> window[k].time, amount |-> Whole(window[k].amount)]]
    BY <1>1 DEF InFractions
  <2>2. same = [k \in 1..n |-> same[k]]
    BY <2>1
  <2>3. Len(same) = n
    <3> HIDE DEF same
    <3>. QED BY <1>1, <2>2, LogGrows
  <2>. QED BY <2>1, <2>3
<1>3. {k \in DOMAIN same : same[k].time >= t - Day} = fresh
  BY <1>1, <1>2
<1>4. CASE fresh = {}
  <2>1. Recent(same, t) = << >> /\ Recent(window, t) = << >>
    <3> HIDE DEF same
    <3>. QED BY <1>3, <1>4 DEF Recent
  <2>2. InFractions(<< >>) = << >>
    BY DEF InFractions
  <2>. QED BY <2>1, <2>2, EmptySeq
<1>5. CASE fresh # {}
  <2>1. PICK i \in fresh : i = Min(fresh)
    <3>1. fresh \in SUBSET (1..n)
      BY <1>1
    <3>2. \E i \in fresh : \A k \in fresh : i <= k
      <4> HIDE DEF fresh
      <4>. QED BY <1>1, <1>5, <3>1, SmallestNumber
    <3>. QED BY <3>2 DEF Min
  <2>2. i \in 1..n
    BY <1>1, <2>1
  <2>3. Recent(same, t) = SubSeq(same, i, n) /\ Recent(window, t) = SubSeq(window, i, n)
    <3> HIDE DEF same, fresh
    <3>. QED BY <1>2, <1>3, <1>5, <2>1 DEF Recent, fresh
  <2>5. SubSeq(window, i, n) \in Seq(Entry)
    BY <1>1, <2>2, SubSeqProperties
  <2>6. SubSeq(same, i, n) = InFractions(SubSeq(window, i, n))
    <3>1. SubSeq(window, i, n) = [m \in 1..(n - i + 1) |-> window[i + m - 1]]
      BY <1>1, <2>2
    <3>2. SubSeq(same, i, n) = [m \in 1..(n - i + 1) |-> same[i + m - 1]]
      BY <1>1, <2>2
    <3>3. \A m \in 1..(n - i + 1) : i + m - 1 \in 1..n
      BY <1>1, <2>2
    <3>. QED BY <1>2, <3>1, <3>2, <3>3 DEF InFractions
  <2>. QED BY <2>3, <2>5, <2>6
<1>. QED BY <1>4, <1>5

\* An hour's capacity revenue is what the backtest books for the two legs.
LEMMA CapacityAlike ==
  ASSUME InRun, Compared, actuals = Actuals(w), battery = config, NEW t \in DOMAIN w.price
  PROVE  CapacityRevenue(EvenAllocation, t)
           = SumOver([l \in config.legs |-> Whole(OrZero(Quotes(t)[l]) * 1) ** LegShares[l]])
<1>1. /\ config.allocation = "even" /\ config.legs = {Up, Down} /\ MarketOf[Up] = MarketOf[Down]
      /\ \A l \in {Up, Down} : /\ actuals[l] = w.capacity[l] /\ IsSeries(w.capacity[l])
                               /\ t \in DOMAIN w.capacity[l]
  <2>1. Up \in EvalLegs /\ Down \in EvalLegs
    BY DEF EvalLegs
  <2>. QED BY <2>1, ReadsAlike
<1>2. Up # Down /\ Up # Arbitrage /\ Down # Arbitrage /\ Up \in EvalLegs /\ Down \in EvalLegs
  BY DEF Up, Down, Arbitrage, EvalLegs
<1>3. PICK c \in Nat : c = config.commit
  BY RunFacts
<1>4. PICK u \in Int, v \in Int : u = w.capacity[Up][t] /\ v = w.capacity[Down][t]
  BY <1>1, OwnFigure
<1>5. PICK two \in Nat \ {0} : two = 2
  OBVIOUS
<1> DEFINE share == Frac(c, two)
<1>6. EvenAllocation[Up] = share /\ EvenAllocation[Down] = share
  BY <1>2, <1>3, <1>5 DEF EvenAllocation
<1>7. LegShares[Up] = Whole(c) ** <<1, two>> /\ LegShares[Down] = Whole(c) ** <<1, two>>
  <2>1. PICK m : m = MarketOf[Up] /\ Markets = {m}
    BY <1>1 DEF Markets
  <2>2. LegsOf(m) = {Up, Down} /\ Cardinality(LegsOf(m)) = two
    <3>1. LegsOf(m) = {Up, Down}
      BY <1>1, <2>1 DEF LegsOf
    <3>2. Cardinality({Up, Down}) = 2
      <4>1. IsFiniteSet({Up}) /\ Cardinality({Up}) = 1
        BY FS_Singleton
      <4>2. Cardinality({Up} \cup {Down}) = Cardinality({Up}) + 1
        BY <1>2, <4>1, FS_AddElement
      <4>3. {Up} \cup {Down} = {Up, Down}
        OBVIOUS
      <4>. QED BY <4>1, <4>2, <4>3
    <3>. QED BY <1>5, <3>1, <3>2
  <2>3. GroupShares[m] = Whole(c)
    <3>1. Cardinality(Markets) = 1
      BY <2>1, FS_Singleton
    <3>2. GroupShares[m] = Frac(c, 1)
      BY <1>1, <1>3, <2>1, <3>1 DEF GroupShares, EvenShares
    <3>. QED BY <3>2, FracOfOne
  <2>. QED BY <1>1, <2>1, <2>2, <2>3 DEF LegShares
<1>8. /\ Is(share, c, two) /\ Is(Whole(c) ** <<1, two>>, c, two)
      /\ Is(Whole(u), u, 1) /\ Is(Whole(v), v, 1)
  <2>1. Is(share, c, two)
    BY FracIs
  <2>2. Whole(c) ** <<1, two>> = Frac(c * 1, 1 * two)
    BY DEF **, Whole
  <2>3. c * 1 = c /\ 1 * two = two
    OBVIOUS
  <2>. QED BY <2>1, <2>2, <2>3, WholeIs
<1> HIDE DEF share
<1>9. PICK a \in Int, b \in Int : a = u * c /\ b = v * c
  OBVIOUS
<1>10. \A y : Is(y, c, two) => Whole(u) ** y = Frac(a, two) /\ Whole(v) ** y = Frac(b, two)
  <2> SUFFICES ASSUME NEW y, Is(y, c, two)
               PROVE  Whole(u) ** y = Frac(a, two) /\ Whole(v) ** y = Frac(b, two)
    OBVIOUS
  <2>1. PICK one \in Nat \ {0} : one = 1 /\ one * two = two
    OBVIOUS
  <2>2. Whole(u) ** y = Frac(u * c, one * two)
    BY <1>8, <2>1, TimesIs
  <2>3. Whole(v) ** y = Frac(v * c, one * two)
    BY <1>8, <2>1, TimesIs
  <2>. QED BY <1>9, <2>1, <2>2, <2>3
<1>11. CapacityRevenue(EvenAllocation, t) = Frac(a + b, two)
  <2>3. CapacityRevenue(EvenAllocation, t) = (Whole(u) ** share) ++ (Whole(v) ** share)
    BY <1>1, <1>4, <1>6 DEF CapacityRevenue
  <2>4. Is(Frac(a, two), a, two) /\ Is(Frac(b, two), b, two)
    BY FracIs
  <2>5. Frac(a, two) ++ Frac(b, two) = Frac(a + b, two)
    BY <2>4, AddedIs
  <2>. QED BY <1>8, <1>10, <2>3, <2>5
<1>12. Quotes(t)[Up] = u /\ Quotes(t)[Down] = v
  <2>1. \A l \in {Up, Down} : Quotes(t)[l] = w.capacity[l][t]
    BY <1>1, OwnFigure DEF Quotes
  <2>. QED BY <1>4, <2>1
<1>13. u # None /\ v # None /\ OrZero(u) = u /\ OrZero(v) = v
  BY SeriesAssumption DEF OrZero
<1> DEFINE booked == [l \in config.legs |-> Whole(OrZero(Quotes(t)[l]) * 1) ** LegShares[l]]
           nums == [l \in {Up, Down} |-> IF l = Up THEN a ELSE b]
<1>14. /\ DOMAIN booked = {Up, Down}
       /\ booked[Up] = Frac(a, two) /\ booked[Down] = Frac(b, two)
  <2>1. u * 1 = u /\ v * 1 = v
    OBVIOUS
  <2>. QED BY <1>1, <1>7, <1>8, <1>10, <1>12, <1>13, <2>1
<1>15. nums[Up] = a /\ nums[Down] = b
  BY <1>2
<1> HIDE DEF booked, nums
<1>16. IsFiniteSet({Up, Down}) /\ SumFunctionOnSet(nums, {Up, Down}) = a + b
  <2>1. nums[Up] \in Int /\ nums[Down] \in Int
    BY <1>15
  <2>. QED BY <1>2, <1>15, <2>1, SumOfTwo
<1>17. SumOver(booked) = Frac(a + b, two)
  <2>1. \A l \in {Up, Down} : Is(booked[l], nums[l], two)
    BY <1>14, <1>15, FracIs
  <2>2. OnInts(nums, {Up, Down})
    BY <1>15 DEF OnInts
  <2>. QED BY <1>14, <1>16, <2>1, <2>2, SumOverCommon
<1>. QED BY <1>11, <1>17 DEF booked

\* What both compute before a move.
LEMMA RoomAlike ==
  ASSUME InRun, battery = config, soc \in config.lo..config.hi, NEW run, run.soc = Whole(soc)
  PROVE  /\ ArbitragePower \in Nat
         /\ Room(run, Whole(ArbitragePower)) = Whole(ChargeAmount(1))
         /\ Wanted(run, Whole(ArbitragePower)) = Whole(DischargeAmount(1))
<1>1. PICK p \in Nat, in \in Nat, out \in Nat, lo \in Int, hi \in Int, s \in Int :
        /\ p = ArbitragePower /\ in = config.in /\ out = config.out /\ lo = config.lo /\ hi = config.hi
        /\ s = soc /\ lo <= s /\ s <= hi
  <2>1. /\ config.power \in Nat /\ config.commit \in Nat /\ config.commit <= config.power
        /\ config.in \in Nat /\ config.out \in Nat /\ config.lo \in Int /\ config.hi \in Int
    BY RunFacts
  <2>2. ArbitragePower \in Nat
    BY <2>1 DEF ArbitragePower
  <2>3. soc \in Int /\ config.lo <= soc /\ soc <= config.hi
    BY <2>1
  <2>. QED BY <2>1, <2>2, <2>3
<1>2. PICK a \in Nat, b \in Nat : a = in * p /\ b = out * p
  BY Product
<1>3. ChargeAmount(1) = Min({a, hi - s}) /\ DischargeAmount(1) = Min({b, s - lo})
  <2>1. (in * p) * 1 = a /\ (out * p) * 1 = b
    BY <1>2
  <2>. QED BY <1>1, <2>1 DEF ChargeAmount, DischargeAmount
<1>4. PICK up \in Nat, down \in Nat : up = hi - s /\ down = s - lo
  BY <1>1
<1>5. Whole(hi) ++ Minus(Whole(s)) = Whole(up) /\ Whole(s) ++ Minus(Whole(lo)) = Whole(down)
  <2>1. up \in Int /\ down \in Int
    OBVIOUS
  <2>. QED BY <1>4, <2>1, WholeLess
<1>6. Whole(in) ** Whole(p) = Whole(a) /\ Whole(out) ** Whole(p) = Whole(b)
  <2>1. in \in Int /\ out \in Int /\ p \in Int /\ a \in Int /\ b \in Int
    OBVIOUS
  <2>. QED BY <1>2, <2>1, WholeProduct
<1>7. PICK x \in Nat, y \in Nat : x = Min({a, up}) /\ y = Min({b, down})
  BY MinMaxOfTwo
<1>8. /\ Clipped(Lesser(Whole(a), Whole(up))) = Whole(x)
      /\ Clipped(Lesser(Whole(b), Whole(down))) = Whole(y)
  <2>1. a \in Int /\ up \in Int /\ b \in Int /\ down \in Int
    OBVIOUS
  <2>2. Lesser(Whole(a), Whole(up)) = Whole(x) /\ Lesser(Whole(b), Whole(down)) = Whole(y)
    BY <1>7, <2>1, WholeLesser
  <2>. QED BY <2>2, WholeClippedNat
<1>9. Room(run, Whole(p)) = Whole(x)
  <2>1. Room(run, Whole(p)) = Clipped(Lesser(Whole(in) ** Whole(p), Whole(hi) ++ Minus(Whole(s))))
    BY <1>1 DEF Room
  <2>. QED BY <1>5, <1>6, <1>8, <2>1
<1>10. Wanted(run, Whole(p)) = Whole(y)
  <2>1. Wanted(run, Whole(p)) = Clipped(Lesser(Whole(out) ** Whole(p), Whole(s) ++ Minus(Whole(lo))))
    BY <1>1 DEF Wanted
  <2>. QED BY <1>5, <1>6, <1>8, <2>1
<1>. QED BY <1>1, <1>3, <1>4, <1>7, <1>9, <1>10

\* Both leave the same of the cap.
LEMMA CapAlike ==
  ASSUME InRun, battery = config, dischargeWindow \in Seq(Entry), NEW t \in Int, config.cap # None,
         NEW run, run.window = InFractions(dischargeWindow)
  PROVE  /\ RemainingCap(t) \in Nat
         /\ EvalRemaining(run.window, t) = Whole(RemainingCap(t))
<1> DEFINE R == Recent(dischargeWindow, t)
           F == Recent(run.window, t)
<1>1. F = InFractions(R) /\ R \in Seq(Entry)
  BY RecentAlike
<1>2. PICK limit \in Nat : limit = config.out * config.cap
  BY RunFacts, Product
<1> HIDE DEF R, F
<1>3. t \in Int /\ IsFiniteSet(DOMAIN R) /\ OnInts(Amounts(R), DOMAIN R)
  BY <1>1, EntryFacts
<1>4. [k \in DOMAIN F |-> F[k].amount] = [k \in DOMAIN R |-> Whole(Amounts(R)[k])]
  BY <1>1 DEF InFractions, Amounts
<1>5. PICK total \in Int :
        /\ total = SumFunctionOnSet(Amounts(R), DOMAIN R)
        /\ SumOver([k \in DOMAIN F |-> F[k].amount]) = Whole(total)
  <2>1. PICK amounts : amounts = [k \in DOMAIN R |-> Whole(Amounts(R)[k])]
    OBVIOUS
  <2>2. /\ SumFunctionOnSet(Amounts(R), DOMAIN R) \in Int
        /\ SumOver(amounts) = Whole(SumFunctionOnSet(Amounts(R), DOMAIN R))
    BY <1>3, <2>1, SumOverWholes
  <2>. QED BY <1>4, <2>1, <2>2
<1>6. RemainingCap(t) = Max({limit - total, 0})
  <2>1. RecentDischarges(t) = R
    BY DEF RecentDischarges, R
  <2>2. SumFunction([k \in DOMAIN R |-> R[k].amount]) = total
    BY <1>5 DEF SumFunction, Amounts
  <2>. QED BY <1>2, <2>1, <2>2 DEF RemainingCap
<1>7. PICK left \in Int : left = limit - total
  OBVIOUS
<1>8. EvalRemaining(run.window, t) = Clipped(Whole(limit) ++ Minus(Whole(total)))
  BY <1>2, <1>5 DEF EvalRemaining, F
<1>9. Whole(limit) ++ Minus(Whole(total)) = Whole(left)
  <2>1. limit \in Int
    OBVIOUS
  <2>. QED BY <1>7, <2>1, WholeLess
<1>. QED BY <1>6, <1>7, <1>8, <1>9, WholeClipped

\* Both add the same entry to a discharge window.
LEMMA AppendAlike ==
  ASSUME NEW window \in Seq(Entry), NEW t \in Int, NEW n \in Nat
  PROVE  Append(InFractions(window), [time |-> t, amount |-> Whole(n)])
           = InFractions(Append(window, [time |-> t, amount |-> n]))
<1> DEFINE m == Len(window)
           same == InFractions(window)
           e == [time |-> t, amount |-> n]
           f == [time |-> t, amount |-> Whole(n)]
           left == Append(same, f)
           right == Append(window, e)
<1>1. m \in Nat /\ DOMAIN window = 1..m /\ window = [k \in 1..m |-> window[k]]
  BY LenProperties
<1>2. /\ same = [k \in 1..m |-> same[k]]
      /\ \A k \in 1..m : same[k] = [time |-> window[k].time, amount |-> Whole(window[k].amount)]
  BY <1>1 DEF InFractions
<1>3. /\ DOMAIN right = 1..(m + 1) /\ right[m + 1] = e /\ \A k \in 1..m : right[k] = window[k]
  <2> HIDE DEF e, m
  <2>. QED BY <1>1, LogGrows
<1>4. /\ left = [k \in 1..(m + 1) |-> left[k]]
      /\ left[m + 1] = f /\ \A k \in 1..m : left[k] = same[k]
  <2> HIDE DEF same, f, m
  <2>. QED BY <1>1, <1>2, LogGrows
<1> HIDE DEF left, right, m, same
<1>5. \A k \in 1..(m + 1) :
        left[k] = [time |-> right[k].time, amount |-> Whole(right[k].amount)]
  <2>1. \A k \in 1..(m + 1) : k \in 1..m \/ k = m + 1
    BY <1>1
  <2>2. f = [time |-> e.time, amount |-> Whole(e.amount)]
    OBVIOUS
  <2> HIDE DEF e, f
  <2>. QED BY <1>2, <1>3, <1>4, <2>1, <2>2
<1>6. InFractions(right) = [k \in 1..(m + 1) |-> [time |-> right[k].time, amount |-> Whole(right[k].amount)]]
  BY <1>3 DEF InFractions
<1>7. left = InFractions(right)
  BY <1>4, <1>5, <1>6
<1>. QED BY <1>7 DEF left, right, same, e, f

\* A move of the evaluation beside the backtest's.
SameMove(move, own) ==
  /\ move.action = own.action
  /\ move.soc = Whole(own.soc)
  /\ move.dkk = Whole(own.revenue)
  /\ move.binding = own.binding
  /\ move.window = InFractions(own.window)

LEMMA ChargesAlike ==
  ASSUME InRun, battery = config, soc \in config.lo..config.hi, NEW x \in Int,
         NEW run, run.soc = Whole(soc), run.window = InFractions(dischargeWindow)
  PROVE  /\ SameMove(Still(run), Idle)
         /\ SameMove(EvalCharge(run, x, Whole(ChargeAmount(1))), ChargeMove(x, 1))
<1>1. SameMove(Still(run), Idle)
  <2>1. /\ Still(run).action = "idle" /\ Still(run).soc = run.soc /\ Still(run).dkk = Zero
        /\ Still(run).binding = FALSE /\ Still(run).window = run.window
    BY DEF Still
  <2>2. /\ Idle.action = "idle" /\ Idle.soc = soc /\ Idle.revenue = 0
        /\ Idle.binding = FALSE /\ Idle.window = dischargeWindow
    BY DEF Idle
  <2>3. Zero = Whole(0)
    BY DEF Zero
  <2>. QED BY <2>1, <2>2, <2>3, Zenon DEF SameMove
<1>2. PICK s \in Int, n \in Nat, out \in Nat : s = soc /\ n = ChargeAmount(1) /\ out = config.out
  <2>1. config.out \in Nat /\ config.lo \in Int /\ config.hi \in Int
    BY RunFacts
  <2>2. soc \in Int
    BY <2>1
  <2>3. ChargeAmount(1) \in Nat
    BY AmountFacts
  <2>. QED BY <2>1, <2>2, <2>3
<1>3. CASE n = 0
  <2>1. Whole(n) = Zero
    BY <1>3 DEF Zero
  <2>. QED BY <1>1, <1>2, <1>3, <2>1 DEF EvalCharge, ChargeMove
<1>4. CASE n # 0
  <2>1. Whole(n) # Zero
    BY <1>4, WholeEqual DEF Zero
  <2>2. PICK stored \in Int : stored = s + n /\ Whole(s) ++ Whole(n) = Whole(stored)
    BY WholeSum
  <2>3. PICK paid \in Int : paid = -x * n * out /\ Whole(-x * out) ** Whole(n) = Whole(paid)
    <3>1. PICK a \in Int, b \in Int : a = -x * out /\ b = -x * n * out
      OBVIOUS
    <3>2. b = a * n
      BY <3>1
    <3>. QED BY <3>1, <3>2, WholeProduct
  <2>4. /\ EvalCharge(run, x, Whole(n)).action = "charge"
        /\ EvalCharge(run, x, Whole(n)).soc = Whole(stored)
        /\ EvalCharge(run, x, Whole(n)).dkk = Whole(paid)
        /\ EvalCharge(run, x, Whole(n)).binding = FALSE
        /\ EvalCharge(run, x, Whole(n)).window = run.window
    <3>1. EvalCharge(run, x, Whole(n))
            = [Still(run) EXCEPT !.soc = Whole(stored), !.action = "charge", !.dkk = Whole(paid)]
      BY <1>2, <2>1, <2>2, <2>3, Zenon DEF EvalCharge
    <3>. QED BY <3>1 DEF Still
  <2>5. /\ ChargeMove(x, 1).action = "charge" /\ ChargeMove(x, 1).soc = stored
        /\ ChargeMove(x, 1).revenue = paid /\ ChargeMove(x, 1).binding = FALSE
        /\ ChargeMove(x, 1).window = dischargeWindow
    <3>1. ChargeMove(x, 1) = [Idle EXCEPT !.action = "charge", !.soc = stored, !.revenue = paid]
      BY <1>2, <1>4, <2>2, <2>3 DEF ChargeMove
    <3>. QED BY <3>1 DEF Idle
  <2>6. SameMove(EvalCharge(run, x, Whole(n)), ChargeMove(x, 1))
    BY <2>4, <2>5, Zenon DEF SameMove
  <2>. QED BY <1>1, <1>2, <2>6
<1>. QED BY <1>1, <1>3, <1>4

LEMMA DischargesAlike ==
  ASSUME InRun, battery = config, soc \in config.lo..config.hi, dischargeWindow \in Seq(Entry),
         NEW t \in Int, NEW x \in Int,
         NEW run, run.soc = Whole(soc), run.window = InFractions(dischargeWindow)
  PROVE  SameMove(EvalDischarge(run, t, x, Whole(DischargeAmount(1))), DischargeMove(t, x, 1))
<1> DEFINE capped == config.cap # None
           kept == IF capped THEN RecentDischarges(t) ELSE dischargeWindow
           keptHere == IF capped THEN Recent(run.window, t) ELSE run.window
           sold == IF capped THEN Lesser(Whole(DischargeAmount(1)), EvalRemaining(run.window, t))
                   ELSE Whole(DischargeAmount(1))
           amount == IF capped THEN Min({DischargeAmount(1), RemainingCap(t)}) ELSE DischargeAmount(1)
<1>1. PICK s \in Int, d \in Nat, in \in Nat : s = soc /\ d = DischargeAmount(1) /\ in = config.in
  <2>1. config.in \in Nat /\ config.lo \in Int /\ config.hi \in Int
    BY RunFacts
  <2>2. soc \in Int
    BY <2>1
  <2>3. DischargeAmount(1) \in Nat
    BY AmountFacts
  <2>. QED BY <2>1, <2>2, <2>3
<1>2. kept \in Seq(Entry) /\ keptHere = InFractions(kept)
  BY RecentAlike DEF RecentDischarges
<1>3. PICK n \in Nat : n = amount /\ sold = Whole(n) /\ n <= d
  <2>1. CASE capped
    <3>1. PICK left \in Nat : left = RemainingCap(t) /\ EvalRemaining(run.window, t) = Whole(left)
      BY <2>1, CapAlike
    <3>2. d \in Int /\ left \in Int
      OBVIOUS
    <3>3. Lesser(Whole(d), Whole(left)) = Whole(Min({d, left}))
      BY <3>2, WholeLesser
    <3>4. Min({d, left}) \in Nat /\ Min({d, left}) <= d
      BY <3>2, MinMaxOfTwo
    <3>. QED BY <1>1, <2>1, <3>1, <3>3, <3>4
  <2>2. CASE ~capped
    BY <1>1, <2>2
  <2>. QED BY <2>1, <2>2
<1>4. (Whole(d) # Whole(n)) = (n < d)
  BY <1>3, WholeEqual
<1> DEFINE held == [Idle EXCEPT !.binding = n < d, !.window = kept]
           entry == [time |-> t, amount |-> n]
<1>5. DischargeMove(t, x, 1)
        = IF n = 0 THEN held
          ELSE [held EXCEPT !.action = "discharge", !.soc = s - n, !.discharged = n,
                            !.revenue = x * n * in,
                            !.window = IF capped THEN Append(kept, entry) ELSE kept]
  <2> HIDE DEF kept
  <2>. QED BY <1>1, <1>3 DEF DischargeMove, kept
<1>6. EvalDischarge(run, t, x, Whole(d))
        = IF Whole(n) = Zero
            THEN [Still(run) EXCEPT !.window = keptHere, !.binding = Whole(d) # Whole(n)]
          ELSE [soc |-> Whole(s) ++ Minus(Whole(n)), action |-> "discharge", discharged |-> Whole(n),
                dkk |-> Whole(x * in) ** Whole(n), binding |-> Whole(d) # Whole(n),
                window |-> IF capped THEN Append(keptHere, [time |-> t, amount |-> Whole(n)])
                           ELSE keptHere]
  <2> HIDE DEF keptHere
  <2>. QED BY <1>1, <1>3 DEF EvalDischarge, keptHere
<1> HIDE DEF kept, keptHere, sold, amount, capped
<1> DEFINE here == EvalDischarge(run, t, x, Whole(d))
           there == DischargeMove(t, x, 1)
<1>7. CASE n = 0
  <2>1. Whole(n) = Zero /\ Zero = Whole(0)
    BY <1>7 DEF Zero
  <2>2. here = [Still(run) EXCEPT !.window = keptHere, !.binding = n < d]
    BY <1>4, <1>6, <2>1
  <2>3. there = held
    BY <1>5, <1>7
  <2> HIDE DEF here, there
  <2>4. /\ here.action = "idle" /\ here.soc = run.soc /\ here.dkk = Zero
        /\ here.binding = (n < d) /\ here.window = keptHere
    BY <2>2 DEF Still
  <2>5. /\ there.action = "idle" /\ there.soc = soc /\ there.revenue = 0
        /\ there.binding = (n < d) /\ there.window = kept
    BY <2>3 DEF Idle
  <2>6. SameMove(here, there)
    BY <1>2, <2>1, <2>4, <2>5, Zenon DEF SameMove
  <2>. QED BY <1>1, <2>6 DEF here, there
<1>8. CASE n # 0
  <2>1. Whole(n) # Zero
    BY <1>8, WholeEqual DEF Zero
  <2>2. PICK stored \in Int : stored = s - n /\ Whole(s) ++ Minus(Whole(n)) = Whole(stored)
    BY WholeLess
  <2>3. PICK paid \in Int : paid = x * n * in /\ Whole(x * in) ** Whole(n) = Whole(paid)
    <3>1. PICK a \in Int, b \in Int : a = x * in /\ b = x * n * in
      OBVIOUS
    <3>2. b = a * n
      BY <3>1
    <3>. QED BY <3>1, <3>2, WholeProduct
  <2>4. PICK after : /\ after = IF capped THEN Append(kept, entry) ELSE kept
                     /\ (IF capped THEN Append(keptHere, [time |-> t, amount |-> Whole(n)])
                         ELSE keptHere) = InFractions(after)
    <3>1. Append(keptHere, [time |-> t, amount |-> Whole(n)]) = InFractions(Append(kept, entry))
      BY <1>2, AppendAlike
    <3> HIDE DEF entry
    <3>. QED BY <1>2, <3>1, Zenon
  <2>5. here = [soc |-> Whole(stored), action |-> "discharge", discharged |-> Whole(n),
                dkk |-> Whole(paid), binding |-> n < d, window |-> InFractions(after)]
    BY <1>4, <1>6, <2>1, <2>2, <2>3, <2>4
  <2>6. there = [held EXCEPT !.action = "discharge", !.soc = stored, !.discharged = n,
                             !.revenue = paid, !.window = after]
    BY <1>5, <1>8, <2>2, <2>3, <2>4
  <2> HIDE DEF here, there
  <2>7. /\ there.action = "discharge" /\ there.soc = stored /\ there.revenue = paid
        /\ there.binding = (n < d) /\ there.window = after
    BY <2>6 DEF Idle
  <2>8. SameMove(here, there)
    BY <2>5, <2>7 DEF SameMove
  <2>. QED BY <1>1, <2>8 DEF here, there
<1>. QED BY <1>7, <1>8

LEMMA MovesAlike ==
  ASSUME InRun, battery = config, soc \in config.lo..config.hi, dischargeWindow \in Seq(Entry),
         shorts[Arbitrage] = history, NEW t \in Int, NEW x \in Int, actuals[Arbitrage][t] = x,
         NEW run, run.soc = Whole(soc), run.window = InFractions(dischargeWindow)
  PROVE  SameMove(EvalMove(run, Whole(ArbitragePower), t), Move(t, x, 1))
<1> DEFINE stance == Stance(history, x, config.threshold2)
<1>1. /\ EvalMove(run, Whole(ArbitragePower), t)
           = CASE stance = "charge" -> EvalCharge(run, x, Whole(ChargeAmount(1)))
               [] stance = "discharge" -> EvalDischarge(run, t, x, Whole(DischargeAmount(1)))
               [] OTHER -> Still(run)
      /\ Move(t, x, 1)
           = CASE stance = "charge" -> ChargeMove(x, 1)
               [] stance = "discharge" -> DischargeMove(t, x, 1)
               [] OTHER -> Idle
  BY RoomAlike DEF EvalMove, Move
<1> HIDE DEF stance
<1>2. CASE stance = "charge"
  BY <1>1, <1>2, ChargesAlike
<1>3. CASE stance = "discharge"
  BY <1>1, <1>3, DischargesAlike
<1>4. CASE stance \notin {"charge", "discharge"}
  BY <1>1, <1>4, ChargesAlike
<1>. QED BY <1>2, <1>3, <1>4

\* Both begin with the same battery and nothing recorded,
LEMMA SameStarts == SameInit => SameInv
<1> SUFFICES ASSUME SameInit PROVE SameInv
  OBVIOUS
<1>1. BandInv
  BY BandInit DEF SameInit
<1>2. position = 1 /\ soc = config.start /\ history = << >> /\ dischargeWindow = << >>
  BY DEF SameInit, Init
<1>3. PICK e \in EvaluationsOf(w) : EvalStart(e)
  BY DEF SameInit
<1>4. battery = config /\ actuals = Actuals(w) /\ hour = 1 /\ shorts[Arbitrage] = << >>
  BY <1>3 DEF EvalStart, EvaluationsOf, config, EvalLegs
<1>5. /\ runs["even"].soc = Whole(battery.start) /\ runs["even"].window = << >>
      /\ runs["even"].log = << >>
  BY <1>3 DEF EvalStart, StartRun, Policies
<1>6. InFractions(<< >>) = << >>
  BY DEF InFractions
<1>7. SameState
  BY <1>2, <1>4, <1>5, <1>6 DEF SameState
<1>8. SameRecord
  <2>1. 1..(position - 1) = {}
    BY <1>2
  <2>. QED BY <1>5, <2>1 DEF SameRecord
<1>. QED BY <1>1, <1>7, <1>8 DEF SameInv

\* and an hour of the evaluation does what a period of the backtest does.
LEMMA HourAlike ==
  ASSUME BandInv, Compared, SameState, SameRecord, SameTick
  PROVE  SameState' /\ SameRecord'
<1>1. InRun /\ EngineInv /\ Tick /\ EvalHour
  BY ReadsAlike DEF BandInv, SameTick, SameState
<1>2. /\ w' = w /\ config' = config /\ position' = position + 1
      /\ battery' = battery /\ actuals' = actuals /\ hour' = hour + 1
      /\ battery = config /\ actuals = Actuals(w) /\ hour = position /\ Actuals(w)' = Actuals(w)
  BY <1>1 DEF Tick, EvalHour, SameState, config, Actuals
<1>3. PICK t \in DOMAIN w.price : t = w.times[position] /\ t = EvalTimes[hour] /\ Length(w, position) = 1
  BY <1>1, <1>2, ReadsAlike DEF Tick
<1>4. actuals[Arbitrage] = w.price /\ IsSeries(w.price) /\ t \in DOMAIN actuals[Arbitrage]
  BY <1>1, <1>2, ReadsAlike
<1>5. PICK x \in Int : x = w.price[t] /\ x = actuals[Arbitrage][t] /\ t \in Int
  BY <1>4, OwnFigure
<1>6. PICK run, own, move, tick, earned :
        /\ run = runs["even"] /\ own = Move(t, x, 1) /\ tick = BessTick(t, x, 1, own)
        /\ move = EvalMove(run, Whole(ArbitragePower), t)
        /\ earned = CapacityRevenue(EvenAllocation, t)
  OBVIOUS
<1>7. /\ soc' = own.soc /\ dischargeWindow' = own.window
      /\ history' = Newest(Append(history, x), config.lookback) /\ ticks' = Append(ticks, tick)
  BY <1>1, <1>3, <1>5, <1>6 DEF Tick
<1>8. runs'["even"] = Recorded(run, t, EvenAllocation, move, earned)
  <2>1. EvenAllocation[Arbitrage] = Whole(ArbitragePower)
    BY <1>2 DEF EvenAllocation, EvalLegs, ArbitragePower
  <2>2. runs'["even"] = EvalHourWith(EvenAllocation, run, t)
    BY <1>1, <1>3, <1>6 DEF EvalHour, EvalStep, Allocation, Policies
  <2>. QED BY <1>6, <2>1, <2>2 DEF EvalHourWith
<1>9. SameMove(move, own)
  <2>1. /\ soc \in config.lo..config.hi /\ dischargeWindow \in Seq(Entry) /\ shorts[Arbitrage] = history
        /\ run.soc = Whole(soc) /\ run.window = InFractions(dischargeWindow)
    BY <1>1, <1>6 DEF EngineInv, SameState
  <2>. QED BY <1>1, <1>2, <1>5, <1>6, <2>1, MovesAlike
<1>10. earned = SumOver(tick.legRevenue)
  <2>1. tick.legRevenue = [l \in config.legs |-> Whole(OrZero(Quotes(t)[l]) * 1) ** LegShares[l]]
    BY <1>6 DEF BessTick
  <2>. QED BY <1>1, <1>2, <1>6, <2>1, CapacityAlike
<1>11. SameState'
  <2>1. runs'["even"].soc = Whole(soc') /\ runs'["even"].window = InFractions(dischargeWindow')
    BY <1>7, <1>8, <1>9 DEF Recorded, SameMove
  <2>2. shorts'[Arbitrage] = history'
    <3>1. shorts'[Arbitrage] = Newest(Append(shorts[Arbitrage], x), battery.lookback)
      BY <1>1, <1>3, <1>4, <1>5 DEF EvalHour, Extend, EvalLegs
    <3>. QED BY <1>2, <1>7, <3>1 DEF SameState
  <2>. QED BY <1>2, <2>1, <2>2 DEF SameState, InFractions
<1>12. SameRecord'
  <2>1. PICK n \in Nat : n = position - 1 /\ position' - 1 = n + 1
    BY <1>1, <1>2 DEF EngineInv
  <2>2. PICK log, entry :
          /\ log = run.log /\ runs'["even"].log = Append(log, entry)
          /\ entry.action = move.action /\ entry.soc = move.soc /\ entry.dkk = move.dkk
          /\ entry.eur = earned /\ entry.capBinding = move.binding
    BY <1>8 DEF Recorded
  <2>3. SameEntry(entry, tick)
    <3>1. /\ tick.action = own.action /\ tick.soc = own.soc /\ tick.energyRevenue = own.revenue
          /\ tick.capBinding = own.binding
      BY <1>6 DEF BessTick
    <3>. QED BY <1>9, <1>10, <2>2, <3>1, Zenon DEF SameEntry, SameMove
  <2>4. log = [k \in 1..n |-> log[k]] /\ ticks = [k \in 1..n |-> ticks[k]]
    BY <1>1, <1>6, <2>1, <2>2 DEF SameRecord, EngineInv
  <2>5. PICK longer, more : longer = Append(log, entry) /\ more = Append(ticks, tick)
    OBVIOUS
  <2>6. /\ longer = [k \in 1..(n + 1) |-> longer[k]] /\ longer[n + 1] = entry
        /\ \A k \in 1..n : longer[k] = log[k]
    BY <2>4, <2>5, LogGrows
  <2>7. more[n + 1] = tick /\ \A k \in 1..n : more[k] = ticks[k]
    BY <2>4, <2>5, LogGrows
  <2>8. \A k \in 1..(n + 1) : SameEntry(longer[k], more[k])
    <3>1. \A k \in 1..n : SameEntry(log[k], ticks[k])
      BY <1>6, <2>1, <2>2 DEF SameRecord
    <3>2. \A k \in 1..(n + 1) : k \in 1..n \/ k = n + 1
      OBVIOUS
    <3>. QED BY <2>3, <2>6, <2>7, <3>1, <3>2
  <2>9. runs'["even"].log = longer /\ ticks' = more /\ position' - 1 = n + 1
    BY <1>7, <2>1, <2>2, <2>5
  <2>. QED BY <2>6, <2>8, <2>9 DEF SameRecord, SameEntry
<1>. QED BY <1>11, <1>12

\* Beside a threshold run nothing else happens,
LEMMA StepKeepsSame == SameInv /\ [SameNext]_<<vars, evalVars>> => SameInv'
<1> SUFFICES ASSUME SameInv, [SameNext]_<<vars, evalVars>> PROVE SameInv'
  OBVIOUS
<1>1. BandInv /\ BandInv'
  <2>1. [Next]_vars
    BY DEF SameNext, SameTick, Next
  <2>. QED BY <2>1, StepKeepsBand DEF SameInv
<1> SUFFICES ASSUME Compared' PROVE SameState' /\ SameRecord'
  BY <1>1 DEF SameInv
<1>2. w' = w /\ Compared /\ SameState /\ SameRecord
  <2>1. w' = w
    BY DEF SameNext, SameTick, Tick, Dispatch, vars
  <2>2. Compared
    BY <2>1 DEF Compared
  <2>. QED BY <2>1, <2>2 DEF SameInv
<1>3. CASE SameTick
  BY <1>1, <1>2, <1>3, HourAlike
<1>4. CASE Dispatch
  BY <1>2, <1>4 DEF Dispatch, Compared, Comparable, config
<1>5. CASE UNCHANGED <<vars, evalVars>>
  <2>1. /\ position' = position /\ soc' = soc /\ history' = history /\ ticks' = ticks
        /\ dischargeWindow' = dischargeWindow /\ battery' = battery /\ actuals' = actuals
        /\ hour' = hour /\ shorts' = shorts /\ runs' = runs
    BY <1>5 DEF vars, evalVars
  <2>. QED BY <1>2, <2>1 DEF SameState, SameRecord, SameEntry, config, Actuals, InFractions
<1>. QED BY <1>3, <1>4, <1>5 DEF SameNext

\* so the records agree.
LEMMA SameInvEnough == SameInv => EvenMatchesBacktest
<1> SUFFICES ASSUME SameInv, Compared PROVE EvenMatchesBacktest
  BY DEF EvenMatchesBacktest
<1>1. EngineInv
  BY DEF SameInv, BandInv, Compared, Comparable, config
<1>2. DOMAIN runs["even"].log = DOMAIN ticks
  BY <1>1 DEF SameInv, SameRecord, EngineInv
<1>3. \A k \in DOMAIN ticks : SameEntry(runs["even"].log[k], ticks[k])
  BY <1>1 DEF SameInv, SameRecord, EngineInv
<1>. QED BY <1>2, <1>3, Zenon DEF EvenMatchesBacktest, SameEntry

\* Over the same hours the "even" policy of economic_eval.py reproduces the backtest of
\* bess_simulator.py, hour by hour and for as long as the window is.
THEOREM EvenIsBacktest == SameSpec => []EvenMatchesBacktest
<1>. QED BY SameStarts, StepKeepsSame, SameInvEnough, PTL DEF SameSpec
=============================================================================
