------------------------------ MODULE BessSeries ------------------------------
(***************************************************************************)
(* What the BESS engines share: price series and how a period looks one up,*)
(* the causal z-score, and the ratio by which a capacity leg is ranked     *)
(* against its own past (the helpers of shared/bess_simulator.py).         *)
(*                                                                         *)
(* A series is a function from the times that have a value to the values.  *)
(* Prices, times and energies are integers, so every comparison is exact;  *)
(* a ratio of them is a fraction <<numerator, denominator>>, reduced.      *)
(***************************************************************************)
EXTENDS Integers, SequencesExt

CONSTANTS
  None,                \* None: no price, no cadence, no cap
  Day,                 \* 24 hours
  Hour,                \* one hour
  MinHistory,          \* MIN_ARBITRAGE_HISTORY_POINTS
  BaselineMultiplier   \* PRICE_RANKED_BASELINE_MULTIPLIER

ASSUME SeriesAssumption ==
  /\ {Day, Hour, MinHistory, BaselineMultiplier} \subseteq Nat \ {0}
  /\ None \notin Int

------------------------------------------------------------------------------
(* Fractions *)

Gcd[ab \in Nat \X Nat] == IF ab[2] = 0 THEN ab[1] ELSE Gcd[<<ab[2], ab[1] % ab[2]>>]
Magnitude(n) == IF n < 0 THEN -n ELSE n
Divided(n, d, g) == <<n \div g, d \div g>>
Frac(n, d) == Divided(n, d, Gcd[<<Magnitude(n), d>>])
Whole(n) == <<n, 1>>
Zero == Whole(0)
Added(a, b, g) == Frac(a[1] * (b[2] \div g) + b[1] * (a[2] \div g), a[2] * (b[2] \div g))
a ++ b == Added(a, b, Gcd[<<a[2], b[2]>>])
a ** b == Frac(a[1] * b[1], a[2] * b[2])
Minus(a) == <<-a[1], a[2]>>
Inverted(a) == IF a[1] < 0 THEN <<-a[2], -a[1]>> ELSE <<a[2], a[1]>>
a \preceq b == a[1] * b[2] <= b[1] * a[2]
Lesser(a, b) == IF a \preceq b THEN a ELSE b
Clipped(a) == IF a[1] < 0 THEN Zero ELSE a
SumOver(f) == FoldFunction(++, Zero, f)
Mean(f) == SumOver(f) ** <<1, Cardinality(DOMAIN f)>>

------------------------------------------------------------------------------
(* Series *)

\* A fetched series: finitely many points, whole values.
IsSeries(s) == IsFiniteSet(DOMAIN s) /\ \A t \in DOMAIN s : t \in Int /\ s[t] \in Int

Ascending(S) ==
  [k \in 1..Cardinality(S) |-> CHOOSE x \in S : Cardinality({y \in S : y < x}) = k - 1]

\* The last n entries: what a deque with that maxlen has kept.
Newest(s, n) == IF Len(s) <= n THEN s ELSE SubSeq(s, Len(s) - n + 1, Len(s))

\* What is left of a window of dated entries, once those older than a day are popped off
\* its left.
Recent(window, t) ==
  LET fresh == {k \in DOMAIN window : window[k].time >= t - Day}
  IN IF fresh = {} THEN << >> ELSE SubSeq(window, Min(fresh), Len(window))

\* From each of these times but the last to the next.
Gaps(times) ==
  [t \in times \ {Max(times)} |-> Min({u \in times : u > t}) - t]

\* The n-th smallest value of a function.
Nth(f, n) ==
  CHOOSE x \in Range(f) : /\ Cardinality({k \in DOMAIN f : f[k] < x}) < n
                          /\ n <= Cardinality({k \in DOMAIN f : f[k] <= x})
TwiceMedian(f) ==
  LET n == Cardinality(DOMAIN f)
  IN IF n % 2 = 1 THEN 2 * Nth(f, (n + 1) \div 2) ELSE Nth(f, n \div 2) + Nth(f, n \div 2 + 1)

\* Twice the median gap between points, so that the median of an even number of gaps
\* is whole; None for a series of fewer than two points.
NativePeriod2(s) ==
  IF Cardinality(DOMAIN s) < 2 THEN None ELSE TwiceMedian(Gaps(DOMAIN s))

\* The value of the last point at or before t, unless max_staleness (doubled) is given
\* and the point is at least that old.
ValueAtOrBefore(s, t, staleness2) ==
  LET past == {u \in DOMAIN s : u <= t}
  IN IF past = {} \/ (staleness2 # None /\ 2 * Max(past) <= 2 * t - staleness2)
       THEN None
       ELSE s[Max(past)]

\* A day-old value at every point, its own value where there is none.
Lag24hForecast(s) ==
  [t \in DOMAIN s |->
     LET v == ValueAtOrBefore(s, t - Day, None) IN IF v = None THEN s[t] ELSE v]

\* How long the i-th of these times lasts.
PeriodLength(ts, i) ==
  IF i < Len(ts) THEN ts[i + 1] - ts[i]
  ELSE IF i > 1 THEN ts[i] - ts[i - 1]
  ELSE Hour

------------------------------------------------------------------------------
(* Signals *)

SumOf(s) == SumFunction(s)

\* The side of the threshold (its square is a fraction) on which the z-score of x lies,
\* from n(n-1) times the variance and n times the deviation.
Stance(history, x, thresholdSquared) ==
  LET n == Len(history)
      spread == n * SumOf([k \in 1..n |-> history[k] * history[k]])
                - SumOf(history) * SumOf(history)
      deviation == n * x - SumOf(history)
      reached == deviation * deviation * (n - 1) * thresholdSquared[2]
                   >= thresholdSquared[1] * n * spread
  IN IF n < MinHistory \/ spread = 0 \/ ~reached THEN "idle"
     ELSE IF deviation <= 0 THEN "charge" ELSE "discharge"

\* A leg's recent mean over its longer one, zero without a positive longer mean.
LegRelativeStrength(short, baseline) ==
  IF short = << >> \/ baseline = << >> THEN Zero
  ELSE IF SumOf(baseline) <= 0 THEN Zero
  ELSE Clipped(Frac(SumOf(short) * Len(baseline), Len(short) * SumOf(baseline)))
=============================================================================
