----------------------------- MODULE RuleEngine -----------------------------
(***************************************************************************)
(* The trigger classes of shared/rule_engine.py, as operators on the rows  *)
(* of one (market, product) pair.  A row is one line of                    *)
(* market_data_history: a figure for one market time unit, stamped with    *)
(* the moment the batch that carried it was saved.                         *)
(*                                                                         *)
(* Values are integers.  The z-scores of the code are compared with an     *)
(* exact rational test (no floating point); a NULL value is never stored   *)
(* (save_market_data skips it), so the code's None tests do not arise.     *)
(***************************************************************************)
EXTENDS Integers, FiniteSets
LOCAL INSTANCE Functions

CONSTANTS
  MIN_HISTORY_POINTS,      \* 30 in the code
  HISTORY_FETCH_LIMIT,     \* 1000 in the code
  REVISION_ABS_TOLERANCE,  \* 1.0 in the code
  Product,                 \* the product of the series: "up", "down", or a price name
  SameCurrency             \* what same_currency says of the DK1 and DK2 series

ASSUME ThresholdsAssumption ==
  /\ MIN_HISTORY_POINTS \in Nat \ {0}
  /\ HISTORY_FETCH_LIMIT \in Nat \ {0}
  /\ REVISION_ABS_TOLERANCE \in Nat
  /\ SameCurrency \in BOOLEAN

\* PRICE_SPIKE_STD_THRESHOLD and ZONE_DIVERGENCE_STD_THRESHOLD are both 3.0.
STD_THRESHOLD == 3

\* RARE_NON_POSITIVE_MAX_RATE and REVISION_REL_TOLERANCE are both 1/20.
RATE_DENOMINATOR == 20

Abs(n) == IF n < 0 THEN -n ELSE n

Trigger(type, zone, time, value, up) ==
  [type |-> type, zone |-> zone, time |-> time, value |-> value, up |-> up]

-----------------------------------------------------------------------------
(* Reading a series.                                                       *)

\* ORDER BY time DESC, fetched_at DESC
Precedes(r, s) == r.time > s.time \/ (r.time = s.time /\ r.at > s.at)

\* DatabaseManager.fetch_history: the first `limit` rows of one zone's series.
fetch_history(rows, zone) ==
  LET series == {r \in rows : r.zone = zone}
  IN  {r \in series :
         Cardinality({s \in series : Precedes(s, r)}) < HISTORY_FETCH_LIMIT}

\* Mutants of DedupeLatest: the first fetched revision wins; every revision counts.
DedupeFirst(rows) ==
  {r \in rows : \A s \in rows : s.time = r.time => s.at >= r.at}
DedupeNothing(rows) == rows

\* _dedupe_latest_per_time: one row per time, the most recently fetched one.
DedupeLatest(rows) ==
  {r \in rows : \A s \in rows : s.time = r.time => s.at <= r.at}

Latest(series)  == {r \in series : \A s \in series : s.time <= r.time}
History(series) == series \ Latest(series)

\* The dict of a deduped series: the figure of each time.
Figures(series) ==
  [t \in {r.time : r \in series} |-> (CHOOSE r \in series : r.time = t).value]

-----------------------------------------------------------------------------
(* |x - mean| >= 3 stdev and stdev # 0, over a baseline `past`: a function  *)
(* that maps each sample to its figure.  Multiplied out so that only       *)
(* integers remain: with n samples, sum S and sum of squares Q, the sample *)
(* variance is (nQ - S^2) / (n(n-1)).                                      *)

Total(past) == FoldFunction(+, 0, past)
Squares(past) == [r \in DOMAIN past |-> past[r] * past[r]]

\* n^2 times the variance of the baseline, were it not divided by n - 1.
Spread(past) ==
  Cardinality(DOMAIN past) * Total(Squares(past)) - Total(past) * Total(past)

\* n times the distance from the mean.
Deviation(x, past) == Cardinality(DOMAIN past) * x - Total(past)

Outlier(x, past) ==
  LET n == Cardinality(DOMAIN past)
  IN  /\ n >= 2
      /\ Spread(past) # 0
      /\ Deviation(x, past) * Deviation(x, past) * (n - 1)
           >= STD_THRESHOLD * STD_THRESHOLD * n * Spread(past)

AboveMean(x, past) == Deviation(x, past) > 0

EnoughHistory(series) == Cardinality(series) >= MIN_HISTORY_POINTS + 1

-----------------------------------------------------------------------------
(* The four trigger classes.  Each returns a set of triggers.              *)

\* The z-score check of a series: its newest figure against the earlier ones.
OutlierTriggers(type, zone, series) ==
  LET past == Figures(History(series))
  IN  {Trigger(type, zone, r.time, r.value, AboveMean(r.value, past)) :
         r \in {x \in Latest(series) :
                  EnoughHistory(series) /\ Outlier(x.value, past)}}

check_price_spike(zone, rows) == OutlierTriggers("price_spike", zone, DedupeLatest(rows))

check_negative_or_zero(zone, rows) ==
  LET series == DedupeLatest(rows)
      past   == Figures(History(series))
      nonPositive == {t \in DOMAIN past : past[t] <= 0}
      rare   == RATE_DENOMINATOR * Cardinality(nonPositive) < Cardinality(DOMAIN past)
  IN  {Trigger("negative_or_zero_price", zone, r.time, r.value, FALSE) :
         r \in {x \in Latest(series) :
                  EnoughHistory(series) /\ x.value <= 0 /\ rare}}

\* The two most recently fetched rows of one time, older first.
LastTwo(rows) ==
  {p \in rows \X rows :
     /\ p[1].time = p[2].time
     /\ p[1].at < p[2].at
     /\ \A s \in rows : s.time = p[1].time => s.at <= p[1].at \/ s.at = p[2].at}

\* Beyond both the absolute and the relative tolerance of `old`.
BeyondTolerance(old, new) ==
  /\ Abs(new - old) > REVISION_ABS_TOLERANCE
  /\ RATE_DENOMINATOR * Abs(new - old) > Abs(old)

check_revisions(zone, rows) ==
  {Trigger("revision_alert", zone, p[2].time, p[2].value, p[2].value > p[1].value) :
     p \in {q \in LastTwo(rows) : BeyondTolerance(q[1].value, q[2].value)}}

DivergenceZone == "DK1_vs_DK2"

\* Mutant of Paired: a DK1 figure meets the DK2 figures of earlier times too.
PairedLoosely(dk1, dk2) == {p \in dk1 \X dk2 : p[1].time >= p[2].time}

\* DK1 and DK2 rows of the times both zones have.
Paired(dk1, dk2) == {p \in dk1 \X dk2 : p[1].time = p[2].time}

\* The DK1 - DK2 difference of each time.
Differences(pairs) == {[time |-> p[1].time, value |-> p[1].value - p[2].value] : p \in pairs}

check_zone_divergence(dk1_rows, dk2_rows) ==
  OutlierTriggers("zone_divergence", DivergenceZone,
                  Differences(Paired(DedupeLatest(dk1_rows), DedupeLatest(dk2_rows))))

\* run_rule_engine on the histories of the zones fetch_distinct_series named:
\* `read` maps a zone to the rows fetch_history returned for it.
run_rule_engine(zones, read) ==
  (UNION {check_price_spike(z, read[z]) \cup check_negative_or_zero(z, read[z])
            \cup check_revisions(z, read[z]) : z \in zones})
  \cup (IF {"DK1", "DK2"} \subseteq zones /\ SameCurrency
        THEN check_zone_divergence(read["DK1"], read["DK2"])
        ELSE {})

\* The order of the list run_rule_engine returns.  A zone's triggers keep this
\* order (revisions newest first); divergences follow every zone's own
\* triggers; the order of the zones is the database's and so left open.
ClassRank(type) == CASE type = "price_spike" -> 1
                     [] type = "negative_or_zero_price" -> 2
                     [] type = "revision_alert" -> 3
                     [] OTHER -> 4

Before(s, t) ==
  \/ s.type # "zone_divergence" /\ t.type = "zone_divergence"
  \/ /\ s.zone = t.zone
     /\ \/ ClassRank(s.type) < ClassRank(t.type)
        \/ s.type = t.type /\ s.time > t.time

\* Mutant of infer_direction: the trigger carries no baseline.
NoDirection(t) == IF Product \in {"up", "down"} THEN Product ELSE "n/a"

\* infer_direction
infer_direction(t) ==
  IF Product \in {"up", "down"} THEN Product
  ELSE IF t.up THEN "up" ELSE "down"
=============================================================================
