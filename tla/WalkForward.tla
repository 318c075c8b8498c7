------------------------------ MODULE WalkForward ------------------------------
(***************************************************************************)
(* The walk-forward harness: the coverage gate, the folds, the baselines   *)
(* of shared/baselines.py and the quantile model of                        *)
(* shared/forecast_model.py.                                               *)
(*                                                                         *)
(* A series is a function from times to values.  A boosted model is a      *)
(* function nobody can write down: it stands for the rows it was fitted on *)
(* and validated with, and its forecast for the pair of the model and the  *)
(* row it is asked about.                                                  *)
(***************************************************************************)
EXTENDS StudyTime

CONSTANTS
  Scale,                \* quantiles are fractions of this number
  QUANTILES,            \* of 1..Scale-1
  MIN_TRAINING_ROWS,    \* 200
  MIN_VALIDATION_ROWS,  \* 48
  ValidationShare       \* validation_frac as <<numerator, denominator>>

ASSUME WalkForwardAssumption ==
  /\ {Scale, MIN_TRAINING_ROWS, MIN_VALIDATION_ROWS} \subseteq Nat \ {0}
  /\ QUANTILES \subseteq 1..(Scale - 1)
  /\ ValidationShare \in (Nat \ {0}) \X (Nat \ {0}) /\ ValidationShare[1] < ValidationShare[2]

-------------------------------------------------------------------------------
(* Series.                                                                 *)

Within(s, from, to) == {t \in DOMAIN s : from <= t /\ t < to}
Slice(s, times) == [t \in times |-> s[t]]

\* Mutant of MissingDays: the last day is not looked at.
MissingEarlierDays(s, start, end) ==
  (DateOf(start)..(DateOf(end) - 1)) \ {DateOf(t) : t \in Within(s, start, end + 1)}

\* _missing_day_ranges: the days of [start, end] without a point.
MissingDays(s, start, end) ==
  (DateOf(start)..DateOf(end)) \ {DateOf(t) : t \in Within(s, start, end + 1)}

\* _aggregate_hourly_mean, the mean as <<sum, count>>.
HourlyMean(s) ==
  LET bucket(h) == {t \in DOMAIN s : FlooredToHour(t) = h}
  IN  [h \in {FlooredToHour(t) : t \in DOMAIN s} |->
         <<MapThenSumSet(LAMBDA t : s[t], bucket(h)), Cardinality(bucket(h))>>]

\* The k-th smallest value of a series.
Ranked(s, k) ==
  LET below(v) == Cardinality({t \in DOMAIN s : s[t] < v})
      upTo(v) == Cardinality({t \in DOMAIN s : s[t] <= v})
  IN  CHOOSE v \in {s[t] : t \in DOMAIN s} : below(v) < k /\ k <= upTo(v)

\* _empirical_quantile, times Scale: between two neighbours in rank, in proportion.
EmpiricalQuantile(s, tau) ==
  LET n == Cardinality(DOMAIN s)
      lower == (tau * (n - 1)) \div Scale
      upper == Min({lower + 1, n - 1})
      share == (tau * (n - 1)) % Scale
  IN  Scale * Ranked(s, lower + 1) + (Ranked(s, upper + 1) - Ranked(s, lower + 1)) * share

Quantiles(s) == [tau \in QUANTILES |-> EmpiricalQuantile(s, tau)]

-------------------------------------------------------------------------------
(* Folds.  A WalkForwardConfig c has min_train_span, test_span and step.   *)

\* Mutant of FoldAt: the test window is closed.
FoldAtClosed(start, t, c) ==
  [train_start |-> start, train_end |-> t, test_start |-> t, test_end |-> t + c.test_span + 1]

FoldAt(start, t, c) ==
  [train_start |-> start, train_end |-> t, test_start |-> t, test_end |-> t + c.test_span]

walk_forward_folds(start, end, c) ==
  {FoldAt(start, t, c) : t \in {u \in (start + c.min_train_span)..(end - c.test_span) :
                                  (u - start - c.min_train_span) % c.step = 0}}

-------------------------------------------------------------------------------
(* Baselines.  A baseline is a record: its kind, and a lag or a lookback.  *)

EffectiveStart(start, end, lookback) == IF lookback = None THEN start ELSE Max({start, end - lookback})

\* fit_seasonal_naive: the quantiles of what the value of `lag` ago misses by.
FitSeasonalNaive(s, start, end, lag) ==
  LET dated == {t \in Within(s, start, end) : t - lag \in DOMAIN s}
  IN  IF dated = {} THEN None ELSE Quantiles([t \in dated |-> s[t] - s[t - lag]])

\* Mutant of FitClimatology: the values of the whole series are pooled.
FitClimatologyOnAll(s, start, end, lookback) ==
  [group |-> [h \in {TimeOfDay(t) : t \in DOMAIN s} |->
                Quantiles(Slice(s, {t \in DOMAIN s : TimeOfDay(t) = h}))],
   overall |-> Quantiles(s)]

\* fit_conditional_climatology: the quantiles of each hour of the day, and of all.
FitClimatology(s, start, end, lookback) ==
  LET seen == Within(s, EffectiveStart(start, end, lookback), end)
  IN  IF seen = {} THEN None
      ELSE [group |-> [h \in {TimeOfDay(t) : t \in seen} |->
                         Quantiles(Slice(s, {t \in seen : TimeOfDay(t) = h}))],
            overall |-> Quantiles(Slice(s, seen))]

FitBaseline(b, s, start, end) ==
  IF b.kind = "naive" THEN FitSeasonalNaive(s, start, end, b.lag)
  ELSE FitClimatology(s, start, end, b.lookback)

\* The quantiles a fitted baseline gives for t; None if it has nothing to start from.
PredictBaseline(b, fit, s, t) ==
  CASE b.kind # "naive" -> IF TimeOfDay(t) \in DOMAIN fit.group THEN fit.group[TimeOfDay(t)]
                           ELSE fit.overall
    [] b.kind = "naive" /\ t - b.lag \in DOMAIN s ->
         [tau \in QUANTILES |-> Scale * s[t - b.lag] + fit[tau]]
    [] OTHER -> None

\* run_walk_forward for one fold: the forecast of every point that is scored, or
\* None if the fit raised.
BaselineFold(b, s, fold) ==
  LET fit == FitBaseline(b, s, fold.train_start, fold.train_end)
      tested == Within(s, fold.test_start, fold.test_end)
  IN  IF fit = None THEN None
      ELSE [t \in {u \in tested : PredictBaseline(b, fit, s, u) # None} |->
              PredictBaseline(b, fit, s, t)]

-------------------------------------------------------------------------------
(* The model.                                                              *)

\* join_features_and_target: the hours that have both.
join_features_and_target(rows, target) ==
  [t \in DOMAIN rows \cap DOMAIN target |-> [x |-> rows[t], y |-> target[t]]]

\* Mutant of TrainWindow: the lookback is counted from the end of the test window.
TrainWindowOfTest(fold, lookback) ==
  <<Max({fold.train_start, fold.test_end - lookback}), fold.test_end>>

\* effective_train_window
TrainWindow(fold, lookback) == <<EffectiveStart(fold.train_start, fold.train_end, lookback), fold.train_end>>

\* The rows held out for early stopping, out of n.
ValidationRows(n) ==
  Min({Max({MIN_VALIDATION_ROWS, (n * ValidationShare[1]) \div ValidationShare[2]}),
       n - MIN_TRAINING_ROWS \div 2})

\* fit_quantile_model: the newest rows of the window are held out.
FitModel(dataset, window) ==
  LET rows == Within(dataset, window[1], window[2])
      n == Cardinality(rows)
      fitted == {t \in rows : Cardinality({u \in rows : u < t}) < n - ValidationRows(n)}
  IN  IF n < MIN_TRAINING_ROWS THEN None
      ELSE [fitted |-> Slice(dataset, fitted), held |-> Slice(dataset, rows \ fitted)]

\* ForecastQuantileModel.predict
Predict(model, x) == <<model, x>>

\* One fold of _walk_forward_predictions.
PredictFold(dataset, fold, lookback) ==
  LET model == FitModel(dataset, TrainWindow(fold, lookback))
  IN  IF model = None THEN None
      ELSE [t \in Within(dataset, fold.test_start, fold.test_end) |-> Predict(model, dataset[t].x)]
================================================================================
