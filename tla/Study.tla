--------------------------------- MODULE Study ---------------------------------
(***************************************************************************)
(* A forecast study (scripts/generate_economic_eval_report.py): the        *)
(* coverage gate, the targets, the features and the walk-forward forecasts *)
(* of every leg, while the ingestor and the crawler go on writing to the   *)
(* database it reads query by query.                                       *)
(*                                                                         *)
(* The queries of build_features are one step: what one writer saves       *)
(* between two of them is as if saved before or after, column by column.   *)
(***************************************************************************)
EXTENDS FeatureStore, WalkForward, Sequences

CONSTANTS
  Zone, Horizon, Buffer,    \* what build_features is asked for
  Horizons,                 \* other horizons its rows are checked for
  Start, End,               \* EVAL_WINDOW_START, and the time the study starts
  Config,                   \* WalkForwardConfig
  Lookback,                 \* the training lookback
  Baselines,                \* the baselines the forecasts are compared with
  Legs,                     \* sequence of [key, hourly]: key of the target, aggregate_hourly
  InitialData,              \* the sets of points that may be stored at the start
  NewPoints, NewEvents,     \* points and events that may be stored meanwhile
  MaxWrites                 \* bound: writes while the study runs

ASSUME StudyAssumption ==
  /\ {Horizon, Buffer, MaxWrites} \cup Horizons \subseteq Nat
  /\ {Start, End} \subseteq Int /\ Start <= End
  /\ Config \in [min_train_span : Nat \ {0}, test_span : Nat \ {0}, step : Nat \ {0}]
  /\ Lookback \in Nat \ {0}
  /\ Len(Legs) \in Nat /\ DOMAIN Legs = 1..Len(Legs)
  /\ \A b \in Baselines : b.kind = "naive" => b.lag \in Nat \ {0}
  /\ \A points \in InitialData :
       /\ IsFiniteSet(points)
       /\ \A p, q \in points : p.key = q.key /\ p.time = q.time => p = q
  /\ \A p \in NewPoints \cup UNION InitialData : p.time \in Int
  /\ \A e \in NewEvents : e.known_at \in Int

VARIABLES
  data, events,  \* the database
  writes,        \* writes since the study started (only for MaxWrites)
  stage,         \* "gate", "targets", "features", "folds", "scored" or "failed"
  targets,       \* the target series fetched so far, in the order of Legs
  rows,          \* the feature rows, by hour
  pending,       \* the <<leg, fold>> still to be forecast
  forecasts      \* per leg, the forecast of each time

vars == <<data, events, writes, stage, targets, rows, pending, forecasts>>
database == <<data, events, writes>>

Db == [data |-> data, events |-> events]
Folds == walk_forward_folds(Start, End, Config)
FirstFold == CHOOSE f \in Folds : \A g \in Folds : f.train_end <= g.train_end
From == Max({Start, FirstFold.train_end - Lookback})
Request == [zone |-> Zone, start |-> From, end |-> End, horizon |-> Horizon, buffer |-> Buffer]

AsSeries(points) == [t \in {p.time : p \in points} |-> (CHOOSE p \in points : p.time = t).value]

Init ==
  /\ data \in InitialData /\ events = {} /\ writes = 0
  /\ stage = "gate" /\ targets = <<>> /\ rows = <<>> /\ pending = {}
  /\ forecasts = [l \in DOMAIN Legs |-> <<>>]

\* The ingestor saves a figure; the view shows it in place of an older one.
StorePoint(p) ==
  /\ writes < MaxWrites
  /\ data' = {q \in data : <<q.key, q.time>> # <<p.key, p.time>>} \cup {p}
  /\ writes' = writes + 1
  /\ UNCHANGED <<events, stage, targets, rows, pending, forecasts>>

\* The crawler saves an event.
StoreEvent(e) ==
  /\ writes < MaxWrites
  /\ e \notin events
  /\ events' = events \cup {e}
  /\ writes' = writes + 1
  /\ UNCHANGED <<data, stage, targets, rows, pending, forecasts>>

Fails == stage' = "failed" /\ UNCHANGED <<targets, rows, pending, forecasts>>

\* fetch_and_assert_daily_coverage of every leg, and the check that there are folds.
CoverageGate ==
  /\ stage = "gate"
  /\ UNCHANGED database
  /\ IF /\ \A l \in DOMAIN Legs :
             MissingDays(AsSeries({p \in data : p.key = Legs[l].key}), Start, End) = {}
        /\ Folds # {}
     THEN stage' = "targets" /\ UNCHANGED <<targets, rows, pending, forecasts>>
     ELSE Fails

\* fetch_target_series
FetchTargetSeries(leg) ==
  LET series == AsSeries(Fetch(data, leg.key, From, End))
  IN  IF leg.hourly THEN HourlyMean(series) ELSE series

FetchTarget ==
  /\ stage = "targets" /\ Len(targets) < Len(Legs)
  /\ targets' = Append(targets, FetchTargetSeries(Legs[Len(targets) + 1]))
  /\ UNCHANGED <<data, events, writes, stage, rows, pending, forecasts>>

\* times_full: the hours for which every leg has a target.
Common(series) == {t \in UNION {DOMAIN series[l] : l \in DOMAIN Legs} :
                     \A l \in DOMAIN Legs : t \in DOMAIN series[l]}

CompareTargets ==
  /\ stage = "targets" /\ Len(targets) = Len(Legs)
  /\ UNCHANGED database
  /\ IF Common(targets) = {} THEN Fails
     ELSE stage' = "features" /\ UNCHANGED <<targets, rows, pending, forecasts>>

BuildFeatures ==
  /\ stage = "features"
  /\ rows' = build_features(Db, Request)
  /\ stage' = "folds"
  /\ pending' = (DOMAIN Legs) \X Folds
  /\ UNCHANGED <<data, events, writes, targets, forecasts>>

Dataset(l) == join_features_and_target(rows, targets[l])

\* build_forecast_maps: leg by leg, fold by fold; a later fold's forecast of a time
\* replaces an earlier one's.
ForecastFold ==
  /\ stage = "folds" /\ pending # {}
  /\ UNCHANGED database
  /\ \E next \in pending :
       /\ \A x \in pending : \/ next[1] < x[1]
                             \/ next[1] = x[1] /\ next[2].train_end <= x[2].train_end
       /\ LET forecast == PredictFold(Dataset(next[1]), next[2], Lookback)
          IN  IF forecast = None THEN Fails
              ELSE /\ forecasts' = [forecasts EXCEPT ![next[1]] =
                        [t \in DOMAIN forecast \cup DOMAIN forecasts[next[1]] |->
                           IF t \in DOMAIN forecast THEN forecast[t] ELSE forecasts[next[1]][t]]]
                   /\ pending' = pending \ {next}
                   /\ UNCHANGED <<stage, targets, rows>>

\* scored_times
Scored == {t \in Common(targets) : \A l \in DOMAIN Legs : t \in DOMAIN forecasts[l]}

ScoreTicks ==
  /\ stage = "folds" /\ pending = {}
  /\ UNCHANGED database
  /\ IF Scored = {} THEN Fails
     ELSE stage' = "scored" /\ UNCHANGED <<targets, rows, pending, forecasts>>

StudyStep == \/ CoverageGate \/ FetchTarget \/ CompareTargets
             \/ BuildFeatures \/ ForecastFold \/ ScoreTicks

Next ==
  \/ \E p \in NewPoints : StorePoint(p)
  \/ \E e \in NewEvents : StoreEvent(e)
  \/ StudyStep

Spec == Init /\ [][Next]_vars

-------------------------------------------------------------------------------
(* Properties.                                                             *)

\* A forecast is out by its guaranteed lead, everything else when its time has come.
PublishedBy(p, t) ==
  IF p.key[1] = "wind_solar_forecast"
  THEN p.key[3][2] \in DOMAIN MIN_LEAD /\ p.time - MIN_LEAD[p.key[3][2]] <= t
  ELSE p.time <= t

KnownBy(t) == [data |-> {p \in data : PublishedBy(p, t)},
               events |-> {e \in events : e.known_at <= t}]

\* No query of the request hits its row limit.
Uncut(r) ==
  \A p \in data :
    Cardinality({q \in data : q.key = p.key /\ FetchStart(r) <= q.time /\ q.time <= FetchEnd(r)})
      <= RowLimit

\* The study's request, for another horizon.
At(h) == [Request EXCEPT !.horizon = h]

\* "Containing only features that were knowable at mtu_start - horizon"
\* (build_features): when the rows are built, each is the same when everything not yet published or
\* reported at its decision time is taken out of the database.
RowsIgnoreTheFuture ==
  stage = "features" => \A h \in Horizons : Uncut(At(h)) =>
    \A mtu \in Grid(Request) : Row(Db, At(h), mtu) = Row(KnownBy(mtu - h), At(h), mtu)

\* "Widening it can only ever find an older value" (FeatureStoreConfig): a larger
\* lookback buffer changes no figure of a row, it only finds missing ones.
Wider(r) == [r EXCEPT !.buffer = @ + Day]
WiderBufferOnlyFillsGaps ==
  stage = "features" => \A h \in Horizons, mtu \in Grid(Request) :
    LET near == Row(Db, At(h), mtu)
        far == Row(Db, Wider(At(h)), mtu)
        fills(f, g) == \A c \in DOMAIN f : f[c] \in {None, g[c]}
    IN  /\ \A group \in {"forecast", "revision", "realised", "cross_zone", "imbalance", "nordic"} :
             fills(near[group], far[group])
        /\ \A c \in DOMAIN near.border : fills(near.border[c], far.border[c])
        /\ near.residual \in {None, far.residual}
        /\ near.wind_error \in {None, far.wind_error}
        /\ near.event = far.event

\* "What keeps this leak-safe" (effective_train_window): the forecast of a time is
\* what the same fold gives when no target from the fold's first tested time on is
\* in the dataset, the time's own row excepted.
ForecastsUseThePast ==
  stage \in {"folds", "scored"} =>
    \A l \in DOMAIN Legs : \A t \in DOMAIN forecasts[l] :
      \E fold \in Folds :
        LET past == {u \in DOMAIN Dataset(l) : u < fold.test_start \/ u = t}
        IN  /\ t \in Within(Dataset(l), fold.test_start, fold.test_end)
            /\ forecasts[l][t] = PredictFold(Slice(Dataset(l), past), fold, Lookback)[t]

\* run_model_walk_forward: the points whose losses are pooled, fold by fold.
PooledPoints(l) ==
  {x \in Folds \X DOMAIN Dataset(l) : x[2] \in Within(Dataset(l), x[1].test_start, x[1].test_end)}

\* "Every fold's test-window tick gets exactly one prediction": the study scores every
\* joined hour from the first test window to the last one, and the losses of the model
\* are pooled over the same hours, each of them once.
TicksAreScoredOnce ==
  stage = "scored" =>
    \A l \in DOMAIN Legs :
      /\ Cardinality(PooledPoints(l)) = Cardinality(DOMAIN forecasts[l])
      /\ DOMAIN forecasts[l] =
           Within(Dataset(l), FirstFold.test_start, Max({f.test_end : f \in Folds}))

\* A baseline's forecast of a time does not depend on any target from that time on
\* ("never see the test window's own values": the fit stops at the fold's train_end).
BaselinesUseThePast ==
  \A l \in DOMAIN targets : ~Legs[l].hourly =>
    \A b \in Baselines, fold \in Folds :
      LET forecast == BaselineFold(b, targets[l], fold)
      IN  forecast # None => \A t \in DOMAIN forecast :
            LET past == {u \in DOMAIN targets[l] : u <= t}
                unseen == [Slice(targets[l], past) EXCEPT ![t] = @ + 1]
            IN  BaselineFold(b, unseen, fold)[t] = forecast[t]

\* What the gate accepted is what is fetched, whatever is stored in between: no day
\* of the window lacks a target.
TargetsCoverEveryDay ==
  \A l \in DOMAIN targets : \A day \in DateOf(From)..DateOf(End) :
    \E t \in DOMAIN targets[l] : DateOf(t) = day

-------------------------------------------------------------------------------
(* What the repository says and the code does not do.                      *)

\* "Callers that need a whole window rather than a `most recent N` page must pass"
\* limit=None (fetch_series_values; the code passes 200_000): a realised column is
\* empty only if no figure of the window lies at or before the decision time.
FetchIsWhole ==
  stage = "features" => \A mtu \in Grid(Request), p \in FORECAST_TYPES \cup Production :
    LET decision == mtu - Horizon
    IN  Row(Db, Request, mtu).realised[p] = None =>
          ~\E q \in data : /\ q.key = RealisedKey(Zone, p)
                          /\ FetchStart(Request) <= q.time /\ q.time <= decision
===============================================================================
