------------------------------ MODULE StudyProofs ------------------------------
(***************************************************************************)
(* Proofs about a study: its rows use nothing published after their        *)
(* decision times, its forecasts and its baselines no later target; its    *)
(* fetched targets cover every day it has figures for, a wider buffer only *)
(* fills gaps, and a tick is scored once.                                  *)
(***************************************************************************)
EXTENDS Study, FiniteSetTheorems, SequenceTheorems, TLAPS

\* The points of a window.
Whole(points, key, from, to) == {p \in points : p.key = key /\ from <= p.time /\ p.time <= to}

\* A page that does not reach its limit is the whole window.
LEMMA FetchWhole ==
  ASSUME NEW points, IsFiniteSet(points), \A p \in points : p.time \in Int,
         NEW key, NEW from, NEW to,
         \A p \in points : p.key = key => Cardinality(Whole(points, key, from, to)) <= RowLimit
  PROVE  Fetch(points, key, from, to) = Whole(points, key, from, to)
<1> DEFINE whole == Whole(points, key, from, to)
           newer(p) == {q \in whole : q.time > p.time}
<1>1. IsFiniteSet(whole)
  BY FS_Subset DEF Whole
<1>2. ASSUME NEW p \in whole PROVE Cardinality(newer(p)) < RowLimit
  <2>1. p \in points /\ p.key = key /\ p.time \in Int
    BY <1>2 DEF Whole
  <2>2. newer(p) \subseteq whole /\ p \notin newer(p)
    BY <2>1
  <2>3. newer(p) # whole
    BY <1>2, <2>2
  <2>4. /\ IsFiniteSet(newer(p)) /\ Cardinality(newer(p)) <= Cardinality(whole)
        /\ Cardinality(newer(p)) # Cardinality(whole)
    <3> HIDE DEF newer, whole
    <3>. QED BY <1>1, <2>2, <2>3, FS_Subset
  <2>5. Cardinality(whole) <= RowLimit
    BY <2>1
  <2>6. Cardinality(whole) \in Nat /\ Cardinality(newer(p)) \in Nat /\ RowLimit \in Nat
    <3> HIDE DEF newer, whole
    <3>. QED BY <1>1, <2>4, FS_CardinalityType, FeatureAssumption
  <2> HIDE DEF newer, whole
  <2>. QED BY <2>4, <2>5, <2>6
<1>3. Fetch(points, key, from, to) = {p \in whole : Cardinality(newer(p)) < RowLimit}
  BY DEF Fetch, Whole
<1> HIDE DEF newer
<1>. QED BY <1>2, <1>3

-------------------------------------------------------------------------------
(* The rows.                                                               *)

StoredPoints == IsFiniteSet(data) /\ \A p \in data : p.time \in Int

\* What the queries of a request return when no row limit is reached, of the whole
\* database and of what is known of it at a time.
LEMMA QueriesAreWhole ==
  ASSUME StoredPoints, NEW r, Uncut(r), NEW t, NEW key
  PROVE  /\ Points(Db, r, key) = Whole(data, key, FetchStart(r), FetchEnd(r))
         /\ Points(KnownBy(t), r, key) = {p \in Points(Db, r, key) : PublishedBy(p, t)}
<1> DEFINE from == FetchStart(r)
           to == FetchEnd(r)
           known == {p \in data : PublishedBy(p, t)}
           ofAll(k) == Whole(data, k, from, to)
           ofKnown(k) == Whole(known, k, from, to)
<1>1. \A p \in data : Cardinality(ofAll(p.key)) <= RowLimit
  BY DEF Uncut, Whole
<1>2. IsFiniteSet(data) /\ IsFiniteSet(ofAll(key)) /\ IsFiniteSet(known)
  BY FS_Subset DEF StoredPoints, Whole
<1>3. ofKnown(key) = {p \in ofAll(key) : PublishedBy(p, t)}
  BY DEF Whole
<1>4. /\ ofKnown(key) \subseteq ofAll(key)
      /\ IsFiniteSet(ofKnown(key)) /\ Cardinality(ofKnown(key)) <= Cardinality(ofAll(key))
  <2> HIDE DEF ofKnown, ofAll
  <2>1. ofKnown(key) \subseteq ofAll(key)
    BY <1>3
  <2>. QED BY <1>2, <2>1, FS_Subset
<1>5. /\ Cardinality(ofKnown(key)) \in Nat /\ Cardinality(ofAll(key)) \in Nat
      /\ RowLimit \in Nat
  <2> HIDE DEF ofKnown, ofAll
  <2>. QED BY <1>2, <1>4, FS_CardinalityType, FeatureAssumption
<1>6. \A p \in known : p.key = key => Cardinality(ofKnown(key)) <= RowLimit
  <2> HIDE DEF ofKnown, ofAll
  <2>. QED BY <1>1, <1>4, <1>5
<1>7. \A p \in data : p.key = key => Cardinality(ofAll(key)) <= RowLimit
  BY <1>1
<1> HIDE DEF from, to
<1>8. Fetch(data, key, from, to) = ofAll(key)
  BY <1>2, <1>7, FetchWhole DEF StoredPoints
<1>9. Fetch(known, key, from, to) = ofKnown(key)
  <2>1. \A p \in known : p.time \in Int
    BY DEF StoredPoints
  <2> HIDE DEF known
  <2>. QED BY <1>2, <1>6, <2>1, FetchWhole
<1>10. Points(Db, r, key) = ofAll(key)
  BY <1>8 DEF Points, Db, from, to
<1>11. Points(KnownBy(t), r, key) = ofKnown(key)
  BY <1>9 DEF Points, KnownBy, from, to
<1>. QED BY <1>3, <1>10, <1>11 DEF from, to

\* A figure that is not a forecast: what is carried forward to a time is known by then.
LEMMA AsOfKnown ==
  ASSUME StoredPoints, NEW r, Uncut(r), NEW t, NEW key, key[1] # "wind_solar_forecast"
  PROVE  AtOrBefore(Points(KnownBy(t), r, key), t) = AtOrBefore(Points(Db, r, key), t)
<1>1. \A p \in Points(Db, r, key) : p.key = key
  BY QueriesAreWhole DEF Whole
<1>2. Points(KnownBy(t), r, key) = {p \in Points(Db, r, key) : PublishedBy(p, t)}
  BY QueriesAreWhole
<1>3. {p \in Points(KnownBy(t), r, key) : p.time <= t} = {p \in Points(Db, r, key) : p.time <= t}
  BY <1>1, <1>2 DEF PublishedBy
<1>. QED BY <1>3 DEF AtOrBefore

\* A forecast of an hour is known its lead before that hour.
LEMMA ForecastKnown ==
  ASSUME StoredPoints, NEW r, Uncut(r), NEW mtu \in Int, NEW t \in Int,
         NEW zone, NEW type, NEW name \in DOMAIN MIN_LEAD, mtu - MIN_LEAD[name] <= t
  PROVE  Exactly(Points(KnownBy(t), r, ForecastKey(zone, type, name)), mtu)
           = Exactly(Points(Db, r, ForecastKey(zone, type, name)), mtu)
<1> DEFINE key == ForecastKey(zone, type, name)
<1>1. \A p \in Points(Db, r, key) : p.key = key
  BY QueriesAreWhole DEF Whole
<1>2. key[1] = "wind_solar_forecast" /\ key[3][2] = name
  BY DEF ForecastKey
<1> HIDE DEF key
<1>3. Points(KnownBy(t), r, key) = {p \in Points(Db, r, key) : PublishedBy(p, t)}
  BY QueriesAreWhole
<1>4. \A p \in Points(Db, r, key) : p.time = mtu => PublishedBy(p, t)
  BY <1>1, <1>2 DEF PublishedBy
<1>5. {p \in Points(KnownBy(t), r, key) : p.time = mtu} = {p \in Points(Db, r, key) : p.time = mtu}
  BY <1>3, <1>4
<1>. QED BY <1>5 DEF Exactly, key

\* What happened in an hour is known in that hour.
LEMMA HourKnown ==
  ASSUME StoredPoints, NEW r, Uncut(r), NEW t, NEW c, c <= t,
         NEW key, key[1] # "wind_solar_forecast"
  PROVE  Exactly(Points(KnownBy(t), r, key), c) = Exactly(Points(Db, r, key), c)
<1>1. \A p \in Points(Db, r, key) : p.key = key
  BY QueriesAreWhole DEF Whole
<1>2. Points(KnownBy(t), r, key) = {p \in Points(Db, r, key) : PublishedBy(p, t)}
  BY QueriesAreWhole
<1>3. {p \in Points(KnownBy(t), r, key) : p.time = c} = {p \in Points(Db, r, key) : p.time = c}
  BY <1>1, <1>2 DEF PublishedBy
<1>. QED BY <1>3 DEF Exactly

\* The wind error depends on the hours up to the decision time alone.
LEMMA WindErrorOfHours ==
  ASSUME NEW t \in Int, NEW R1, NEW R2, NEW D1, NEW D2,
         \A c \in Int : c <= t => \A w \in Winds :
           Exactly(R1[w], c) = Exactly(R2[w], c) /\ Exactly(D1[w], c) = Exactly(D2[w], c)
  PROVE  WindForecastError(R1, D1, t) = WindForecastError(R2, D2, t)
<1> DEFINE hours == {c \in (t - 24 * Hour + 1)..t : c % Hour = 0}
           miss(R, D, c) == [w \in Winds |-> Less(Exactly(R[w], c), Exactly(D[w], c))]
           missed(R, D) == [c \in hours |-> SumOrNone(miss(R, D, c))]
<1>1. \A c \in hours : c \in Int /\ c <= t
  BY TimeAssumption
<1>2. \A c \in hours : miss(R1, D1, c) = miss(R2, D2, c)
  BY <1>1
<1> HIDE DEF miss
<1>3. missed(R1, D1) = missed(R2, D2)
  BY <1>2
<1> DEFINE newest(m) == LET settled == {c \in hours : m[c] # None}
                        IN  IF settled = {} THEN None ELSE m[Max(settled)]
<1>4. /\ WindForecastError(R1, D1, t) = newest(missed(R1, D1))
      /\ WindForecastError(R2, D2, t) = newest(missed(R2, D2))
  BY DEF WindForecastError, miss
<1> HIDE DEF missed, newest
<1>. QED BY <1>3, <1>4

\* A row is the same of the whole database and of what is known at its decision time.
LEMMA RowKnown ==
  ASSUME StoredPoints, NEW r, Uncut(r), r.horizon \in Nat, NEW mtu \in Int
  PROVE  Row(KnownBy(mtu - r.horizon), r, mtu) = Row(Db, r, mtu)
<1> DEFINE t == mtu - r.horizon
           known == KnownBy(t)
<1>1. t \in Int
  OBVIOUS
<1>2. ASSUME NEW key, key[1] # "wind_solar_forecast"
      PROVE  AsOf(known, r, mtu, key) = AsOf(Db, r, mtu, key)
  BY <1>2, AsOfKnown DEF AsOf
<1>3. ASSUME NEW product PROVE RealisedOf(known, r, mtu, product) = RealisedOf(Db, r, mtu, product)
  BY <1>2 DEF RealisedOf, RealisedKey
<1>4. ASSUME NEW type, NEW name \in Permitted(r.horizon)
      PROVE  ForecastOf(known, r, mtu, type, name) = ForecastOf(Db, r, mtu, type, name)
  <2>1. name \in DOMAIN MIN_LEAD /\ MIN_LEAD[name] \in Nat /\ r.horizon <= MIN_LEAD[name]
    BY FeatureAssumption DEF Permitted
  <2>2. mtu - MIN_LEAD[name] <= t
    BY <2>1
  <2>. QED BY <1>1, <2>1, <2>2, ForecastKnown DEF ForecastOf
<1>5. ForecastColumns(known, r, mtu) = ForecastColumns(Db, r, mtu)
  BY <1>4 DEF ForecastColumns
<1>6. RevisionColumns(known, r, mtu) = RevisionColumns(Db, r, mtu)
  <2>1. CASE {"5hour", "1hour"} \subseteq Permitted(r.horizon)
    <3>1. \A type : RevisionOf(known, r, mtu, type) = RevisionOf(Db, r, mtu, type)
      BY <1>4, <2>1 DEF RevisionOf
    <3>. QED BY <3>1 DEF RevisionColumns
  <2>2. CASE ~({"5hour", "1hour"} \subseteq Permitted(r.horizon))
    BY <2>2 DEF RevisionColumns, Revisions
  <2>. QED BY <2>1, <2>2
<1>7. RealisedColumns(known, r, mtu) = RealisedColumns(Db, r, mtu)
  BY <1>3 DEF RealisedColumns
<1>8. ResidualColumn(known, r, mtu) = ResidualColumn(Db, r, mtu)
  BY <1>3 DEF ResidualColumn
<1>9. CrossZoneColumns(known, r, mtu) = CrossZoneColumns(Db, r, mtu)
  BY <1>2 DEF CrossZoneColumns
<1>10. ImbalanceColumns(known, r, mtu) = ImbalanceColumns(Db, r, mtu)
  BY <1>2 DEF ImbalanceColumns
<1>11. NordicColumns(known, r, mtu) = NordicColumns(Db, r, mtu)
  <2>1. \A key \in NordicKeys(r.zone) : key[1] # "wind_solar_forecast"
    BY DEF NordicKeys
  <2>. QED BY <1>2, <2>1 DEF NordicColumns
<1>12. BorderColumns(known, r, mtu) = BorderColumns(Db, r, mtu)
  BY <1>2, <1>3 DEF BorderColumns
<1>13. WindErrorColumn(known, r, mtu) = WindErrorColumn(Db, r, mtu)
  <2>1. ASSUME NEW c \in Int, c <= t, NEW w \in Winds
        PROVE  /\ Exactly(Points(known, r, RealisedKey(r.zone, w)), c)
                    = Exactly(Points(Db, r, RealisedKey(r.zone, w)), c)
               /\ Exactly(Points(known, r, ForecastKey(r.zone, w, "day_ahead")), c)
                    = Exactly(Points(Db, r, ForecastKey(r.zone, w, "day_ahead")), c)
    <3>1. "day_ahead" \in DOMAIN MIN_LEAD /\ MIN_LEAD["day_ahead"] \in Nat
      BY FeatureAssumption
    <3>2. c - MIN_LEAD["day_ahead"] <= t
      BY <1>1, <2>1, <3>1
    <3>3. RealisedKey(r.zone, w)[1] # "wind_solar_forecast"
      BY DEF RealisedKey
    <3>. QED BY <1>1, <2>1, <3>1, <3>2, <3>3, HourKnown, ForecastKnown
  <2> DEFINE wind(db) == [w \in Winds |-> Points(db, r, RealisedKey(r.zone, w))]
             ahead(db) == [w \in Winds |-> Points(db, r, ForecastKey(r.zone, w, "day_ahead"))]
  <2>2. /\ WindErrorColumn(known, r, mtu) = WindForecastError(wind(known), ahead(known), t)
        /\ WindErrorColumn(Db, r, mtu) = WindForecastError(wind(Db), ahead(Db), t)
    BY DEF WindErrorColumn
  <2>3. \A c \in Int : c <= t => \A w \in Winds :
          /\ Exactly(wind(known)[w], c) = Exactly(wind(Db)[w], c)
          /\ Exactly(ahead(known)[w], c) = Exactly(ahead(Db)[w], c)
    BY <2>1
  <2> HIDE DEF wind, ahead, t, known
  <2>. QED BY <1>1, <2>2, <2>3, WindErrorOfHours
<1>14. EventColumns(known, r, mtu) = EventColumns(Db, r, mtu)
  <2>1. Knowable(FetchEvents(known, r), r.zone, t) = Knowable(FetchEvents(Db, r), r.zone, t)
    BY DEF Knowable, FetchEvents, KnownBy, Db
  <2>. QED BY <2>1 DEF EventColumns
<1> HIDE DEF known
<1>. QED BY <1>5, <1>6, <1>7, <1>8, <1>9, <1>10, <1>11, <1>12, <1>13, <1>14 DEF Row, known

\* At all times the database holds finitely many points, each with a time.
LEMMA PointsStored == Spec => []StoredPoints
<1>1. Init => StoredPoints
  BY StudyAssumption DEF Init, StoredPoints
<1>2. StoredPoints /\ [Next]_vars => StoredPoints'
  <2> SUFFICES ASSUME StoredPoints, [Next]_vars PROVE StoredPoints'
    OBVIOUS
  <2>1. ASSUME NEW p \in NewPoints, StorePoint(p) PROVE StoredPoints'
    <3>1. data' = {q \in data : <<q.key, q.time>> # <<p.key, p.time>>} \cup {p}
      BY <2>1 DEF StorePoint
    <3>2. IsFiniteSet({q \in data : <<q.key, q.time>> # <<p.key, p.time>>})
      BY FS_Subset DEF StoredPoints
    <3>3. IsFiniteSet(data')
      BY <3>1, <3>2, FS_AddElement
    <3>4. p.time \in Int
      BY StudyAssumption
    <3>. QED BY <3>1, <3>3, <3>4 DEF StoredPoints
  <2>2. CASE UNCHANGED data
    BY <2>2 DEF StoredPoints
  <2>3. CASE \E e \in NewEvents : StoreEvent(e)
    BY <2>2, <2>3 DEF StoreEvent
  <2>4. CASE StudyStep
    BY <2>2, <2>4 DEF StudyStep, CoverageGate, FetchTarget, CompareTargets, BuildFeatures,
                      ForecastFold, ScoreTicks, database
  <2>. QED BY <2>1, <2>2, <2>3, <2>4 DEF Next, vars
<1>. QED BY <1>1, <1>2, PTL DEF Spec

\* RowsIgnoreTheFuture: whatever is stored, for every zone, horizon and lookback buffer, a
\* row of features is the same without everything published after its decision time.
THEOREM RowsIgnoreTheFutureHolds == Spec => []RowsIgnoreTheFuture
<1>1. StoredPoints => RowsIgnoreTheFuture
  <2> SUFFICES ASSUME StoredPoints, NEW h \in Horizons, Uncut(At(h)), NEW mtu \in Grid(Request)
               PROVE  Row(Db, At(h), mtu) = Row(KnownBy(mtu - h), At(h), mtu)
    BY DEF RowsIgnoreTheFuture
  <2>1. At(h).horizon = h /\ h \in Nat
    BY StudyAssumption DEF At, Request
  <2>2. mtu \in Int
    BY DEF Grid
  <2>. QED BY <2>1, <2>2, RowKnown
<1>. QED BY <1>1, PointsStored, PTL

-------------------------------------------------------------------------------
(* The forecasts.                                                          *)

\* The model of a fold, asked about a time it tests, gives what it gives without the
\* targets of the other times from its first tested one on.
LEMMA FoldUsesThePast ==
  ASSUME NEW dataset, DOMAIN dataset \subseteq Int, NEW lookback,
         NEW fold, fold.train_end = fold.test_start, fold.test_start \in Int,
         NEW t \in Within(dataset, fold.test_start, fold.test_end),
         PredictFold(dataset, fold, lookback) # None
  PROVE  LET past == {u \in DOMAIN dataset : u < fold.test_start \/ u = t}
         IN  PredictFold(dataset, fold, lookback)[t]
               = PredictFold(Slice(dataset, past), fold, lookback)[t]
<1> DEFINE past == {u \in DOMAIN dataset : u < fold.test_start \/ u = t}
           part == Slice(dataset, past)
           window == TrainWindow(fold, lookback)
           training == Within(dataset, window[1], window[2])
<1>1. window[2] = fold.test_start
  BY DEF TrainWindow
<1>2. DOMAIN part = past /\ \A u \in past : part[u] = dataset[u]
  BY DEF Slice
<1>3. t \in past /\ ~(t < fold.test_start)
  BY DEF Within
<1>4. Within(part, window[1], window[2]) = training
  BY <1>1, <1>2, <1>3 DEF Within
<1> DEFINE n == Cardinality(training)
           fitted == {u \in training : Cardinality({v \in training : v < u}) < n - ValidationRows(n)}
<1>5. fitted \subseteq past /\ training \subseteq past
  BY <1>1 DEF Within
<1> HIDE DEF past, part, window
<1>6. Slice(part, fitted) = Slice(dataset, fitted) /\ Slice(part, training \ fitted) = Slice(dataset, training \ fitted)
  <2> HIDE DEF fitted, training
  <2>. QED BY <1>2, <1>5 DEF Slice
<1> DEFINE model == FitModel(dataset, window)
<1>7. model = IF n < MIN_TRAINING_ROWS THEN None
              ELSE [fitted |-> Slice(dataset, fitted), held |-> Slice(dataset, training \ fitted)]
  BY DEF FitModel
<1>8. FitModel(part, window) = IF n < MIN_TRAINING_ROWS THEN None
                               ELSE [fitted |-> Slice(part, fitted), held |-> Slice(part, training \ fitted)]
  BY <1>4 DEF FitModel
<1>9. FitModel(part, window) = model
  BY <1>6, <1>7, <1>8
<1> HIDE DEF model
<1>10. model # None
  BY DEF PredictFold, model, window
<1>11. PredictFold(dataset, fold, lookback)[t] = Predict(model, dataset[t].x)
  BY <1>10 DEF PredictFold, model, window
<1>12. t \in Within(part, fold.test_start, fold.test_end)
  BY <1>2, <1>3 DEF Within
<1>13. PredictFold(part, fold, lookback)[t] = Predict(model, part[t].x)
  BY <1>9, <1>10, <1>12 DEF PredictFold, window
<1>14. part[t] = dataset[t]
  BY <1>2, <1>3
<1>. QED BY <1>11, <1>13, <1>14 DEF part, past

\* The forecasts made so far use the past, and there are none before the rows are built.
ForecastsInv ==
  /\ DOMAIN rows \subseteq Int
  /\ pending \subseteq (DOMAIN Legs) \X Folds
  /\ DOMAIN forecasts = DOMAIN Legs
  /\ stage \in {"gate", "targets", "features"} => \A l \in DOMAIN Legs : DOMAIN forecasts[l] = {}
  /\ ForecastsUseThePast

LEMMA FoldFacts ==
  ASSUME NEW fold \in Folds
  PROVE  fold.train_end = fold.test_start /\ fold.test_start \in Int
BY DEF Folds, walk_forward_folds, FoldAt

LEMMA ForecastsInvInit == Init => ForecastsInv
BY DEF Init, ForecastsInv, ForecastsUseThePast

\* Steps that leave the rows and the forecasts alone.
LEMMA ForecastsInvKept ==
  ASSUME ForecastsInv, UNCHANGED <<targets, rows, pending, forecasts>>,
         stage' \in {stage, "failed"} \/ (stage \in {"gate", "targets"} /\ stage' \in {"targets", "features"})
                                       \/ (stage = "folds" /\ stage' = "scored")
  PROVE  ForecastsInv'
<1>1. \A l : Dataset(l)' = Dataset(l)
  BY DEF Dataset
<1>2. ForecastsUseThePast'
  BY <1>1 DEF ForecastsUseThePast, ForecastsInv
<1>. QED BY <1>2 DEF ForecastsInv

LEMMA BuildKeepsForecastsInv ==
  ASSUME ForecastsInv, BuildFeatures
  PROVE  ForecastsInv'
<1>1. /\ stage = "features" /\ stage' = "folds" /\ pending' = (DOMAIN Legs) \X Folds
      /\ UNCHANGED forecasts
  BY DEF BuildFeatures
<1>2. DOMAIN rows' \subseteq Int
  BY DEF BuildFeatures, build_features, Grid
<1>3. \A l \in DOMAIN Legs : DOMAIN forecasts'[l] = {}
  BY <1>1 DEF ForecastsInv
<1>4. ForecastsUseThePast'
  BY <1>3 DEF ForecastsUseThePast
<1>. QED BY <1>1, <1>2, <1>4 DEF ForecastsInv

LEMMA ForecastKeepsForecastsInv ==
  ASSUME ForecastsInv, ForecastFold
  PROVE  ForecastsInv'
<1>1. PICK next \in pending :
        LET forecast == PredictFold(Dataset(next[1]), next[2], Lookback)
        IN  IF forecast = None THEN Fails
            ELSE /\ forecasts' = [forecasts EXCEPT ![next[1]] =
                      [t \in DOMAIN forecast \cup DOMAIN forecasts[next[1]] |->
                         IF t \in DOMAIN forecast THEN forecast[t] ELSE forecasts[next[1]][t]]]
                 /\ pending' = pending \ {next}
                 /\ UNCHANGED <<stage, targets, rows>>
  BY DEF ForecastFold
<1> DEFINE leg == next[1]
           fold == next[2]
           forecast == PredictFold(Dataset(leg), fold, Lookback)
<1>2. stage = "folds" /\ leg \in DOMAIN Legs /\ fold \in Folds
  BY <1>1 DEF ForecastFold, ForecastsInv
<1>3. CASE forecast = None
  BY <1>1, <1>3, ForecastsInvKept DEF Fails
<1>4. CASE forecast # None
  <2> DEFINE merged == [t \in DOMAIN forecast \cup DOMAIN forecasts[leg] |->
                          IF t \in DOMAIN forecast THEN forecast[t] ELSE forecasts[leg][t]]
  <2>1. /\ forecasts' = [forecasts EXCEPT ![leg] = merged]
        /\ pending' = pending \ {next}
        /\ UNCHANGED <<stage, targets, rows>>
    BY <1>1, <1>4
  <2>2. \A l : Dataset(l)' = Dataset(l)
    BY <2>1 DEF Dataset
  <2>3. DOMAIN forecast = Within(Dataset(leg), fold.test_start, fold.test_end)
    BY <1>4 DEF PredictFold
  <2>4. DOMAIN Dataset(leg) \subseteq Int
    BY DEF Dataset, join_features_and_target, ForecastsInv
  <2> HIDE DEF forecast
  <2>5. /\ DOMAIN forecasts' = DOMAIN Legs
        /\ \A l \in DOMAIN Legs : forecasts'[l] = IF l = leg THEN merged ELSE forecasts[l]
    BY <1>2, <2>1 DEF ForecastsInv
  <2>6. ASSUME NEW l \in DOMAIN Legs, NEW t \in DOMAIN forecasts'[l]
        PROVE  \E f \in Folds :
                 LET past == {u \in DOMAIN Dataset(l) : u < f.test_start \/ u = t}
                 IN  /\ t \in Within(Dataset(l), f.test_start, f.test_end)
                     /\ forecasts'[l][t] = PredictFold(Slice(Dataset(l), past), f, Lookback)[t]
    <3>1. CASE l = leg /\ t \in DOMAIN forecast
      <4>1. forecasts'[l][t] = forecast[t]
        BY <2>5, <3>1
      <4>2. t \in Within(Dataset(leg), fold.test_start, fold.test_end)
        BY <2>3, <3>1
      <4>3. forecast[t] = PredictFold(Slice(Dataset(leg), {u \in DOMAIN Dataset(leg) : u < fold.test_start \/ u = t}),
                                      fold, Lookback)[t]
        BY <1>2, <1>4, <2>4, <4>2, FoldFacts, FoldUsesThePast DEF forecast
      <4>. QED BY <1>2, <3>1, <4>1, <4>2, <4>3
    <3>2. CASE ~(l = leg /\ t \in DOMAIN forecast)
      <4>1. t \in DOMAIN forecasts[l] /\ forecasts'[l][t] = forecasts[l][t]
        BY <2>5, <3>2
      <4>. QED BY <1>2, <4>1 DEF ForecastsInv, ForecastsUseThePast
    <3>. QED BY <3>1, <3>2
  <2>7. ForecastsUseThePast'
    BY <2>2, <2>6 DEF ForecastsUseThePast
  <2>. QED BY <1>2, <2>1, <2>5, <2>7 DEF ForecastsInv
<1>. QED BY <1>3, <1>4

\* Every other step.
LEMMA OthersKeepForecastsInv ==
  ASSUME ForecastsInv, [Next]_vars, ~BuildFeatures, ~ForecastFold
  PROVE  ForecastsInv'
<1>1. CASE UNCHANGED vars
  BY <1>1, ForecastsInvKept DEF vars
<1>2. CASE \E p \in NewPoints : StorePoint(p)
  BY <1>2, ForecastsInvKept DEF StorePoint
<1>3. CASE \E e \in NewEvents : StoreEvent(e)
  BY <1>3, ForecastsInvKept DEF StoreEvent
<1>4. CASE CoverageGate
  BY <1>4, ForecastsInvKept DEF CoverageGate, Fails
<1>5. CASE CompareTargets
  BY <1>5, ForecastsInvKept DEF CompareTargets, Fails
<1>6. CASE ScoreTicks
  BY <1>6, ForecastsInvKept DEF ScoreTicks, Fails
<1>7. CASE FetchTarget
  <2>1. stage = "targets" /\ UNCHANGED <<stage, rows, pending, forecasts>>
    BY <1>7 DEF FetchTarget
  <2>2. ForecastsUseThePast'
    BY <2>1 DEF ForecastsUseThePast
  <2>. QED BY <2>1, <2>2 DEF ForecastsInv
<1>. QED BY <1>1, <1>2, <1>3, <1>4, <1>5, <1>6, <1>7 DEF Next, StudyStep

\* ForecastsUseThePast: for every database and every configuration of folds and lookback,
\* no forecast depends on a later target.
THEOREM ForecastsUseThePastHolds == Spec => []ForecastsUseThePast
<1>1. ForecastsInv /\ [Next]_vars => ForecastsInv'
  BY BuildKeepsForecastsInv, ForecastKeepsForecastsInv, OthersKeepForecastsInv
<1>2. ForecastsInv => ForecastsUseThePast
  BY DEF ForecastsInv
<1>. QED BY <1>1, <1>2, ForecastsInvInit, PTL DEF Spec

-------------------------------------------------------------------------------
(* The targets.                                                            *)

\* The fetched targets are a sequence of series over times.
TargetsInv ==
  /\ StoredPoints
  /\ \E S : targets \in Seq(S)
  /\ \A l \in DOMAIN targets : DOMAIN targets[l] \subseteq Int

LEMMA SeriesTimes ==
  ASSUME StoredPoints, NEW leg
  PROVE  DOMAIN FetchTargetSeries(leg) \subseteq Int
<1> DEFINE got == Fetch(data, leg.key, From, End)
           series == AsSeries(got)
<1>1. DOMAIN series = {p.time : p \in got}
  BY DEF AsSeries
<1>2. DOMAIN series \subseteq Int
  <2>1. \A p \in got : p.time \in Int
    BY DEF Fetch, StoredPoints
  <2>. QED BY <1>1, <2>1
<1> HIDE DEF series
<1>3. \A t \in DOMAIN series : FlooredToHour(t) \in Int
  BY <1>2, TimeAssumption DEF FlooredToHour
<1>4. DOMAIN HourlyMean(series) = {FlooredToHour(t) : t \in DOMAIN series}
  BY DEF HourlyMean
<1>5. FetchTargetSeries(leg) = IF leg.hourly THEN HourlyMean(series) ELSE series
  BY DEF FetchTargetSeries, series
<1>. QED BY <1>3, <1>4, <1>5, <1>2

\* One more target is fetched.
LEMMA OneMoreTarget ==
  ASSUME FetchTarget, NEW S, targets \in Seq(S)
  PROVE  /\ \E T : targets' \in Seq(T)
         /\ Len(targets) \in Nat /\ Len(targets) + 1 \in DOMAIN Legs
         /\ DOMAIN targets' = DOMAIN targets \cup {Len(targets) + 1}
         /\ \A l \in DOMAIN targets : targets'[l] = targets[l]
         /\ targets'[Len(targets) + 1] = FetchTargetSeries(Legs[Len(targets) + 1])
<1> DEFINE x == FetchTargetSeries(Legs[Len(targets) + 1])
<1>1. targets' = Append(targets, x) /\ Len(targets) < Len(Legs)
  BY DEF FetchTarget
<1> HIDE DEF x
<1>2. PICK T : T = S \cup {x}
  OBVIOUS
<1>3. targets \in Seq(T) /\ x \in T
  BY <1>2, SeqMonotonic
<1>4. /\ Append(targets, x) \in Seq(T)
      /\ Len(Append(targets, x)) = Len(targets) + 1
      /\ \A i \in 1..Len(targets) : Append(targets, x)[i] = targets[i]
      /\ Append(targets, x)[Len(targets) + 1] = x
  BY <1>3, AppendProperties
<1>5. Len(targets) \in Nat /\ DOMAIN targets = 1..Len(targets)
  BY <1>3, LenProperties
<1>6. DOMAIN targets' = 1..(Len(targets) + 1)
  BY <1>1, <1>4, LenProperties
<1>. QED BY <1>1, <1>4, <1>5, <1>6, StudyAssumption DEF x

LEMMA TargetsInvCorrect == Spec => []TargetsInv
<1>1. Init => TargetsInv
  <2> SUFFICES ASSUME Init PROVE TargetsInv
    OBVIOUS
  <2>1. targets = <<>> /\ <<>> \in Seq({}) /\ DOMAIN <<>> = {}
    BY EmptySeq DEF Init
  <2>. QED BY <2>1, StudyAssumption DEF Init, TargetsInv, StoredPoints
<1>2. TargetsInv /\ StoredPoints' /\ [Next]_vars => TargetsInv'
  <2> SUFFICES ASSUME TargetsInv, StoredPoints', [Next]_vars PROVE TargetsInv'
    OBVIOUS
  <2>1. CASE UNCHANGED targets
    BY <2>1 DEF TargetsInv
  <2>2. CASE FetchTarget
    <3>1. PICK S : targets \in Seq(S)
      BY DEF TargetsInv
    <3>2. /\ \E T : targets' \in Seq(T)
          /\ DOMAIN targets' = DOMAIN targets \cup {Len(targets) + 1}
          /\ \A l \in DOMAIN targets : targets'[l] = targets[l]
          /\ targets'[Len(targets) + 1] = FetchTargetSeries(Legs[Len(targets) + 1])
      BY <2>2, <3>1, OneMoreTarget
    <3>3. DOMAIN FetchTargetSeries(Legs[Len(targets) + 1]) \subseteq Int
      BY SeriesTimes DEF TargetsInv
    <3>. QED BY <3>2, <3>3 DEF TargetsInv
  <2>3. CASE StudyStep /\ ~FetchTarget
    BY <2>1, <2>3 DEF StudyStep, CoverageGate, CompareTargets, BuildFeatures, ForecastFold,
                      ScoreTicks, Fails
  <2>4. CASE \/ \E p \in NewPoints : StorePoint(p)
             \/ \E e \in NewEvents : StoreEvent(e)
    BY <2>1, <2>4 DEF StorePoint, StoreEvent
  <2>. QED BY <2>1, <2>2, <2>3, <2>4 DEF Next, vars
<1>. QED BY <1>1, <1>2, PointsStored, PTL DEF Spec

-------------------------------------------------------------------------------
(* The baselines.                                                          *)

\* The forecast of a time does not change with the series from that time on.
LEMMA BaselineOfThePast ==
  ASSUME NEW b, b.kind = "naive" => b.lag \in Nat \ {0},
         NEW s, DOMAIN s \subseteq Int, NEW fold,
         fold.train_end = fold.test_start, fold.test_start \in Int,
         BaselineFold(b, s, fold) # None, NEW t \in DOMAIN BaselineFold(b, s, fold),
         NEW u, DOMAIN u = {x \in DOMAIN s : x <= t},
         \A x \in DOMAIN s : x < t => u[x] = s[x]
  PROVE  BaselineFold(b, u, fold)[t] = BaselineFold(b, s, fold)[t]
<1> DEFINE from == fold.train_start
           to == fold.train_end
           fit == FitBaseline(b, s, from, to)
<1>1. /\ fit # None
      /\ t \in Within(s, fold.test_start, fold.test_end)
      /\ PredictBaseline(b, fit, s, t) # None
      /\ BaselineFold(b, s, fold)[t] = PredictBaseline(b, fit, s, t)
  BY DEF BaselineFold
<1>2. t \in DOMAIN s /\ t \in Int /\ to <= t /\ to \in Int
  BY <1>1 DEF Within
<1>3. \A a : /\ Within(u, a, to) = Within(s, a, to)
             /\ \A x \in Within(s, a, to) : x \in Int /\ x < t /\ u[x] = s[x]
  BY <1>2 DEF Within
<1>4. FitBaseline(b, u, from, to) = fit
  <2>1. CASE b.kind = "naive"
    <3> DEFINE dated(z) == {x \in Within(z, from, to) : x - b.lag \in DOMAIN z}
               missed(z) == [x \in dated(z) |-> z[x] - z[x - b.lag]]
    <3>1. dated(u) = dated(s)
      BY <1>2, <1>3, <2>1
    <3>2. \A x \in dated(s) : u[x] = s[x] /\ u[x - b.lag] = s[x - b.lag]
      BY <1>2, <1>3, <2>1
    <3>3. missed(u) = missed(s)
      BY <3>1, <3>2
    <3>4. \A z : FitBaseline(b, z, from, to)
                   = IF dated(z) = {} THEN None ELSE Quantiles(missed(z))
      BY <2>1 DEF FitBaseline, FitSeasonalNaive
    <3> HIDE DEF dated, missed
    <3>. QED BY <3>1, <3>3, <3>4
  <2>2. CASE b.kind # "naive"
    <3> DEFINE a == EffectiveStart(from, to, b.lookback)
               seen == Within(s, a, to)
               hours == {TimeOfDay(x) : x \in seen}
               at(h) == {x \in seen : TimeOfDay(x) = h}
               group(z) == [h \in hours |-> Quantiles(Slice(z, at(h)))]
    <3>1. Within(u, a, to) = seen /\ \A x \in seen : u[x] = s[x]
      BY <1>3
    <3> HIDE DEF seen, a
    <3>2. Slice(u, seen) = Slice(s, seen) /\ \A h : Slice(u, at(h)) = Slice(s, at(h))
      BY <3>1 DEF Slice
    <3>3. group(u) = group(s)
      BY <3>2
    <3>4. \A z : Within(z, a, to) = seen =>
                   FitBaseline(b, z, from, to)
                     = IF seen = {} THEN None
                       ELSE [group |-> group(z), overall |-> Quantiles(Slice(z, seen))]
      BY <2>2 DEF FitBaseline, FitClimatology, a
    <3>5. Within(s, a, to) = seen
      BY DEF seen
    <3> HIDE DEF group
    <3>. QED BY <3>1, <3>2, <3>3, <3>4, <3>5
  <2>. QED BY <2>1, <2>2
<1> HIDE DEF fit
<1>5. PredictBaseline(b, fit, u, t) = PredictBaseline(b, fit, s, t)
  <2>1. CASE b.kind = "naive"
    <3>1. t - b.lag \in DOMAIN u <=> t - b.lag \in DOMAIN s
      BY <1>2, <2>1
    <3>2. t - b.lag \in DOMAIN s => u[t - b.lag] = s[t - b.lag]
      BY <1>2, <2>1
    <3>. QED BY <2>1, <3>1, <3>2 DEF PredictBaseline
  <2>2. CASE b.kind # "naive"
    BY <2>2 DEF PredictBaseline
  <2>. QED BY <2>1, <2>2
<1>6. t \in Within(u, fold.test_start, fold.test_end)
  BY <1>1, <1>2 DEF Within
<1>7. BaselineFold(b, u, fold)[t] = PredictBaseline(b, fit, u, t)
  BY <1>1, <1>4, <1>5, <1>6 DEF BaselineFold, fit
<1>. QED BY <1>1, <1>5, <1>7

\* BaselinesUseThePast: for every series of targets and every configuration of folds, no
\* baseline's forecast of a time depends on the targets from that time on.
THEOREM BaselinesUseThePastHolds == Spec => []BaselinesUseThePast
<1>1. TargetsInv => BaselinesUseThePast
  <2> SUFFICES ASSUME TargetsInv, NEW l \in DOMAIN targets, NEW b \in Baselines, NEW fold \in Folds,
                      BaselineFold(b, targets[l], fold) # None,
                      NEW t \in DOMAIN BaselineFold(b, targets[l], fold)
               PROVE  LET past == {u \in DOMAIN targets[l] : u <= t}
                          unseen == [Slice(targets[l], past) EXCEPT ![t] = @ + 1]
                      IN  BaselineFold(b, unseen, fold)[t] = BaselineFold(b, targets[l], fold)[t]
    BY DEF BaselinesUseThePast
  <2> DEFINE s == targets[l]
             past == {u \in DOMAIN s : u <= t}
             unseen == [Slice(s, past) EXCEPT ![t] = @ + 1]
  <2>1. DOMAIN s \subseteq Int
    BY DEF TargetsInv
  <2>2. DOMAIN unseen = past /\ \A x \in DOMAIN s : x < t => unseen[x] = s[x]
    <3>1. t \in DOMAIN s
      BY DEF BaselineFold, Within
    <3>. QED BY <2>1, <3>1 DEF Slice
  <2>3. /\ fold.train_end = fold.test_start /\ fold.test_start \in Int
        /\ b.kind = "naive" => b.lag \in Nat \ {0}
    BY FoldFacts, StudyAssumption
  <2> HIDE DEF s, unseen
  <2>4. BaselineFold(b, s, fold) # None /\ t \in DOMAIN BaselineFold(b, s, fold)
    BY DEF s
  <2>5. BaselineFold(b, unseen, fold)[t] = BaselineFold(b, s, fold)[t]
    BY <2>1, <2>2, <2>3, <2>4, BaselineOfThePast
  <2>. QED BY <2>5 DEF s, unseen
<1>. QED BY <1>1, TargetsInvCorrect, PTL

LEMMA TimesOrder ==
  ASSUME NEW x \in Int, NEW y \in Int, NEW n \in Nat, x <= y
  PROVE  x * n <= y * n /\ x * n \in Int /\ y * n \in Int
OBVIOUS

\* An hour lies in the day of its ticks.
LEMMA HourOfDay ==
  ASSUME NEW t \in Int
  PROVE  FlooredToHour(t) \in Int /\ DateOf(FlooredToHour(t)) = DateOf(t)
<1> DEFINE q == t \div Day
           k == Day \div Hour
           a == t \div Hour
           f == t - (t % Hour)
<1>1. Hour \in Nat \ {0} /\ Day \in Nat \ {0} /\ Day % Hour = 0
  BY TimeAssumption
<1>2. Day = k * Hour /\ k \in Int
  BY <1>1
<1>3. q \in Int /\ q * Day <= t /\ t < q * Day + Day
  BY <1>1
<1>4. a \in Int /\ f \in Int /\ f = a * Hour /\ f <= t /\ t < f + Hour
  BY <1>1
<1> HIDE DEF q, k, a, f
<1>5. q * Day = (q * k) * Hour /\ q * k \in Int
  BY <1>1, <1>2, <1>3
<1>6. q * k <= a
  <2> SUFFICES ASSUME a + 1 <= q * k PROVE FALSE
    BY <1>4, <1>5
  <2>1. (a + 1) * Hour <= (q * k) * Hour
    BY <1>1, <1>4, <1>5
  <2>2. (a + 1) * Hour = f + Hour
    BY <1>1, <1>4
  <2>. QED BY <1>1, <1>3, <1>4, <1>5, <2>1, <2>2
<1>7. q * Day <= f
  <2>1. (q * k) * Hour <= a * Hour
    BY <1>1, <1>4, <1>5, <1>6
  <2>. QED BY <1>4, <1>5, <2>1
<1>8. f < q * Day + Day
  BY <1>1, <1>3, <1>4
<1>9. f \div Day = q
  BY <1>1, <1>3, <1>4, <1>7, <1>8
<1>. QED BY <1>4, <1>9 DEF DateOf, FlooredToHour, q, f

\* The tick of a day is not before the day begins.
LEMMA DayBegins ==
  ASSUME NEW t \in Int, NEW from \in Int, from % Day = 0, DateOf(from) <= DateOf(t)
  PROVE  from <= t
<1> DEFINE a == from \div Day
           q == t \div Day
<1>1. Day \in Nat \ {0}
  BY TimeAssumption
<1>2. a \in Int /\ from = a * Day
  BY <1>1
<1>3. q \in Int /\ q * Day <= t /\ a <= q
  BY <1>1 DEF DateOf
<1> HIDE DEF a, q
<1>4. a * Day <= q * Day
  BY <1>1, <1>2, <1>3
<1>5. q * Day \in Int
  BY <1>1, <1>3
<1>. QED BY <1>2, <1>3, <1>4, <1>5

LEMMA DayOrder ==
  ASSUME NEW s \in Int, NEW t \in Int, s <= t
  PROVE  DateOf(s) \in Int /\ DateOf(s) <= DateOf(t)
<1> DEFINE a == s \div Day
           q == t \div Day
<1>1. Day \in Nat \ {0}
  BY TimeAssumption
<1>2. a \in Int /\ a * Day <= s
  BY <1>1
<1>3. q \in Int /\ t < q * Day + Day
  BY <1>1
<1> HIDE DEF a, q
<1>4. a <= q
  <2> SUFFICES ASSUME q + 1 <= a PROVE FALSE
    BY <1>2, <1>3
  <2>1. (q + 1) * Day <= a * Day
    BY <1>1, <1>2, <1>3, TimesOrder
  <2>2. (q + 1) * Day = q * Day + Day /\ q * Day \in Int /\ a * Day \in Int
    BY <1>1, <1>2, <1>3
  <2>. QED BY <1>1, <1>2, <1>3, <2>1, <2>2
<1>. QED BY <1>2, <1>4 DEF DateOf, a, q

-------------------------------------------------------------------------------
(* Coverage.                                                               *)

\* The study fetches whole days, and no target has more ticks than a query returns rows
\* (the windows of the code begin at midnight and hold a few years of hours).
WholeDays == From % Day = 0
FewTicks == End - From < RowLimit

\* The view shows one figure of each series and time.
OneFigure(points) == \A p, q \in points : p.key = q.key /\ p.time = q.time => p = q

\* Every day of the study has a figure of every leg.
Covered(points) ==
  \A l \in DOMAIN Legs : \A day \in DateOf(Start)..DateOf(End) :
    \E p \in points : /\ p.key = Legs[l].key /\ Start <= p.time /\ p.time <= End
                      /\ DateOf(p.time) = day

CoverInv ==
  /\ OneFigure(data)
  /\ stage = "gate" => targets = <<>>
  /\ stage = "targets" => Covered(data)
  /\ TargetsCoverEveryDay

\* A study that goes on has folds.
FoldsInv == stage \notin {"gate", "failed"} => Folds # {}

LEMMA FoldsExist == Spec => []FoldsInv
<1>1. Init => FoldsInv
  BY DEF Init, FoldsInv
<1>2. FoldsInv /\ [Next]_vars => FoldsInv'
  BY DEF FoldsInv, Next, vars, StorePoint, StoreEvent, StudyStep, CoverageGate, FetchTarget,
         CompareTargets, BuildFeatures, ForecastFold, ScoreTicks, Fails
<1>. QED BY <1>1, <1>2, PTL DEF Spec

\* The study starts no later than its first fold's training window.
LEMMA FromFacts ==
  ASSUME Folds # {}
  PROVE  /\ FirstFold \in Folds /\ \A g \in Folds : FirstFold.train_end <= g.train_end
         /\ From \in Int /\ Start <= From /\ From <= End
<1> DEFINE first == Start + Config.min_train_span
           last == End - Config.test_span
           ends == {u \in first..last : (u - first) % Config.step = 0}
           ff == FoldAt(Start, first, Config)
<1>1. /\ Start \in Int /\ End \in Int /\ Start <= End /\ Lookback \in Nat \ {0}
      /\ Config.min_train_span \in Nat \ {0} /\ Config.test_span \in Nat \ {0}
      /\ Config.step \in Nat \ {0}
  BY StudyAssumption
<1>2. Folds = {FoldAt(Start, t, Config) : t \in ends}
  <2>1. \A u \in Int : u - Start - Config.min_train_span = u - first
    BY <1>1
  <2>. QED BY <1>1, <2>1 DEF Folds, walk_forward_folds
<1>3. first \in ends
  <2>1. PICK u \in first..last : TRUE
    BY <1>2
  <2>2. first <= last /\ first - first = 0 /\ 0 % Config.step = 0
    BY <1>1, <2>1
  <2>. QED BY <1>1, <2>2
<1>4. \A f \in Folds : \E u \in ends : f.train_end = u
  BY <1>2 DEF FoldAt
<1>5. \A u \in ends : u \in Int /\ first <= u /\ u <= last
  BY <1>1
<1>6. ff \in Folds /\ ff.train_end = first
  BY <1>2, <1>3 DEF FoldAt
<1>7. \A g \in Folds : ff.train_end <= g.train_end
  BY <1>4, <1>5, <1>6
<1>8. FirstFold \in Folds /\ \A g \in Folds : FirstFold.train_end <= g.train_end
  BY <1>6, <1>7 DEF FirstFold
<1>9. FirstFold.train_end \in Int /\ FirstFold.train_end <= End
  BY <1>1, <1>4, <1>5, <1>8
<1> DEFINE x == FirstFold.train_end - Lookback
<1>10. x \in Int /\ x <= End
  BY <1>1, <1>9
<1>11. From = Max({Start, x})
  BY DEF From
<1> HIDE DEF x
<1>12. \E m \in {Start, x} : \A y \in {Start, x} : m >= y
  BY <1>1, <1>10
<1>13. From \in {Start, x} /\ \A y \in {Start, x} : From >= y
  BY <1>11, <1>12 DEF Max
<1>. QED BY <1>1, <1>8, <1>10, <1>13

\* A query for a target returns every figure of the window.
LEMMA TargetWhole ==
  ASSUME FewTicks, StoredPoints, OneFigure(data), From \in Int, From <= End, NEW key
  PROVE  Fetch(data, key, From, End) = Whole(data, key, From, End)
<1> DEFINE whole == Whole(data, key, From, End)
           newer(p) == {q \in whole : q.time > p.time}
<1>1. ASSUME NEW p \in whole PROVE Cardinality(newer(p)) < RowLimit
  <2> DEFINE ticks == (p.time + 1)..End
             time == [q \in newer(p) |-> q.time]
  <2>1. p.time \in Int /\ From <= p.time /\ p.time <= End /\ End \in Int
    BY <1>1, StudyAssumption DEF Whole, StoredPoints
  <2>2. \A q \in newer(p) : /\ q \in data /\ q.key = key
                            /\ q.time \in Int /\ p.time < q.time /\ q.time <= End
    BY DEF Whole, StoredPoints
  <2>3. \A q \in newer(p) : q.time \in ticks
    BY <2>1, <2>2
  <2>4. \A q, s \in newer(p) : q.time = s.time => q = s
    BY <2>2 DEF OneFigure
  <2>5. IsFiniteSet(ticks) /\ Cardinality(ticks) <= End - From /\ Cardinality(ticks) \in Nat
    <3>1. p.time + 1 \in Int
      BY <2>1
    <3>2. IsFiniteSet(ticks)
          /\ Cardinality(ticks) = IF p.time + 1 > End THEN 0 ELSE End - (p.time + 1) + 1
      BY <2>1, <3>1, FS_Interval
    <3>. QED BY <2>1, <3>2
  <2> HIDE DEF newer, ticks
  <2>6. time \in Injection(newer(p), ticks)
    BY <2>3, <2>4 DEF Injection, IsInjective
  <2>7. IsFiniteSet(newer(p)) /\ Cardinality(newer(p)) <= Cardinality(ticks)
    BY <2>5, <2>6, FS_Injection
  <2>8. Cardinality(newer(p)) \in Nat
    BY <2>7, FS_CardinalityType
  <2>. QED BY <2>1, <2>5, <2>7, <2>8, FeatureAssumption DEF FewTicks
<1>2. Fetch(data, key, From, End) = {p \in whole : Cardinality(newer(p)) < RowLimit}
  BY DEF Fetch, Whole
<1> HIDE DEF newer
<1>. QED BY <1>1, <1>2

\* A fetched target has every day the database covers.
LEMMA FetchedCovers ==
  ASSUME WholeDays, FewTicks, StoredPoints, OneFigure(data), Covered(data), Folds # {},
         NEW l \in DOMAIN Legs, NEW day \in DateOf(From)..DateOf(End)
  PROVE  \E t \in DOMAIN FetchTargetSeries(Legs[l]) : DateOf(t) = day
<1> DEFINE leg == Legs[l]
           got == Fetch(data, leg.key, From, End)
           series == AsSeries(got)
<1>1. From \in Int /\ Start \in Int /\ End \in Int /\ Start <= From /\ From <= End
  BY FromFacts, StudyAssumption
<1>2. day \in DateOf(Start)..DateOf(End) /\ DateOf(From) <= day
  <2>1. /\ DateOf(Start) \in Int /\ DateOf(Start) <= DateOf(From)
        /\ DateOf(From) \in Int
    BY <1>1, DayOrder
  <2>2. DateOf(End) \in Int
    BY <1>1, DayOrder
  <2>. QED BY <2>1, <2>2
<1>3. PICK p \in data : /\ p.key = leg.key /\ Start <= p.time /\ p.time <= End
                        /\ DateOf(p.time) = day
  BY <1>2 DEF Covered
<1>4. p.time \in Int /\ From <= p.time
  BY <1>1, <1>2, <1>3, DayBegins DEF StoredPoints, WholeDays
<1>5. p \in got
  BY <1>1, <1>3, <1>4, TargetWhole DEF Whole
<1>6. p.time \in DOMAIN series
  BY <1>5 DEF AsSeries
<1>7. FetchTargetSeries(leg) = IF leg.hourly THEN HourlyMean(series) ELSE series
  BY DEF FetchTargetSeries
<1> HIDE DEF series, leg
<1>8. CASE leg.hourly
  <2>1. FlooredToHour(p.time) \in DOMAIN HourlyMean(series)
    BY <1>6 DEF HourlyMean
  <2>2. DateOf(FlooredToHour(p.time)) = day
    BY <1>3, <1>4, HourOfDay
  <2>. QED BY <1>7, <1>8, <2>1, <2>2 DEF leg
<1>9. CASE ~leg.hourly
  BY <1>3, <1>6, <1>7, <1>9 DEF leg
<1>. QED BY <1>8, <1>9

LEMMA GateCovers ==
  ASSUME StoredPoints, CoverInv, CoverageGate
  PROVE  CoverInv'
<1>1. UNCHANGED <<data, targets>> /\ stage' \in {"targets", "failed"}
  BY DEF CoverageGate, database, Fails
<1>2. ASSUME stage' = "targets" PROVE Covered(data)
  <2>1. \A l \in DOMAIN Legs :
          MissingDays(AsSeries({p \in data : p.key = Legs[l].key}), Start, End) = {}
    BY <1>2 DEF CoverageGate, Fails
  <2>2. ASSUME NEW l \in DOMAIN Legs, NEW day \in DateOf(Start)..DateOf(End)
        PROVE  \E p \in data : /\ p.key = Legs[l].key /\ Start <= p.time /\ p.time <= End
                               /\ DateOf(p.time) = day
    <3> DEFINE of == {p \in data : p.key = Legs[l].key}
               series == AsSeries(of)
    <3>1. day \in {DateOf(t) : t \in Within(series, Start, End + 1)}
      BY <2>1, <2>2 DEF MissingDays
    <3>2. PICK t \in Within(series, Start, End + 1) : DateOf(t) = day
      BY <3>1
    <3>3. DOMAIN series = {p.time : p \in of}
      BY DEF AsSeries
    <3> HIDE DEF series
    <3>4. PICK p \in of : p.time = t
      BY <3>2, <3>3 DEF Within
    <3>5. t \in Int /\ Start <= t /\ t < End + 1 /\ End \in Int
      BY <3>2, <3>4, StudyAssumption DEF Within, StoredPoints
    <3>. QED BY <3>2, <3>4, <3>5
  <2>. QED BY <2>1, <2>2 DEF Covered
<1>3. TargetsCoverEveryDay'
  BY <1>1 DEF TargetsCoverEveryDay, CoverInv
<1>. QED BY <1>1, <1>2, <1>3 DEF CoverInv, Covered

LEMMA StorePointCovers ==
  ASSUME CoverInv, NEW p \in NewPoints, StorePoint(p)
  PROVE  CoverInv'
<1>1. /\ data' = {q \in data : <<q.key, q.time>> # <<p.key, p.time>>} \cup {p}
      /\ UNCHANGED <<stage, targets>>
  BY DEF StorePoint
<1>2. OneFigure(data')
  BY <1>1 DEF CoverInv, OneFigure
<1>3. \A q \in data : \E s \in data' : s.key = q.key /\ s.time = q.time
  BY <1>1
<1>4. Covered(data) => Covered(data')
  BY <1>3 DEF Covered
<1>5. TargetsCoverEveryDay'
  BY <1>1 DEF TargetsCoverEveryDay, CoverInv
<1>. QED BY <1>1, <1>2, <1>4, <1>5 DEF CoverInv, OneFigure, Covered

LEMMA FetchTargetCovers ==
  ASSUME WholeDays, FewTicks, TargetsInv, FoldsInv, CoverInv, FetchTarget
  PROVE  CoverInv'
<1> DEFINE n == Len(targets) + 1
<1>1. stage = "targets" /\ UNCHANGED <<data, stage>>
  BY DEF FetchTarget
<1>2. PICK S : targets \in Seq(S)
  BY DEF TargetsInv
<1>3. /\ n \in DOMAIN Legs
      /\ DOMAIN targets' = DOMAIN targets \cup {n}
      /\ \A l \in DOMAIN targets : targets'[l] = targets[l]
      /\ targets'[n] = FetchTargetSeries(Legs[n])
  BY <1>2, OneMoreTarget
<1>4. \A day \in DateOf(From)..DateOf(End) :
        \E t \in DOMAIN FetchTargetSeries(Legs[n]) : DateOf(t) = day
  BY <1>1, <1>3, FetchedCovers DEF CoverInv, TargetsInv, FoldsInv
<1> HIDE DEF n
<1>5. TargetsCoverEveryDay'
  BY <1>3, <1>4 DEF TargetsCoverEveryDay, CoverInv
<1>. QED BY <1>1, <1>5 DEF CoverInv, OneFigure, Covered

\* TargetsCoverEveryDay: whatever is stored between the gate and the queries, every day
\* the gate accepted has a target.
THEOREM TargetsCovered ==
  ASSUME WholeDays, FewTicks PROVE Spec => []TargetsCoverEveryDay
<1>1. Init => CoverInv
  BY StudyAssumption DEF Init, CoverInv, OneFigure, TargetsCoverEveryDay
<1>2. TargetsInv /\ FoldsInv /\ CoverInv /\ [Next]_vars => CoverInv'
  <2> SUFFICES ASSUME TargetsInv, FoldsInv, CoverInv, [Next]_vars PROVE CoverInv'
    OBVIOUS
  <2>1. CASE /\ UNCHANGED <<data, targets>>
             /\ stage' # "gate" \/ stage' = stage
             /\ stage' # "targets" \/ stage' = stage
    BY <2>1 DEF CoverInv, OneFigure, Covered, TargetsCoverEveryDay
  <2>2. CASE UNCHANGED vars
    BY <2>1, <2>2 DEF vars
  <2>3. CASE \E e \in NewEvents : StoreEvent(e)
    BY <2>1, <2>3 DEF StoreEvent
  <2>4. CASE CompareTargets \/ BuildFeatures \/ ForecastFold \/ ScoreTicks
    BY <2>1, <2>4 DEF CompareTargets, BuildFeatures, ForecastFold, ScoreTicks, Fails, database
  <2>5. CASE CoverageGate
    BY <2>5, GateCovers DEF TargetsInv
  <2>6. CASE FetchTarget
    BY <2>6, FetchTargetCovers
  <2>7. CASE \E p \in NewPoints : StorePoint(p)
    BY <2>7, StorePointCovers
  <2>. QED BY <2>2, <2>3, <2>4, <2>5, <2>6, <2>7 DEF Next, StudyStep
<1>3. CoverInv => TargetsCoverEveryDay
  BY DEF CoverInv
<1>. QED BY <1>1, <1>2, <1>3, TargetsInvCorrect, FoldsExist, PTL DEF Spec

-------------------------------------------------------------------------------
(* The lookback buffer.                                                    *)

\* A set of integers that has an upper bound has a largest element.
LEMMA LargestInt ==
  ASSUME NEW S \in SUBSET Int, S # {}, NEW top \in Int, \A x \in S : x <= top
  PROVE  \E m \in S : m = Max(S) /\ \A x \in S : x <= m
<1> DEFINE above == {x..top : x \in S}
           R == StrictSubsetOrdering(Int)
<1>1. above \subseteq FiniteSubsetsOf(Int) /\ above # {}
  <2>1. \A x \in S : IsFiniteSet(x..top) /\ x..top \in SUBSET Int
    BY FS_Interval
  <2>. QED BY <2>1 DEF FiniteSubsetsOf
<1>2. IsWellFoundedOn(R, FiniteSubsetsOf(Int))
  BY FS_StrictSubsetOrderingWellFounded
<1>3. PICK a \in above : \A b \in above : <<b, a>> \notin R
  <2> HIDE DEF above, R
  <2>. QED BY <1>1, <1>2, WFMin
<1>4. PICK m \in S : a = m..top
  OBVIOUS
<1>5. ASSUME NEW x \in S, m < x PROVE FALSE
  <2>1. x..top \in above /\ x..top \subseteq a /\ m \in a /\ m \notin x..top
    BY <1>4, <1>5
  <2>2. <<x..top, a>> \in R
    BY <2>1, <1>4 DEF StrictSubsetOrdering
  <2>. QED BY <1>3, <2>1, <2>2
<1>6. \A x \in S : x <= m
  BY <1>5
<1>7. Max(S) \in S /\ \A x \in S : Max(S) >= x
  BY <1>6 DEF Max
<1>8. m = Max(S)
  <2>1. PICK x : x = Max(S)
    OBVIOUS
  <2>2. x \in S /\ x <= m /\ m <= x /\ x \in Int /\ m \in Int
    BY <1>6, <1>7, <2>1
  <2>. QED BY <2>1, <2>2
<1>. QED BY <1>6, <1>8

\* An earlier start only adds earlier points to what a query returns.
LEMMA EarlierStart ==
  ASSUME NEW points, \A p \in points : p.time \in Int, NEW key,
         NEW from \in Int, NEW early \in Int, early <= from, NEW to
  PROVE  Fetch(points, key, from, to) = {p \in Fetch(points, key, early, to) : from <= p.time}
<1> DEFINE whole(f) == {p \in points : p.key = key /\ f <= p.time /\ p.time <= to}
           newer(f, p) == {q \in whole(f) : q.time > p.time}
<1>1. \A f : Fetch(points, key, f, to) = {p \in whole(f) : Cardinality(newer(f, p)) < RowLimit}
  BY DEF Fetch
<1>2. \A p \in whole(from) : p.time \in Int /\ from <= p.time /\ newer(from, p) = newer(early, p)
  OBVIOUS
<1>3. whole(from) = {p \in whole(early) : from <= p.time}
  OBVIOUS
<1> HIDE DEF whole, newer
<1>. QED BY <1>1, <1>2, <1>3

\* With any point left, the newest is the same without the earlier ones.
LEMMA NewestOfLater ==
  ASSUME NEW S, \A p \in S : p.time \in Int, NEW from \in Int,
         {p \in S : from <= p.time} # {}
  PROVE  NewestValue({p \in S : from <= p.time}) = NewestValue(S)
<1> DEFINE later == {p \in S : from <= p.time}
           newest(P) == {p \in P : \A q \in P : q.time <= p.time}
<1>1. newest(later) = newest(S)
  OBVIOUS
<1>2. S # {} /\ later # {}
  OBVIOUS
<1>3. \A P : P # {} => NewestValue(P) = (CHOOSE p \in newest(P) : TRUE).value
  BY DEF NewestValue
<1> HIDE DEF later, newest
<1>4. NewestValue(later) = NewestValue(S)
  BY <1>1, <1>2, <1>3
<1>. QED BY <1>4 DEF later

\* A figure carried forward is found, or is the one a longer window finds; a figure of a
\* time in the window is the same.
LEMMA LaterPoints ==
  ASSUME NEW far, \A p \in far : p.time \in Int, NEW from \in Int,
         NEW near, near = {p \in far : from <= p.time}, NEW t \in Int
  PROVE  /\ AtOrBefore(near, t) \in {None, AtOrBefore(far, t)}
         /\ from <= t => Exactly(near, t) = Exactly(far, t)
         /\ t < from => Exactly(near, t) = None
<1> DEFINE past == {p \in far : p.time <= t}
           found == {p \in past : from <= p.time}
<1>1. found = {p \in near : p.time <= t}
  OBVIOUS
<1>2. AtOrBefore(near, t) \in {None, AtOrBefore(far, t)}
  <2>1. AtOrBefore(near, t) = NewestValue(found) /\ AtOrBefore(far, t) = NewestValue(past)
    BY <1>1 DEF AtOrBefore
  <2>2. CASE found = {}
    BY <2>1, <2>2 DEF NewestValue
  <2>3. CASE found # {}
    <3>1. \A p \in past : p.time \in Int
      OBVIOUS
    <3> HIDE DEF past
    <3>2. NewestValue(found) = NewestValue(past)
      BY <2>3, <3>1, NewestOfLater
    <3>. QED BY <2>1, <3>2
  <2>. QED BY <2>2, <2>3
<1>3. ASSUME from <= t PROVE Exactly(near, t) = Exactly(far, t)
  <2>1. {p \in near : p.time = t} = {p \in far : p.time = t}
    BY <1>3
  <2>. QED BY <2>1 DEF Exactly
<1>4. ASSUME t < from PROVE Exactly(near, t) = None
  <2>1. {p \in near : p.time = t} = {}
    BY <1>4
  <2>. QED BY <2>1 DEF Exactly, NewestValue
<1>. QED BY <1>2, <1>3, <1>4

\* The newest settled hour of a window is the newest of a longer one, if there is any.
LEMMA WindErrorOfLater ==
  ASSUME NEW t \in Int, NEW from \in Int, NEW R1, NEW R2, NEW D1, NEW D2,
         \A c \in Int, w \in Winds :
           /\ from <= c => Exactly(R1[w], c) = Exactly(R2[w], c) /\ Exactly(D1[w], c) = Exactly(D2[w], c)
           /\ c < from => Exactly(R1[w], c) = None
  PROVE  WindForecastError(R1, D1, t) \in {None, WindForecastError(R2, D2, t)}
<1> DEFINE hours == {c \in (t - 24 * Hour + 1)..t : c % Hour = 0}
           miss(R, D, c) == [w \in Winds |-> Less(Exactly(R[w], c), Exactly(D[w], c))]
           missed(R, D) == [c \in hours |-> SumOrNone(miss(R, D, c))]
           m1 == missed(R1, D1)
           m2 == missed(R2, D2)
           settled(m) == {c \in hours : m[c] # None}
           newest(m) == IF settled(m) = {} THEN None ELSE m[Max(settled(m))]
<1>1. \A c \in hours : c \in Int /\ c <= t
  BY TimeAssumption
<1>2. ASSUME NEW c \in hours, from <= c PROVE m1[c] = m2[c]
  <2>1. miss(R1, D1, c) = miss(R2, D2, c)
    BY <1>1, <1>2
  <2> HIDE DEF miss
  <2>. QED BY <2>1
<1>3. ASSUME NEW c \in hours, c < from PROVE m1[c] = None
  <2>1. "offshore_wind" \in Winds
    BY DEF Winds, FORECAST_TYPES
  <2>2. Exactly(R1["offshore_wind"], c) = None
    BY <1>1, <1>3, <2>1
  <2>3. "offshore_wind" \in DOMAIN miss(R1, D1, c) /\ miss(R1, D1, c)["offshore_wind"] = None
    BY <2>1, <2>2 DEF Less
  <2> HIDE DEF miss
  <2>4. SumOrNone(miss(R1, D1, c)) = None
    BY <2>3 DEF SumOrNone
  <2>. QED BY <2>4
<1>4. /\ WindForecastError(R1, D1, t) = newest(m1)
      /\ WindForecastError(R2, D2, t) = newest(m2)
  BY DEF WindForecastError
<1> HIDE DEF m1, m2, hours
<1>5. CASE settled(m1) = {}
  BY <1>4, <1>5
<1>6. CASE settled(m1) # {}
  <2>1. /\ settled(m1) \in SUBSET Int /\ settled(m2) \in SUBSET Int
        /\ \A c \in settled(m1) : c <= t /\ c \in settled(m2) /\ from <= c
        /\ \A c \in settled(m2) : c <= t /\ (from <= c => c \in settled(m1))
    BY <1>1, <1>2, <1>3
  <2> HIDE DEF settled
  <2>2. settled(m2) # {}
    BY <1>6, <2>1
  <2>3. PICK x \in settled(m1) : x = Max(settled(m1)) /\ \A c \in settled(m1) : c <= x
    BY <1>6, <2>1, LargestInt
  <2>4. PICK y \in settled(m2) : y = Max(settled(m2)) /\ \A c \in settled(m2) : c <= y
    BY <2>1, <2>2, LargestInt
  <2>5. x = y
    BY <2>1, <2>3, <2>4
  <2>6. m1[x] = m2[x]
    BY <1>2, <2>1, <2>3 DEF settled
  <2>. QED BY <1>4, <1>6, <2>2, <2>3, <2>4, <2>5, <2>6
<1>. QED BY <1>5, <1>6

\* What the queries of a request return, and those of the same request with a wider buffer.
LEMMA WiderQueries ==
  ASSUME StoredPoints, NEW h \in Nat, NEW r, r = At(h), From \in Int, NEW key
  PROVE  /\ FetchStart(r) \in Int /\ FetchStart(r) <= FlooredToHour(r.start)
         /\ \A p \in Points(Db, Wider(r), key) : p.time \in Int
         /\ Points(Db, r, key) = {p \in Points(Db, Wider(r), key) : FetchStart(r) <= p.time}
<1>0. r = [zone |-> Zone, start |-> From, end |-> End, horizon |-> h, buffer |-> Buffer]
      /\ Buffer \in Nat
      /\ r.start = From /\ r.end = End /\ r.horizon = h /\ r.buffer = Buffer
  BY StudyAssumption DEF At, Request
<1>1. /\ FlooredToHour(r.start) \in Int /\ FetchStart(r) \in Int
      /\ FetchStart(r) <= FlooredToHour(r.start)
  BY <1>0, TimeAssumption DEF FlooredToHour, FetchStart
<1>2. FetchStart(Wider(r)) = FetchStart(r) - Day /\ FetchEnd(Wider(r)) = FetchEnd(r)
  <2> DEFINE w == Wider(r)
  <2>1. w.start = r.start /\ w.horizon = r.horizon /\ w.end = r.end /\ w.buffer = r.buffer + Day
    <3>1. w = [zone |-> Zone, start |-> From, end |-> End, horizon |-> h, buffer |-> Buffer + Day]
      BY <1>0 DEF Wider
    <3>. QED BY <1>0, <3>1
  <2> HIDE DEF w
  <2>2. FetchStart(w) = FetchStart(r) - Day
    BY <1>0, <1>1, <2>1, TimeAssumption DEF FetchStart
  <2>3. FetchEnd(w) = FetchEnd(r)
    BY <1>0, <2>1 DEF FetchEnd, Grid
  <2>. QED BY <2>2, <2>3 DEF w
<1>3. FetchStart(Wider(r)) \in Int /\ FetchStart(Wider(r)) <= FetchStart(r)
  BY <1>1, <1>2, TimeAssumption
<1>4. Fetch(data, key, FetchStart(r), FetchEnd(r))
        = {p \in Fetch(data, key, FetchStart(Wider(r)), FetchEnd(r)) : FetchStart(r) <= p.time}
  BY <1>1, <1>3, EarlierStart DEF StoredPoints
<1>5. \A p \in Points(Db, Wider(r), key) : p.time \in Int
  BY DEF Points, Db, Fetch, StoredPoints
<1>. QED BY <1>1, <1>2, <1>4, <1>5 DEF Points, Db

\* What a column holds, it holds with a wider buffer too.
Fills(f, g) == \A c \in DOMAIN f : f[c] \in {None, g[c]}

LEMMA RowFills ==
  ASSUME StoredPoints, From \in Int, NEW h \in Nat, NEW mtu \in Grid(Request)
  PROVE  LET near == Row(Db, At(h), mtu)
             far == Row(Db, Wider(At(h)), mtu)
         IN  /\ \A group \in {"forecast", "revision", "realised", "cross_zone", "imbalance", "nordic"} :
                  Fills(near[group], far[group])
             /\ \A c \in DOMAIN near.border : Fills(near.border[c], far.border[c])
             /\ near.residual \in {None, far.residual}
             /\ near.wind_error \in {None, far.wind_error}
             /\ near.event = far.event
<1> DEFINE r == At(h)
           w == Wider(r)
           t == mtu - h
           from == FetchStart(r)
<1>1. /\ r = [zone |-> Zone, start |-> From, end |-> End, horizon |-> h, buffer |-> Buffer]
      /\ w.zone = Zone /\ w.horizon = h /\ w.start = r.start /\ w.end = r.end
  BY DEF At, Request, Wider
<1>2. mtu \in Int /\ FlooredToHour(From) <= mtu
  <2>1. Request.start = From /\ FlooredToHour(From) \in Int /\ End \in Int
    BY TimeAssumption, StudyAssumption DEF Request, FlooredToHour
  <2>. QED BY <2>1 DEF Grid, Request
<1>3. from \in Int /\ from <= mtu /\ t \in Int
  <2>1. FetchStart(r) \in Int /\ FetchStart(r) <= FlooredToHour(r.start)
    BY WiderQueries
  <2>2. FlooredToHour(From) \in Int
    BY TimeAssumption DEF FlooredToHour
  <2>. QED BY <1>1, <1>2, <2>1, <2>2
<1>4. FetchEnd(w) = FetchEnd(r)
  BY <1>1 DEF FetchEnd, Grid
<1> HIDE DEF r, w
<1>5. ASSUME NEW key, NEW u \in Int
      PROVE  /\ AtOrBefore(Points(Db, r, key), u) \in {None, AtOrBefore(Points(Db, w, key), u)}
             /\ from <= u => Exactly(Points(Db, r, key), u) = Exactly(Points(Db, w, key), u)
             /\ u < from => Exactly(Points(Db, r, key), u) = None
  <2>1. /\ \A p \in Points(Db, w, key) : p.time \in Int
        /\ Points(Db, r, key) = {p \in Points(Db, w, key) : from <= p.time}
    BY WiderQueries DEF r, w
  <2> HIDE DEF from
  <2>2. PICK near, far : near = Points(Db, r, key) /\ far = Points(Db, w, key)
    OBVIOUS
  <2>3. near = {p \in far : from <= p.time} /\ \A p \in far : p.time \in Int
    BY <2>1, <2>2
  <2>4. /\ AtOrBefore(near, u) \in {None, AtOrBefore(far, u)}
        /\ from <= u => Exactly(near, u) = Exactly(far, u)
        /\ u < from => Exactly(near, u) = None
    BY <1>3, <1>5, <2>3, LaterPoints
  <2>. QED BY <2>2, <2>4
<1> HIDE DEF from
<1>6. \A key : AsOf(Db, r, mtu, key) \in {None, AsOf(Db, w, mtu, key)}
  <2>1. r.horizon = h /\ w.horizon = h
    BY <1>1
  <2>. QED BY <1>3, <1>5, <2>1 DEF AsOf
<1>7. r.zone = Zone /\ w.zone = Zone /\ r.horizon = h /\ w.horizon = h
  BY <1>1
<1>8. \A type, name : ForecastOf(Db, r, mtu, type, name) = ForecastOf(Db, w, mtu, type, name)
  BY <1>2, <1>3, <1>5, <1>7 DEF ForecastOf
<1>9. \A p : RealisedOf(Db, r, mtu, p) \in {None, RealisedOf(Db, w, mtu, p)}
  BY <1>6, <1>7 DEF RealisedOf
<1>10. Fills(ForecastColumns(Db, r, mtu), ForecastColumns(Db, w, mtu))
  BY <1>7, <1>8 DEF Fills, ForecastColumns
<1>11. Fills(RevisionColumns(Db, r, mtu), RevisionColumns(Db, w, mtu))
  <2>1. \A type : RevisionOf(Db, r, mtu, type) = RevisionOf(Db, w, mtu, type)
    BY <1>8 DEF RevisionOf
  <2>. QED BY <1>7, <2>1 DEF Fills, RevisionColumns
<1>12. Fills(RealisedColumns(Db, r, mtu), RealisedColumns(Db, w, mtu))
  BY <1>9 DEF Fills, RealisedColumns
<1>13. Fills(CrossZoneColumns(Db, r, mtu), CrossZoneColumns(Db, w, mtu))
  BY <1>6, <1>7 DEF Fills, CrossZoneColumns
<1>14. Fills(ImbalanceColumns(Db, r, mtu), ImbalanceColumns(Db, w, mtu))
  BY <1>6, <1>7 DEF Fills, ImbalanceColumns
<1>15. Fills(NordicColumns(Db, r, mtu), NordicColumns(Db, w, mtu))
  BY <1>6, <1>7 DEF Fills, NordicColumns
<1>16. \A c \in Corridors(Zone) :
         Fills(BorderColumns(Db, r, mtu)[c], BorderColumns(Db, w, mtu)[c])
  BY <1>6, <1>7, <1>9 DEF Fills, BorderColumns
<1>17. ResidualColumn(Db, r, mtu) \in {None, ResidualColumn(Db, w, mtu)}
  <2> DEFINE of(q, P) == [p \in P |-> RealisedOf(Db, q, mtu, p)]
  <2>1. ASSUME NEW P, SumOrNone(of(r, P)) # None PROVE of(r, P) = of(w, P)
    <3>1. \A p \in P : RealisedOf(Db, r, mtu, p) # None
      BY <2>1 DEF SumOrNone
    <3>. QED BY <1>9, <3>1
  <2>2. \A q : ResidualColumn(Db, q, mtu)
                 = Less(SumOrNone(of(q, Production)), SumOrNone(of(q, FORECAST_TYPES)))
    BY DEF ResidualColumn
  <2> HIDE DEF of
  <2>3. CASE SumOrNone(of(r, Production)) = None \/ SumOrNone(of(r, FORECAST_TYPES)) = None
    BY <2>2, <2>3 DEF Less
  <2>4. CASE SumOrNone(of(r, Production)) # None /\ SumOrNone(of(r, FORECAST_TYPES)) # None
    <3>1. of(r, Production) = of(w, Production) /\ of(r, FORECAST_TYPES) = of(w, FORECAST_TYPES)
      BY <2>1, <2>4
    <3>. QED BY <2>2, <3>1
  <2>. QED BY <2>3, <2>4
<1>18. WindErrorColumn(Db, r, mtu) \in {None, WindErrorColumn(Db, w, mtu)}
  <2> DEFINE wind(q) == [x \in Winds |-> Points(Db, q, RealisedKey(q.zone, x))]
             ahead(q) == [x \in Winds |-> Points(Db, q, ForecastKey(q.zone, x, "day_ahead"))]
  <2>1. /\ WindErrorColumn(Db, r, mtu) = WindForecastError(wind(r), ahead(r), t)
        /\ WindErrorColumn(Db, w, mtu) = WindForecastError(wind(w), ahead(w), t)
    BY <1>7 DEF WindErrorColumn
  <2>2. \A c \in Int, x \in Winds :
          /\ from <= c => /\ Exactly(wind(r)[x], c) = Exactly(wind(w)[x], c)
                          /\ Exactly(ahead(r)[x], c) = Exactly(ahead(w)[x], c)
          /\ c < from => Exactly(wind(r)[x], c) = None
    BY <1>5, <1>7
  <2>3. PICK R1, R2, D1, D2 : /\ R1 = wind(r) /\ R2 = wind(w)
                              /\ D1 = ahead(r) /\ D2 = ahead(w)
    OBVIOUS
  <2> HIDE DEF wind, ahead, t
  <2>4. WindForecastError(R1, D1, t) \in {None, WindForecastError(R2, D2, t)}
    BY <1>3, <2>2, <2>3, WindErrorOfLater
  <2>. QED BY <2>1, <2>3, <2>4
<1>19. EventColumns(Db, r, mtu) = EventColumns(Db, w, mtu)
  BY <1>4, <1>7 DEF EventColumns, FetchEvents
<1>20. DOMAIN BorderColumns(Db, r, mtu) = Corridors(Zone)
  BY <1>7 DEF BorderColumns
<1>21. ASSUME NEW group \in {"forecast", "revision", "realised", "cross_zone", "imbalance", "nordic"}
       PROVE  Fills(Row(Db, r, mtu)[group], Row(Db, w, mtu)[group])
  BY <1>10, <1>11, <1>12, <1>13, <1>14, <1>15 DEF Row
<1>. QED BY <1>16, <1>17, <1>18, <1>19, <1>20, <1>21 DEF Row, r, w

\* WiderBufferOnlyFillsGaps: for every database, zone, horizon and row limit, widening the
\* lookback buffer changes no figure of a row that was found without it.
THEOREM WiderBufferFills == Spec => []WiderBufferOnlyFillsGaps
<1>1. StoredPoints /\ FoldsInv => WiderBufferOnlyFillsGaps
  <2> SUFFICES ASSUME StoredPoints, FoldsInv, stage = "features", NEW h \in Horizons,
                      NEW mtu \in Grid(Request)
               PROVE  LET near == Row(Db, At(h), mtu)
                          far == Row(Db, Wider(At(h)), mtu)
                      IN  /\ \A group \in {"forecast", "revision", "realised", "cross_zone", "imbalance", "nordic"} :
                               Fills(near[group], far[group])
                          /\ \A c \in DOMAIN near.border : Fills(near.border[c], far.border[c])
                          /\ near.residual \in {None, far.residual}
                          /\ near.wind_error \in {None, far.wind_error}
                          /\ near.event = far.event
    BY DEF WiderBufferOnlyFillsGaps, Fills
  <2>1. h \in Nat /\ From \in Int
    BY StudyAssumption, FromFacts DEF FoldsInv
  <2>. QED BY <2>1, RowFills
<1>. QED BY <1>1, PointsStored, FoldsExist, PTL

-------------------------------------------------------------------------------
(* The scored ticks.                                                       *)

\* Each fold tests what the fold before it stops at (WalkForwardConfig: 30 days each).
Consecutive == Config.step = Config.test_span

\* The ticks a fold tests.
Tested(l, f) == Within(Dataset(l), f.test_start, f.test_end)

\* The forecasts made so far are those of the folds that are not pending.
ForecastsOfFolds ==
  /\ stage = "scored" => pending = {}
  /\ stage \in {"folds", "scored"} =>
       \A l \in DOMAIN Legs : \A t :
         t \in DOMAIN forecasts[l] <=> \E f \in Folds : <<l, f>> \notin pending /\ t \in Tested(l, f)

\* Where the folds are: a number of steps after the first.
LEMMA FoldSteps ==
  ASSUME Consecutive
  PROVE  /\ Start + Config.min_train_span \in Int /\ Config.step \in Nat \ {0}
         /\ \A f \in Folds : \E i \in Nat :
              /\ f = FoldAt(Start, Start + Config.min_train_span + i * Config.step, Config)
              /\ f.test_start = Start + Config.min_train_span + i * Config.step
              /\ f.test_end = f.test_start + Config.step /\ f.test_end <= End
         /\ \A i \in Nat :
              Start + Config.min_train_span + i * Config.step + Config.step <= End =>
                FoldAt(Start, Start + Config.min_train_span + i * Config.step, Config) \in Folds
<1> DEFINE first == Start + Config.min_train_span
           step == Config.step
           last == End - step
           ends == {u \in first..last : (u - first) % step = 0}
<1>1. first \in Int /\ step \in Nat \ {0} /\ End \in Int /\ step = Config.test_span
      /\ Start \in Int /\ Config.min_train_span \in Int
  BY StudyAssumption DEF Consecutive
<1>2. Folds = {FoldAt(Start, t, Config) : t \in ends}
  <2>1. \A u \in Int : u - Start - Config.min_train_span = u - first
    BY <1>1
  <2>. QED BY <1>1, <2>1 DEF Folds, walk_forward_folds
<1>3. \A t : /\ FoldAt(Start, t, Config).test_start = t
             /\ FoldAt(Start, t, Config).test_end = t + step
  BY <1>1 DEF FoldAt
<1> HIDE DEF first, step
<1>4. ASSUME NEW t \in ends
      PROVE  \E i \in Nat : t = first + i * step /\ t + step <= End /\ t \in Int
  <2>1. t \in Int /\ first <= t /\ t <= End - step /\ (t - first) % step = 0
    BY <1>1
  <2>2. PICK d \in Nat : d = t - first
    BY <1>1, <2>1
  <2>3. d \div step \in Nat /\ d = (d \div step) * step
    BY <1>1, <2>1, <2>2
  <2>4. PICK n \in Nat : d = n * step
    BY <2>3
  <2>5. n * step \in Int
    BY <1>1
  <2>6. t = first + n * step
    <3>1. first \in Int /\ t \in Int
      BY <1>1, <2>1
    <3>2. t = first + d
      BY <2>2, <3>1
    <3>. QED BY <2>4, <3>2
  <2>7. t + step <= End
    BY <1>1, <2>1
  <2>8. t \in Int
    BY <2>1
  <2> HIDE DEF ends
  <2>. QED BY <2>6, <2>7, <2>8
<1>5. ASSUME NEW i \in Nat, first + i * step + step <= End
      PROVE  first + i * step \in ends
  <2>1. i * step \in Nat /\ (i * step) % step = 0
    BY <1>1
  <2>2. PICK d \in Nat : d = i * step
    BY <2>1
  <2>3. first <= first + d /\ first + d <= last /\ (first + d) - first = d
    BY <1>1, <1>5, <2>2
  <2>. QED BY <1>1, <2>1, <2>2, <2>3
<1>6. ASSUME NEW f \in Folds
      PROVE  \E i \in Nat : /\ f = FoldAt(Start, first + i * step, Config)
                            /\ f.test_start = first + i * step
                            /\ f.test_end = f.test_start + step /\ f.test_end <= End
  <2>1. PICK t \in ends : f = FoldAt(Start, t, Config)
    BY <1>2
  <2>2. PICK i \in Nat : t = first + i * step /\ t + step <= End
    BY <1>4
  <2>. QED BY <1>3, <2>1, <2>2
<1>7. \A i \in Nat : first + i * step + step <= End => FoldAt(Start, first + i * step, Config) \in Folds
  BY <1>2, <1>5
<1>. QED BY <1>1, <1>6, <1>7 DEF first, step

\* The test windows follow each other: a tick from the first to the end of the last
\* is tested by exactly one fold.
LEMMA OneFoldPerTick ==
  ASSUME Consecutive, Folds # {}, NEW x \in Int
  PROVE  /\ \A f, g \in Folds :
              f.test_start <= x /\ x < f.test_end /\ g.test_start <= x /\ x < g.test_end => f = g
         /\ (\E f \in Folds : f.test_start <= x /\ x < f.test_end)
              <=> FirstFold.test_start <= x /\ x < Max({f.test_end : f \in Folds})
<1> DEFINE first == Start + Config.min_train_span
           step == Config.step
           ends == {f.test_end : f \in Folds}
           at(i) == FoldAt(Start, first + i * step, Config)
<1>1. /\ first \in Int /\ step \in Nat \ {0} /\ End \in Int
      /\ \A f \in Folds : \E i \in Nat :
           /\ f = at(i) /\ f.test_start = first + i * step
           /\ f.test_end = f.test_start + step /\ f.test_end <= End
      /\ \A i \in Nat : first + i * step + step <= End => at(i) \in Folds
  BY FoldSteps, StudyAssumption
<1>2. \A i : at(i).test_start = first + i * step /\ at(i).train_end = first + i * step
             /\ at(i).test_end = first + i * step + step
  BY DEF FoldAt, Consecutive
<1> HIDE DEF first, step, at
<1>3. \A i \in Nat : i * step \in Nat
  BY <1>1
<1>4. ASSUME NEW i \in Nat, NEW j \in Nat, first + i * step <= x, x < first + j * step + step
      PROVE  i <= j
  <2> SUFFICES ASSUME j + 1 <= i PROVE FALSE
    OBVIOUS
  <2>1. (j + 1) * step <= i * step
    BY <1>1, TimesOrder
  <2>2. (j + 1) * step = j * step + step
    BY <1>1
  <2>. QED BY <1>1, <1>3, <1>4, <2>1, <2>2
<1>5. ASSUME NEW f \in Folds, NEW g \in Folds, f.test_start <= x, x < f.test_end,
             g.test_start <= x, x < g.test_end
      PROVE  f = g
  <2>1. PICK i \in Nat : f = at(i) /\ f.test_start = first + i * step /\ f.test_end = f.test_start + step
    BY <1>1
  <2>2. PICK j \in Nat : g = at(j) /\ g.test_start = first + j * step /\ g.test_end = g.test_start + step
    BY <1>1
  <2>3. i <= j /\ j <= i
    BY <1>4, <1>5, <2>1, <2>2
  <2>. QED BY <2>1, <2>2, <2>3
<1>6. FirstFold \in Folds /\ \A g \in Folds : FirstFold.train_end <= g.train_end
  BY FromFacts
<1>7. ends \in SUBSET Int /\ ends # {} /\ \A e \in ends : e <= End
  <2>1. \A f \in Folds : f.test_end \in Int /\ f.test_end <= End
    BY <1>1, <1>3
  <2>. QED BY <2>1, <1>6
<1>8. PICK top \in ends : top = Max(ends) /\ \A e \in ends : e <= top
  BY <1>1, <1>7, LargestInt
<1>9. PICK final \in Folds : final.test_end = top
  BY <1>8
<1>10. PICK j \in Nat : final = at(j) /\ top = first + j * step + step /\ top <= End
  BY <1>1, <1>9
<1>11. FirstFold.test_start = first
  <2>1. PICK i \in Nat : FirstFold = at(i) /\ FirstFold.test_start = first + i * step
    BY <1>1, <1>6
  <2>2. first + 0 * step + step <= End /\ 0 * step = 0
    BY <1>1, <1>3, <1>10
  <2>3. at(0) \in Folds
    BY <1>1, <2>2
  <2>4. first + i * step <= first + 0 * step
    BY <1>2, <1>6, <2>1, <2>3
  <2>. QED BY <1>1, <1>3, <2>1, <2>2, <2>4
<1>12. ASSUME first <= x, x < top PROVE \E f \in Folds : f.test_start <= x /\ x < f.test_end
  <2>1. PICK d \in Nat : d = x - first
    BY <1>1, <1>12
  <2>2. d \div step \in Nat /\ (d \div step) * step <= d /\ d < (d \div step) * step + step
    BY <1>1
  <2>3. PICK k \in Nat : k * step <= d /\ d < k * step + step
    BY <2>2
  <2>4. first + k * step <= x /\ x < first + k * step + step
    BY <1>1, <1>3, <2>1, <2>3
  <2>5. k <= j
    BY <1>4, <1>10, <1>12, <2>4
  <2>6. k * step <= j * step
    BY <1>1, <2>5, TimesOrder
  <2>7. first + k * step + step <= End
    BY <1>1, <1>3, <1>10, <2>6
  <2>. QED BY <1>1, <1>2, <2>4, <2>7
<1>13. ASSUME NEW f \in Folds, f.test_start <= x, x < f.test_end PROVE first <= x /\ x < top
  <2>1. PICK i \in Nat : f.test_start = first + i * step
    BY <1>1
  <2>2. f.test_end \in ends
    OBVIOUS
  <2>3. i * step \in Nat /\ f.test_end \in Int /\ top \in Int /\ f.test_end <= top
    BY <1>3, <1>7, <1>8, <2>2
  <2>4. first <= x
    BY <1>1, <1>13, <2>1, <2>3
  <2>. QED BY <1>13, <2>3, <2>4
<1>14. (\E f \in Folds : f.test_start <= x /\ x < f.test_end) <=> first <= x /\ x < top
  BY <1>12, <1>13
<1>. QED BY <1>5, <1>8, <1>11, <1>14

LEMMA ForecastKeepsOfFolds ==
  ASSUME ForecastsInv, ForecastsOfFolds, ForecastFold
  PROVE  ForecastsOfFolds'
<1>1. PICK next \in pending :
        LET forecast == PredictFold(Dataset(next[1]), next[2], Lookback)
        IN  IF forecast = None THEN Fails
            ELSE /\ forecasts' = [forecasts EXCEPT ![next[1]] =
                      [t \in DOMAIN forecast \cup DOMAIN forecasts[next[1]] |->
                         IF t \in DOMAIN forecast THEN forecast[t] ELSE forecasts[next[1]][t]]]
                 /\ pending' = pending \ {next}
                 /\ UNCHANGED <<stage, targets, rows>>
  BY DEF ForecastFold
<1> DEFINE leg == next[1]
           fold == next[2]
           forecast == PredictFold(Dataset(leg), fold, Lookback)
           old == forecasts[leg]
<1>2. /\ stage = "folds" /\ leg \in DOMAIN Legs /\ fold \in Folds /\ next = <<leg, fold>>
      /\ DOMAIN forecasts = DOMAIN Legs
  BY <1>1 DEF ForecastFold, ForecastsInv
<1>3. CASE forecast = None
  <2>1. stage' = "failed"
    BY <1>1, <1>3 DEF Fails
  <2>. QED BY <2>1 DEF ForecastsOfFolds
<1>4. CASE forecast # None
  <2> DEFINE merged == [t \in DOMAIN forecast \cup DOMAIN old |->
                          IF t \in DOMAIN forecast THEN forecast[t] ELSE old[t]]
  <2>1. /\ forecasts' = [forecasts EXCEPT ![leg] = merged]
        /\ pending' = pending \ {next}
        /\ UNCHANGED <<stage, targets, rows>>
    BY <1>1, <1>4
  <2>2. \A l, f : Tested(l, f)' = Tested(l, f)
    BY <2>1 DEF Tested, Dataset
  <2>3. DOMAIN forecast = Tested(leg, fold)
    BY <1>4 DEF PredictFold, Tested
  <2>4. DOMAIN merged = Tested(leg, fold) \cup DOMAIN old
    BY <2>3
  <2> HIDE DEF merged, leg, fold
  <2>5. \A l \in DOMAIN Legs :
          DOMAIN forecasts'[l] = IF l = leg THEN Tested(leg, fold) \cup DOMAIN forecasts[l]
                                 ELSE DOMAIN forecasts[l]
    BY <1>2, <2>1, <2>4
  <2>6. \A l, f : <<l, f>> \notin pending' <=> <<l, f>> \notin pending \/ (l = leg /\ f = fold)
    BY <1>2, <2>1
  <2>7. ASSUME NEW l \in DOMAIN Legs, NEW t
        PROVE  t \in DOMAIN forecasts'[l]
                 <=> \E f \in Folds : <<l, f>> \notin pending' /\ t \in Tested(l, f)
    <3>1. t \in DOMAIN forecasts[l] <=> \E f \in Folds : <<l, f>> \notin pending /\ t \in Tested(l, f)
      BY <1>2 DEF ForecastsOfFolds
    <3>. QED BY <1>2, <2>5, <2>6, <3>1
  <2>. QED BY <1>2, <2>1, <2>2, <2>7 DEF ForecastsOfFolds
<1>. QED BY <1>3, <1>4

LEMMA OthersKeepOfFolds ==
  ASSUME ForecastsInv, ForecastsOfFolds, [Next]_vars, ~ForecastFold
  PROVE  ForecastsOfFolds'
<1>1. CASE /\ UNCHANGED <<targets, rows, pending, forecasts>>
           /\ stage' = "failed" \/ stage' = stage \/ stage' \in {"targets", "features"}
              \/ (stage = "folds" /\ stage' = "scored" /\ pending = {})
  BY <1>1 DEF ForecastsOfFolds, Tested, Dataset
<1>2. CASE UNCHANGED vars
  BY <1>1, <1>2 DEF vars
<1>3. CASE \/ \E p \in NewPoints : StorePoint(p)
           \/ \E e \in NewEvents : StoreEvent(e)
  BY <1>1, <1>3 DEF StorePoint, StoreEvent
<1>4. CASE CoverageGate \/ CompareTargets \/ ScoreTicks
  BY <1>1, <1>4 DEF CoverageGate, CompareTargets, ScoreTicks, Fails
<1>5. CASE FetchTarget
  BY <1>5 DEF FetchTarget, ForecastsOfFolds
<1>6. CASE BuildFeatures
  <2>1. /\ stage = "features" /\ stage' = "folds" /\ pending' = (DOMAIN Legs) \X Folds
        /\ UNCHANGED forecasts
    BY <1>6 DEF BuildFeatures
  <2>2. \A l \in DOMAIN Legs : DOMAIN forecasts'[l] = {}
    BY <2>1 DEF ForecastsInv
  <2>3. \A l \in DOMAIN Legs, f \in Folds : <<l, f>> \in pending'
    BY <2>1
  <2>. QED BY <2>1, <2>2, <2>3 DEF ForecastsOfFolds
<1>. QED BY <1>2, <1>3, <1>4, <1>5, <1>6 DEF Next, StudyStep

\* The points whose losses are pooled are as many as the forecasts, if each tick is
\* tested by one fold.
LEMMA PooledOnce ==
  ASSUME NEW l, DOMAIN Dataset(l) \subseteq Int, NEW T, IsFiniteSet(T),
         \A t \in DOMAIN Dataset(l) : t \in T <=> \E f \in Folds : t \in Tested(l, f),
         \A t \in T : t \in DOMAIN Dataset(l),
         \A t \in T, f, g \in Folds : t \in Tested(l, f) /\ t \in Tested(l, g) => f = g
  PROVE  Cardinality(PooledPoints(l)) = Cardinality(T)
<1> DEFINE P == PooledPoints(l)
           b == [x \in P |-> x[2]]
<1>1. \A x \in P : /\ x = <<x[1], x[2]>> /\ x[1] \in Folds
                   /\ x[2] \in DOMAIN Dataset(l) /\ x[2] \in Tested(l, x[1])
  BY DEF PooledPoints, Tested
<1>2. \A f \in Folds : \A t \in DOMAIN Dataset(l) : t \in Tested(l, f) => <<f, t>> \in P
  BY DEF PooledPoints, Tested
<1> HIDE DEF P
<1>3. \A x \in P : x[2] \in T
  BY <1>1
<1>4. \A x, y \in P : x[2] = y[2] => x = y
  BY <1>1, <1>3
<1>5. b \in Injection(P, T)
  BY <1>3, <1>4 DEF Injection, IsInjective
<1>6. \A t \in T : \E x \in P : b[x] = t
  <2> SUFFICES ASSUME NEW t \in T PROVE \E x \in P : b[x] = t
    OBVIOUS
  <2>1. PICK f \in Folds : t \in Tested(l, f)
    OBVIOUS
  <2>2. <<f, t>> \in P /\ <<f, t>>[2] = t
    BY <1>2, <2>1
  <2>. QED BY <2>2
<1>7. b \in Surjection(P, T)
  BY <1>3, <1>6 DEF Surjection
<1> HIDE DEF b
<1>8. Cardinality(P) = Cardinality(T)
  BY <1>5, <1>7, FS_Injection
<1>. QED BY <1>8 DEF P

\* TicksAreScoredOnce: when the folds are consecutive, the study forecasts every joined hour
\* from the first test window to the last, and the pooled losses count each of them once.
THEOREM TicksScoredOnce == ASSUME Consecutive PROVE Spec => []TicksAreScoredOnce
<1>1. Init => ForecastsOfFolds
  BY DEF Init, ForecastsOfFolds
<1>2. ForecastsInv /\ ForecastsOfFolds /\ [Next]_vars => ForecastsOfFolds'
  BY ForecastKeepsOfFolds, OthersKeepOfFolds
<1>3. ForecastsInv /\ ForecastsOfFolds /\ FoldsInv => TicksAreScoredOnce
  <2> SUFFICES ASSUME ForecastsInv, ForecastsOfFolds, FoldsInv, stage = "scored",
                      NEW l \in DOMAIN Legs
               PROVE  /\ Cardinality(PooledPoints(l)) = Cardinality(DOMAIN forecasts[l])
                      /\ DOMAIN forecasts[l] =
                           Within(Dataset(l), FirstFold.test_start, Max({f.test_end : f \in Folds}))
    BY DEF TicksAreScoredOnce
  <2> DEFINE T == DOMAIN forecasts[l]
             top == Max({f.test_end : f \in Folds})
  <2>1. DOMAIN Dataset(l) \subseteq Int
    BY DEF Dataset, join_features_and_target, ForecastsInv
  <2>2. \A t : t \in T <=> \E f \in Folds : t \in Tested(l, f)
    BY DEF ForecastsOfFolds
  <2>3. \A t, f : t \in Tested(l, f)
                    <=> t \in DOMAIN Dataset(l) /\ f.test_start <= t /\ t < f.test_end
    BY DEF Tested, Within
  <2>4. Folds # {}
    BY DEF FoldsInv
  <2>5. ASSUME NEW t \in Int
        PROVE  /\ \A f, g \in Folds :
                    f.test_start <= t /\ t < f.test_end /\ g.test_start <= t /\ t < g.test_end => f = g
               /\ (\E f \in Folds : f.test_start <= t /\ t < f.test_end)
                    <=> FirstFold.test_start <= t /\ t < top
    BY <2>4, OneFoldPerTick
  <2> HIDE DEF T, top
  <2>6. T = Within(Dataset(l), FirstFold.test_start, top)
    BY <2>1, <2>2, <2>3, <2>5 DEF Within
  <2>7. IsFiniteSet(T)
    <3>1. \A f \in Folds : f.test_start \in Int /\ f.test_end \in Int
                           /\ Start <= f.test_start /\ f.test_end <= End
      <4>1. \A i \in Nat : i * Config.step \in Nat
        BY FoldSteps
      <4>2. Config.min_train_span \in Nat /\ Start \in Int /\ End \in Int
        BY StudyAssumption
      <4>3. ASSUME NEW f \in Folds
            PROVE  f.test_start \in Int /\ f.test_end \in Int
                   /\ Start <= f.test_start /\ f.test_end <= End
        <5>1. PICK i \in Nat : /\ f.test_start = Start + Config.min_train_span + i * Config.step
                               /\ f.test_end = f.test_start + Config.step /\ f.test_end <= End
          BY FoldSteps
        <5>2. PICK d \in Nat : d = i * Config.step
          BY <4>1
        <5>. QED BY <4>2, <5>1, <5>2, FoldSteps
      <4>. QED BY <4>3
    <3>2. T \subseteq Start..End
      BY <2>1, <2>2, <2>3, <3>1, StudyAssumption
    <3>. QED BY <3>2, FS_Interval, FS_Subset, StudyAssumption
  <2>8. \A t \in T, f, g \in Folds : t \in Tested(l, f) /\ t \in Tested(l, g) => f = g
    BY <2>1, <2>3, <2>5
  <2>9. \A t \in T : t \in DOMAIN Dataset(l)
    BY <2>2, <2>3
  <2>10. Cardinality(PooledPoints(l)) = Cardinality(T)
    BY <2>1, <2>2, <2>7, <2>8, <2>9, PooledOnce
  <2>. QED BY <2>6, <2>10 DEF T, top
<1>4. Spec => []ForecastsInv
  <2>1. ForecastsInv /\ [Next]_vars => ForecastsInv'
    BY BuildKeepsForecastsInv, ForecastKeepsForecastsInv, OthersKeepForecastsInv
  <2>. QED BY <2>1, ForecastsInvInit, PTL DEF Spec
<1>. QED BY <1>1, <1>2, <1>3, <1>4, FoldsExist, PTL DEF Spec
=============================================================================
