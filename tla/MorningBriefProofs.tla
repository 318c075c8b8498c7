-------------------------- MODULE MorningBriefProofs --------------------------
(***************************************************************************)
(* Proofs about MorningBrief, for any runners, horizons, refresh intervals *)
(* and failures: its type invariant, that the delivery flags tell the      *)
(* truth, that what a brief quotes exists, that a run that is alone does   *)
(* not regenerate a valid forecast, that forecasts move forward from day   *)
(* to day, and that a run that ends has tried both channels.               *)
(***************************************************************************)
EXTENDS MorningBrief, SequenceTheorems, TLAPS

\* What the assumptions say of the constants.
LEMMA Constants ==
  /\ Horizons \in Seq(HorizonSet) /\ Len(Horizons) \in Nat /\ Len(Horizons) > 0
  /\ DOMAIN Horizons = 1..Len(Horizons)
  /\ RefreshInterval \in [HorizonSet -> Nat]
  /\ Backtests \in Nat \ {0}
  /\ MaxDay \in Nat \ {0}
  /\ InitialCache \in Seq(ForecastRows) /\ Len(InitialCache) \in Nat /\ Len(InitialCache) <= 1
<1>1. Len(Horizons) \in Nat /\ DOMAIN Horizons = 1..Len(Horizons)
  BY BriefAssumption
<1>2. InitialCache \in Seq(ForecastRows) /\ Len(InitialCache) \in Nat /\ Len(InitialCache) <= 1
  BY BriefAssumption
<1>. QED BY <1>1, <1>2, BriefAssumption

\* The loop over the horizons is at one of them, and what a run has stored of the
\* backtests fits where it is.
Placed(s) ==
  /\ s.pc \in {"forecasting", "synthesizing"} =>
       s.step \in 1..Len(Horizons) /\ s.estimates = 0
  /\ s.pc = "estimating" => s.estimates < Backtests
  /\ s.pc \notin {"forecasting", "synthesizing", "estimating"} => s.estimates \in {0, Backtests}
  /\ s.pc = "idle" => s.saved = {}

BriefType == TypeOK /\ \A r \in Runners : Placed(run[r])

LEMMA IdleType == Idle \in RunStates /\ Placed(Idle)
BY Constants DEF Idle, RunStates, Placed, PCs, NoForecasts, Days

\* One runner's state changes, to a well-formed one.
LEMMA RunUpdate ==
  ASSUME BriefType, NEW r \in Runners, NEW s \in RunStates, Placed(s), Becomes(r, s)
  PROVE  /\ run' \in [Runners -> RunStates]
         /\ run'[r] = s
         /\ \A q \in Runners : q # r => run'[q] = run[q]
         /\ \A q \in Runners : Placed(run'[q])
<1>1. /\ run' \in [Runners -> RunStates] /\ run'[r] = s
      /\ \A q \in Runners : q # r => run'[q] = run[q]
  BY DEF Becomes, BriefType, TypeOK
<1>. QED BY <1>1 DEF BriefType

\* The horizon a run is at.
LEMMA CurrentHorizonType ==
  ASSUME BriefType, NEW r \in Runners, run[r].pc \in {"forecasting", "synthesizing"}
  PROVE  CurrentHorizon(r) \in HorizonSet
BY Constants DEF BriefType, Placed, CurrentHorizon, HorizonSet

\* The state of a run that has settled a horizon.
Settled(r, id) ==
  [run[r] EXCEPT
    !.pc = IF run[r].step < Len(Horizons) THEN "forecasting" ELSE "estimating",
    !.step = run[r].step + 1, !.found = 0, !.asked = 1,
    !.forecasts = [run[r].forecasts EXCEPT ![CurrentHorizon(r)] = id]]

\* After a horizon the loop is at the next one, or done.
LEMMA AfterHorizon ==
  ASSUME NEW t, NEW n \in 1..Len(Horizons), t.step = n + 1, t.estimates = 0,
         t.pc = IF n < Len(Horizons) THEN "forecasting" ELSE "estimating"
  PROVE  Placed(t)
<1>1. CASE n < Len(Horizons)
  BY <1>1, Constants DEF Placed
<1>2. CASE ~(n < Len(Horizons))
  BY <1>2, Constants DEF Placed
<1>. QED BY <1>1, <1>2

\* Settling a horizon keeps the run well-formed.
LEMMA SettledType ==
  ASSUME BriefType, NEW r \in Runners, run[r].pc \in {"forecasting", "synthesizing"},
         NEW id \in Nat
  PROVE  /\ Settled(r, id) \in RunStates
         /\ Placed(Settled(r, id))
         /\ Settle(r, id) = Becomes(r, Settled(r, id))
<1>1. run[r] \in RunStates /\ run[r].step \in 1..Len(Horizons) /\ run[r].estimates = 0
  BY DEF BriefType, TypeOK, Placed
<1>2. [run[r].forecasts EXCEPT ![CurrentHorizon(r)] = id] \in [HorizonSet -> Nat]
  BY <1>1 DEF RunStates
<1>3. 1 \in Days /\ "forecasting" \in PCs /\ "estimating" \in PCs
  BY Constants DEF Days, PCs
<1>4. run[r].step + 1 \in 0..(Len(Horizons) + 1)
  BY <1>1, Constants
<1>5. Settled(r, id) \in RunStates
  BY <1>1, <1>2, <1>3, <1>4 DEF Settled, RunStates
<1>6. Placed(Settled(r, id))
  <2>1. /\ Settled(r, id).pc = IF run[r].step < Len(Horizons) THEN "forecasting" ELSE "estimating"
        /\ Settled(r, id).step = run[r].step + 1
        /\ Settled(r, id).estimates = 0
    BY <1>1 DEF Settled, RunStates
  <2>. QED BY <1>1, <2>1, AfterHorizon
<1>. QED BY <1>5, <1>6 DEF Settle, Settled

-----------------------------------------------------------------------------
(* The forecast cache.                                                     *)

\* A horizon that has forecasts has a newest one.
LatestExist ==
  \A h \in HorizonSet : ForecastIds(h) # {} =>
    \E i \in ForecastIds(h) : \A j \in ForecastIds(h) : i >= j

\* Ids are row numbers.
LEMMA IdsAreNumbers ==
  ASSUME TypeOK, NEW h, NEW i \in ForecastIds(h)
  PROVE  i \in Nat /\ i \in 1..Len(cache) /\ cache[i] \in ForecastRows /\ cache[i].horizon = h
BY DEF TypeOK, ForecastIds

\* fetch_latest_forecast returns 0 or the newest forecast of the horizon.
LEMMA LatestForecast ==
  ASSUME TypeOK, LatestExist, NEW h \in HorizonSet
  PROVE  /\ fetch_latest_forecast(h) \in Nat
         /\ fetch_latest_forecast(h) # 0 => fetch_latest_forecast(h) \in ForecastIds(h)
         /\ \A j \in ForecastIds(h) : fetch_latest_forecast(h) >= j
<1>1. CASE ForecastIds(h) = {}
  BY <1>1 DEF fetch_latest_forecast
<1>2. CASE ForecastIds(h) # {}
  <2>1. \E i \in ForecastIds(h) : \A j \in ForecastIds(h) : i >= j
    BY <1>2 DEF LatestExist
  <2>2. /\ fetch_latest_forecast(h) \in ForecastIds(h)
        /\ \A j \in ForecastIds(h) : fetch_latest_forecast(h) >= j
    BY <1>2, <2>1 DEF fetch_latest_forecast
  <2>. QED BY <2>2, IdsAreNumbers
<1>. QED BY <1>1, <1>2

\* Saving a forecast adds its id to those of its horizon and changes no other row.
LEMMA CacheAfterSave ==
  ASSUME TypeOK, NEW row \in ForecastRows, cache' = Append(cache, row), NEW h
  PROVE  /\ Len(cache') = Len(cache) + 1 /\ Len(cache) \in Nat
         /\ \A i \in 1..Len(cache) : cache'[i] = cache[i]
         /\ cache'[Len(cache) + 1] = row
         /\ cache' \in Seq(ForecastRows)
         /\ ForecastIds(h)' = IF row.horizon = h THEN ForecastIds(h) \cup {Len(cache) + 1}
                              ELSE ForecastIds(h)
<1>1. cache \in Seq(ForecastRows) /\ Len(cache) \in Nat
  BY DEF TypeOK
<1>2. /\ Len(cache') = Len(cache) + 1
      /\ \A i \in 1..Len(cache) : cache'[i] = cache[i]
      /\ cache'[Len(cache) + 1] = row
      /\ cache' \in Seq(ForecastRows)
  BY <1>1
<1>3. DOMAIN cache = 1..Len(cache) /\ DOMAIN cache' = 1..(Len(cache) + 1)
  BY <1>1, <1>2
<1>. QED BY <1>1, <1>2, <1>3 DEF ForecastIds

\* A horizon keeps having a newest forecast.
LEMMA LatestStillExist ==
  ASSUME TypeOK, LatestExist, NEW row \in ForecastRows, cache' = Append(cache, row)
  PROVE  LatestExist'
<1> SUFFICES ASSUME NEW h \in HorizonSet, ForecastIds(h)' # {}
             PROVE  \E i \in ForecastIds(h)' : \A j \in ForecastIds(h)' : i >= j
  BY DEF LatestExist
<1>1. CASE row.horizon = h
  <2>1. \A j \in ForecastIds(h)' : Len(cache) + 1 >= j
    BY <1>1, CacheAfterSave, IdsAreNumbers
  <2>. QED BY <1>1, <2>1, CacheAfterSave
<1>2. CASE row.horizon # h
  BY <1>2, CacheAfterSave DEF LatestExist
<1>. QED BY <1>1, <1>2

-----------------------------------------------------------------------------
(* The type invariant.                                                     *)

BriefTypeInv == BriefType /\ LatestExist

\* The system starts with well-formed tables and idle runners.
LEMMA InitType == Init => BriefTypeInv
<1> SUFFICES ASSUME Init PROVE BriefTypeInv
  OBVIOUS
<1>1. TypeOK
  BY IdleType, Constants DEF Init, TypeOK, Days
<1>2. \A r \in Runners : Placed(run[r])
  BY IdleType DEF Init
<1>3. LatestExist
  <2>1. DOMAIN cache \subseteq {1}
    BY Constants DEF Init
  <2>. QED BY <2>1 DEF LatestExist, ForecastIds
<1>. QED BY <1>1, <1>2, <1>3 DEF BriefTypeInv, BriefType

\* A step that leaves the tables and the channels alone.
LEMMA RunnerStepType ==
  ASSUME BriefTypeInv, NEW r \in Runners, NEW s \in RunStates, Placed(s), Becomes(r, s),
         UNCHANGED <<today, tables, outside, runs, overlapped>>,
         died' \subseteq Nat, failures' \in Nat
  PROVE  BriefTypeInv'
<1>1. run' \in [Runners -> RunStates] /\ \A q \in Runners : Placed(run'[q])
  BY RunUpdate DEF BriefTypeInv
<1>2. LatestExist'
  BY DEF BriefTypeInv, LatestExist, ForecastIds, tables
<1>. QED BY <1>1, <1>2 DEF BriefTypeInv, BriefType, TypeOK, tables, outside

\* A run begins.
LEMMA StartType ==
  ASSUME BriefTypeInv, NEW r \in Runners, StartRun(r) PROVE BriefTypeInv'
<1> DEFINE s == [Idle EXCEPT !.pc = "forecasting", !.id = runs + 1, !.date = today, !.step = 1]
<1>1. TypeOK /\ BriefType /\ runs \in Nat /\ today \in Days /\ Idle \in RunStates
  BY IdleType DEF BriefTypeInv, BriefType, TypeOK
<1>2. s \in RunStates
  <2>1. "forecasting" \in PCs /\ 1 \in 0..(Len(Horizons) + 1) /\ runs + 1 \in Nat
    BY <1>1, Constants DEF PCs
  <2>. QED BY <1>1, <2>1 DEF RunStates
<1>3. Placed(s)
  <2>1. s.pc = "forecasting" /\ s.step = 1 /\ s.estimates = 0
    BY DEF Idle
  <2>. QED BY <2>1, Constants DEF Placed
<1>4. Becomes(r, s)
  BY DEF StartRun
<1>. HIDE DEF s
<1>5. run' \in [Runners -> RunStates] /\ \A q \in Runners : Placed(run'[q])
  BY <1>1, <1>2, <1>3, <1>4, RunUpdate
<1>6. overlapped' \subseteq Nat /\ runs' \in Nat
  <2> DEFINE ids == {run[q].id : q \in {p \in Runners : Busy(p)}}
  <2>1. ids \subseteq Nat
    BY <1>1 DEF TypeOK, RunStates
  <2>. HIDE DEF ids
  <2>2. overlapped' = overlapped \/ overlapped' = overlapped \cup ids \cup {runs + 1}
    BY DEF StartRun, ids
  <2>3. runs + 1 \in Nat /\ overlapped \subseteq Nat
    BY <1>1 DEF TypeOK
  <2>4. runs' = runs + 1
    BY DEF StartRun
  <2>. QED BY <2>1, <2>2, <2>3, <2>4
<1>7. UNCHANGED <<today, cache, simulations, briefs, attempted, delivered, died, failures>>
  BY DEF StartRun, tables, outside
<1>. QED BY <1>1, <1>5, <1>6, <1>7 DEF BriefTypeInv, BriefType, TypeOK, LatestExist, ForecastIds

\* A horizon is looked up, settled from the cache or without a forecast.
LEMMA HorizonType ==
  ASSUME BriefTypeInv, NEW r \in Runners, ReadCache(r) \/ SynthesisFails(r) \/ HorizonFails(r)
  PROVE  BriefTypeInv'
<1>1. /\ TypeOK /\ BriefType /\ LatestExist /\ run[r] \in RunStates
      /\ run[r].pc \in {"forecasting", "synthesizing"}
  BY DEF BriefTypeInv, BriefType, TypeOK, ReadCache, SynthesisFails, HorizonFails
<1>2. CurrentHorizon(r) \in HorizonSet
  BY <1>1, CurrentHorizonType
<1>3. UNCHANGED <<today, tables, outside, runs, died, overlapped>> /\ failures' \in Nat
  BY <1>1 DEF ReadCache, SynthesisFails, HorizonFails, Fails, TypeOK, counted, ghosts
<1>4. \E s \in RunStates : Placed(s) /\ Becomes(r, s)
  <2>1. ASSUME NEW id \in Nat, Settle(r, id) PROVE \E s \in RunStates : Placed(s) /\ Becomes(r, s)
    BY <1>1, <2>1, SettledType
  <2>2. CASE ReadCache(r)
    <3> DEFINE found == fetch_latest_forecast(CurrentHorizon(r))
    <3> DEFINE s == [run[r] EXCEPT !.pc = "synthesizing", !.found = found, !.asked = today]
    <3>1. found \in Nat
      BY <1>1, <1>2, LatestForecast
    <3>2. CASE Settle(r, found)
      BY <2>1, <3>1, <3>2
    <3>3. CASE Becomes(r, s) /\ run[r].pc = "forecasting"
      <4>1. today \in Days /\ "synthesizing" \in PCs
        BY <1>1 DEF TypeOK, PCs
      <4>2. s \in RunStates
        BY <1>1, <3>1, <4>1 DEF RunStates
      <4>3. s.pc = "synthesizing" /\ s.step = run[r].step /\ s.estimates = run[r].estimates
        BY <1>1 DEF RunStates
      <4>4. Placed(s)
        BY <1>1, <4>3, <3>3 DEF BriefType, Placed
      <4>. QED BY <3>3, <4>2, <4>4
    <3>. HIDE DEF s
    <3>4. Settle(r, found) \/ (Becomes(r, s) /\ run[r].pc = "forecasting")
      BY <2>2 DEF ReadCache, s
    <3>. QED BY <3>2, <3>3, <3>4
  <2>3. CASE SynthesisFails(r)
    BY <1>1, <2>1, <2>3 DEF SynthesisFails, RunStates
  <2>4. CASE HorizonFails(r)
    BY <2>1, <2>4 DEF HorizonFails
  <2>. QED BY <2>2, <2>3, <2>4
<1>5. died' \subseteq Nat
  BY <1>1, <1>3 DEF TypeOK
<1>. QED BY <1>3, <1>4, <1>5, RunnerStepType

\* The row SaveForecast adds.
NewForecast(r) ==
  [horizon |-> CurrentHorizon(r), generated |-> today,
   validUntil |-> run[r].asked + RefreshInterval[CurrentHorizon(r)], by |-> run[r].id]

LEMMA NewForecastType ==
  ASSUME BriefTypeInv, NEW r \in Runners, SaveForecast(r)
  PROVE  /\ NewForecast(r) \in ForecastRows
         /\ cache' = Append(cache, NewForecast(r))
         /\ NewForecast(r).horizon = CurrentHorizon(r)
<1>1. CurrentHorizon(r) \in HorizonSet
  BY CurrentHorizonType DEF SaveForecast, BriefTypeInv
<1>2. run[r].asked \in Nat /\ run[r].id \in Nat /\ today \in Days
  BY DEF BriefTypeInv, BriefType, TypeOK, RunStates, Days
<1>3. run[r].asked + RefreshInterval[CurrentHorizon(r)] \in Nat
  BY <1>1, <1>2, Constants
<1>. QED BY <1>1, <1>2, <1>3 DEF SaveForecast, NewForecast, ForecastRows

\* A fresh forecast is stored.
LEMMA SaveForecastType ==
  ASSUME BriefTypeInv, NEW r \in Runners, SaveForecast(r) PROVE BriefTypeInv'
<1>1. /\ TypeOK /\ BriefType /\ LatestExist
      /\ run[r].pc \in {"forecasting", "synthesizing"}
  BY DEF BriefTypeInv, BriefType, SaveForecast
<1>2. cache' \in Seq(ForecastRows) /\ LatestExist' /\ Len(cache) + 1 \in Nat
  BY <1>1, NewForecastType, CacheAfterSave, LatestStillExist
<1>3. run' \in [Runners -> RunStates] /\ \A q \in Runners : Placed(run'[q])
  <2>1. Settle(r, Len(cache) + 1)
    BY DEF SaveForecast
  <2>. QED BY <1>1, <1>2, <2>1, SettledType, RunUpdate
<1>4. UNCHANGED <<today, simulations, briefs, outside, counted>>
  BY DEF SaveForecast
<1>. QED BY <1>1, <1>2, <1>3, <1>4 DEF BriefTypeInv, BriefType, TypeOK, outside, counted

\* Where a run is after a backtest has been stored.
LEMMA BacktestRun ==
  ASSUME BriefTypeInv, NEW r \in Runners, SaveBacktest(r)
  PROVE  /\ run' \in [Runners -> RunStates] /\ \A q \in Runners : Placed(run'[q])
         /\ run[r].estimates + 1 \in Nat
         /\ run' = [run EXCEPT ![r] = run'[r]]
         /\ run'[r].estimates = run[r].estimates + 1
         /\ run'[r].forecasts = run[r].forecasts
         /\ run'[r].id = run[r].id
         /\ run'[r].saved = run[r].saved /\ run'[r].date = run[r].date
         /\ run'[r].sent = run[r].sent
         /\ run'[r].pc \in {"estimating", "saving"}
<1> DEFINE s == [run[r] EXCEPT
       !.pc = IF run[r].estimates + 1 < Backtests THEN "estimating" ELSE "saving",
       !.estimates = run[r].estimates + 1]
<1>1. /\ BriefType /\ run[r] \in RunStates /\ run \in [Runners -> RunStates]
      /\ run[r].estimates \in Nat /\ run[r].estimates < Backtests
  <2>1. BriefType /\ run[r] \in RunStates /\ run \in [Runners -> RunStates]
    BY DEF BriefTypeInv, BriefType, TypeOK
  <2>2. run[r].estimates \in Nat
    BY <2>1, Constants DEF RunStates
  <2>3. Placed(run[r]) /\ run[r].pc = "estimating"
    BY DEF BriefTypeInv, BriefType, SaveBacktest
  <2>. QED BY <2>1, <2>2, <2>3 DEF Placed
<1>2. run[r].estimates + 1 \in 0..Backtests
  BY <1>1, Constants
<1>3. /\ s.estimates = run[r].estimates + 1
      /\ s.pc = IF run[r].estimates + 1 < Backtests THEN "estimating" ELSE "saving"
      /\ s.forecasts = run[r].forecasts /\ s.id = run[r].id /\ s.saved = run[r].saved
      /\ s.date = run[r].date /\ s.sent = run[r].sent
  BY <1>1 DEF RunStates
<1>4. s \in RunStates
  <2>1. "estimating" \in PCs /\ "saving" \in PCs
    BY DEF PCs
  <2>. QED BY <1>1, <1>2, <2>1 DEF RunStates
<1>5. Becomes(r, s)
  BY DEF SaveBacktest
<1>. HIDE DEF s
<1>6. Placed(s)
  <2>1. CASE run[r].estimates + 1 < Backtests
    BY <1>3, <2>1 DEF Placed
  <2>2. CASE ~(run[r].estimates + 1 < Backtests)
    <3>1. run[r].estimates + 1 = Backtests
      BY <1>1, <2>2, Constants
    <3>. QED BY <1>3, <2>2, <3>1 DEF Placed
  <2>. QED BY <2>1, <2>2
<1>7. run'[r] = s /\ run' = [run EXCEPT ![r] = run'[r]]
  BY <1>1, <1>5 DEF Becomes
<1>. QED BY <1>1, <1>2, <1>3, <1>4, <1>5, <1>6, <1>7, RunUpdate

LEMMA SaveBacktestType ==
  ASSUME BriefTypeInv, NEW r \in Runners, SaveBacktest(r) PROVE BriefTypeInv'
<1>1. TypeOK /\ run[r].id \in Nat
  BY DEF BriefTypeInv, BriefType, TypeOK, RunStates
<1>2. simulations' \subseteq Nat \X Nat
  <2>1. run[r].estimates + 1 \in Nat
    BY BacktestRun
  <2>. QED BY <1>1, <2>1 DEF SaveBacktest, TypeOK
<1>3. UNCHANGED <<today, cache, briefs, outside, counted>>
  BY DEF SaveBacktest
<1>4. run' \in [Runners -> RunStates] /\ \A q \in Runners : Placed(run'[q])
  BY BacktestRun
<1>. QED BY <1>1, <1>2, <1>3, <1>4
         DEF BriefTypeInv, BriefType, TypeOK, LatestExist, ForecastIds, outside, counted

\* The row SaveBrief writes.
NewBrief(r) ==
  [date |-> run[r].date, by |-> run[r].id, forecasts |-> run[r].forecasts,
   estimates |-> run[r].estimates, flags |-> {}]

\* The state of a run that has reached the deliveries, with or without a row.
AtSlack(r, rows) == [run[r] EXCEPT !.pc = "slack", !.saved = rows]

LEMMA SaveBriefType ==
  ASSUME BriefTypeInv, NEW r \in Runners, SaveBrief(r) PROVE BriefTypeInv'
<1>1. TypeOK /\ BriefType /\ run[r] \in RunStates /\ Placed(run[r]) /\ run[r].pc = "saving"
  BY DEF BriefTypeInv, BriefType, TypeOK, SaveBrief
<1>2. NewBrief(r) \in BriefRows
  BY <1>1 DEF NewBrief, BriefRows, RunStates
<1>3. briefs' \subseteq BriefRows
  BY <1>1, <1>2 DEF SaveBrief, NewBrief, OtherBriefs, TypeOK
<1>4. AtSlack(r, {run[r].date}) \in RunStates /\ Placed(AtSlack(r, {run[r].date}))
  <2>1. "slack" \in PCs /\ {run[r].date} \in SUBSET Days
    BY <1>1 DEF PCs, RunStates
  <2>2. AtSlack(r, {run[r].date}) \in RunStates
    BY <1>1, <2>1 DEF AtSlack, RunStates
  <2>3. AtSlack(r, {run[r].date}).pc = "slack"
        /\ AtSlack(r, {run[r].date}).estimates = run[r].estimates
    BY <1>1 DEF AtSlack, RunStates
  <2>. QED BY <1>1, <2>2, <2>3 DEF Placed
<1>5. Becomes(r, AtSlack(r, {run[r].date}))
  BY DEF SaveBrief, AtSlack
<1>6. run' \in [Runners -> RunStates] /\ \A q \in Runners : Placed(run'[q])
  BY <1>1, <1>4, <1>5, RunUpdate
<1>7. UNCHANGED <<today, cache, simulations, outside, counted>>
  BY DEF SaveBrief
<1>. QED BY <1>1, <1>3, <1>6, <1>7
         DEF BriefTypeInv, BriefType, TypeOK, LatestExist, ForecastIds, outside, counted

\* Steps of a run that only move it on: a backtest or the save that fails.
LEMMA StageFailsType ==
  ASSUME BriefTypeInv, NEW r \in Runners, BacktestFails(r) \/ SaveBriefFails(r)
  PROVE  BriefTypeInv'
<1>1. TypeOK /\ BriefType /\ run[r] \in RunStates /\ Placed(run[r])
  BY DEF BriefTypeInv, BriefType, TypeOK
<1>2. UNCHANGED <<today, tables, outside, ghosts>> /\ failures' \in Nat
  BY <1>1 DEF BacktestFails, SaveBriefFails, Fails, TypeOK
<1>3. \E s \in RunStates : Placed(s) /\ Becomes(r, s)
  <2>1. CASE BacktestFails(r)
    <3> DEFINE s == [run[r] EXCEPT !.pc = "saving", !.estimates = 0]
    <3>1. "saving" \in PCs /\ 0 \in 0..Backtests
      BY Constants DEF PCs
    <3>2. s \in RunStates
      BY <1>1, <3>1 DEF RunStates
    <3>3. s.pc = "saving" /\ s.estimates = 0
      BY <1>1 DEF RunStates
    <3>4. Becomes(r, s)
      BY <2>1 DEF BacktestFails
    <3>. HIDE DEF s
    <3>5. Placed(s)
      BY <3>3 DEF Placed
    <3>. QED BY <3>2, <3>4, <3>5
  <2>2. CASE SaveBriefFails(r)
    <3> DEFINE s == [run[r] EXCEPT !.pc = "slack"]
    <3>1. "slack" \in PCs
      BY DEF PCs
    <3>2. s \in RunStates
      BY <1>1, <3>1 DEF RunStates
    <3>3. s.pc = "slack" /\ s.estimates = run[r].estimates /\ run[r].pc = "saving"
      BY <1>1, <2>2 DEF RunStates, SaveBriefFails
    <3>4. Becomes(r, s)
      BY <2>2 DEF SaveBriefFails
    <3>. HIDE DEF s
    <3>5. Placed(s)
      BY <1>1, <3>3 DEF Placed
    <3>. QED BY <3>2, <3>4, <3>5
  <2>. QED BY <2>1, <2>2
<1>4. UNCHANGED <<today, tables, outside, runs, overlapped>> /\ died' \subseteq Nat
  BY <1>1, <1>2 DEF ghosts, TypeOK
<1>. QED BY <1>2, <1>3, <1>4, RunnerStepType

\* A channel has been tried.
LEMMA DeliveryType ==
  ASSUME BriefTypeInv, NEW r \in Runners, Deliver(r) \/ DeliverFails(r)
  PROVE  BriefTypeInv'
<1>1. /\ TypeOK /\ BriefType /\ run[r] \in RunStates /\ Placed(run[r])
      /\ run[r].pc \in Channels /\ run[r].id \in Nat
  BY DEF BriefTypeInv, BriefType, TypeOK, Deliver, DeliverFails, RunStates
<1>2. /\ attempted' = attempted \cup {<<run[r].id, run[r].pc>>}
      /\ delivered' = delivered \/ delivered' = delivered \cup {<<run[r].id, run[r].pc>>}
  BY DEF Deliver, DeliverFails
<1>3. attempted' \subseteq Nat \X Channels /\ delivered' \subseteq attempted'
  <2>1. <<run[r].id, run[r].pc>> \in Nat \X Channels
    BY <1>1
  <2>. QED BY <1>1, <1>2, <2>1 DEF TypeOK
<1>4. \E s \in RunStates : Placed(s) /\ Becomes(r, s)
  <2>1. ASSUME NEW channels \in SUBSET Channels,
               Becomes(r, [run[r] EXCEPT !.pc = AfterChannel(run[r].pc), !.sent = channels])
        PROVE  \E s \in RunStates : Placed(s) /\ Becomes(r, s)
    <3> DEFINE s == [run[r] EXCEPT !.pc = AfterChannel(run[r].pc), !.sent = channels]
    <3>1. AfterChannel(run[r].pc) \in {"email", "marking"} /\ {"email", "marking"} \subseteq PCs
      BY DEF AfterChannel, PCs
    <3>2. s \in RunStates
      BY <1>1, <3>1 DEF RunStates
    <3>3. s.pc = AfterChannel(run[r].pc) /\ s.estimates = run[r].estimates
      BY <1>1 DEF RunStates
    <3>4. Becomes(r, s)
      BY <2>1
    <3>. HIDE DEF s
    <3>5. Placed(s)
      BY <1>1, <3>1, <3>3 DEF Placed, Channels
    <3>. QED BY <3>2, <3>4, <3>5
  <2>2. run[r].sent \in SUBSET Channels /\ run[r].sent \cup {run[r].pc} \in SUBSET Channels
    BY <1>1 DEF RunStates
  <2>3. CASE Deliver(r)
    BY <2>1, <2>2, <2>3 DEF Deliver
  <2>4. CASE DeliverFails(r)
    <3>1. [run[r] EXCEPT !.pc = AfterChannel(run[r].pc)]
          = [run[r] EXCEPT !.pc = AfterChannel(run[r].pc), !.sent = run[r].sent]
      BY <1>1 DEF RunStates
    <3>. QED BY <2>1, <2>2, <2>4, <3>1 DEF DeliverFails
  <2>. QED BY <2>3, <2>4
<1>5. run' \in [Runners -> RunStates] /\ \A q \in Runners : Placed(run'[q])
  BY <1>1, <1>4, RunUpdate
<1>6. UNCHANGED <<today, tables, ghosts>> /\ failures' \in Nat
  BY <1>1 DEF Deliver, DeliverFails, counted, ghosts, Fails, TypeOK
<1>. QED BY <1>1, <1>3, <1>5, <1>6
         DEF BriefTypeInv, BriefType, TypeOK, LatestExist, ForecastIds, tables, ghosts

\* A run ends, its flags written or not, or its process dies.
LEMMA EndType ==
  ASSUME BriefTypeInv, NEW r \in Runners, MarkDelivery(r) \/ MarkDeliveryFails(r) \/ Crash(r)
  PROVE  BriefTypeInv'
<1>1. TypeOK /\ BriefType /\ run[r] \in RunStates
  BY DEF BriefTypeInv, BriefType, TypeOK
<1>2. run' \in [Runners -> RunStates] /\ \A q \in Runners : Placed(run'[q])
  BY <1>1, IdleType, RunUpdate DEF MarkDelivery, MarkDeliveryFails, Crash
<1>3. briefs' \subseteq BriefRows
  <2>1. CASE MarkDelivery(r)
    <3>1. \A b \in BriefRows : [b EXCEPT !.flags = run[r].sent] \in BriefRows
      BY <1>1 DEF BriefRows, RunStates
    <3>. QED BY <1>1, <2>1, <3>1 DEF MarkDelivery, TypeOK
  <2>2. CASE MarkDeliveryFails(r) \/ Crash(r)
    BY <1>1, <2>2 DEF MarkDeliveryFails, Crash, tables, TypeOK
  <2>. QED BY <2>1, <2>2
<1>4. /\ UNCHANGED <<today, cache, simulations, outside, runs, overlapped>>
      /\ failures' \in Nat /\ died' \subseteq Nat
  <2>1. run[r].id \in Nat
    BY <1>1 DEF RunStates
  <2>. QED BY <1>1, <2>1 DEF MarkDelivery, MarkDeliveryFails, Crash, counted, ghosts, tables, Fails, TypeOK
<1>. QED BY <1>1, <1>2, <1>3, <1>4
         DEF BriefTypeInv, BriefType, TypeOK, LatestExist, ForecastIds, outside

\* A step of the clock or none.
LEMMA ClockType == ASSUME BriefTypeInv, NextDay \/ UNCHANGED vars PROVE BriefTypeInv'
<1>1. CASE NextDay
  <2>1. today' \in Days
    BY <1>1, Constants DEF NextDay, BriefTypeInv, BriefType, TypeOK, Days
  <2>. QED BY <1>1, <2>1 DEF NextDay, BriefTypeInv, BriefType, TypeOK, LatestExist, ForecastIds,
                             tables, outside, counted
<1>2. CASE UNCHANGED vars
  BY <1>2 DEF vars, BriefTypeInv, BriefType, TypeOK, LatestExist, ForecastIds, tables, outside,
              counted
<1>. QED BY <1>1, <1>2

\* Every step keeps the type invariant.
LEMMA StepType == ASSUME BriefTypeInv, [Next]_vars PROVE BriefTypeInv'
<1>1. ASSUME NEW r \in Runners, Progress(r) PROVE BriefTypeInv'
  BY <1>1, HorizonType, SaveForecastType, SaveBacktestType, SaveBriefType, StageFailsType,
     DeliveryType, EndType DEF Progress
<1>. QED BY <1>1, StartType, EndType, ClockType DEF Next, GateClosed

\* The tables and the runners keep their types, and a horizon always has a newest
\* forecast (forecast_cache and morning_briefs, run_morning_brief).
THEOREM BriefTypeCorrect == Spec => []TypeOK
<1>1. Init => BriefTypeInv
  BY InitType
<1>2. BriefTypeInv /\ [Next]_vars => BriefTypeInv'
  BY StepType
<1>3. BriefTypeInv => TypeOK
  BY DEF BriefTypeInv, BriefType
<1>. QED BY <1>1, <1>2, <1>3, PTL DEF Spec

-----------------------------------------------------------------------------
(* Runs that overlap.                                                      *)

\* Runs that are in progress together are in overlapped.
Alone == \A r, q \in Runners : r # q /\ Busy(r) /\ Busy(q) => run[r].id \in overlapped

\* What one step of a run in progress leaves alone.
LEMMA RunStep ==
  ASSUME BriefTypeInv, NEW r \in Runners, Progress(r) \/ Crash(r)
  PROVE  /\ Busy(r) /\ run[r] \in RunStates
         /\ run'[r] = Idle \/ (run'[r].id = run[r].id /\ run'[r].date = run[r].date)
         /\ \A q \in Runners : q # r => run'[q] = run[q]
         /\ UNCHANGED <<today, runs, overlapped>>
         /\ simulations \subseteq simulations'
         /\ delivered \subseteq delivered'
<1>1. run[r] \in RunStates /\ run \in [Runners -> RunStates]
  BY DEF BriefTypeInv, BriefType, TypeOK
<1>2. Busy(r)
  BY DEF Progress, Busy, ReadCache, SaveForecast, SynthesisFails, HorizonFails, SaveBacktest,
         BacktestFails, SaveBrief, SaveBriefFails, Deliver, DeliverFails, MarkDelivery,
         MarkDeliveryFails, Crash, Channels
<1>3. /\ UNCHANGED <<today, runs, overlapped>>
      /\ simulations \subseteq simulations' /\ delivered \subseteq delivered'
  BY DEF Progress, ReadCache, SaveForecast, SynthesisFails, HorizonFails, SaveBacktest,
         BacktestFails, SaveBrief, SaveBriefFails, Deliver, DeliverFails, MarkDelivery,
         MarkDeliveryFails, Crash, tables, outside, ghosts, counted
<1>4. \A q \in Runners : q # r => run'[q] = run[q]
  BY <1>1
     DEF Progress, ReadCache, SaveForecast, SynthesisFails, HorizonFails, SaveBacktest,
         BacktestFails, SaveBrief, SaveBriefFails, Deliver, DeliverFails, MarkDelivery,
         MarkDeliveryFails, Crash, Becomes, Settle
<1>5. run'[r] = Idle \/ (run'[r].id = run[r].id /\ run'[r].date = run[r].date)
  <2>1. ASSUME NEW id, Settle(r, id)
        PROVE  run'[r].id = run[r].id /\ run'[r].date = run[r].date
    BY <1>1, <2>1 DEF Settle, Becomes, RunStates
  <2>2. CASE ReadCache(r) \/ SaveForecast(r) \/ SynthesisFails(r) \/ HorizonFails(r)
    <3>1. CASE ReadCache(r)
      <4>1. \/ Settle(r, fetch_latest_forecast(CurrentHorizon(r)))
            \/ Becomes(r, [run[r] EXCEPT !.pc = "synthesizing",
                             !.found = fetch_latest_forecast(CurrentHorizon(r)), !.asked = today])
        BY <3>1 DEF ReadCache
      <4>. QED BY <1>1, <2>1, <4>1 DEF Becomes, RunStates
    <3>. QED BY <2>1, <2>2, <3>1 DEF SaveForecast, SynthesisFails, HorizonFails
  <2>3. CASE SaveBacktest(r)
    BY <2>3, BacktestRun
  <2>4. CASE BacktestFails(r) \/ SaveBrief(r) \/ SaveBriefFails(r) \/ Deliver(r) \/ DeliverFails(r)
    BY <1>1, <2>4 DEF BacktestFails, SaveBrief, SaveBriefFails, Deliver, DeliverFails, Becomes,
                      RunStates
  <2>5. CASE MarkDelivery(r) \/ MarkDeliveryFails(r) \/ Crash(r)
    BY <1>1, <2>5 DEF MarkDelivery, MarkDeliveryFails, Crash, Becomes
  <2>. QED BY <2>2, <2>3, <2>4, <2>5 DEF Progress
<1>. QED BY <1>1, <1>2, <1>3, <1>4, <1>5

\* What a beginning run leaves alone, and whom it overlaps.
LEMMA StartStep ==
  ASSUME BriefTypeInv, NEW r \in Runners, StartRun(r)
  PROVE  /\ ~Busy(r)
         /\ run'[r].pc = "forecasting" /\ run'[r].sent = {} /\ run'[r].saved = {}
         /\ run'[r].forecasts = NoForecasts /\ run'[r].estimates = 0
         /\ \A q \in Runners : q # r => run'[q] = run[q]
         /\ UNCHANGED <<today, tables, outside>>
         /\ overlapped \subseteq overlapped'
         /\ \A q \in Runners : Busy(q) => {run[q].id, run'[r].id} \subseteq overlapped'
<1>1. run \in [Runners -> RunStates]
  BY DEF BriefTypeInv, BriefType, TypeOK
<1>2. run' = [run EXCEPT ![r] = [Idle EXCEPT !.pc = "forecasting", !.id = runs + 1,
                                             !.date = today, !.step = 1]]
  BY DEF StartRun, Becomes
<1>3. /\ run'[r].pc = "forecasting" /\ run'[r].sent = {} /\ run'[r].saved = {}
      /\ run'[r].forecasts = NoForecasts /\ run'[r].estimates = 0 /\ run'[r].id = runs + 1
  BY <1>1, <1>2 DEF Idle
<1>4. \A q \in Runners : q # r => run'[q] = run[q]
  BY <1>1, <1>2
<1>5. /\ overlapped \subseteq overlapped'
      /\ \A q \in Runners : Busy(q) => {run[q].id, runs + 1} \subseteq overlapped'
  BY DEF StartRun
<1>. QED BY <1>3, <1>4, <1>5 DEF StartRun

\* Every step keeps Alone.
LEMMA AloneStep == ASSUME BriefTypeInv, Alone, [Next]_vars PROVE Alone'
<1>1. ASSUME NEW r \in Runners, StartRun(r) PROVE Alone'
  BY <1>1, StartStep DEF Alone, Busy
<1>2. ASSUME NEW r \in Runners, Progress(r) \/ Crash(r) PROVE Alone'
  BY <1>2, RunStep DEF Alone, Busy, Idle
<1>3. CASE NextDay \/ UNCHANGED vars
  BY <1>3 DEF NextDay, vars, counted, Alone, Busy
<1>. QED BY <1>1, <1>2, <1>3 DEF Next, GateClosed

-----------------------------------------------------------------------------
(* The delivery flags.                                                     *)

\* A run's channels have the brief, and the row it saved is still its own, or another
\* run that overlapped it has replaced it.
Honest(s) ==
  s.pc # "idle" =>
    /\ \A channel \in s.sent : <<s.id, channel>> \in delivered
    /\ \A b \in briefs : b.date \in s.saved => b.by = s.id \/ b.by \in overlapped

FlagsInv == FlagsAreTruthful /\ \A r \in Runners : Honest(run[r])

\* What a step must do to keep the flags true: its own run stays honest, and no
\* row of another run appears that does not overlap.
LEMMA HonestStep ==
  ASSUME BriefTypeInv, Alone, FlagsInv, NEW r \in Runners, Progress(r) \/ Crash(r),
         \A b \in briefs' : \/ \E a \in briefs : a.date = b.date /\ a.by = b.by
                            \/ b.by = run[r].id,
         Honest(run[r])',
         \A b \in briefs' : b \in briefs \/ \A channel \in b.flags :
                              b.by \in overlapped \/ <<b.by, channel>> \in delivered
  PROVE  FlagsInv'
<1>1. FlagsAreTruthful'
  BY RunStep DEF FlagsInv, FlagsAreTruthful
<1>2. ASSUME NEW q \in Runners, q # r PROVE Honest(run[q])'
  <2>1. run'[q] = run[q] /\ overlapped' = overlapped /\ delivered \subseteq delivered' /\ Busy(r)
    BY <1>2, RunStep
  <2>2. Busy(q) => run[r].id \in overlapped
    BY <1>2, <2>1 DEF Alone
  <2>. QED BY <2>1, <2>2 DEF FlagsInv, Honest, Busy
<1>. QED BY <1>1, <1>2 DEF FlagsInv

\* Steps that touch neither the rows nor what a run has saved and sent.
LEMMA ComposingFlags ==
  ASSUME BriefTypeInv, Alone, FlagsInv, NEW r \in Runners, Progress(r) \/ Crash(r),
         briefs' = briefs,
         \/ run'[r] = Idle
         \/ run'[r].sent = run[r].sent /\ run'[r].saved = run[r].saved
  PROVE  FlagsInv'
<1>1. Honest(run[r])'
  BY RunStep DEF FlagsInv, Honest, Busy, Idle
<1>. QED BY <1>1, HonestStep

\* The day's row is written with its flags down.
LEMMA SaveBriefFlags ==
  ASSUME BriefTypeInv, Alone, FlagsInv, NEW r \in Runners, SaveBrief(r) PROVE FlagsInv'
<1>1. briefs' = OtherBriefs(run[r].date) \cup {NewBrief(r)} /\ UNCHANGED delivered
  BY DEF SaveBrief, NewBrief, outside
<1>2. NewBrief(r).by = run[r].id /\ NewBrief(r).date = run[r].date /\ NewBrief(r).flags = {}
  BY DEF NewBrief
<1>3. Progress(r) /\ run[r] \in RunStates /\ run \in [Runners -> RunStates]
  BY DEF Progress, BriefTypeInv, BriefType, TypeOK
<1>4. run'[r].saved = {run[r].date} /\ run'[r].sent = run[r].sent /\ run'[r].id = run[r].id
  BY <1>3 DEF SaveBrief, Becomes, RunStates
<1>5. Honest(run[r])'
  <2>1. \A b \in briefs' : b.date = run[r].date => b.by = run[r].id
    BY <1>1, <1>2 DEF OtherBriefs
  <2>2. \A channel \in run[r].sent : <<run[r].id, channel>> \in delivered
    BY DEF SaveBrief, FlagsInv, Honest
  <2>. QED BY <1>1, <1>4, <2>1, <2>2 DEF Honest
<1>6. \A b \in briefs' : b \in briefs \/ (b.by = run[r].id /\ b.flags = {})
  BY <1>1, <1>2 DEF OtherBriefs
<1>. QED BY <1>3, <1>5, <1>6, HonestStep

\* A channel has the brief before the run counts it as sent.
LEMMA DeliveryFlags ==
  ASSUME BriefTypeInv, Alone, FlagsInv, NEW r \in Runners, Deliver(r) \/ DeliverFails(r)
  PROVE  FlagsInv'
<1>1. Progress(r) /\ run[r] \in RunStates /\ run \in [Runners -> RunStates] /\ Busy(r)
  BY RunStep DEF Progress, BriefTypeInv, BriefType, TypeOK
<1>2. briefs' = briefs /\ overlapped' = overlapped
  BY DEF Deliver, DeliverFails, tables, ghosts, counted
<1>3. CASE Deliver(r)
  <2>1. /\ run'[r].sent = run[r].sent \cup {run[r].pc} /\ run'[r].id = run[r].id
        /\ run'[r].saved = run[r].saved
    BY <1>1, <1>3 DEF Deliver, Becomes, RunStates
  <2>2. delivered' = delivered \cup {<<run[r].id, run[r].pc>>}
    BY <1>3 DEF Deliver
  <2>3. Honest(run[r])'
    BY <1>1, <1>2, <2>1, <2>2 DEF FlagsInv, Honest, Busy
  <2>. QED BY <1>1, <1>2, <2>3, HonestStep
<1>4. CASE DeliverFails(r)
  <2>1. run'[r].sent = run[r].sent /\ run'[r].saved = run[r].saved
    BY <1>1, <1>4 DEF DeliverFails, Becomes, RunStates
  <2>. QED BY <1>1, <1>2, <2>1, ComposingFlags
<1>. QED BY <1>3, <1>4

\* The flags a run writes are of its own row, or of that of a run it overlapped.
LEMMA MarkFlags ==
  ASSUME BriefTypeInv, Alone, FlagsInv, NEW r \in Runners, MarkDelivery(r) PROVE FlagsInv'
<1>1. Progress(r) /\ run \in [Runners -> RunStates] /\ briefs \subseteq BriefRows
  BY DEF Progress, BriefTypeInv, BriefType, TypeOK
<1>2. run'[r] = Idle
  BY <1>1 DEF MarkDelivery, Becomes
<1>3. Honest(run[r])'
  BY <1>2 DEF Honest, Idle
<1>4. ASSUME NEW b \in briefs'
      PROVE  \/ b \in briefs
             \/ /\ \E a \in briefs : a.date = b.date /\ a.by = b.by /\ a.date \in run[r].saved
                /\ b.flags = run[r].sent
  <2>1. PICK a \in briefs : b = IF a.date \in run[r].saved THEN [a EXCEPT !.flags = run[r].sent]
                                ELSE a
    BY DEF MarkDelivery
  <2>2. CASE a.date \in run[r].saved
    <3>1. b = [a EXCEPT !.flags = run[r].sent] /\ a \in BriefRows
      BY <1>1, <2>1, <2>2
    <3>2. b.date = a.date /\ b.by = a.by /\ b.flags = run[r].sent
      BY <3>1 DEF BriefRows
    <3>. QED BY <2>2, <3>2
  <2>. QED BY <2>1, <2>2
<1>5. /\ \A a \in briefs : a.date \in run[r].saved => a.by = run[r].id \/ a.by \in overlapped
      /\ \A channel \in run[r].sent : <<run[r].id, channel>> \in delivered
  BY DEF MarkDelivery, FlagsInv, Honest
<1>6. \A b \in briefs' : b \in briefs \/ \A channel \in b.flags :
                           b.by \in overlapped \/ <<b.by, channel>> \in delivered
  BY <1>4, <1>5
<1>7. \A b \in briefs' : \E a \in briefs : a.date = b.date /\ a.by = b.by
  BY <1>4
<1>. QED BY <1>1, <1>3, <1>6, <1>7, HonestStep

\* Every step keeps the flags true.
LEMMA FlagsStep == ASSUME BriefTypeInv, Alone, FlagsInv, [Next]_vars PROVE FlagsInv'
<1>1. ASSUME NEW r \in Runners, StartRun(r) PROVE FlagsInv'
  <2>1. UNCHANGED <<briefs, delivered>> /\ overlapped \subseteq overlapped'
    BY <1>1, StartStep DEF tables, outside
  <2>2. \A q \in Runners : Honest(run[q])'
    BY <1>1, <2>1, StartStep DEF FlagsInv, Honest
  <2>. QED BY <2>1, <2>2 DEF FlagsInv, FlagsAreTruthful
<1>2. ASSUME NEW r \in Runners, Progress(r) \/ Crash(r) PROVE FlagsInv'
  <2>. run[r] \in RunStates /\ run \in [Runners -> RunStates]
    BY DEF BriefTypeInv, BriefType, TypeOK
  <2>1. CASE SaveBrief(r) \/ Deliver(r) \/ DeliverFails(r) \/ MarkDelivery(r)
    BY <2>1, SaveBriefFlags, DeliveryFlags, MarkFlags
  <2>2. CASE MarkDeliveryFails(r) \/ Crash(r)
    <3>1. run'[r] = Idle /\ briefs' = briefs
      BY <2>2 DEF MarkDeliveryFails, Crash, Becomes, tables
    <3>. QED BY <1>2, <3>1, ComposingFlags
  <2>3. CASE SaveBacktest(r)
    <3>1. run'[r].sent = run[r].sent /\ run'[r].saved = run[r].saved /\ briefs' = briefs
      BY <2>3, BacktestRun DEF SaveBacktest
    <3>. QED BY <1>2, <3>1, ComposingFlags
  <2>4. CASE BacktestFails(r) \/ SaveBriefFails(r)
    <3>1. run'[r].sent = run[r].sent /\ run'[r].saved = run[r].saved /\ briefs' = briefs
      BY <2>4 DEF BacktestFails, SaveBriefFails, Becomes, RunStates, tables
    <3>. QED BY <1>2, <3>1, ComposingFlags
  <2>5. CASE ReadCache(r) \/ SaveForecast(r) \/ SynthesisFails(r) \/ HorizonFails(r)
    <3>1. briefs' = briefs
      BY <2>5 DEF ReadCache, SaveForecast, SynthesisFails, HorizonFails, tables
    <3>2. ASSUME NEW id, Settle(r, id)
          PROVE  run'[r].sent = run[r].sent /\ run'[r].saved = run[r].saved
      BY <3>2 DEF Settle, Becomes, RunStates
    <3>3. run'[r].sent = run[r].sent /\ run'[r].saved = run[r].saved
      <4>1. CASE ReadCache(r)
        <5>1. \/ Settle(r, fetch_latest_forecast(CurrentHorizon(r)))
              \/ Becomes(r, [run[r] EXCEPT !.pc = "synthesizing",
                               !.found = fetch_latest_forecast(CurrentHorizon(r)), !.asked = today])
          BY <4>1 DEF ReadCache
        <5>. QED BY <3>2, <5>1 DEF Becomes, RunStates
      <4>. QED BY <2>5, <3>2, <4>1 DEF SaveForecast, SynthesisFails, HorizonFails
    <3>. QED BY <1>2, <3>1, <3>3, ComposingFlags
  <2>. QED BY <1>2, <2>1, <2>2, <2>3, <2>4, <2>5 DEF Progress
<1>3. CASE NextDay \/ UNCHANGED vars
  BY <1>3 DEF NextDay, vars, tables, outside, counted, FlagsInv, FlagsAreTruthful, Honest
<1>. QED BY <1>1, <1>2, <1>3 DEF Next, GateClosed

\* A row's flags are raised only for channels that got what the row says, for any
\* runners and failures; of rows whose run had the tables to itself
\* (save_morning_brief, mark_morning_brief_delivery).
THEOREM FlagsCorrect == Spec => []FlagsAreTruthful
<1>1. Init => BriefTypeInv /\ Alone /\ FlagsInv
  BY InitType DEF Init, Alone, Busy, Idle, FlagsInv, FlagsAreTruthful, Honest
<1>2. BriefTypeInv /\ Alone /\ FlagsInv /\ [Next]_vars => BriefTypeInv' /\ Alone' /\ FlagsInv'
  BY StepType, AloneStep, FlagsStep
<1>3. FlagsInv => FlagsAreTruthful
  BY DEF FlagsInv
<1>. QED BY <1>1, <1>2, <1>3, PTL DEF Spec

-----------------------------------------------------------------------------
(* What a brief quotes exists.                                             *)

\* What a run has collected exists: forecasts of their horizons, and the backtests
\* it has counted.
Resolves(s) ==
  /\ \A h \in HorizonSet : s.forecasts[h] # 0 => s.forecasts[h] \in ForecastIds(h)
  /\ s.pc = "synthesizing" /\ s.found # 0 => s.found \in ForecastIds(Horizons[s.step])
  /\ \A n \in 1..s.estimates : <<s.id, n>> \in simulations

ResolveInv == BriefsResolve /\ \A r \in Runners : Resolves(run[r])

\* No step removes a forecast.
LEMMA ForecastsStay ==
  ASSUME BriefTypeInv, [Next]_vars, NEW h PROVE ForecastIds(h) \subseteq ForecastIds(h)'
<1>1. ASSUME NEW r \in Runners, SaveForecast(r)
      PROVE  ForecastIds(h) \subseteq ForecastIds(h)'
  BY <1>1, NewForecastType, CacheAfterSave DEF BriefTypeInv, BriefType
<1>2. cache' = cache => ForecastIds(h) \subseteq ForecastIds(h)'
  BY DEF ForecastIds
<1>3. ASSUME NEW r \in Runners, Progress(r), ~SaveForecast(r) PROVE cache' = cache
  BY <1>3 DEF Progress, ReadCache, SynthesisFails, HorizonFails, SaveBacktest, BacktestFails,
              SaveBrief, SaveBriefFails, Deliver, DeliverFails, MarkDelivery, MarkDeliveryFails,
              tables
<1>4. ASSUME NEW r \in Runners, StartRun(r) \/ Crash(r) PROVE cache' = cache
  BY <1>4 DEF StartRun, Crash, tables
<1>5. NextDay \/ UNCHANGED vars => cache' = cache
  BY DEF NextDay, vars, tables
<1>. QED BY <1>1, <1>2, <1>3, <1>4, <1>5 DEF Next, GateClosed

\* A step of one run that keeps its own state resolved, and saves no brief that is not.
LEMMA ResolveStep ==
  ASSUME BriefTypeInv, ResolveInv, [Next]_vars, NEW r \in Runners, Progress(r) \/ Crash(r),
         Resolves(run[r])',
         \A b \in briefs' :
           \/ \E a \in briefs : /\ a.by = b.by /\ a.forecasts = b.forecasts
                                /\ a.estimates = b.estimates
           \/ b.by = run[r].id /\ b.forecasts = run[r].forecasts /\ b.estimates = run[r].estimates,
         run[r].estimates \in {0, Backtests} \/ briefs' = briefs
  PROVE  ResolveInv'
<1>1. simulations \subseteq simulations' /\ \A h : ForecastIds(h) \subseteq ForecastIds(h)'
  BY RunStep, ForecastsStay
<1>2. BriefsResolve'
  BY <1>1 DEF ResolveInv, BriefsResolve, Resolves
<1>3. ASSUME NEW q \in Runners, q # r PROVE Resolves(run[q])'
  <2>1. run'[q] = run[q]
    BY <1>3, RunStep
  <2>. QED BY <1>1, <2>1 DEF ResolveInv, Resolves
<1>. QED BY <1>2, <1>3 DEF ResolveInv

\* A horizon is settled with a forecast of its own, or none.
LEMMA SettleResolves ==
  ASSUME BriefTypeInv, ResolveInv, [Next]_vars, NEW r \in Runners, Progress(r), NEW id \in Nat,
         Settle(r, id), run[r].pc \in {"forecasting", "synthesizing"}, briefs' = briefs,
         NEW now, now = CurrentHorizon(r), id # 0 => id \in ForecastIds(now)'
  PROVE  ResolveInv'
<1>1. run[r] \in RunStates /\ run \in [Runners -> RunStates] /\ BriefType
  BY DEF BriefTypeInv, BriefType, TypeOK
<1>2. /\ run'[r].id = run[r].id /\ run'[r].estimates = run[r].estimates
      /\ run'[r].pc \in {"forecasting", "estimating"}
      /\ run'[r].forecasts = [run[r].forecasts EXCEPT ![CurrentHorizon(r)] = id]
  BY <1>1 DEF Settle, Becomes, RunStates
<1>3. simulations \subseteq simulations' /\ \A h : ForecastIds(h) \subseteq ForecastIds(h)'
  BY RunStep, ForecastsStay
<1>4. CurrentHorizon(r) \in HorizonSet /\ run[r].forecasts \in [HorizonSet -> Nat]
  BY <1>1, CurrentHorizonType DEF RunStates
<1>5. ASSUME NEW h \in HorizonSet, run'[r].forecasts[h] # 0
      PROVE  run'[r].forecasts[h] \in ForecastIds(h)'
  <2>1. CASE h = CurrentHorizon(r)
    BY <1>2, <1>4, <1>5, <2>1
  <2>2. CASE h # CurrentHorizon(r)
    BY <1>2, <1>3, <1>4, <1>5, <2>2 DEF ResolveInv, Resolves
  <2>. QED BY <2>1, <2>2
<1>6. \A n \in 1..run'[r].estimates : <<run'[r].id, n>> \in simulations'
  BY <1>2, <1>3 DEF ResolveInv, Resolves
<1>7. Resolves(run[r])'
  BY <1>2, <1>5, <1>6 DEF Resolves
<1>. QED BY <1>7, ResolveStep

\* Steps that leave what was collected, or drop the backtests.
LEMMA StageResolves ==
  ASSUME BriefTypeInv, ResolveInv, [Next]_vars, NEW r \in Runners, Progress(r) \/ Crash(r),
         \A b \in briefs' :
           \/ \E a \in briefs : /\ a.by = b.by /\ a.forecasts = b.forecasts
                                /\ a.estimates = b.estimates
           \/ b.by = run[r].id /\ b.forecasts = run[r].forecasts /\ b.estimates = run[r].estimates,
         run[r].estimates \in {0, Backtests} \/ briefs' = briefs,
         \/ run'[r] = Idle
         \/ /\ run'[r].id = run[r].id /\ run'[r].forecasts = run[r].forecasts
            /\ run'[r].pc # "synthesizing"
            /\ run'[r].estimates \in {0, run[r].estimates}
  PROVE  ResolveInv'
<1>1. simulations \subseteq simulations' /\ \A h : ForecastIds(h) \subseteq ForecastIds(h)'
  BY RunStep, ForecastsStay
<1>2. CASE run'[r] = Idle
  <2>1. Resolves(run[r])'
    BY <1>2 DEF Resolves, Idle, NoForecasts
  <2>. QED BY <2>1, ResolveStep
<1>3. CASE /\ run'[r].id = run[r].id /\ run'[r].forecasts = run[r].forecasts
           /\ run'[r].pc # "synthesizing"
           /\ run'[r].estimates \in {0, run[r].estimates}
  <2>1. \A n \in 1..run'[r].estimates : n \in 1..run[r].estimates
    BY <1>3
  <2>2. \A n \in 1..run'[r].estimates : <<run[r].id, n>> \in simulations
    BY <2>1 DEF ResolveInv, Resolves
  <2>3. \A h \in HorizonSet : run[r].forecasts[h] # 0 => run[r].forecasts[h] \in ForecastIds(h)
    BY DEF ResolveInv, Resolves
  <2>4. Resolves(run[r])'
    BY <1>1, <1>3, <2>2, <2>3 DEF Resolves
  <2>. QED BY <2>4, ResolveStep
<1>. QED BY <1>2, <1>3

\* A cached forecast is looked up.
LEMMA ReadCacheResolves ==
  ASSUME BriefTypeInv, ResolveInv, [Next]_vars, NEW r \in Runners, ReadCache(r) PROVE ResolveInv'
<1> DEFINE found == fetch_latest_forecast(CurrentHorizon(r))
<1>1. /\ run[r] \in RunStates /\ run \in [Runners -> RunStates] /\ BriefType /\ TypeOK
      /\ LatestExist /\ run[r].pc = "forecasting" /\ Progress(r)
  BY DEF BriefTypeInv, BriefType, TypeOK, ReadCache, Progress
<1>2. CurrentHorizon(r) \in HorizonSet
  BY <1>1, CurrentHorizonType
<1>3. found \in Nat /\ (found # 0 => found \in ForecastIds(CurrentHorizon(r)))
  BY <1>1, <1>2, LatestForecast
<1>4. /\ UNCHANGED <<briefs, cache, simulations>>
      /\ \A h : ForecastIds(h)' = ForecastIds(h)
  BY DEF ReadCache, tables, ForecastIds
<1>5. CASE Settle(r, found)
  BY <1>1, <1>3, <1>4, <1>5, SettleResolves
<1>6. CASE Becomes(r, [run[r] EXCEPT !.pc = "synthesizing", !.found = found, !.asked = today])
  <2>1. /\ run'[r].id = run[r].id /\ run'[r].forecasts = run[r].forecasts
        /\ run'[r].estimates = run[r].estimates
        /\ run'[r].found = found /\ run'[r].step = run[r].step
    BY <1>1, <1>6 DEF Becomes, RunStates
  <2>2. Resolves(run[r])'
    BY <1>3, <1>4, <2>1 DEF ResolveInv, Resolves, CurrentHorizon
  <2>. QED BY <1>1, <1>4, <2>2, ResolveStep
<1>. HIDE DEF found
<1>7. \/ Settle(r, found)
      \/ Becomes(r, [run[r] EXCEPT !.pc = "synthesizing", !.found = found, !.asked = today])
  BY DEF ReadCache, found
<1>. QED BY <1>5, <1>6, <1>7

\* A forecast is stored or the one found is used.
LEMMA SynthesisResolves ==
  ASSUME BriefTypeInv, ResolveInv, [Next]_vars, NEW r \in Runners,
         SaveForecast(r) \/ SynthesisFails(r) \/ HorizonFails(r)
  PROVE  ResolveInv'
<1>1. run[r] \in RunStates /\ TypeOK /\ Progress(r) /\ run[r].found \in Nat
  BY DEF BriefTypeInv, BriefType, TypeOK, Progress, RunStates
<1>2. run[r].pc \in {"forecasting", "synthesizing"} /\ briefs' = briefs
  BY DEF SaveForecast, SynthesisFails, HorizonFails, tables
<1>3. CASE SaveForecast(r)
  <2>1. /\ NewForecast(r) \in ForecastRows /\ cache' = Append(cache, NewForecast(r))
        /\ NewForecast(r).horizon = CurrentHorizon(r)
    BY <1>3, NewForecastType
  <2>2. ASSUME NEW now, now = CurrentHorizon(r)
        PROVE  Len(cache) + 1 \in ForecastIds(now)' /\ Len(cache) + 1 \in Nat
    BY <1>1, <2>1, <2>2, CacheAfterSave
  <2>3. Settle(r, Len(cache) + 1)
    BY <1>3 DEF SaveForecast
  <2>. QED BY <1>1, <1>2, <2>2, <2>3, SettleResolves
<1>4. CASE SynthesisFails(r)
  <2>1. run[r].found # 0 => run[r].found \in ForecastIds(CurrentHorizon(r))
    BY <1>4 DEF SynthesisFails, ResolveInv, Resolves, CurrentHorizon
  <2>. QED BY <1>1, <1>2, <1>4, <2>1, ForecastsStay, SettleResolves DEF SynthesisFails
<1>5. CASE HorizonFails(r)
  BY <1>1, <1>2, <1>5, SettleResolves DEF HorizonFails
<1>. QED BY <1>3, <1>4, <1>5

\* A backtest is counted once it is stored.
LEMMA BacktestResolves ==
  ASSUME BriefTypeInv, ResolveInv, [Next]_vars, NEW r \in Runners, SaveBacktest(r)
  PROVE  ResolveInv'
<1>1. /\ run'[r].forecasts = run[r].forecasts /\ run'[r].id = run[r].id
      /\ run'[r].estimates = run[r].estimates + 1 /\ run'[r].pc # "synthesizing"
      /\ run[r].estimates + 1 \in Nat
  BY BacktestRun
<1>2. simulations' = simulations \cup {<<run[r].id, run[r].estimates + 1>>} /\ briefs' = briefs
  BY DEF SaveBacktest
<1>3. run[r].estimates \in Nat
  BY Constants DEF BriefTypeInv, BriefType, TypeOK, RunStates
<1>4. \A n \in 1..(run[r].estimates + 1) : n \in 1..run[r].estimates \/ n = run[r].estimates + 1
  BY <1>3
<1>5. \A n \in 1..run'[r].estimates : <<run'[r].id, n>> \in simulations'
  BY <1>1, <1>2, <1>4 DEF ResolveInv, Resolves
<1>6. \A h \in HorizonSet :
        run'[r].forecasts[h] # 0 => run'[r].forecasts[h] \in ForecastIds(h)'
  BY <1>1, ForecastsStay DEF ResolveInv, Resolves
<1>7. Resolves(run[r])'
  BY <1>1, <1>5, <1>6 DEF Resolves
<1>. QED BY <1>2, <1>7, ResolveStep DEF Progress

\* A marked row quotes what it quoted.
LEMMA MarkResolves ==
  ASSUME BriefTypeInv, ResolveInv, [Next]_vars, NEW r \in Runners, MarkDelivery(r)
  PROVE  ResolveInv'
<1>1. Progress(r) /\ run \in [Runners -> RunStates] /\ briefs \subseteq BriefRows
  BY DEF Progress, BriefTypeInv, BriefType, TypeOK
<1>2. run'[r] = Idle
  BY <1>1 DEF MarkDelivery, Becomes
<1>3. run[r].estimates \in {0, Backtests}
  BY DEF MarkDelivery, BriefTypeInv, BriefType, Placed
<1>4. ASSUME NEW b \in briefs'
      PROVE  \E a \in briefs : /\ a.by = b.by /\ a.forecasts = b.forecasts
                               /\ a.estimates = b.estimates
  <2>1. PICK a \in briefs : b = IF a.date \in run[r].saved THEN [a EXCEPT !.flags = run[r].sent]
                                ELSE a
    BY DEF MarkDelivery
  <2>2. a \in BriefRows /\ (b = a \/ b = [a EXCEPT !.flags = run[r].sent])
    BY <1>1, <2>1
  <2>. QED BY <2>2 DEF BriefRows
<1>. QED BY <1>1, <1>2, <1>3, <1>4, StageResolves

\* The row that is saved quotes what its run collected.
LEMMA SaveBriefResolves ==
  ASSUME BriefTypeInv, ResolveInv, [Next]_vars, NEW r \in Runners, SaveBrief(r)
  PROVE  ResolveInv'
<1>1. Progress(r) /\ run[r] \in RunStates /\ run \in [Runners -> RunStates]
  BY DEF Progress, BriefTypeInv, BriefType, TypeOK
<1>2. run[r].estimates \in {0, Backtests}
  BY DEF SaveBrief, BriefTypeInv, BriefType, Placed
<1>3. \A b \in briefs' : \/ b \in briefs
                         \/ /\ b.by = run[r].id /\ b.forecasts = run[r].forecasts
                            /\ b.estimates = run[r].estimates
  BY DEF SaveBrief, OtherBriefs
<1>4. /\ run'[r].id = run[r].id /\ run'[r].forecasts = run[r].forecasts
      /\ run'[r].pc # "synthesizing" /\ run'[r].estimates = run[r].estimates
  BY <1>1 DEF SaveBrief, Becomes, RunStates
<1>. QED BY <1>1, <1>2, <1>3, <1>4, StageResolves

\* Every step keeps what is quoted resolved.
LEMMA ResolvesStep == ASSUME BriefTypeInv, ResolveInv, [Next]_vars PROVE ResolveInv'
<1>1. ASSUME NEW r \in Runners, StartRun(r) PROVE ResolveInv'
  <2>1. UNCHANGED <<briefs, simulations>> /\ \A h : ForecastIds(h)' = ForecastIds(h)
    BY <1>1, StartStep DEF tables, ForecastIds
  <2>2. Resolves(run[r])'
    BY <1>1, StartStep DEF Resolves, NoForecasts
  <2>3. \A q \in Runners : q # r => Resolves(run[q])'
    BY <1>1, <2>1, StartStep DEF ResolveInv, Resolves
  <2>. QED BY <2>1, <2>2, <2>3 DEF ResolveInv, BriefsResolve
<1>2. ASSUME NEW r \in Runners, Progress(r) \/ Crash(r) PROVE ResolveInv'
  <2>1. run[r] \in RunStates /\ run \in [Runners -> RunStates] /\ Placed(run[r])
    BY DEF BriefTypeInv, BriefType, TypeOK
  <2>2. CASE MarkDeliveryFails(r) \/ Crash(r)
    <3>1. run'[r] = Idle /\ briefs' = briefs
      BY <2>1, <2>2 DEF MarkDeliveryFails, Crash, Becomes, tables
    <3>. QED BY <1>2, <3>1, StageResolves
  <2>3. CASE BacktestFails(r) \/ SaveBriefFails(r) \/ Deliver(r) \/ DeliverFails(r)
    <3>1. briefs' = briefs
      BY <2>3 DEF BacktestFails, SaveBriefFails, Deliver, DeliverFails, tables
    <3>2. /\ run'[r].id = run[r].id /\ run'[r].forecasts = run[r].forecasts
          /\ run'[r].pc # "synthesizing" /\ run'[r].estimates \in {0, run[r].estimates}
      <4>1. CASE BacktestFails(r) \/ SaveBriefFails(r)
        BY <2>1, <4>1 DEF BacktestFails, SaveBriefFails, Becomes, RunStates
      <4>2. CASE Deliver(r) \/ DeliverFails(r)
        <5>1. AfterChannel(run[r].pc) # "synthesizing"
          BY DEF AfterChannel
        <5>2. /\ run'[r].id = run[r].id /\ run'[r].forecasts = run[r].forecasts
              /\ run'[r].pc = AfterChannel(run[r].pc) /\ run'[r].estimates = run[r].estimates
          BY <2>1, <4>2 DEF Deliver, DeliverFails, Becomes, RunStates
        <5>. QED BY <5>1, <5>2
      <4>. QED BY <2>3, <4>1, <4>2
    <3>. QED BY <1>2, <3>1, <3>2, StageResolves
  <2>. QED BY <1>2, <2>2, <2>3, ReadCacheResolves, SynthesisResolves, BacktestResolves,
              MarkResolves, SaveBriefResolves DEF Progress
<1>3. CASE NextDay \/ UNCHANGED vars
  BY <1>3 DEF NextDay, vars, tables, ResolveInv, BriefsResolve, Resolves, ForecastIds
<1>. QED BY <1>1, <1>2, <1>3 DEF Next, GateClosed

\* What a brief quotes exists, for any runners and failures: forecasts of the horizon
\* they are shown under, and all backtests of its run or none (save_morning_brief,
\* get_or_refresh_forecast, run_illustrative_backtests).
THEOREM ResolveCorrect == Spec => []BriefsResolve
<1>1. Init => BriefTypeInv /\ ResolveInv
  BY InitType DEF Init, Idle, NoForecasts, ResolveInv, BriefsResolve, Resolves
<1>2. BriefTypeInv /\ ResolveInv /\ [Next]_vars => BriefTypeInv' /\ ResolveInv'
  BY StepType, ResolvesStep
<1>3. ResolveInv => BriefsResolve
  BY DEF ResolveInv
<1>. QED BY <1>1, <1>2, <1>3, PTL DEF Spec

-----------------------------------------------------------------------------
(* Regenerating forecasts.                                                 *)

\* A run that is alone and waits for the model found the newest forecast of its
\* horizon, expired when it looked.
Waits(s) ==
  s.pc = "synthesizing" /\ s.id \notin overlapped =>
    /\ s.asked <= today
    /\ \A j \in ForecastIds(Horizons[s.step]) : s.found >= j
    /\ s.found # 0 => cache[s.found].validUntil <= s.asked

RegenerationInv == RegeneratedOnlyWhenExpired /\ \A r \in Runners : Waits(run[r])

\* Steps that store no forecast leave the other runs waiting for what they waited for.
LEMMA WaitStep ==
  ASSUME BriefTypeInv, RegenerationInv, NEW r \in Runners, Progress(r) \/ Crash(r),
         cache' = cache, Waits(run[r])'
  PROVE  RegenerationInv'
<1>1. overlapped' = overlapped /\ today' = today /\ \A q \in Runners : q # r => run'[q] = run[q]
  BY RunStep
<1>2. RegeneratedOnlyWhenExpired'
  BY <1>1 DEF RegenerationInv, RegeneratedOnlyWhenExpired
<1>3. ASSUME NEW q \in Runners, q # r PROVE Waits(run[q])'
  BY <1>1, <1>3 DEF RegenerationInv, Waits, ForecastIds
<1>. QED BY <1>2, <1>3 DEF RegenerationInv

\* A run that has settled a horizon does not wait for the model.
LEMMA SettledMoves ==
  ASSUME BriefTypeInv, NEW r \in Runners, NEW id, Settle(r, id)
  PROVE  run'[r].pc # "synthesizing"
<1>1. run[r] \in RunStates /\ run \in [Runners -> RunStates]
  BY DEF BriefTypeInv, BriefType, TypeOK
<1>2. run'[r].pc = IF run[r].step < Len(Horizons) THEN "forecasting" ELSE "estimating"
  BY <1>1 DEF Settle, Becomes, RunStates
<1>. QED BY <1>2

\* The cache is looked up, and what is found there has expired or settles the horizon.
LEMMA ReadCacheWaits ==
  ASSUME BriefTypeInv, RegenerationInv, NEW r \in Runners, ReadCache(r) PROVE RegenerationInv'
<1> DEFINE found == fetch_latest_forecast(CurrentHorizon(r))
<1>1. /\ run[r] \in RunStates /\ run \in [Runners -> RunStates] /\ BriefType /\ TypeOK
      /\ LatestExist /\ Progress(r) /\ run[r].pc = "forecasting"
  BY DEF BriefTypeInv, BriefType, TypeOK, ReadCache, Progress
<1>2. CurrentHorizon(r) \in HorizonSet /\ CurrentHorizon(r) = Horizons[run[r].step]
  BY <1>1, CurrentHorizonType DEF CurrentHorizon
<1>3. UNCHANGED <<today, cache, overlapped>> /\ today \in Nat
  BY <1>1, Constants DEF ReadCache, tables, counted, TypeOK, Days
<1>4. /\ found \in Nat
      /\ found # 0 => found \in ForecastIds(CurrentHorizon(r))
      /\ \A j \in ForecastIds(CurrentHorizon(r)) : found >= j
  BY <1>1, <1>2, LatestForecast
<1>. HIDE DEF found
<1>5. CASE Settle(r, found)
  <2>1. run'[r].pc # "synthesizing"
    BY <1>5, SettledMoves
  <2>2. Waits(run[r])'
    BY <2>1 DEF Waits
  <2>. QED BY <1>1, <1>3, <2>2, WaitStep
<1>6. CASE /\ ~(found # 0 /\ cache[found].validUntil > today)
           /\ Becomes(r, [run[r] EXCEPT !.pc = "synthesizing", !.found = found, !.asked = today])
  <2>1. run'[r].found = found /\ run'[r].asked = today /\ run'[r].step = run[r].step
    BY <1>1, <1>6 DEF Becomes, RunStates
  <2>2. found # 0 => cache[found].validUntil <= today
    <3>1. found # 0 => cache[found] \in ForecastRows
      BY <1>1, <1>4, IdsAreNumbers
    <3>. QED BY <1>3, <1>6, <3>1 DEF ForecastRows
  <2>3. Waits(run[r])'
    BY <1>2, <1>3, <1>4, <2>1, <2>2 DEF Waits, ForecastIds
  <2>. QED BY <1>1, <1>3, <2>3, WaitStep
<1>7. \/ Settle(r, found)
      \/ /\ ~(found # 0 /\ cache[found].validUntil > today)
         /\ Becomes(r, [run[r] EXCEPT !.pc = "synthesizing", !.found = found, !.asked = today])
  BY DEF ReadCache, found
<1>. QED BY <1>5, <1>6, <1>7

\* A forecast that is stored follows an expired one, unless its run was not alone.
LEMMA SaveForecastWaits ==
  ASSUME BriefTypeInv, Alone, ResolveInv, RegenerationInv, NEW r \in Runners, SaveForecast(r)
  PROVE  RegenerationInv'
<1> DEFINE new == Len(cache) + 1
<1> DEFINE h == CurrentHorizon(r)
<1>1. /\ TypeOK /\ run[r] \in RunStates /\ run \in [Runners -> RunStates] /\ Progress(r)
      /\ run[r].pc = "synthesizing" /\ run[r].found \in Nat /\ run[r].asked \in Nat
  <2>1. TypeOK /\ run[r] \in RunStates /\ run \in [Runners -> RunStates]
    BY DEF BriefTypeInv, BriefType, TypeOK
  <2>2. Progress(r) /\ run[r].pc = "synthesizing"
    BY DEF SaveForecast, Progress
  <2>3. run[r].found \in Nat /\ run[r].asked \in Nat
    BY <2>1, Constants DEF RunStates, Days
  <2>. QED BY <2>1, <2>2, <2>3
<1>2. /\ NewForecast(r) \in ForecastRows /\ cache' = Append(cache, NewForecast(r))
      /\ NewForecast(r).horizon = h /\ NewForecast(r).generated = today
      /\ NewForecast(r).by = run[r].id
  BY NewForecastType DEF NewForecast
<1>3. /\ Len(cache') = new /\ Len(cache) \in Nat /\ cache'[new] = NewForecast(r)
      /\ \A i \in 1..Len(cache) : cache'[i] = cache[i]
      /\ DOMAIN cache = 1..Len(cache) /\ DOMAIN cache' = 1..new
  <2>1. cache \in Seq(ForecastRows)
    BY <1>1 DEF TypeOK
  <2>2. /\ Len(cache') = new /\ Len(cache) \in Nat /\ cache'[new] = NewForecast(r)
        /\ \A i \in 1..Len(cache) : cache'[i] = cache[i]
        /\ cache' \in Seq(ForecastRows)
    BY <1>1, <1>2, CacheAfterSave
  <2>. QED BY <2>1, <2>2
<1>4. overlapped' = overlapped /\ \A q \in Runners : q # r => run'[q] = run[q]
  BY <1>1, RunStep
<1>5. run[r].id \notin overlapped =>
        /\ run[r].asked <= today
        /\ \A j \in ForecastIds(h) : run[r].found >= j
        /\ run[r].found # 0 => run[r].found \in ForecastIds(h)
        /\ run[r].found # 0 => cache[run[r].found].validUntil <= run[r].asked
  BY <1>1 DEF RegenerationInv, Waits, ResolveInv, Resolves, CurrentHorizon
<1>. HIDE DEF h
<1>6. RegeneratedOnlyWhenExpired'
  <2> SUFFICES ASSUME NEW i \in DOMAIN cache', NEW j \in DOMAIN cache', i < j,
                      cache'[i].horizon = cache'[j].horizon,
                      \A k \in (i + 1)..(j - 1) : cache'[k].horizon # cache'[j].horizon,
                      cache'[j].by \notin overlapped'
               PROVE  cache'[i].validUntil <= cache'[j].generated
    BY DEF RegeneratedOnlyWhenExpired
  <2>1. CASE j \in 1..Len(cache)
    <3>1. i \in 1..Len(cache) /\ \A k \in (i + 1)..(j - 1) : k \in 1..Len(cache)
      BY <1>3, <2>1
    <3>2. /\ cache[i].horizon = cache[j].horizon /\ cache[j].by \notin overlapped
          /\ \A k \in (i + 1)..(j - 1) : cache[k].horizon # cache[j].horizon
      BY <1>3, <1>4, <2>1, <3>1
    <3>3. cache[i].validUntil <= cache[j].generated
      BY <1>3, <2>1, <3>1, <3>2 DEF RegenerationInv, RegeneratedOnlyWhenExpired
    <3>. QED BY <1>3, <2>1, <3>1, <3>3
  <2>2. CASE j = new
    <3>1. i \in 1..Len(cache)
      BY <1>3, <2>2
    <3>2. run[r].id \notin overlapped /\ cache[i].horizon = h
      BY <1>2, <1>3, <1>4, <2>2, <3>1
    <3>3. i \in ForecastIds(h)
      BY <1>3, <3>1, <3>2 DEF ForecastIds
    <3>4. run[r].found >= i /\ run[r].found # 0 /\ run[r].found \in ForecastIds(h)
      BY <1>1, <1>5, <3>1, <3>2, <3>3
    <3>5. run[r].found \in 1..Len(cache) /\ cache[run[r].found].horizon = h
      BY <1>1, <3>4, IdsAreNumbers
    <3>6. run[r].found = i
      <4>1. CASE run[r].found > i
        <5>1. run[r].found \in (i + 1)..(new - 1)
          BY <1>1, <1>3, <3>1, <3>5, <4>1
        <5>2. cache'[run[r].found].horizon # h
          BY <1>2, <1>3, <2>2, <5>1
        <5>. QED BY <1>3, <3>5, <5>2
      <4>. QED BY <1>1, <3>1, <3>4, <4>1
    <3>7. cache[i].validUntil <= run[r].asked /\ run[r].asked <= today
      BY <1>5, <3>2, <3>4, <3>6
    <3>8. cache[i] \in ForecastRows /\ today \in Nat
      BY <1>1, <3>1, Constants DEF TypeOK, Days
    <3>9. cache[i].validUntil \in Nat
      BY <3>8 DEF ForecastRows
    <3>. QED BY <1>1, <1>2, <1>3, <2>2, <3>1, <3>7, <3>8, <3>9
  <2>. QED BY <1>3, <2>1, <2>2
<1>7. Waits(run[r])'
  <2>1. run'[r].pc # "synthesizing"
    BY SettledMoves DEF SaveForecast
  <2>. QED BY <2>1 DEF Waits
<1>8. ASSUME NEW q \in Runners, q # r PROVE Waits(run[q])'
  <2>1. Busy(q) => run[q].id \in overlapped
    BY <1>1, <1>8 DEF Alone, Busy
  <2>. QED BY <1>4, <1>8, <2>1 DEF Waits, Busy
<1>. QED BY <1>6, <1>7, <1>8 DEF RegenerationInv

\* Every step keeps the regeneration rule.
LEMMA RegenerationStep ==
  ASSUME BriefTypeInv, Alone, ResolveInv, RegenerationInv, [Next]_vars PROVE RegenerationInv'
<1>1. ASSUME NEW r \in Runners, StartRun(r) PROVE RegenerationInv'
  <2>1. UNCHANGED <<cache, today>> /\ overlapped \subseteq overlapped'
    BY <1>1, StartStep DEF tables
  <2>2. \A q \in Runners : Waits(run[q])'
    BY <1>1, <2>1, StartStep DEF RegenerationInv, Waits, ForecastIds
  <2>. QED BY <2>1, <2>2 DEF RegenerationInv, RegeneratedOnlyWhenExpired
<1>2. ASSUME NEW r \in Runners, Progress(r) \/ Crash(r), ~ReadCache(r), ~SaveForecast(r)
      PROVE  RegenerationInv'
  <2>1. run[r] \in RunStates /\ run \in [Runners -> RunStates]
    BY DEF BriefTypeInv, BriefType, TypeOK
  <2>2. cache' = cache
    BY <1>2 DEF Progress, SynthesisFails, HorizonFails, SaveBacktest, BacktestFails, SaveBrief,
                SaveBriefFails, Deliver, DeliverFails, MarkDelivery, MarkDeliveryFails, Crash,
                tables
  <2>3. run'[r].pc # "synthesizing"
    <3>1. CASE SynthesisFails(r) \/ HorizonFails(r)
      BY <3>1, SettledMoves DEF SynthesisFails, HorizonFails
    <3>2. CASE SaveBacktest(r)
      BY <3>2, BacktestRun
    <3>3. CASE BacktestFails(r) \/ SaveBrief(r) \/ SaveBriefFails(r)
      BY <2>1, <3>3 DEF BacktestFails, SaveBrief, SaveBriefFails, Becomes, RunStates
    <3>4. CASE Deliver(r) \/ DeliverFails(r)
      <4>1. run'[r].pc = AfterChannel(run[r].pc)
        BY <2>1, <3>4 DEF Deliver, DeliverFails, Becomes, RunStates
      <4>. QED BY <4>1 DEF AfterChannel
    <3>5. CASE MarkDelivery(r) \/ MarkDeliveryFails(r) \/ Crash(r)
      <4>1. run'[r] = Idle
        BY <2>1, <3>5 DEF MarkDelivery, MarkDeliveryFails, Crash, Becomes
      <4>. QED BY <4>1 DEF Idle
    <3>. QED BY <1>2, <3>1, <3>2, <3>3, <3>4, <3>5 DEF Progress
  <2>4. Waits(run[r])'
    BY <2>3 DEF Waits
  <2>. QED BY <1>2, <2>2, <2>4, WaitStep
<1>3. CASE NextDay
  <2>1. UNCHANGED <<cache, run, overlapped>> /\ today' = today + 1 /\ today \in Nat
    BY <1>3, Constants DEF NextDay, tables, counted, BriefTypeInv, BriefType, TypeOK, Days
  <2>2. \A r \in Runners : run[r].asked \in Nat
    BY Constants DEF BriefTypeInv, BriefType, TypeOK, RunStates, Days
  <2>3. \A r \in Runners : Waits(run[r])'
    BY <2>1, <2>2 DEF RegenerationInv, Waits, ForecastIds
  <2>. QED BY <2>1, <2>3 DEF RegenerationInv, RegeneratedOnlyWhenExpired
<1>4. CASE UNCHANGED vars
  BY <1>4 DEF vars, tables, RegenerationInv, RegeneratedOnlyWhenExpired, Waits, ForecastIds
<1>. QED BY <1>1, <1>2, <1>3, <1>4, ReadCacheWaits, SaveForecastWaits DEF Next, GateClosed

\* A run that is alone makes a forecast anew only once the newest one of its horizon
\* has expired, for any intervals and failures (get_or_refresh_forecast).
THEOREM RegenerationCorrect == Spec => []RegeneratedOnlyWhenExpired
<1>1. Init => BriefTypeInv /\ Alone /\ ResolveInv /\ RegenerationInv
  <2> SUFFICES ASSUME Init PROVE BriefTypeInv /\ Alone /\ ResolveInv /\ RegenerationInv
    OBVIOUS
  <2>1. DOMAIN cache \subseteq {1}
    BY Constants DEF Init
  <2>2. RegeneratedOnlyWhenExpired
    BY <2>1 DEF RegeneratedOnlyWhenExpired
  <2>3. Alone /\ ResolveInv /\ \A r \in Runners : Waits(run[r])
    BY DEF Init, Idle, NoForecasts, Alone, Busy, ResolveInv, BriefsResolve, Resolves, Waits
  <2>. QED BY <2>2, <2>3, InitType DEF RegenerationInv
<1>2. /\ BriefTypeInv /\ Alone /\ ResolveInv /\ RegenerationInv /\ [Next]_vars
      => BriefTypeInv' /\ Alone' /\ ResolveInv' /\ RegenerationInv'
  BY StepType, AloneStep, ResolvesStep, RegenerationStep
<1>3. RegenerationInv => RegeneratedOnlyWhenExpired
  BY DEF RegenerationInv
<1>. QED BY <1>1, <1>2, <1>3, PTL DEF Spec

-----------------------------------------------------------------------------
(* Forecasts from one day to the next.                                     *)

\* A run that is alone is no earlier than the rows of runs that were, and what it has
\* collected is no older than what the rows of earlier days quote.
Forward(s) ==
  s.pc # "idle" /\ s.id \notin overlapped =>
    \A a \in briefs : a.by \notin overlapped =>
      /\ a.date <= s.date
      /\ a.date < s.date =>
           \A h \in HorizonSet : s.forecasts[h] # 0 => a.forecasts[h] <= s.forecasts[h]

\* Runs and rows are of today or before.
NotAhead ==
  /\ \A b \in briefs : b.date <= today
  /\ \A r \in Runners : Busy(r) => run[r].date <= today

ForwardInv ==
  /\ NotAhead
  /\ ForecastsMoveForward
  /\ \A r \in Runners : Forward(run[r])

\* A step of a run that keeps its own state moving forward, and writes no row but its own.
LEMMA ForwardStep ==
  ASSUME BriefTypeInv, Alone, ForwardInv, BriefTypeInv', NEW r \in Runners, Progress(r) \/ Crash(r),
         \A b \in briefs' :
           \/ \E a \in briefs : a.by = b.by /\ a.date = b.date /\ a.forecasts = b.forecasts
           \/ b.by = run[r].id /\ b.date = run[r].date /\ b.forecasts = run[r].forecasts,
         Forward(run[r])'
  PROVE  ForwardInv'
<1>1. /\ Busy(r) /\ overlapped' = overlapped /\ today' = today
      /\ run'[r] = Idle \/ (run'[r].id = run[r].id /\ run'[r].date = run[r].date)
      /\ \A q \in Runners : q # r => run'[q] = run[q]
  BY RunStep
<1>2. /\ \A b \in briefs : b.date \in Nat /\ b.forecasts \in [HorizonSet -> Nat]
      /\ \A b \in briefs' : b.date \in Nat /\ b.forecasts \in [HorizonSet -> Nat]
      /\ run[r].date \in Nat
  <2>1. /\ briefs \subseteq BriefRows /\ briefs' \subseteq BriefRows
        /\ run[r] \in RunStates /\ Days \subseteq Nat
    BY Constants DEF BriefTypeInv, BriefType, TypeOK, Days
  <2>2. \A b \in BriefRows : b.date \in Nat /\ b.forecasts \in [HorizonSet -> Nat]
    BY <2>1 DEF BriefRows
  <2>. QED BY <2>1, <2>2 DEF RunStates
<1>3. NotAhead'
  <2>1. run[r].date <= today
    BY <1>1 DEF ForwardInv, NotAhead
  <2>2. \A b \in briefs' : b.date <= today
    BY <2>1 DEF ForwardInv, NotAhead
  <2>3. ASSUME NEW q \in Runners, Busy(q)' PROVE run'[q].date <= today
    <3>1. CASE q = r
      BY <1>1, <2>1, <2>3, <3>1 DEF Busy, Idle
    <3>2. CASE q # r
      BY <1>1, <2>3, <3>2 DEF ForwardInv, NotAhead, Busy
    <3>. QED BY <3>1, <3>2
  <2>. QED BY <1>1, <2>2, <2>3 DEF NotAhead
<1>4. ASSUME NEW q \in Runners, q # r PROVE Forward(run[q])'
  <2>1. Busy(q) => {run[q].id, run[r].id} \subseteq overlapped
    BY <1>1, <1>4 DEF Alone
  <2>2. Forward(run[q])
    BY DEF ForwardInv
  <2>3. run'[q] = run[q]
    BY <1>1, <1>4
  <2>. QED BY <1>1, <2>1, <2>2, <2>3 DEF Forward, Busy
<1>5. Forward(run[r]) /\ run[r].pc # "idle"
  BY <1>1 DEF ForwardInv, Busy
<1>6. ForecastsMoveForward'
  <2> SUFFICES ASSUME NEW a \in briefs', NEW b \in briefs', a.date < b.date,
                      {a.by, b.by} \cap overlapped' = {},
                      NEW h \in HorizonSet, b.forecasts[h] # 0
               PROVE  a.forecasts[h] <= b.forecasts[h]
    BY DEF ForecastsMoveForward
  <2>0. a.by \notin overlapped /\ b.by \notin overlapped
    BY <1>1
  <2>1. CASE /\ \E x \in briefs : x.by = a.by /\ x.date = a.date /\ x.forecasts = a.forecasts
             /\ \E y \in briefs : y.by = b.by /\ y.date = b.date /\ y.forecasts = b.forecasts
    BY <2>0, <2>1 DEF ForwardInv, ForecastsMoveForward
  <2>2. CASE /\ \E x \in briefs : x.by = a.by /\ x.date = a.date /\ x.forecasts = a.forecasts
             /\ b.by = run[r].id /\ b.date = run[r].date /\ b.forecasts = run[r].forecasts
    BY <1>5, <2>0, <2>2 DEF Forward
  <2>3. CASE /\ a.by = run[r].id /\ a.date = run[r].date /\ a.forecasts = run[r].forecasts
             /\ \E y \in briefs : y.by = b.by /\ y.date = b.date /\ y.forecasts = b.forecasts
    <3>1. b.date <= a.date
      BY <1>5, <2>0, <2>3 DEF Forward
    <3>. QED BY <1>2, <3>1
  <2>4. CASE a.date = run[r].date /\ b.date = run[r].date
    BY <1>2, <2>4
  <2>. QED BY <2>1, <2>2, <2>3, <2>4
<1>. QED BY <1>3, <1>4, <1>6 DEF ForwardInv

\* Steps that neither settle a horizon nor write a row of their own.
LEMMA StageForward ==
  ASSUME BriefTypeInv, Alone, ForwardInv, BriefTypeInv', NEW r \in Runners, Progress(r) \/ Crash(r),
         \A b \in briefs' :
           \/ \E a \in briefs : a.by = b.by /\ a.date = b.date /\ a.forecasts = b.forecasts
           \/ b.by = run[r].id /\ b.date = run[r].date /\ b.forecasts = run[r].forecasts,
         \/ run'[r] = Idle
         \/ run'[r].forecasts = run[r].forecasts
  PROVE  ForwardInv'
<1>1. /\ Busy(r) /\ overlapped' = overlapped
      /\ run'[r] = Idle \/ (run'[r].id = run[r].id /\ run'[r].date = run[r].date)
  BY RunStep
<1>2. Forward(run[r]) /\ run[r].pc # "idle"
  BY <1>1 DEF ForwardInv, Busy
<1>3. run[r].date \in Nat /\ \A h \in HorizonSet : run[r].forecasts[h] \in Nat
  <2>1. run[r] \in RunStates /\ Days \subseteq Nat
    BY Constants DEF BriefTypeInv, BriefType, TypeOK, Days
  <2>. QED BY <2>1 DEF RunStates
<1>4. CASE run'[r] = Idle
  <2>1. Forward(run[r])'
    BY <1>4 DEF Forward, Idle
  <2>. QED BY <2>1, ForwardStep
<1>5. CASE /\ run'[r].id = run[r].id /\ run'[r].date = run[r].date
           /\ run'[r].forecasts = run[r].forecasts
  <2>1. Forward(run[r])'
    BY <1>1, <1>2, <1>3, <1>5 DEF Forward
  <2>. QED BY <2>1, ForwardStep
<1>. QED BY <1>1, <1>4, <1>5

\* A horizon is settled with nothing, or with a forecast no older than any of its own.
LEMMA SettleForward ==
  ASSUME BriefTypeInv, Alone, ResolveInv, ForwardInv, BriefTypeInv', NEW r \in Runners, Progress(r),
         NEW id \in Nat, Settle(r, id), run[r].pc \in {"forecasting", "synthesizing"},
         briefs' = briefs,
         NEW now, now = CurrentHorizon(r),
         id # 0 /\ run[r].id \notin overlapped => \A j \in ForecastIds(now) : j <= id
  PROVE  ForwardInv'
<1>1. run[r] \in RunStates /\ run \in [Runners -> RunStates] /\ BriefType /\ briefs \subseteq BriefRows
  BY DEF BriefTypeInv, BriefType, TypeOK
<1>2. /\ run'[r].id = run[r].id /\ run'[r].date = run[r].date
      /\ run'[r].forecasts = [run[r].forecasts EXCEPT ![now] = id]
  BY <1>1 DEF Settle, Becomes, RunStates
<1>3. overlapped' = overlapped /\ run[r].pc # "idle"
  BY RunStep DEF Busy
<1>4. now \in HorizonSet /\ run[r].forecasts \in [HorizonSet -> Nat]
  BY <1>1, CurrentHorizonType DEF RunStates
<1>5. Forward(run[r])'
  <2> SUFFICES ASSUME run[r].id \notin overlapped, NEW a \in briefs, a.by \notin overlapped
               PROVE  /\ a.date <= run[r].date
                      /\ a.date < run[r].date =>
                           \A h \in HorizonSet : run'[r].forecasts[h] # 0 =>
                             a.forecasts[h] <= run'[r].forecasts[h]
    BY <1>2, <1>3 DEF Forward
  <2>1. Forward(run[r])
    BY DEF ForwardInv
  <2>2. a.date <= run[r].date
    BY <1>3, <2>1 DEF Forward
  <2>3. ASSUME a.date < run[r].date, NEW h \in HorizonSet, run'[r].forecasts[h] # 0
        PROVE  a.forecasts[h] <= run'[r].forecasts[h]
    <3>1. CASE h = now
      <4>1. run'[r].forecasts[h] = id
        BY <1>2, <1>4, <3>1
      <4>2. a.forecasts[h] # 0 => a.forecasts[h] \in ForecastIds(now)
        BY <3>1 DEF ResolveInv, BriefsResolve
      <4>3. a.forecasts[h] \in Nat
        BY <1>1 DEF BriefRows
      <4>. QED BY <2>3, <4>1, <4>2, <4>3
    <3>2. CASE h # now
      <4>1. run'[r].forecasts[h] = run[r].forecasts[h]
        BY <1>2, <1>4, <3>2
      <4>. QED BY <1>3, <2>1, <2>3, <4>1 DEF Forward
    <3>. QED BY <3>1, <3>2
  <2>. QED BY <2>2, <2>3
<1>. QED BY <1>5, ForwardStep

\* The steps at a horizon.
LEMMA HorizonForward ==
  ASSUME BriefTypeInv, Alone, ResolveInv, RegenerationInv, ForwardInv, BriefTypeInv', NEW r \in Runners,
         ReadCache(r) \/ SaveForecast(r) \/ SynthesisFails(r) \/ HorizonFails(r)
  PROVE  ForwardInv'
<1>1. /\ TypeOK /\ BriefType /\ LatestExist /\ Progress(r) /\ briefs' = briefs
      /\ run[r] \in RunStates /\ run \in [Runners -> RunStates]
      /\ run[r].pc \in {"forecasting", "synthesizing"}
  <2>1. /\ TypeOK /\ BriefType /\ LatestExist
        /\ run[r] \in RunStates /\ run \in [Runners -> RunStates]
    BY DEF BriefTypeInv, BriefType, TypeOK
  <2>2. Progress(r) /\ briefs' = briefs /\ run[r].pc \in {"forecasting", "synthesizing"}
    BY DEF Progress, ReadCache, SaveForecast, SynthesisFails, HorizonFails, tables
  <2>. QED BY <2>1, <2>2
<1>2. PICK now : now = CurrentHorizon(r)
  OBVIOUS
<1>3. now \in HorizonSet /\ now = Horizons[run[r].step]
  BY <1>1, <1>2, CurrentHorizonType DEF CurrentHorizon
<1>4. \A j \in ForecastIds(now) : j \in Nat /\ j <= Len(cache)
  <2>1. \A j \in ForecastIds(now) : j \in 1..Len(cache)
    BY <1>1, IdsAreNumbers
  <2>. QED BY <2>1
<1>5. CASE ReadCache(r)
  <2>1. PICK found : found = fetch_latest_forecast(now)
    OBVIOUS
  <2>2. found \in Nat /\ \A j \in ForecastIds(now) : found >= j
    BY <1>1, <1>3, <2>1, LatestForecast
  <2>3. CASE Settle(r, found)
    BY <1>1, <1>2, <1>4, <2>2, <2>3, SettleForward
  <2>4. CASE Becomes(r, [run[r] EXCEPT !.pc = "synthesizing", !.found = found, !.asked = today])
    <3>1. run'[r].forecasts = run[r].forecasts
      BY <1>1, <2>4 DEF Becomes, RunStates
    <3>. QED BY <1>1, <3>1, StageForward
  <2>. QED BY <1>2, <1>5, <2>1, <2>3, <2>4 DEF ReadCache
<1>6. CASE SaveForecast(r)
  <2>1. Len(cache) + 1 \in Nat /\ Settle(r, Len(cache) + 1)
    BY <1>1, <1>6 DEF SaveForecast, TypeOK
  <2>2. \A j \in ForecastIds(now) : j <= Len(cache) + 1
    BY <1>1, <1>4 DEF TypeOK
  <2>. QED BY <1>1, <1>2, <2>1, <2>2, SettleForward
<1>7. CASE SynthesisFails(r)
  <2>1. Settle(r, run[r].found) /\ run[r].pc = "synthesizing" /\ run[r].found \in Nat
    BY <1>1, <1>7 DEF SynthesisFails, RunStates
  <2>2. run[r].id \notin overlapped => \A j \in ForecastIds(now) : run[r].found >= j
    BY <1>3, <2>1 DEF RegenerationInv, Waits
  <2>. QED BY <1>1, <1>2, <1>4, <2>1, <2>2, SettleForward
<1>8. CASE HorizonFails(r)
  <2>1. Settle(r, 0)
    BY <1>8 DEF HorizonFails
  <2>. QED BY <1>1, <1>2, <2>1, SettleForward
<1>. QED BY <1>5, <1>6, <1>7, <1>8

\* Every step keeps the forecasts moving forward.
LEMMA ForwardKept ==
  ASSUME BriefTypeInv, Alone, ResolveInv, RegenerationInv, ForwardInv, [Next]_vars PROVE ForwardInv'
<1>0. BriefTypeInv'
  BY StepType
<1>1. ASSUME NEW r \in Runners, StartRun(r) PROVE ForwardInv'
  <2>1. /\ UNCHANGED <<today, briefs>> /\ overlapped \subseteq overlapped'
        /\ run'[r].forecasts = NoForecasts
        /\ \A q \in Runners : q # r => run'[q] = run[q]
    BY <1>1, StartStep DEF tables
  <2>2. run'[r].date = today /\ today \in Nat
    BY <1>1, Constants
       DEF StartRun, Becomes, Idle, BriefTypeInv, BriefType, TypeOK, Days
  <2>3. NotAhead'
    BY <2>1, <2>2 DEF ForwardInv, NotAhead, Busy
  <2>4. ForecastsMoveForward'
    BY <2>1 DEF ForwardInv, ForecastsMoveForward
  <2>5. Forward(run[r])'
    <3>1. \A h \in HorizonSet : run'[r].forecasts[h] = 0
      BY <2>1 DEF NoForecasts
    <3>. QED BY <2>1, <2>2, <3>1 DEF ForwardInv, NotAhead, Forward
  <2>6. ASSUME NEW q \in Runners, q # r PROVE Forward(run[q])'
    <3>1. run'[q] = run[q] /\ Forward(run[q])
      BY <2>1, <2>6 DEF ForwardInv
    <3>. QED BY <2>1, <3>1 DEF Forward
  <2>. QED BY <2>3, <2>4, <2>5, <2>6 DEF ForwardInv
<1>2. ASSUME NEW r \in Runners, Progress(r) \/ Crash(r),
             ~(ReadCache(r) \/ SaveForecast(r) \/ SynthesisFails(r) \/ HorizonFails(r))
      PROVE  ForwardInv'
  <2>1. run[r] \in RunStates /\ run \in [Runners -> RunStates] /\ briefs \subseteq BriefRows
    BY DEF BriefTypeInv, BriefType, TypeOK
  <2>2. CASE SaveBacktest(r)
    <3>1. briefs' = briefs /\ run'[r].forecasts = run[r].forecasts
      BY <2>1, <2>2 DEF SaveBacktest, Becomes, RunStates
    <3>. QED BY <1>0, <1>2, <3>1, StageForward
  <2>3. CASE BacktestFails(r) \/ SaveBriefFails(r) \/ Deliver(r) \/ DeliverFails(r)
    <3>1. briefs' = briefs /\ run'[r].forecasts = run[r].forecasts
      BY <2>1, <2>3 DEF BacktestFails, SaveBriefFails, Deliver, DeliverFails, Becomes, RunStates,
                        tables
    <3>. QED BY <1>0, <1>2, <3>1, StageForward
  <2>4. CASE SaveBrief(r)
    <3>1. run'[r].forecasts = run[r].forecasts
      BY <2>1, <2>4 DEF SaveBrief, Becomes, RunStates
    <3>2. \A b \in briefs' :
            b \in briefs \/ (b.by = run[r].id /\ b.date = run[r].date /\ b.forecasts = run[r].forecasts)
      BY <2>4 DEF SaveBrief, OtherBriefs
    <3>. QED BY <1>0, <1>2, <3>1, <3>2, StageForward
  <2>5. CASE MarkDeliveryFails(r) \/ Crash(r)
    <3>1. briefs' = briefs /\ run'[r] = Idle
      BY <2>1, <2>5 DEF MarkDeliveryFails, Crash, Becomes, tables
    <3>. QED BY <1>0, <1>2, <3>1, StageForward
  <2>6. CASE MarkDelivery(r)
    <3>1. run'[r] = Idle
      BY <2>1, <2>6 DEF MarkDelivery, Becomes
    <3>2. ASSUME NEW b \in briefs'
          PROVE  \E a \in briefs : a.by = b.by /\ a.date = b.date /\ a.forecasts = b.forecasts
      <4>1. PICK a \in briefs : b = IF a.date \in run[r].saved
                                    THEN [a EXCEPT !.flags = run[r].sent] ELSE a
        BY <2>6 DEF MarkDelivery
      <4>2. a \in BriefRows
        BY <2>1
      <4>. QED BY <4>1, <4>2 DEF BriefRows
    <3>. QED BY <1>0, <1>2, <3>1, <3>2, StageForward
  <2>. QED BY <1>2, <2>2, <2>3, <2>4, <2>5, <2>6 DEF Progress
<1>3. CASE NextDay
  <2>1. UNCHANGED <<briefs, run, overlapped>> /\ today' = today + 1 /\ today \in Nat
    BY <1>3, Constants DEF NextDay, tables, counted, BriefTypeInv, BriefType, TypeOK, Days
  <2>2. /\ \A b \in briefs : b.date \in Nat
        /\ \A r \in Runners : run[r].date \in Nat
    <3>1. briefs \subseteq BriefRows /\ run \in [Runners -> RunStates] /\ Days \subseteq Nat
      BY Constants DEF BriefTypeInv, BriefType, TypeOK, Days
    <3>2. /\ \A b \in BriefRows : b.date \in Days
          /\ \A s \in RunStates : s.date \in Days
      BY DEF BriefRows, RunStates
    <3>. QED BY <3>1, <3>2
  <2>3. NotAhead'
    BY <2>1, <2>2 DEF ForwardInv, NotAhead, Busy
  <2>4. ForecastsMoveForward' /\ \A r \in Runners : Forward(run[r])'
    BY <2>1 DEF ForwardInv, ForecastsMoveForward, Forward
  <2>. QED BY <2>3, <2>4 DEF ForwardInv
<1>4. CASE UNCHANGED vars
  BY <1>4 DEF vars, tables, ForwardInv, NotAhead, ForecastsMoveForward, Forward, Busy
<1>. QED BY <1>0, <1>1, <1>2, <1>3, <1>4, HorizonForward DEF Next, GateClosed, Progress

\* From one day to a later one a brief never quotes an older forecast of a horizon,
\* whatever failed in between, for any horizons, intervals and runs that are each alone
\* (get_or_refresh_forecast, fetch_latest_forecast).
THEOREM ForwardCorrect == Spec => []ForecastsMoveForward
<1>1. Init => BriefTypeInv /\ Alone /\ ResolveInv /\ RegenerationInv /\ ForwardInv
  <2> SUFFICES ASSUME Init
               PROVE  BriefTypeInv /\ Alone /\ ResolveInv /\ RegenerationInv /\ ForwardInv
    OBVIOUS
  <2>1. DOMAIN cache \subseteq {1}
    BY Constants DEF Init
  <2>2. RegeneratedOnlyWhenExpired
    BY <2>1 DEF RegeneratedOnlyWhenExpired
  <2>3. Alone /\ ResolveInv /\ \A r \in Runners : Waits(run[r])
    BY DEF Init, Idle, NoForecasts, Alone, Busy, ResolveInv, BriefsResolve, Resolves, Waits
  <2>4. ForwardInv
    BY DEF Init, Idle, ForwardInv, NotAhead, Busy, ForecastsMoveForward, Forward
  <2>. QED BY <2>2, <2>3, <2>4, InitType DEF RegenerationInv
<1>2. /\ BriefTypeInv /\ Alone /\ ResolveInv /\ RegenerationInv /\ ForwardInv /\ [Next]_vars
      => BriefTypeInv' /\ Alone' /\ ResolveInv' /\ RegenerationInv' /\ ForwardInv'
  BY StepType, AloneStep, ResolvesStep, RegenerationStep, ForwardKept
<1>3. ForwardInv => ForecastsMoveForward
  BY DEF ForwardInv
<1>. QED BY <1>1, <1>2, <1>3, PTL DEF Spec

-----------------------------------------------------------------------------
(* Both channels are tried.                                                *)

\* A run that is past a channel has tried it.
Tried(s) ==
  /\ s.pc \in {"email", "marking"} => <<s.id, "slack">> \in attempted
  /\ s.pc = "marking" => <<s.id, "email">> \in attempted

DeliveryInv == DeliveryAttempted /\ \A r \in Runners : Tried(run[r])

\* A step of a run that forgets no attempt, and ends only after both or in a crash.
LEMMA TriedStep ==
  ASSUME BriefTypeInv, DeliveryInv, NEW r \in Runners, Progress(r) \/ Crash(r),
         attempted \subseteq attempted', died \subseteq died',
         \/ Tried(run[r])' /\ run'[r].pc # "idle"
         \/ run'[r] = Idle /\ run[r].pc = "marking"
         \/ run'[r] = Idle /\ run[r].id \in died'
  PROVE  DeliveryInv'
<1>1. /\ runs' = runs /\ Busy(r)
      /\ run'[r] = Idle \/ run'[r].id = run[r].id
      /\ \A q \in Runners : q # r => run'[q] = run[q]
  BY RunStep
<1>2. ASSUME NEW q \in Runners PROVE Tried(run[q])'
  <2>1. CASE q = r
    BY <2>1 DEF Tried, Idle
  <2>2. CASE q # r
    BY <1>1, <2>2 DEF DeliveryInv, Tried
  <2>. QED BY <2>1, <2>2
<1>3. ASSUME NEW n \in 1..runs
      PROVE  \/ n \in died' \/ \E q \in Runners : Busy(q)' /\ run'[q].id = n
             \/ {n} \X Channels \subseteq attempted'
  <2>1. CASE n \in died \/ {n} \X Channels \subseteq attempted
    BY <2>1
  <2>2. ASSUME NEW q \in Runners, Busy(q), run[q].id = n, q # r
        PROVE  \E p \in Runners : Busy(p)' /\ run'[p].id = n
    BY <1>1, <2>2 DEF Busy
  <2>3. CASE run[r].id = n
    <3>1. CASE run'[r].pc # "idle"
      BY <1>1, <2>3, <3>1 DEF Busy, Idle
    <3>2. CASE run[r].pc = "marking"
      <4>1. \A channel \in Channels : <<n, channel>> \in attempted
        BY <2>3, <3>2 DEF DeliveryInv, Tried, Channels
      <4>2. \A x \in {n} \X Channels : x \in attempted
        BY <4>1
      <4>. QED BY <4>2
    <3>. QED BY <2>3, <3>1, <3>2
  <2>. QED BY <2>1, <2>2, <2>3 DEF DeliveryInv, DeliveryAttempted
<1>. QED BY <1>1, <1>2, <1>3 DEF DeliveryInv, DeliveryAttempted

\* Every step keeps the attempts.
LEMMA DeliveryKept ==
  ASSUME BriefTypeInv, DeliveryInv, [Next]_vars PROVE DeliveryInv'
<1>1. ASSUME NEW r \in Runners, StartRun(r) PROVE DeliveryInv'
  <2>1. /\ UNCHANGED <<attempted, died>> /\ runs' = runs + 1 /\ runs \in Nat
        /\ ~Busy(r) /\ run'[r].pc = "forecasting"
        /\ \A q \in Runners : q # r => run'[q] = run[q]
    BY <1>1, StartStep DEF StartRun, outside, BriefTypeInv, BriefType, TypeOK
  <2>2. run'[r].id = runs + 1
    BY <1>1 DEF StartRun, Becomes, Idle, BriefTypeInv, BriefType, TypeOK
  <2>3. \A q \in Runners : Tried(run[q])'
    BY <2>1 DEF DeliveryInv, Tried
  <2>4. ASSUME NEW n \in 1..runs'
        PROVE  \/ n \in died \/ \E q \in Runners : Busy(q)' /\ run'[q].id = n
               \/ {n} \X Channels \subseteq attempted
    <3>1. CASE n = runs + 1
      BY <2>1, <2>2, <3>1 DEF Busy
    <3>2. CASE n \in 1..runs
      <4>1. \A q \in Runners : Busy(q) => q # r /\ run'[q] = run[q]
        BY <2>1
      <4>. QED BY <3>2, <4>1 DEF DeliveryInv, DeliveryAttempted, Busy
    <3>. QED BY <2>1, <3>1, <3>2
  <2>. QED BY <2>1, <2>3, <2>4 DEF DeliveryInv, DeliveryAttempted
<1>2. ASSUME NEW r \in Runners, Progress(r) \/ Crash(r) PROVE DeliveryInv'
  <2>1. run[r] \in RunStates /\ run \in [Runners -> RunStates] /\ BriefType
    BY DEF BriefTypeInv, BriefType, TypeOK
  <2>2. ASSUME NEW id, Settle(r, id)
        PROVE  run'[r].pc \in {"forecasting", "estimating"}
    <3>1. run'[r].pc = IF run[r].step < Len(Horizons) THEN "forecasting" ELSE "estimating"
      BY <2>1, <2>2 DEF Settle, Becomes, RunStates
    <3>. QED BY <3>1
  <2>3. CASE ReadCache(r)
    <3>1. attempted' = attempted /\ died' = died
      BY <2>3 DEF ReadCache, outside, counted
    <3>2. \/ Settle(r, fetch_latest_forecast(CurrentHorizon(r)))
          \/ Becomes(r, [run[r] EXCEPT !.pc = "synthesizing",
                           !.found = fetch_latest_forecast(CurrentHorizon(r)), !.asked = today])
      BY <2>3 DEF ReadCache
    <3>3. run'[r].pc \in {"forecasting", "estimating", "synthesizing"}
      BY <2>1, <2>2, <3>2 DEF Becomes, RunStates
    <3>. QED BY <1>2, <3>1, <3>3, TriedStep DEF Tried
  <2>4. CASE SaveForecast(r) \/ SynthesisFails(r) \/ HorizonFails(r)
    <3>1. attempted' = attempted /\ died' = died
      BY <2>4 DEF SaveForecast, SynthesisFails, HorizonFails, outside, counted, ghosts
    <3>2. run'[r].pc \in {"forecasting", "estimating"}
      BY <2>2, <2>4 DEF SaveForecast, SynthesisFails, HorizonFails
    <3>. QED BY <1>2, <3>1, <3>2, TriedStep DEF Tried
  <2>5. CASE SaveBacktest(r) \/ BacktestFails(r) \/ SaveBrief(r) \/ SaveBriefFails(r)
    <3>1. attempted' = attempted /\ died' = died
      BY <2>5 DEF SaveBacktest, BacktestFails, SaveBrief, SaveBriefFails, outside, counted, ghosts
    <3>2. run'[r].pc \in {"estimating", "saving", "slack"}
      <4>1. CASE SaveBacktest(r)
        <5>1. run'[r].pc = IF run[r].estimates + 1 < Backtests THEN "estimating" ELSE "saving"
          BY <2>1, <4>1 DEF SaveBacktest, Becomes, RunStates
        <5>. QED BY <5>1
      <4>2. CASE BacktestFails(r) \/ SaveBrief(r) \/ SaveBriefFails(r)
        BY <2>1, <4>2 DEF BacktestFails, SaveBrief, SaveBriefFails, Becomes, RunStates
      <4>. QED BY <2>5, <4>1, <4>2
    <3>. QED BY <1>2, <3>1, <3>2, TriedStep DEF Tried
  <2>6. CASE Deliver(r) \/ DeliverFails(r)
    <3>1. /\ attempted' = attempted \cup {<<run[r].id, run[r].pc>>} /\ died' = died
          /\ run[r].pc \in Channels
      BY <2>6 DEF Deliver, DeliverFails, counted, ghosts
    <3>2. run'[r].pc = AfterChannel(run[r].pc) /\ run'[r].id = run[r].id
      BY <2>1, <2>6 DEF Deliver, DeliverFails, Becomes, RunStates
    <3>3. Tried(run[r])' /\ run'[r].pc # "idle"
      BY <3>1, <3>2 DEF DeliveryInv, Tried, AfterChannel, Channels
    <3>. QED BY <1>2, <3>1, <3>3, TriedStep
  <2>7. CASE MarkDelivery(r) \/ MarkDeliveryFails(r)
    <3>1. attempted' = attempted /\ died' = died /\ run[r].pc = "marking"
      BY <2>7 DEF MarkDelivery, MarkDeliveryFails, outside, counted, ghosts
    <3>2. run'[r] = Idle
      BY <2>1, <2>7 DEF MarkDelivery, MarkDeliveryFails, Becomes
    <3>. QED BY <1>2, <3>1, <3>2, TriedStep
  <2>8. CASE Crash(r)
    <3>1. attempted' = attempted /\ died' = died \cup {run[r].id}
      BY <2>8 DEF Crash, outside
    <3>2. run'[r] = Idle
      BY <2>1, <2>8 DEF Crash, Becomes
    <3>. QED BY <1>2, <3>1, <3>2, TriedStep
  <2>. QED BY <1>2, <2>3, <2>4, <2>5, <2>6, <2>7, <2>8 DEF Progress
<1>3. CASE NextDay \/ UNCHANGED vars
  BY <1>3 DEF NextDay, vars, outside, counted, DeliveryInv, DeliveryAttempted, Tried, Busy
<1>. QED BY <1>1, <1>2, <1>3 DEF Next, GateClosed

\* A run that has ended has tried Slack and e-mail, whatever failed, unless the process
\* died (run_morning_brief's stages are guarded one by one).
THEOREM DeliveryCorrect == Spec => []DeliveryAttempted
<1>1. Init => BriefTypeInv /\ DeliveryInv
  <2> SUFFICES ASSUME Init PROVE BriefTypeInv /\ DeliveryInv
    OBVIOUS
  <2>1. 1..runs = {} /\ \A r \in Runners : run[r].pc = "idle"
    BY DEF Init, Idle
  <2>. QED BY <2>1, InitType DEF DeliveryInv, DeliveryAttempted, Tried
<1>2. BriefTypeInv /\ DeliveryInv /\ [Next]_vars => BriefTypeInv' /\ DeliveryInv'
  BY StepType, DeliveryKept
<1>3. DeliveryInv => DeliveryAttempted
  BY DEF DeliveryInv
<1>. QED BY <1>1, <1>2, <1>3, PTL DEF Spec

=============================================================================
