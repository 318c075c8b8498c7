----------------------------- MODULE MorningBrief -----------------------------
(***************************************************************************)
(* The Morning Brief (run_morning_brief in services/orchestrator/main.py)  *)
(* and the two tables it keeps: forecast_cache and morning_briefs          *)
(* (init-db/05-morning-briefs.sql).                                        *)
(*                                                                         *)
(* A run takes the day's date, has the price recap written, gets one       *)
(* forecast per horizon from the cache or, when that has expired, from the *)
(* model, stores the backtests it quotes, upserts the day's row, delivers  *)
(* on Slack and by e-mail and marks what was delivered.  Each database     *)
(* call is a transaction of its own.  Runs start at 07:00 in the           *)
(* orchestrator and on demand in the API process, where the JSON route     *)
(* runs beside everything else.                                            *)
(*                                                                         *)
(* What a brief says is the number of the run that composed it.  Days pass *)
(* at any time.                                                            *)
(***************************************************************************)
EXTENDS Integers, Sequences

CONSTANTS
  Runners,          \* who may run a brief, one at a time each
  Horizons,         \* MORNING_BRIEF_FORECAST_HORIZONS, in order
  RefreshInterval,  \* REFRESH_INTERVALS, in days
  Backtests,        \* how many backtests run_illustrative_backtests stores
  InitialCache,     \* forecast_cache when the model starts, stored by run 0
  MaxRuns,          \* bound: runs started
  MaxFailures,      \* bound: failures in a behaviour
  MaxDay            \* bound: the last day

HorizonSet == {Horizons[i] : i \in DOMAIN Horizons}

VARIABLES
  today,        \* the clock
  cache,        \* forecast_cache, in the order of generated_at; a row's id is its index
  simulations,  \* bess_simulation_runs labelled "morning_brief"
  briefs,       \* morning_briefs
  run,          \* the state of each runner
  runs,         \* runs started: the last one's number
  attempted,    \* deliveries attempted: <<run, channel>>
  delivered,    \* deliveries that arrived, whether or not the run knows
  died,         \* runs that ended in a crash
  overlapped,   \* runs during which another run was in progress
  failures      \* failures so far (only for MaxFailures)

tables == <<cache, simulations, briefs>>
outside == <<attempted, delivered>>
ghosts == <<runs, died, overlapped>>
counted == <<runs, died, overlapped, failures>>
vars == <<today, cache, simulations, briefs, run, runs, attempted, delivered, died,
          overlapped, failures>>

Days == 1..MaxDay
Channels == {"slack", "email"}

\* A row of forecast_cache, and (not in the code) the run that stored it.
ForecastRows == [horizon : HorizonSet, generated : Days, validUntil : Nat, by : Nat]

ASSUME BriefAssumption ==
  /\ Horizons \in Seq(HorizonSet) /\ Len(Horizons) > 0
  /\ RefreshInterval \in [HorizonSet -> Nat]
  /\ Backtests \in Nat \ {0}
  /\ {MaxRuns, MaxFailures} \subseteq Nat
  /\ MaxDay \in Nat \ {0}
  /\ InitialCache \in Seq(ForecastRows) /\ Len(InitialCache) <= 1

\* A row of morning_briefs; 0 is a forecast id that is NULL, flags are the *_sent
\* columns that are true.
BriefRows == [date : Days, by : Nat, forecasts : [HorizonSet -> Nat], estimates : 0..Backtests,
              flags : SUBSET Channels]

PCs == {"idle", "forecasting", "synthesizing", "estimating", "saving", "slack", "email",
        "marking"}

\* One run: its number and date, the loop over Horizons, the cached forecast it fell
\* back on and the time it looked, what it collected, the row it saved (brief_id),
\* and the channels that took the brief.
RunStates ==
  [pc : PCs, id : Nat, date : Days, step : 0..(Len(Horizons) + 1), found : Nat, asked : Days,
   forecasts : [HorizonSet -> Nat], estimates : 0..Backtests, saved : SUBSET Days,
   sent : SUBSET Channels]

NoForecasts == [h \in HorizonSet |-> 0]

Idle == [pc |-> "idle", id |-> 0, date |-> 1, step |-> 0, found |-> 0, asked |-> 1,
         forecasts |-> NoForecasts, estimates |-> 0, saved |-> {}, sent |-> {}]

TypeOK ==
  /\ today \in Days
  /\ cache \in Seq(ForecastRows)
  /\ simulations \subseteq Nat \X Nat
  /\ briefs \subseteq BriefRows
  /\ run \in [Runners -> RunStates]
  /\ runs \in Nat
  /\ attempted \subseteq Nat \X Channels
  /\ delivered \subseteq attempted
  /\ died \subseteq Nat
  /\ overlapped \subseteq Nat
  /\ failures \in Nat

Init ==
  /\ today = 1
  /\ cache = InitialCache
  /\ simulations = {}
  /\ briefs = {}
  /\ run = [r \in Runners |-> Idle]
  /\ runs = 0
  /\ attempted = {}
  /\ delivered = {}
  /\ died = {}
  /\ overlapped = {}
  /\ failures = 0

Busy(r) == run[r].pc # "idle"

Becomes(r, s) == run' = [run EXCEPT ![r] = s]

\* One of the failures the code handles.
Fails == failures < MaxFailures /\ failures' = failures + 1

-----------------------------------------------------------------------------
(* Composing the brief.                                                    *)

\* The date is taken and the recap written; without a recap the brief says so.
StartRun(r) ==
  /\ ~Busy(r)
  /\ runs < MaxRuns
  /\ runs' = runs + 1
  /\ Becomes(r, [Idle EXCEPT !.pc = "forecasting", !.id = runs + 1, !.date = today,
                             !.step = 1])
  /\ LET others == {q \in Runners : Busy(q)}
     IN  overlapped' = IF others = {} THEN overlapped
                       ELSE overlapped \cup {run[q].id : q \in others} \cup {runs + 1}
  /\ UNCHANGED <<today, tables, outside, died, failures>>

\* The ids of the forecasts cached for a horizon.
ForecastIds(h) == {i \in DOMAIN cache : cache[i].horizon = h}

\* Mutant of fetch_latest_forecast: the order is ascending.
FetchFirstForecast(h) ==
  IF ForecastIds(h) = {} THEN 0
  ELSE CHOOSE i \in ForecastIds(h) : \A j \in ForecastIds(h) : i <= j

\* fetch_latest_forecast; 0 is None.
fetch_latest_forecast(h) ==
  IF ForecastIds(h) = {} THEN 0
  ELSE CHOOSE i \in ForecastIds(h) : \A j \in ForecastIds(h) : i >= j

CurrentHorizon(r) == Horizons[run[r].step]

\* The horizon is settled with this forecast, and the loop goes on.
Settle(r, id) ==
  Becomes(r, [run[r] EXCEPT
    !.pc = IF run[r].step < Len(Horizons) THEN "forecasting" ELSE "estimating",
    !.step = run[r].step + 1, !.found = 0, !.asked = 1,
    !.forecasts = [run[r].forecasts EXCEPT ![CurrentHorizon(r)] = id]])

\* Mutant of ReadCache: a forecast is valid on the day it was made.
ReadCacheOfToday(r) ==
  /\ run[r].pc = "forecasting"
  /\ LET found == fetch_latest_forecast(CurrentHorizon(r))
     IN  IF found # 0 /\ cache[found].generated = today
         THEN Settle(r, found)
         ELSE Becomes(r, [run[r] EXCEPT !.pc = "synthesizing", !.found = found,
                                        !.asked = today])
  /\ UNCHANGED <<today, tables, outside, counted>>

\* get_or_refresh_forecast, up to the model call: a valid forecast is used as it is.
ReadCache(r) ==
  /\ run[r].pc = "forecasting"
  /\ LET found == fetch_latest_forecast(CurrentHorizon(r))
     IN  IF found # 0 /\ cache[found].validUntil > today
         THEN Settle(r, found)
         ELSE Becomes(r, [run[r] EXCEPT !.pc = "synthesizing", !.found = found,
                                        !.asked = today])
  /\ UNCHANGED <<today, tables, outside, counted>>

\* A fresh forecast is validated and stored.
SaveForecast(r) ==
  /\ run[r].pc = "synthesizing"
  /\ cache' = Append(cache,
                [horizon |-> CurrentHorizon(r), generated |-> today,
                 validUntil |-> run[r].asked + RefreshInterval[CurrentHorizon(r)],
                 by |-> run[r].id])
  /\ Settle(r, Len(cache) + 1)
  /\ UNCHANGED <<today, simulations, briefs, outside, counted>>

\* No valid forecast from the model: the cached one, expired or None.
SynthesisFails(r) ==
  /\ run[r].pc = "synthesizing"
  /\ Fails
  /\ Settle(r, run[r].found)
  /\ UNCHANGED <<today, tables, outside, ghosts>>

\* The database fails while the cache is read, the context built or the forecast
\* stored: the horizon goes without.
HorizonFails(r) ==
  /\ run[r].pc \in {"forecasting", "synthesizing"}
  /\ Fails
  /\ Settle(r, 0)
  /\ UNCHANGED <<today, tables, outside, ghosts>>

\* One of run_illustrative_backtests: computed, and stored by save_bess_run.
SaveBacktest(r) ==
  /\ run[r].pc = "estimating"
  /\ simulations' = simulations \cup {<<run[r].id, run[r].estimates + 1>>}
  /\ Becomes(r, [run[r] EXCEPT
       !.pc = IF run[r].estimates + 1 < Backtests THEN "estimating" ELSE "saving",
       !.estimates = run[r].estimates + 1])
  /\ UNCHANGED <<today, cache, briefs, outside, counted>>

\* Mutant of BacktestFails: what was computed so far is quoted.
QuotePartialBacktests(r) ==
  /\ run[r].pc = "estimating"
  /\ Fails
  /\ Becomes(r, [run[r] EXCEPT !.pc = "saving"])
  /\ UNCHANGED <<today, tables, outside, ghosts>>

\* A backtest or its save fails: no estimates are quoted, those stored remain.
BacktestFails(r) ==
  /\ run[r].pc = "estimating"
  /\ Fails
  /\ Becomes(r, [run[r] EXCEPT !.pc = "saving", !.estimates = 0])
  /\ UNCHANGED <<today, tables, outside, ghosts>>

-----------------------------------------------------------------------------
(* The day's row and the deliveries.                                       *)

OtherBriefs(day) == {b \in briefs : b.date # day}

\* Mutant of SaveBrief: the overwrite leaves the delivery flags alone.
SaveBriefKeepingFlags(r) ==
  /\ run[r].pc = "saving"
  /\ briefs' = OtherBriefs(run[r].date) \cup
               {[date |-> run[r].date, by |-> run[r].id, forecasts |-> run[r].forecasts,
                 estimates |-> run[r].estimates,
                 flags |-> UNION {b.flags : b \in briefs \ OtherBriefs(run[r].date)}]}
  /\ Becomes(r, [run[r] EXCEPT !.pc = "slack", !.saved = {run[r].date}])
  /\ UNCHANGED <<today, cache, simulations, outside, counted>>

\* save_morning_brief: insert, or overwrite the day's row and reset its flags.
SaveBrief(r) ==
  /\ run[r].pc = "saving"
  /\ briefs' = OtherBriefs(run[r].date) \cup
               {[date |-> run[r].date, by |-> run[r].id, forecasts |-> run[r].forecasts,
                 estimates |-> run[r].estimates, flags |-> {}]}
  /\ Becomes(r, [run[r] EXCEPT !.pc = "slack", !.saved = {run[r].date}])
  /\ UNCHANGED <<today, cache, simulations, outside, counted>>

\* Mutant of SaveBriefFails: the failure ends the run.
SaveBriefAborts(r) ==
  /\ run[r].pc = "saving"
  /\ Fails
  /\ Becomes(r, Idle)
  /\ UNCHANGED <<today, tables, outside, ghosts>>

\* The save fails and is logged: the brief is delivered without a row.
SaveBriefFails(r) ==
  /\ run[r].pc = "saving"
  /\ Fails
  /\ Becomes(r, [run[r] EXCEPT !.pc = "slack"])
  /\ UNCHANGED <<today, tables, outside, ghosts>>

AfterChannel(channel) == IF channel = "slack" THEN "email" ELSE "marking"

\* send_morning_brief_alert, then send_morning_brief_email.
Deliver(r) ==
  /\ run[r].pc \in Channels
  /\ attempted' = attempted \cup {<<run[r].id, run[r].pc>>}
  /\ delivered' = delivered \cup {<<run[r].id, run[r].pc>>}
  /\ Becomes(r, [run[r] EXCEPT !.pc = AfterChannel(run[r].pc),
                               !.sent = run[r].sent \cup {run[r].pc}])
  /\ UNCHANGED <<today, tables, counted>>

\* The channel is not configured or answers with an error, or its answer is lost
\* after the brief arrived.
DeliverFails(r) ==
  /\ run[r].pc \in Channels
  /\ Fails
  /\ attempted' = attempted \cup {<<run[r].id, run[r].pc>>}
  /\ \/ UNCHANGED delivered
     \/ delivered' = delivered \cup {<<run[r].id, run[r].pc>>}
  /\ Becomes(r, [run[r] EXCEPT !.pc = AfterChannel(run[r].pc)])
  /\ UNCHANGED <<today, tables, ghosts>>

\* mark_morning_brief_delivery on the saved row, if there is one; the run ends.
MarkDelivery(r) ==
  /\ run[r].pc = "marking"
  /\ briefs' = {IF b.date \in run[r].saved THEN [b EXCEPT !.flags = run[r].sent] ELSE b :
                b \in briefs}
  /\ Becomes(r, Idle)
  /\ UNCHANGED <<today, cache, simulations, outside, counted>>

\* Marking fails and is logged.
MarkDeliveryFails(r) ==
  /\ run[r].pc = "marking"
  /\ run[r].saved # {}
  /\ Fails
  /\ Becomes(r, Idle)
  /\ UNCHANGED <<today, tables, outside, ghosts>>

\* The process dies; nothing resumes the run.
Crash(r) ==
  /\ Busy(r)
  /\ Fails
  /\ died' = died \cup {run[r].id}
  /\ Becomes(r, Idle)
  /\ UNCHANGED <<today, tables, outside, runs, overlapped>>

NextDay ==
  /\ today < MaxDay
  /\ today' = today + 1
  /\ UNCHANGED <<tables, run, outside, counted>>

\* scheduled_morning_brief with automatic runs switched off: nothing happens.
GateClosed == UNCHANGED vars

\* A running brief's next step, successful or not.
Progress(r) ==
  \/ ReadCache(r) \/ SaveForecast(r) \/ SynthesisFails(r) \/ HorizonFails(r)
  \/ SaveBacktest(r) \/ BacktestFails(r) \/ SaveBrief(r) \/ SaveBriefFails(r)
  \/ Deliver(r) \/ DeliverFails(r) \/ MarkDelivery(r) \/ MarkDeliveryFails(r)

Next ==
  \/ \E r \in Runners : StartRun(r) \/ Progress(r) \/ Crash(r)
  \/ NextDay
  \/ GateClosed

Spec == Init /\ [][Next]_vars

-----------------------------------------------------------------------------

\* The flags tell the truth: a channel marked as sent got what the row says, not what
\* an earlier run of the day had put there (save_morning_brief: "reset to `false` on
\* overwrite since a re-run means the brief content changed and needs re-delivering").
\* Of rows whose run had the tables to itself.
FlagsAreTruthful ==
  \A b \in briefs : b.by \notin overlapped =>
    \A channel \in b.flags : <<b.by, channel>> \in delivered

\* A brief quotes a forecast of the horizon it is shown under, and all backtests of
\* its own run or none ("a partial list of runs is never silently returned as if it
\* were complete"), however many runs are in progress.
BriefsResolve ==
  \A b \in briefs :
    /\ \A h \in HorizonSet :
         b.forecasts[h] # 0 => b.forecasts[h] \in ForecastIds(h)
    /\ b.estimates \in {0, Backtests}
    /\ \A n \in 1..b.estimates : <<b.by, n>> \in simulations

\* A forecast costs a model call and is made anew only once the newest one of its
\* horizon has expired ("none regenerate daily"), by a run that is alone.
RegeneratedOnlyWhenExpired ==
  \A i, j \in DOMAIN cache :
    /\ i < j
    /\ cache[i].horizon = cache[j].horizon
    /\ \A k \in (i + 1)..(j - 1) : cache[k].horizon # cache[j].horizon
    /\ cache[j].by \notin overlapped
    => cache[i].validUntil <= cache[j].generated

\* From one day to a later one a horizon's forecast is never replaced by an older
\* one, whatever failed in between; the days' runs each being alone.
ForecastsMoveForward ==
  \A a, b \in briefs :
    /\ a.date < b.date
    /\ {a.by, b.by} \cap overlapped = {}
    => \A h \in HorizonSet : b.forecasts[h] # 0 => a.forecasts[h] <= b.forecasts[h]

\* A run that has ended has tried both channels, whatever stage failed ("one stage's
\* failure ... never blocks ... the other delivery channel"), unless the process died.
DeliveryAttempted ==
  \A n \in 1..runs :
    n \in died \/ (\E r \in Runners : Busy(r) /\ run[r].id = n) \/ {n} \X Channels \subseteq attempted
=============================================================================
