----------------------------- MODULE EconomicEval -----------------------------
(***************************************************************************)
(* shared/economic_eval.py: four ways to divide one battery's power, run   *)
(* over the same hours.  "even" keeps a fixed share for capacity;          *)
(* "trailing", "model" and "oracle" divide all of it every hour between    *)
(* FCR-D up, FCR-D down and arbitrage, by how each stands against its own  *)
(* past: its recent prices, a forecast, or the price that hour will clear  *)
(* at.  Revenue is always at the price realised.                           *)
(*                                                                         *)
(* The windows of past prices depend on the prices alone, so the policies  *)
(* share them here; each has its own battery.                              *)
(***************************************************************************)
EXTENDS BessSeries

CONSTANTS
  Evaluations   \* the battery, prices and forecasts an evaluation may be given

Up == "FCR:up"
Down == "FCR:down"
Arbitrage == "day_ahead:price"
EvalLegs == {Up, Down, Arbitrage}
Policies == {"even", "trailing", "model", "oracle"}

\* Energy is in whole units, as in BessDispatch.
ASSUME EvaluationAssumption ==
  \A e \in Evaluations :
    /\ {e.battery.power, e.battery.lo, e.battery.hi, e.battery.start, e.battery.in,
        e.battery.out, e.battery.commit} \subseteq Int
    /\ e.battery.cap \in Int \cup {None} /\ e.battery.lookback \in Nat
    /\ \A l \in EvalLegs : IsSeries(e.actuals[l]) /\ IsSeries(e.forecasts[l])

VARIABLES
  battery,    \* EconomicEvalConfig
  actuals,    \* per leg, the prices by time
  forecasts,  \* per leg, what the model predicted, by time
  hour,       \* the index of the next of times
  shorts, baselines,   \* per leg, its two trailing windows
  runs        \* per policy, its battery and its revenue so far

evalVars == <<battery, actuals, forecasts, hour, shorts, baselines, runs>>

\* EconomicEvalConfig's __post_init__, in these units.
ValidBattery(b) ==
  /\ b.power > 0 /\ 0 < b.in /\ b.in <= b.out
  /\ 0 <= b.lo /\ b.lo < b.hi /\ b.lo <= b.start /\ b.start <= b.hi
  /\ b.lookback > 0
  /\ 0 <= b.commit /\ b.commit <= b.power
  /\ b.cap # None => b.cap > 0

\* Only hours for which all three legs have a price are simulated.
EvalTimes == Ascending({t \in DOMAIN actuals[Arbitrage] : \A l \in EvalLegs : t \in DOMAIN actuals[l]})

StartRun == [soc |-> Whole(battery.start), window |-> << >>, eur |-> Zero, dkk |-> Zero, log |-> << >>]

EvalStart(e) ==
  /\ ValidBattery(e.battery)
  /\ battery = e.battery /\ actuals = e.actuals /\ forecasts = e.forecasts
  /\ hour = 1
  /\ shorts = [l \in EvalLegs |-> << >>] /\ baselines = [l \in EvalLegs |-> << >>]
  /\ runs = [p \in Policies |-> StartRun]

EvalInit == \E e \in Evaluations : EvalStart(e)

------------------------------------------------------------------------------
(* Allocation *)

NormalLevel(l) ==
  IF baselines[l] = << >> THEN None
  ELSE IF SumOf(baselines[l]) <= 0 THEN None
  ELSE Frac(SumOf(baselines[l]), Len(baselines[l]))

RatioStrength(value, l) ==
  IF value = None \/ NormalLevel(l) = None THEN Zero
  ELSE Clipped(value ** Inverted(NormalLevel(l)))

AbsDeviationStrength(value, l) ==
  IF value = None \/ NormalLevel(l) = None THEN Zero
  ELSE LET deviation == value ++ Minus(NormalLevel(l))
       IN <<Magnitude(deviation[1]), deviation[2]>> ** Inverted(NormalLevel(l))

\* In proportion to the strengths, or evenly when there are none.
WeightedSplit(strengths, total) ==
  LET positive == SumOver([k \in DOMAIN strengths |-> Clipped(strengths[k])])
  IN [k \in DOMAIN strengths |->
        IF total \preceq Zero THEN Zero
        ELSE IF positive \preceq Zero THEN total ** <<1, Cardinality(DOMAIN strengths)>>
        ELSE total ** (Clipped(strengths[k]) ** Inverted(positive))]

At(prices, t) == IF t \in DOMAIN prices THEN Whole(prices[t]) ELSE None
RecentMean(l) == IF shorts[l] = << >> THEN None ELSE Frac(SumOf(shorts[l]), Len(shorts[l]))

\* A mutant of Strength: the model ranks arbitrage by its ratio, the oracle by its deviation.
StrengthByRatio(policy, l, t) ==
  CASE policy = "model" -> RatioStrength(At(forecasts[l], t), l)
    [] policy = "oracle" /\ l # Arbitrage -> RatioStrength(At(actuals[l], t), l)
    [] policy = "oracle" -> AbsDeviationStrength(At(actuals[l], t), l)
    [] l = Arbitrage -> AbsDeviationStrength(RecentMean(l), l)
    [] OTHER -> LegRelativeStrength(shorts[l], baselines[l])

Strength(policy, l, t) ==
  LET score(value) == IF l = Arbitrage THEN AbsDeviationStrength(value, l) ELSE RatioStrength(value, l)
  IN CASE policy = "model" -> score(At(forecasts[l], t))
       [] policy = "oracle" -> score(At(actuals[l], t))
       [] l = Arbitrage -> AbsDeviationStrength(RecentMean(l), l)
       [] OTHER -> LegRelativeStrength(shorts[l], baselines[l])

\* A mutant of EvenAllocation: the power held for capacity trades as well.
EvenWithAllPower ==
  [l \in EvalLegs |-> IF l = Arbitrage THEN Whole(battery.power) ELSE Frac(battery.commit, 2)]

EvenAllocation ==
  [l \in EvalLegs |-> IF l = Arbitrage THEN Whole(battery.power - battery.commit)
                      ELSE Frac(battery.commit, 2)]

\* The power between FCR and arbitrage, by the mean strength of the FCR legs.
GroupSplit(strengths) ==
  WeightedSplit([g \in {"FCR", Arbitrage} |->
                   IF g = "FCR" THEN (strengths[Up] ++ strengths[Down]) ** <<1, 2>>
                   ELSE strengths[Arbitrage]], Whole(battery.power))

LegSplit(strengths, groups) ==
  LET capacity == WeightedSplit([l \in {Up, Down} |-> strengths[l]], groups["FCR"])
  IN [l \in EvalLegs |-> IF l = Arbitrage THEN groups[l] ELSE capacity[l]]

SplitBy(strengths) == LegSplit(strengths, GroupSplit(strengths))

RankedAllocation(policy, t) == SplitBy([l \in EvalLegs |-> Strength(policy, l, t)])

Allocation(policy, t) ==
  IF policy = "even" THEN EvenAllocation ELSE RankedAllocation(policy, t)

------------------------------------------------------------------------------
(* One hour of one policy *)

CapacityRevenue(mw, t) ==
  LET revenue(l) == (IF t \in DOMAIN actuals[l] THEN Whole(actuals[l][t]) ELSE Zero) ** mw[l]
  IN revenue(Up) ++ revenue(Down)

\* A mutant of EvalRemaining: each discharge has the cap to itself.
EvalCapPerDischarge(window, t) == Whole(battery.out * battery.cap)

EvalRemaining(window, t) ==
  Clipped(Whole(battery.out * battery.cap)
            ++ Minus(SumOver([k \in DOMAIN Recent(window, t) |-> Recent(window, t)[k].amount])))

Room(run, power) == Clipped(Lesser(Whole(battery.in) ** power, Whole(battery.hi) ++ Minus(run.soc)))
Wanted(run, power) == Clipped(Lesser(Whole(battery.out) ** power, run.soc ++ Minus(Whole(battery.lo))))

Still(run) == [soc |-> run.soc, window |-> run.window, action |-> "idle", discharged |-> Zero,
               dkk |-> Zero, binding |-> FALSE]

EvalCharge(run, x, room) ==
  IF room = Zero THEN Still(run)
  ELSE [Still(run) EXCEPT !.soc = run.soc ++ room, !.action = "charge",
                          !.dkk = Whole(-x * battery.out) ** room]

\* The cap lets a part of what is wanted through; only then are old entries dropped.
EvalDischarge(run, t, x, wanted) ==
  LET capped == battery.cap # None
      kept == IF capped THEN Recent(run.window, t) ELSE run.window
      sold(amount) ==
        IF amount = Zero THEN [Still(run) EXCEPT !.window = kept, !.binding = wanted # amount]
        ELSE [soc |-> run.soc ++ Minus(amount), action |-> "discharge", discharged |-> amount,
              dkk |-> Whole(x * battery.in) ** amount, binding |-> wanted # amount,
              window |-> IF capped THEN Append(kept, [time |-> t, amount |-> amount]) ELSE kept]
  IN sold(IF capped THEN Lesser(wanted, EvalRemaining(run.window, t)) ELSE wanted)

\* da_zscore_history holds what the short window of day-ahead prices holds.
EvalMove(run, power, t) ==
  LET x == actuals[Arbitrage][t]
      stance == Stance(shorts[Arbitrage], x, battery.threshold2)
  IN CASE stance = "charge" -> EvalCharge(run, x, Room(run, power))
       [] stance = "discharge" -> EvalDischarge(run, t, x, Wanted(run, power))
       [] OTHER -> Still(run)

Recorded(run, t, mw, move, earned) ==
  [soc |-> move.soc, window |-> move.window,
   eur |-> run.eur ++ earned, dkk |-> run.dkk ++ move.dkk,
   log |-> Append(run.log,
             [time |-> t, action |-> move.action, mw |-> mw, soc |-> move.soc,
              eur |-> earned, dkk |-> move.dkk, discharged |-> move.discharged,
              capBinding |-> move.binding])]

EvalHourWith(mw, run, t) ==
  Recorded(run, t, mw, EvalMove(run, mw[Arbitrage], t), CapacityRevenue(mw, t))

EvalStep(policy, run, t) == EvalHourWith(Allocation(policy, t), run, t)

\* The hour's prices enter the windows after every decision.
Extend(windows, n, t) ==
  [l \in EvalLegs |-> IF t \in DOMAIN actuals[l] THEN Newest(Append(windows[l], actuals[l][t]), n)
                      ELSE windows[l]]

EvalHour ==
  /\ hour \in DOMAIN EvalTimes
  /\ LET t == EvalTimes[hour]
     IN /\ runs' = [p \in Policies |-> EvalStep(p, runs[p], t)]
        /\ shorts' = Extend(shorts, battery.lookback, t)
        /\ baselines' = Extend(baselines, BaselineMultiplier * battery.lookback, t)
  /\ hour' = hour + 1
  /\ UNCHANGED <<battery, actuals, forecasts>>

EvalSpec == EvalInit /\ [][EvalHour]_evalVars

------------------------------------------------------------------------------
(* What is reported of a run *)

\* restrict_to_scored_ticks: the hours that have a forecast for every leg.
Scored == {EvalTimes[k] : k \in {j \in DOMAIN EvalTimes :
                                  \A l \in EvalLegs : EvalTimes[j] \in DOMAIN forecasts[l]}}
ScoredRevenue(policy) ==
  LET log == runs[policy].log
  IN [k \in {j \in DOMAIN log : log[j].time \in Scored} |-> log[k].eur]

------------------------------------------------------------------------------
(* Properties *)

PolicyLog(p) == runs[p].log

\* Nothing is sold twice and nothing is left idle.
DividesAllPower ==
  \A p \in DOMAIN runs : \A k \in DOMAIN PolicyLog(p) :
    /\ SumOver(PolicyLog(p)[k].mw) = Whole(battery.power)
    /\ \A l \in DOMAIN PolicyLog(p)[k].mw : Zero \preceq PolicyLog(p)[k].mw[l]

\* Every hour a policy divides the whole of the power, and whatever share it gives to
\* arbitrage, no rolling day of its run sells more than the cycle cap and its battery
\* stays within the band.
PoliciesKeepTheBattery ==
  /\ DividesAllPower
  /\ \A p \in DOMAIN runs : \A k \in DOMAIN PolicyLog(p) :
    LET log == PolicyLog(p)
        recent == {j \in 1..k : log[j].time >= log[k].time - Day}
    IN /\ battery.cap # None =>
            SumOver([j \in recent |-> log[j].discharged]) \preceq Whole(battery.out * battery.cap)
       /\ Whole(battery.lo) \preceq log[k].soc /\ log[k].soc \preceq Whole(battery.hi)

\* Where the forecast is right, the model is the oracle: in every hour that is scored it
\* earns the oracle's capacity revenue, whatever it did before the first forecast, and a
\* forecast that is right about every hour makes the two runs the same.
PerfectForecastIsOracle ==
  (\A l \in EvalLegs : \A t \in DOMAIN forecasts[l] :
     t \in DOMAIN actuals[l] /\ forecasts[l][t] = actuals[l][t])
    => /\ ScoredRevenue("model") = ScoredRevenue("oracle")
       /\ forecasts = actuals => runs["model"] = runs["oracle"]
=============================================================================
