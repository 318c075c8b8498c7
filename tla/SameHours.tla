------------------------------- MODULE SameHours -------------------------------
(***************************************************************************)
(* The backtest of bess_simulator.py and the evaluation of                 *)
(* economic_eval.py over the same hours.  The evaluation has a dispatch    *)
(* loop of its own, in fractions of the unit of energy, where the          *)
(* backtest's is in whole units; its "even" policy is there to reproduce   *)
(* the backtest's fixed split.                                             *)
(*                                                                         *)
(* Each period of the backtest is taken together with an hour of the       *)
(* evaluation; beside a window the evaluation cannot read there is none.   *)
(***************************************************************************)
EXTENDS BessBacktest, EconomicEval

CONSTANT
  Predictions(_)   \* the forecasts an evaluation of a window may be given

\* The evaluation books a megawatt held for an hour as one MWh.
ASSUME HourAssumption == Hour = 1

\* What the evaluation can read: hourly prices, none of them missing, of the two FCR-D
\* legs, which are one market and share its reserve evenly.
Comparable(window) ==
  LET c == window.config
      prices == DOMAIN window.price
  IN /\ c.strategy = "threshold" /\ c.allocation = "even"
     /\ c.legs = {Up, Down} /\ MarketOf[Up] = MarketOf[Down]
     /\ window.times = Ascending(prices)
     /\ \A k \in DOMAIN window.times : k > 1 => window.times[k] - window.times[k - 1] = Hour
     /\ \A l \in c.legs : prices \subseteq DOMAIN window.capacity[l]
Compared == Comparable(w)

Nothing == [t \in {} |-> 0]
Actuals(window) ==
  [l \in EvalLegs |-> IF ~Comparable(window) THEN Nothing
                      ELSE IF l = Arbitrage THEN window.price
                      ELSE window.capacity[l]]

EvaluationsOf(window) ==
  {[battery |-> window.config, actuals |-> Actuals(window), forecasts |-> f] : f \in Predictions(window)}

SameInit == Init /\ \E e \in EvaluationsOf(w) : EvalStart(e)

SameTick == Tick /\ IF Compared THEN EvalHour ELSE UNCHANGED evalVars

SameNext == SameTick \/ (Dispatch /\ UNCHANGED evalVars)

SameSpec == SameInit /\ [][SameNext]_<<vars, evalVars>>

\* Given the same hours, the "even" policy "reproduces bess_simulator's original
\* fixed-split behaviour untouched" (economic_eval.py): it takes the actions of the
\* threshold engine, and has its stored energy, revenue and binding of the cycle cap,
\* hour by hour, though each of the two has a dispatch loop of its own.
EvenMatchesBacktest ==
  Compared =>
    LET log == runs["even"].log
    IN /\ DOMAIN log = DOMAIN ticks
       /\ \A k \in DOMAIN ticks :
            /\ log[k].action = ticks[k].action
            /\ log[k].soc = Whole(ticks[k].soc)
            /\ log[k].dkk = Whole(ticks[k].energyRevenue)
            /\ log[k].eur = SumOver(ticks[k].legRevenue)
            /\ log[k].capBinding = ticks[k].capBinding
=============================================================================
