-------------------------------- MODULE MCBess --------------------------------
(***************************************************************************)
(* SameHours over small windows of six hours, with days of four: windows   *)
(* that the evaluation reads as well, windows with holes, and windows for  *)
(* the co-optimiser.                                                       *)
(***************************************************************************)
EXTENDS SameHours

MCMarketOf == [l \in {"FCR:up", "FCR:down", "FCR:price", "aFRR_capacity:up"} |->
                 IF l = "aFRR_capacity:up" THEN "aFRR_capacity" ELSE "FCR"]
MCDirectionOf == [l \in DOMAIN MCMarketOf |->
                    CASE l = "FCR:down" -> "down" [] l = "FCR:price" -> "symmetric" [] OTHER -> "up"]
MCCurrencyOf == [l \in DOMAIN MCMarketOf \cup {"day_ahead", "imbalance"} |->
                   IF l \in DOMAIN MCMarketOf /\ l # "aFRR_capacity:up" THEN "EUR" ELSE "DKK"]

Flat(T, v) == [t \in T |-> v]

Battery == [power |-> 2, lo |-> 0, hi |-> 4, start |-> 2, in |-> 1, out |-> 2, commit |-> 1,
            legs |-> {"FCR:up", "FCR:down"}, allocation |-> "even", cap |-> 1,
            threshold2 |-> <<1, 4>>, lookback |-> 2, rate |-> <<1, 2>>, strategy |-> "threshold",
            foresight |-> "perfect", endurance |-> 1, energyMarkets |-> {"day_ahead"}]

\* Hourly windows with every price there, as the evaluation reads them.
FullHours == 1..5
EvalWindows ==
  {[config |-> [Battery EXCEPT !.cap = c], times |-> Ascending(DOMAIN p), price |-> p, energy |-> [day_ahead |-> p],
    capacity |-> ("FCR:up" :> u @@ "FCR:down" :> d), activation |-> Nothing] :
     p \in {q \in [FullHours -> {1, 2, 4}] : q[1] = 2}, c \in {None, 1},
     u \in {[t \in FullHours |-> 1 + (t % 2)], [t \in FullHours |-> t \div 3]},
     d \in {Flat(FullHours, 1)}}

\* Windows with holes: the day-ahead series skips hours, a leg's stops or misses some.
HoleyWindows ==
  {[config |-> [Battery EXCEPT !.legs = {"FCR:price", "aFRR_capacity:up"}, !.allocation = a],
    times |-> Ascending(DOMAIN p), price |-> p, energy |-> [day_ahead |-> p],
    capacity |-> ("FCR:price" :> f @@ "aFRR_capacity:up" :> g), activation |-> v] :
     a \in {"even", "price_ranked"},
     p \in UNION {[T -> {1, 4}] : T \in {1..6, {1, 2, 4, 5, 6}, {1, 3, 4, 6}}},
     f \in {[t \in 1..6 |-> t % 3], [t \in 1..3 |-> 1], [t \in {2} |-> 1]},
     g \in {[t \in 1..6 |-> 1 + (t \div 3)], [t \in {1, 2, 5, 6} |-> 2]},
     v \in {[t \in 1..4 |-> 1]}}

\* Windows for the co-optimiser: two legs over two periods, three periods without a leg,
\* and two energy markets, one of them with a price that runs out.
PlanConfig == [Battery EXCEPT !.strategy = "cooptimized", !.power = 4]
Reserving ==
  {[config |-> [PlanConfig EXCEPT !.legs = {"FCR:down", "aFRR_capacity:up"}, !.foresight = f],
    times |-> <<1, 5>>, price |-> p, energy |-> [day_ahead |-> p],
    capacity |-> ("FCR:down" :> d @@ "aFRR_capacity:up" :> g), activation |-> Flat({1, 2, 5}, 1)] :
     f \in {"perfect", "forecast"}, p \in [{1, 5} -> {-1, 1, 3}],
     d \in {Flat({1, 5}, 1)}, g \in {1 :> 0 @@ 5 :> 2, Flat(1..2, 1)}}
Trading ==
  {[config |-> [PlanConfig EXCEPT !.legs = {}, !.foresight = f, !.cap = c], times |-> <<1, 2, 5>>,
    price |-> p, energy |-> [day_ahead |-> p], capacity |-> Nothing, activation |-> Nothing] :
     f \in {"perfect", "forecast"}, p \in [{1, 2, 5} -> {-1, 1, 3}], c \in {None, 1}}
Routing ==
  {[config |-> [PlanConfig EXCEPT !.legs = {"FCR:price"}, !.power = 2, !.foresight = f,
                                  !.energyMarkets = {"day_ahead", "imbalance"}],
    times |-> <<1, 2>>, price |-> p, energy |-> [day_ahead |-> p, imbalance |-> q],
    capacity |-> ("FCR:price" :> Flat({1, 2}, 1)), activation |-> Nothing] :
     f \in {"perfect", "forecast"}, p \in [{1, 2} -> {-1, 1, 3}], q \in {Flat({1}, 2), 2 :> 0}}
PlanWindows == Reserving \cup Trading \cup Routing

MCWindows == EvalWindows \cup HoleyWindows \cup PlanWindows

------------------------------------------------------------------------------
(* Forecasts of the prices of a window *)

\* Every hour as it will be, the later hours only, or the later hours and wrongly.
Later == 3..5
MCPredictions(window) ==
  IF ~Comparable(window) THEN {Actuals(window)}
  ELSE {Actuals(window), [l \in EvalLegs |-> [t \in Later |-> Actuals(window)[l][t]]],
        [l \in EvalLegs |-> [t \in Later |-> 1 + ((t + Len(l)) % 2)]]}

MCEvaluations == UNION {EvaluationsOf(window) : window \in MCWindows}
=============================================================================
