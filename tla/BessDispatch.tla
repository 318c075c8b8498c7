----------------------------- MODULE BessDispatch -----------------------------
(***************************************************************************)
(* The co-optimiser (shared/bess_dispatch_milp.py): one program over a     *)
(* whole window decides every period's charge, discharge and reserve       *)
(* together; the schedule it fixes is then valued at settlement prices.    *)
(* The module has no state, like the code, which is pure.                  *)
(*                                                                         *)
(* A window w holds the configuration, the times of the day-ahead prices,  *)
(* and the fetched series (day-ahead, energy per market, capacity per leg, *)
(* activation).  A plan is a sequence of flows, one per period.  Flows are *)
(* whole megawatts here: what is said of the feasible plans, and of the    *)
(* best of them, is said of that grid.                                     *)
(*                                                                         *)
(* Stored energy is counted in a unit in which one MWh taken from the grid *)
(* adds w.config.in and one delivered to it takes w.config.out, so that    *)
(* in / out is the round-trip efficiency and everything stays whole.       *)
(***************************************************************************)
EXTENDS BessSeries

CONSTANTS
  MarketOf,      \* the market of each leg: "FCR", "aFRR_capacity", ...
  DirectionOf,   \* "up", "down" or "symmetric", from the leg's product
  CurrencyOf,    \* the registry's currency of each leg and energy market
  Peg            \* DKK_PER_EUR

ASSUME PegAssumption == Peg \in Nat

PegFactor(currency) == IF currency = "DKK" THEN 1 ELSE Peg

Periods(w) == DOMAIN w.times
Length(w, i) == PeriodLength(w.times, i)

\* A period's place in the rolling day that ends with it.
RollingWindow(w, i) == {j \in 1..i : w.times[j] > w.times[i] - Day}

Towards(w, direction) == {l \in w.config.legs : DirectionOf[l] \in {direction, "symmetric"}}
ActivationLegs(w) == {l \in w.config.legs : MarketOf[l] = "aFRR_capacity"}

------------------------------------------------------------------------------
(* Prices: those the plan is made with, and those it is settled at *)

\* The three kinds of price of every period, from the series given for them.
PricesFrom(w, energy, capacity, activation) ==
  LET staleness == [l \in w.config.legs |-> NativePeriod2(w.capacity[l])]
      activationStaleness == NativePeriod2(w.activation)
  IN [i \in Periods(w) |->
        LET t == w.times[i]
        IN [energy |-> [m \in w.config.energyMarkets |-> ValueAtOrBefore(energy[m], t, None)],
            capacity |-> [l \in w.config.legs |-> ValueAtOrBefore(capacity[l], t, staleness[l])],
            activation |-> ValueAtOrBefore(activation, t, activationStaleness)]]

SettlementPrices(w) == PricesFrom(w, w.energy, w.capacity, w.activation)

SchedulePrices(w) ==
  IF w.config.foresight = "perfect" THEN SettlementPrices(w)
  ELSE PricesFrom(w, [m \in DOMAIN w.energy |-> Lag24hForecast(w.energy[m])],
                  [l \in DOMAIN w.capacity |-> Lag24hForecast(w.capacity[l])],
                  Lag24hForecast(w.activation))

OrZero(x) == IF x = None THEN 0 ELSE x

------------------------------------------------------------------------------
(* The program *)

Charged(flow) == SumFunction(flow.ch)
Discharged(flow) == SumFunction(flow.dis)
Reserved(flow, legs) == SumFunctionOnSet(flow.cap, legs)

\* A period's flows within the power budget.
Flows(config) ==
  LET amounts(S, step) == [S -> {n \in 0..config.power : n % step = 0}]
  IN {f \in [ch : amounts(config.energyMarkets, config.out),
             dis : amounts(config.energyMarkets, config.in),
             cap : amounts(config.legs, 1)] :
        Charged(f) + Discharged(f) + Reserved(f, config.legs) <= config.power}

\* Nothing is traded or offered in a period without a schedule price.
Pinned(flow, prices) ==
  /\ \A m \in DOMAIN flow.ch : prices.energy[m] = None => flow.ch[m] = 0 /\ flow.dis[m] = 0
  /\ \A l \in DOMAIN flow.cap : prices.capacity[l] = None => flow.cap[l] = 0

\* A mutant of Stored: the loss is taken the wrong way round.
StoredWithGain(w, plan, i) ==
  w.config.start
    + SumFunction([j \in 1..i |-> (w.config.out * Charged(plan[j])
                                     - w.config.in * Discharged(plan[j])) * Length(w, j)])

\* Stored energy after the first i periods.
Stored(w, plan, i) ==
  w.config.start
    + SumFunction([j \in 1..i |-> (w.config.in * Charged(plan[j])
                                     - w.config.out * Discharged(plan[j])) * Length(w, j)])

InBand(w, soc) == w.config.lo <= soc /\ soc <= w.config.hi

\* Committed reserve can be delivered, or absorbed, out of this much stored energy.
Deliverable(w, flow, soc) ==
  /\ Reserved(flow, Towards(w, "up")) * w.config.endurance * w.config.out
       <= soc - w.config.lo
  /\ Reserved(flow, Towards(w, "down")) * w.config.endurance * w.config.in
       <= w.config.hi - soc

\* A mutant of HeadroomKept: only the start of the period is looked at.
HeadroomAtStart(w, plan, i) == Deliverable(w, plan[i], Stored(w, plan, i - 1))

\* The headroom binds at both ends of a period.
HeadroomKept(w, plan, i) ==
  Deliverable(w, plan[i], Stored(w, plan, i - 1)) /\ Deliverable(w, plan[i], Stored(w, plan, i))

\* With two markets a binary variable forbids buying in one and selling in the other.
OneWay(w, flow) ==
  Cardinality(w.config.energyMarkets) > 1 => Charged(flow) = 0 \/ Discharged(flow) = 0

DischargedWithin(w, plan, i) ==
  SumFunction([j \in RollingWindow(w, i) |-> Discharged(plan[j]) * Length(w, j)])

CycleCapKept(w, plan, i) ==
  w.config.cap # None => DischargedWithin(w, plan, i) <= w.config.cap

Feasible(w) ==
  LET schedule == SchedulePrices(w)
  IN {plan \in [Periods(w) -> Flows(w.config)] :
        \A i \in Periods(w) :
          /\ Pinned(plan[i], schedule[i])
          /\ OneWay(w, plan[i])
          /\ InBand(w, Stored(w, plan, i))
          /\ HeadroomKept(w, plan, i)
          /\ CycleCapKept(w, plan, i)}

------------------------------------------------------------------------------
(* What a plan earns *)

\* In DKK: all markets together, as the objective has them and as the result adds them up.
EnergyRevenue(w, flow, prices, length) ==
  SumFunction([m \in w.config.energyMarkets |->
                 PegFactor(CurrencyOf[m]) * OrZero(prices.energy[m])
                   * (flow.dis[m] - flow.ch[m])]) * length

\* In the leg's own currency.
LegRevenue(flow, prices, l, length) == OrZero(prices.capacity[l]) * flow.cap[l] * length

\* In EUR, times the denominator of the participation rate.
ActivationRevenue(w, flow, prices, length) ==
  OrZero(prices.activation) * Reserved(flow, ActivationLegs(w)) * w.config.rate[1] * length

PeriodValue(w, flow, prices, length) ==
  w.config.rate[2]
    * (EnergyRevenue(w, flow, prices, length)
       + SumFunction([l \in w.config.legs |->
                        PegFactor(CurrencyOf[l]) * LegRevenue(flow, prices, l, length)]))
  + Peg * ActivationRevenue(w, flow, prices, length)

\* A plan's worth at these prices, in DKK times the rate's denominator.
PlanValue(w, plan, prices) ==
  SumFunction([i \in Periods(w) |-> PeriodValue(w, plan[i], prices[i], Length(w, i))])

BestOf(worth) ==
  LET best == Max({worth[plan] : plan \in DOMAIN worth})
  IN {plan \in DOMAIN worth : worth[plan] = best}

\* The solver returns some best plan.
Optimal(w) ==
  LET schedule == SchedulePrices(w)
  IN BestOf([plan \in Feasible(w) |-> PlanValue(w, plan, schedule)])

------------------------------------------------------------------------------
(* The periods reported for a plan *)

PlannedAction(flow) ==
  IF Discharged(flow) > 0 /\ Discharged(flow) >= Charged(flow) THEN "discharge"
  ELSE IF Charged(flow) > 0 THEN "charge"
  ELSE "idle"

\* A mutant of Settled: the plan is valued at the prices it was made with.
ValuedAsPlanned(w, i) == SchedulePrices(w)[i]

Settled(w, i) == SettlementPrices(w)[i]

PlannedTick(w, plan, i) ==
  LET prices == Settled(w, i)
      flow == plan[i]
  IN [time |-> w.times[i],
      price |-> w.price[w.times[i]],
      soc |-> Stored(w, plan, i),
      action |-> PlannedAction(flow),
      discharged |-> IF PlannedAction(flow) = "discharge"
                       THEN w.config.out * Discharged(flow) * Length(w, i) ELSE 0,
      energyRevenue |-> w.config.in * w.config.out
                          * EnergyRevenue(w, flow, prices, Length(w, i)),
      reserved |-> Whole(Reserved(flow, w.config.legs)),
      legRevenue |-> [l \in w.config.legs |->
                        Whole(LegRevenue(flow, prices, l, Length(w, i)))],
      activation |-> Frac(ActivationRevenue(w, flow, prices, Length(w, i)), w.config.rate[2]),
      capBinding |-> w.config.cap # None /\ DischargedWithin(w, plan, i) >= w.config.cap]

------------------------------------------------------------------------------
(* phantom_capacity_revenue: how much of a result's capacity revenue is for *)
(* reserve the battery could not have delivered                            *)

Shortfall(a, b) == Clipped(a ++ Minus(b))

\* Per leg, never the legs of a direction together, as the code notes.
PhantomRevenue(w, tick, before, length) ==
  LET lowest == Min({before, tick.soc})
      highest == Max({before, tick.soc})
      feasibleUp == Clipped(Frac(lowest - w.config.lo, w.config.out * w.config.endurance))
      feasibleDown == Clipped(Frac(w.config.hi - highest, w.config.in * w.config.endurance))
      feasible(l) == CASE DirectionOf[l] = "up" -> feasibleUp
                       [] DirectionOf[l] = "down" -> feasibleDown
                       [] OTHER -> Lesser(feasibleUp, feasibleDown)
      clearing(l) == OrZero(ValueAtOrBefore(w.capacity[l], tick.time, None))
  IN [l \in w.config.legs |->
        IF clearing(l) = 0 \/ length <= 0 THEN Zero
        ELSE LET paid == Whole(clearing(l) * length)
                 committed == tick.legRevenue[l] ** Inverted(paid)
             IN Shortfall(committed, feasible(l)) ** paid]
=============================================================================
