----------------------------- MODULE BessBacktest -----------------------------
(***************************************************************************)
(* run_backtest in shared/bess_simulator.py: the window's series are       *)
(* fetched, then the threshold engine walks over the day-ahead prices one  *)
(* period at a time, or the co-optimiser plans the window at once.         *)
(*                                                                         *)
(* A period books capacity revenue for the reserved power, activation      *)
(* revenue on its aFRR share, and charges or discharges on the z-score of  *)
(* the price against the prices before it, within the power not reserved,  *)
(* the usable band and the rolling cycle cap.                              *)
(*                                                                         *)
(* Stored energy, and the energy moved, are counted as in BessDispatch.    *)
(***************************************************************************)
EXTENDS BessDispatch

CONSTANTS
  Windows   \* the configurations and series a run may be given

\* Energy is in whole units, and fetch_history returns a window's prices oldest first.
ASSUME WindowAssumption ==
  \A window \in Windows :
    LET c == window.config
    IN /\ {c.power, c.lo, c.hi, c.start, c.in, c.out, c.commit, c.endurance} \subseteq Int
       /\ c.cap \in Int \cup {None} /\ c.lookback \in Nat
       /\ c.rate \in Nat \X (Nat \ {0})
       /\ IsFiniteSet(c.energyMarkets) /\ IsFiniteSet(c.legs)
       /\ \A l \in c.legs : /\ DirectionOf[l] \in {"up", "down", "symmetric"}
                            /\ IsSeries(window.capacity[l])
       /\ \A m \in c.energyMarkets : IsSeries(window.energy[m])
       /\ IsSeries(window.price) /\ IsSeries(window.activation)
       /\ window.times \in Seq(DOMAIN window.price)
       /\ \A i, j \in DOMAIN window.times : i < j => window.times[i] < window.times[j]

VARIABLES
  w,              \* the window of this run
  position,       \* the period of price_series that is next
  soc,            \* soc_mwh
  history,        \* the trailing prices of the z-score
  short, baseline,   \* each leg's capacity_price_*_history
  dischargeWindow,   \* discharge_window
  zeroPeriods, uncoveredPeriods,   \* per leg
  activationUncovered,             \* activation_uncovered_periods
  fellBack,       \* capacity_allocation_fell_back_to_even
  ticks           \* the BessTicks so far

vars == <<w, position, soc, history, short, baseline, dischargeWindow, zeroPeriods,
          uncoveredPeriods, activationUncovered, fellBack, ticks>>

config == w.config
Markets == {MarketOf[l] : l \in config.legs}
LegsOf(market) == {l \in config.legs : MarketOf[l] = market}
ArbitragePower == config.power - config.commit

\* BessConfig's __post_init__, in these units.
ValidConfig(c) ==
  /\ c.power > 0 /\ 0 < c.in /\ c.in <= c.out
  /\ 0 <= c.lo /\ c.lo < c.hi /\ c.lo <= c.start /\ c.start <= c.hi
  /\ 0 <= c.commit /\ c.commit <= c.power
  /\ c.cap = None \/ c.cap > 0
  /\ c.endurance > 0 /\ c.rate[1] <= c.rate[2]
  /\ c.allocation \in {"even", "price_ranked"} /\ c.strategy \in {"threshold", "cooptimized"}
  /\ c.foresight \in {"perfect", "forecast"} /\ c.energyMarkets # {}

Init ==
  /\ w \in {window \in Windows : ValidConfig(window.config)}
  /\ position = 1
  /\ soc = config.start
  /\ history = << >>
  /\ short = [l \in config.legs |-> << >>] /\ baseline = [l \in config.legs |-> << >>]
  /\ dischargeWindow = << >>
  /\ zeroPeriods = [l \in config.legs |-> 0] /\ uncoveredPeriods = [l \in config.legs |-> 0]
  /\ activationUncovered = 0
  /\ fellBack = FALSE
  /\ ticks = << >>

------------------------------------------------------------------------------
(* Capacity *)

EvenShares == [m \in Markets |-> Frac(config.commit, Cardinality(Markets))]

\* _group_commit_shares: by relative strength, evenly when no leg has any.
GroupStrength ==
  [m \in Markets |-> Mean([l \in LegsOf(m) |-> LegRelativeStrength(short[l], baseline[l])])]
NoSignal == SumOver(GroupStrength) \preceq Zero
\* A mutant of RankedShares: the strengths are not divided by their sum.
UnscaledShares ==
  IF NoSignal THEN EvenShares ELSE [m \in Markets |-> Whole(config.commit) ** GroupStrength[m]]

RankedShares ==
  IF NoSignal THEN EvenShares
  ELSE [m \in Markets |->
          Whole(config.commit) ** (GroupStrength[m] ** Inverted(SumOver(GroupStrength)))]

GroupShares == IF config.allocation = "price_ranked" THEN RankedShares ELSE EvenShares

LegShares ==
  [l \in config.legs |-> GroupShares[MarketOf[l]] ** <<1, Cardinality(LegsOf(MarketOf[l]))>>]

\* What each leg clears at now.
Quotes(t) == [l \in config.legs |-> ValueAtOrBefore(w.capacity[l], t, NativePeriod2(w.capacity[l]))]
Covered(quotes) == {l \in config.legs : quotes[l] # None}

ActivationQuote(t) == ValueAtOrBefore(w.activation, t, NativePeriod2(w.activation))
ActivationDue(t, length) ==
  IF "aFRR_capacity" \notin Markets \/ ActivationQuote(t) = None THEN Zero
  ELSE Whole(ActivationQuote(t) * length) ** (GroupShares["aFRR_capacity"] ** config.rate)

\* Each covered leg's price enters its trailing windows once the period is decided.
\* A mutant of Remember: an uncovered period is remembered as a price of zero.
RememberZeros(window, n, quotes) ==
  [l \in config.legs |-> Newest(Append(window[l], OrZero(quotes[l])), n)]

Remember(window, n, quotes) ==
  [l \in config.legs |->
     IF l \in Covered(quotes) THEN Newest(Append(window[l], quotes[l]), n) ELSE window[l]]

BookCapacity(quotes) ==
  /\ zeroPeriods' = [l \in config.legs |-> zeroPeriods[l] + IF quotes[l] = 0 THEN 1 ELSE 0]
  /\ uncoveredPeriods' =
       [l \in config.legs |-> uncoveredPeriods[l] + IF quotes[l] = None THEN 1 ELSE 0]
  /\ fellBack' = (fellBack \/ (config.allocation = "price_ranked" /\ config.legs # {} /\ NoSignal))
  /\ short' = Remember(short, config.lookback, quotes)
  /\ baseline' = Remember(baseline, BaselineMultiplier * config.lookback, quotes)

------------------------------------------------------------------------------
(* Arbitrage *)

ChargeAmount(length) == Min({config.in * ArbitragePower * length, config.hi - soc})
DischargeAmount(length) == Min({config.out * ArbitragePower * length, soc - config.lo})

RecentDischarges(t) == Recent(dischargeWindow, t)

\* A mutant of RemainingCap: each discharge has the cap to itself.
CapPerDischarge(t) == config.out * config.cap

RemainingCap(t) ==
  LET amounts == [k \in DOMAIN RecentDischarges(t) |-> RecentDischarges(t)[k].amount]
  IN Max({config.out * config.cap - SumFunction(amounts), 0})

Idle == [action |-> "idle", soc |-> soc, discharged |-> 0, revenue |-> 0, binding |-> FALSE,
         window |-> dischargeWindow]

ChargeMove(x, length) ==
  IF ChargeAmount(length) = 0 THEN Idle
  ELSE [Idle EXCEPT !.action = "charge", !.soc = soc + ChargeAmount(length),
                    !.revenue = -x * ChargeAmount(length) * config.out]

DischargeMove(t, x, length) ==
  LET capped == config.cap # None
      wanted == DischargeAmount(length)
      amount == IF capped THEN Min({wanted, RemainingCap(t)}) ELSE wanted
      kept == IF capped THEN RecentDischarges(t) ELSE dischargeWindow
      held == [Idle EXCEPT !.binding = amount < wanted, !.window = kept]
  IN IF amount = 0 THEN held
     ELSE [held EXCEPT !.action = "discharge", !.soc = soc - amount, !.discharged = amount,
                       !.revenue = x * amount * config.in,
                       !.window = IF capped THEN Append(kept, [time |-> t, amount |-> amount])
                                  ELSE kept]

\* A mutant of Move: the price of the period is part of its own baseline.
MoveOnItsOwnPrice(t, x, length) ==
  LET stance == Stance(Append(history, x), x, config.threshold2)
  IN IF stance = "charge" THEN ChargeMove(x, length)
     ELSE IF stance = "discharge" THEN DischargeMove(t, x, length)
     ELSE Idle

Move(t, x, length) ==
  LET stance == Stance(history, x, config.threshold2)
  IN CASE stance = "charge" -> ChargeMove(x, length)
       [] stance = "discharge" -> DischargeMove(t, x, length)
       [] OTHER -> Idle

------------------------------------------------------------------------------
(* The run *)

\* What is recorded of a period.
BessTick(t, x, length, move) ==
  LET quotes == Quotes(t)
      shares == LegShares
  IN [time |-> t, price |-> x, soc |-> move.soc, action |-> move.action,
      discharged |-> move.discharged, energyRevenue |-> move.revenue,
      reserved |-> SumOver([l \in Covered(quotes) |-> shares[l]]),
      legRevenue |-> [l \in config.legs |-> Whole(OrZero(quotes[l]) * length) ** shares[l]],
      activation |-> ActivationDue(t, length), capBinding |-> move.binding]

\* One period of the threshold engine.
Tick ==
  /\ config.strategy = "threshold"
  /\ position \in Periods(w)
  /\ LET t == w.times[position]
         x == w.price[t]
         length == Length(w, position)
         move == Move(t, x, length)
     IN /\ BookCapacity(Quotes(t))
        /\ activationUncovered' =
             activationUncovered
               + IF "aFRR_capacity" \in Markets /\ ActivationQuote(t) = None THEN 1 ELSE 0
        /\ soc' = move.soc
        /\ dischargeWindow' = move.window
        /\ history' = Newest(Append(history, x), config.lookback)
        /\ ticks' = Append(ticks, BessTick(t, x, length, move))
  /\ position' = position + 1
  /\ UNCHANGED w

\* The co-optimiser plans and reports the whole window.
Dispatch ==
  /\ config.strategy = "cooptimized"
  /\ position = 1 /\ Periods(w) # {}
  /\ \E plan \in Optimal(w) : ticks' = [i \in Periods(w) |-> PlannedTick(w, plan, i)]
  /\ soc' = ticks'[Len(w.times)].soc
  /\ zeroPeriods' = [l \in config.legs |->
       Cardinality({i \in Periods(w) : SettlementPrices(w)[i].capacity[l] = 0})]
  /\ uncoveredPeriods' = [l \in config.legs |->
       Cardinality({i \in Periods(w) : SettlementPrices(w)[i].capacity[l] = None})]
  /\ activationUncovered' =
       IF ActivationLegs(w) = {} THEN 0
       ELSE Cardinality({i \in Periods(w) : SettlementPrices(w)[i].activation = None})
  /\ position' = Len(w.times) + 1
  /\ UNCHANGED <<w, history, short, baseline, dischargeWindow, fellBack>>

Next == Tick \/ Dispatch

Spec == Init /\ [][Next]_vars

------------------------------------------------------------------------------
(* Properties *)

SocBefore(k) == IF k = 1 THEN config.start ELSE ticks[k - 1].soc
EnergySold(S) == SumFunction([k \in S |-> ticks[k].discharged])

\* Stored energy never leaves the usable band, and no rolling day of a run sells more
\* than the cycle cap, reckoned over the whole record of the run and not the window of
\* entries the engine has kept.
BandAndCapHold ==
  \A k \in DOMAIN ticks :
    /\ ticks[k].soc \in config.lo..config.hi
    /\ config.cap # None =>
      LET recent == {j \in 1..k :
                       \/ ticks[j].time > ticks[k].time - Day
                       \/ config.strategy = "threshold" /\ ticks[j].time = ticks[k].time - Day}
      IN EnergySold(recent) <= config.out * config.cap

\* In every period the power sold as reserve and the power traded are together no more
\* than the battery has, however the reserve is divided among legs.
PowerSoldOnce ==
  \A k \in DOMAIN ticks :
    LET change == ticks[k].soc - SocBefore(k)
        traded == IF change >= 0 THEN Frac(change, config.in) ELSE Frac(-change, config.out)
        length == Whole(PeriodLength(w.times, k))
    IN ((ticks[k].reserved ** length) ++ traded) \preceq (Whole(config.power) ** length)

PricesBefore(k) == [j \in 1..(k - 1) |-> ticks[j].price]

\* A threshold run decides on the past alone: what it did in a period follows from the
\* prices of the periods before it and the price of the period.
DecidesOnThePast ==
  config.strategy = "threshold" =>
    \A k \in DOMAIN ticks :
      ticks[k].action # "idle" =>
        Stance(Newest(PricesBefore(k), config.lookback), ticks[k].price, config.threshold2)
          = ticks[k].action

PaidBefore(l, k) ==
  LET paid == {j \in 1..(k - 1) : Quotes(ticks[j].time)[l] # None}
      order == Ascending(paid)
  IN [n \in DOMAIN order |-> Quotes(ticks[order[n]].time)[l]]

StrengthAt(l, k) ==
  LegRelativeStrength(Newest(PaidBefore(l, k), config.lookback),
                      Newest(PaidBefore(l, k), BaselineMultiplier * config.lookback))

\* So does the division of the reserve in a threshold run: two legs are weighed by the
\* clearing prices of the covered periods before this one, and by nothing later.
AllocatesOnThePast ==
  config.strategy = "threshold" /\ config.allocation = "price_ranked" =>
    \A k \in DOMAIN ticks : \A l, m \in config.legs :
      LET length == PeriodLength(w.times, k)
          perUnit(x) == ticks[k].legRevenue[x] ** <<1, Quotes(ticks[k].time)[x] * length>>
          paid(x) == OrZero(Quotes(ticks[k].time)[x]) > 0
      IN paid(l) /\ paid(m) /\ Cardinality(LegsOf(MarketOf[l])) = 1
           /\ Cardinality(LegsOf(MarketOf[m])) = 1
           /\ (StrengthAt(l, k) # Zero \/ StrengthAt(m, k) # Zero)
         => perUnit(l) ** StrengthAt(m, k) = perUnit(m) ** StrengthAt(l, k)

\* total_revenue_all_dkk, times the rate's denominator.
TotalWorth ==
  LET value(tick) ==
        Whole(config.rate[2])
          ** (Frac(tick.energyRevenue, config.in * config.out)
              ++ SumOver([l \in config.legs |-> Whole(PegFactor(CurrencyOf[l])) ** tick.legRevenue[l]])
              ++ (Whole(Peg) ** tick.activation))
  IN SumOver([k \in DOMAIN ticks |-> value(ticks[k])])

Planned == config.strategy = "cooptimized" /\ ticks # << >>

\* A schedule made on the day-old forecast, settled at the actual prices, never reports
\* more than the best schedule for those prices.
PreNeverBeatsPost ==
  Planned =>
    LET settlement == SettlementPrices(w)
    IN \E plan \in Feasible(w) : TotalWorth \preceq Whole(PlanValue(w, plan, settlement))

\* The replay that finds undeliverable reserve in a result finds none in a plan.
PlansHaveNoPhantom ==
  Planned => \A k \in DOMAIN ticks :
               SumOver(PhantomRevenue(w, ticks[k], SocBefore(k), Length(w, k))) = Zero

\* With one energy market nothing but the prices keeps a plan from charging and
\* discharging at once: it does so only in a period planned at a price of zero or less.
\* The record shows it as energy that is paid for and not stored.
BurnsOnlyBelowZero ==
  Planned /\ Cardinality(config.energyMarkets) = 1 =>
    LET market == CHOOSE m \in config.energyMarkets : TRUE
    IN \A k \in DOMAIN ticks :
         LET change == ticks[k].soc - SocBefore(k)
         IN OrZero(SchedulePrices(w)[k].energy[market]) > 0 =>
              ticks[k].energyRevenue =
                -OrZero(SettlementPrices(w)[k].energy[market])
                  * (IF change >= 0 THEN config.out ELSE config.in) * change

\* run_backtest's comment on its carry-forward budgets: "a price covers its own native
\* period and no longer, so a leg whose data stops mid-window stops paying instead of
\* coasting on a stale figure".  The legs are published every hour.
DataStopsPayStops ==
  \A k \in DOMAIN ticks : \A l \in config.legs :
    ticks[k].legRevenue[l] # Zero =>
      \E u \in DOMAIN w.capacity[l] : u <= ticks[k].time /\ ticks[k].time < u + Hour
=============================================================================
