----------------------------- MODULE FeatureStore -----------------------------
(***************************************************************************)
(* build_features of shared/feature_store.py: one row of features for      *)
(* every hour of a window, as a function of the database it reads.         *)
(*                                                                         *)
(* A database is a record: data, the points the market_data view shows     *)
(* (key, time, value; a key is <<market, zone, product>>), and events, the *)
(* rows of market_events.  Times count ticks; a date is a number of days.  *)
(* The columns that depend on the hour alone (hour_of_day, day_of_week,    *)
(* month, the public holidays) are left out, and so is what is only logged.*)
(***************************************************************************)
EXTENDS StudyTime

CONSTANTS
  MIN_LEAD,      \* FORECAST_HORIZON_MIN_LEAD: horizon name -> guaranteed lead
  RowLimit,      \* the limit of one query (200 000)
  Forward,       \* the forward windows of the event columns (90 days)
  Trailing,      \* DEMAND_VOLUME_TRAILING_WINDOW (30 days)
  Cap            \* DAYS_SINCE_SUPPLY_EVENT_CAP, in ticks (365 days)

ASSUME FeatureAssumption ==
  /\ RowLimit \in Nat \ {0}
  /\ {Forward, Trailing, Cap} \subseteq Nat
  /\ DOMAIN MIN_LEAD = {"day_ahead", "5hour", "1hour"}
  /\ \A name \in DOMAIN MIN_LEAD : MIN_LEAD[name] \in Nat

FORECAST_TYPES == {"offshore_wind", "onshore_wind", "solar"}
Winds == FORECAST_TYPES \ {"solar"}
Production == {"production_lt100mw", "production_ge100mw"}
Imbalance == {"imbalance_price", "afrr_vwa_up", "afrr_vwa_down"}
SUPPLY_ENTERING == {"prequalification", "capacity_commissioning"}
SUPPLY_EVENTS == SUPPLY_ENTERING \cup {"capacity_retirement", "outage"}

\* Corridors by their two endpoints, with the product of their realised flow.
KNOWN_BORDER_CORRIDORS ==
  {[name |-> "DK1-DE", ends |-> {"DK1", "DE"}, flow |-> "exchange_germany"],
   [name |-> "DK2-DE", ends |-> {"DK2", "DE"}, flow |-> "exchange_germany"],
   [name |-> "DK1-NL", ends |-> {"DK1", "NL"}, flow |-> "exchange_netherlands"],
   [name |-> "DK2-DK1", ends |-> {"DK2", "DK1"}, flow |-> "exchange_great_belt"],
   [name |-> "SE4-DK2", ends |-> {"SE4", "DK2"}, flow |-> "exchange_sweden"]}

Corridors(zone) == {c \in KNOWN_BORDER_CORRIDORS : zone \in c.ends}
CrossZones(zone) == IF zone = "DK1" THEN {"DE"} ELSE {"SE3", "SE4"}

ForecastKey(zone, type, name) == <<"wind_solar_forecast", zone, <<type, name>>>>
RealisedKey(zone, product) == <<"realtime_production_exchange", zone, product>>

-------------------------------------------------------------------------------
(* Reading a series.                                                       *)

\* _fetch_sorted_series: a page of the view, newest time first.
Fetch(data, key, from, to) ==
  LET whole == {p \in data : p.key = key /\ from <= p.time /\ p.time <= to}
  IN  {p \in whole : Cardinality({q \in whole : q.time > p.time}) < RowLimit}

\* The value of the newest of these points.
NewestValue(points) ==
  LET newest == {p \in points : \A q \in points : q.time <= p.time}
  IN  IF points = {} THEN None ELSE (CHOOSE p \in newest : TRUE).value

\* Mutant of AtOrBefore: the oldest point is carried forward.
OldestBefore(points, t) ==
  LET past == {p \in points : p.time <= t}
  IN  NewestValue({p \in past : \A q \in past : p.time <= q.time})

AtOrBefore(points, t) == NewestValue({p \in points : p.time <= t})
Exactly(points, t)    == NewestValue({p \in points : p.time = t})

\* Arithmetic on values that may be missing.
Less(a, b) == IF a = None \/ b = None THEN None ELSE a - b
SumOrNone(values) == \* values: a function
  IF \E i \in DOMAIN values : values[i] = None THEN None
  ELSE MapThenSumSet(LAMBDA i : values[i], DOMAIN values)

-------------------------------------------------------------------------------
(* Columns.                                                                *)

\* permitted_horizon_names
Permitted(horizon) == {name \in DOMAIN MIN_LEAD : horizon <= MIN_LEAD[name]}

\* The revision columns: none unless both of their ends are permitted.
Revisions(horizon) ==
  IF {"5hour", "1hour"} \subseteq Permitted(horizon) THEN FORECAST_TYPES \cup {"wind_total"} ELSE {}

\* _wind_forecast_error_lag_1: the newest of the last 24 full hours for which both
\* winds have a realised and a day-ahead figure.
WindForecastError(realised, dayAhead, decision) ==
  LET hours == {c \in (decision - 24 * Hour + 1)..decision : c % Hour = 0}
      missed == [c \in hours |->
                   SumOrNone([w \in Winds |-> Less(Exactly(realised[w], c), Exactly(dayAhead[w], c))])]
      settled == {c \in hours : missed[c] # None}
  IN  IF settled = {} THEN None ELSE missed[Max(settled)]

\* Mutant of Knowable: an event counts from the day it takes effect.
KnowableOnceEffective(events, zone, decision) ==
  {e \in events : e.effective_from # None /\ e.effective_from <= DateOf(decision) /\ e.zone = zone}

\* The events a row may use: reported by its decision time, about its zone.
Knowable(events, zone, decision) ==
  {e \in events : e.known_at <= decision /\ e.zone = zone}

\* _event_features, of the knowable events.  An event's weight is its magnitude
\* times its confidence, None without a magnitude.
EventFeatures(knowable, decision) ==
  LET due(e) == /\ e.effective_from # None
                /\ DateOf(decision) <= e.effective_from
                /\ e.effective_from <= DateOf(decision + Forward)
      total(es) == IF es = {} THEN None ELSE MapThenSumSet(LAMBDA e : e.weight, es)
      weighed == {e \in knowable : e.weight # None}
      supply == {e \in knowable : e.type \in SUPPLY_EVENTS}
  IN  [entering |-> total({e \in weighed : e.type \in SUPPLY_ENTERING /\ due(e)}),
       demand |-> total({e \in weighed : /\ e.type = "demand_volume_change"
                                         /\ decision - Trailing <= e.known_at}),
       regime |-> \E e \in knowable : e.type = "regime_change" /\ due(e),
       since |-> IF supply = {} THEN None
                 ELSE Min({decision - Max({e.known_at : e \in supply}), Cap})]

\* Noon of the day before the hour's own.
Gate(mtu) == (DateOf(mtu) - 1) * Day + Day \div 2

-------------------------------------------------------------------------------
(* The builder.  A request is a record: zone, start, end, horizon, and the *)
(* lookback buffer of its configuration.                                   *)

Grid(r) == {t \in FlooredToHour(r.start)..(r.end - 1) : t % Hour = 0}
FetchStart(r) == FlooredToHour(r.start) - r.horizon - r.buffer
FetchEnd(r) == CHOOSE t \in Grid(r) : \A u \in Grid(r) : u <= t

\* What the query for one key returns: every query asks for the same window.
Points(db, r, key) == Fetch(db.data, key, FetchStart(r), FetchEnd(r))

\* _fetch_events: one query, for the events known by the last decision time.
FetchEvents(db, r) == {e \in db.events : e.known_at <= FetchEnd(r) - r.horizon}

\* Joined as of the decision time; and by the hour itself.
AsOf(db, r, mtu, key) == AtOrBefore(Points(db, r, key), mtu - r.horizon)
RealisedOf(db, r, mtu, product) == AsOf(db, r, mtu, RealisedKey(r.zone, product))
ForecastOf(db, r, mtu, type, name) == Exactly(Points(db, r, ForecastKey(r.zone, type, name)), mtu)
RevisionOf(db, r, mtu, type) == Less(ForecastOf(db, r, mtu, type, "1hour"), ForecastOf(db, r, mtu, type, "5hour"))

ForecastColumns(db, r, mtu) ==
  [k \in FORECAST_TYPES \X Permitted(r.horizon) |-> ForecastOf(db, r, mtu, k[1], k[2])]

RevisionColumns(db, r, mtu) ==
  [c \in Revisions(r.horizon) |->
     IF c = "wind_total" THEN SumOrNone([w \in Winds |-> RevisionOf(db, r, mtu, w)])
     ELSE RevisionOf(db, r, mtu, c)]

RealisedColumns(db, r, mtu) == [p \in FORECAST_TYPES \cup Production |-> RealisedOf(db, r, mtu, p)]

ResidualColumn(db, r, mtu) ==
  Less(SumOrNone([p \in Production |-> RealisedOf(db, r, mtu, p)]),
       SumOrNone([p \in FORECAST_TYPES |-> RealisedOf(db, r, mtu, p)]))

CrossZoneColumns(db, r, mtu) ==
  [z \in CrossZones(r.zone) |-> AsOf(db, r, mtu, <<"day_ahead", z, "price">>)]

ImbalanceColumns(db, r, mtu) == [p \in Imbalance |-> AsOf(db, r, mtu, <<"imbalance", r.zone, p>>)]

NordicKeys(zone) ==
  IF zone = "DK2"
  THEN {<<"inertia", "ALL", "nordic">>} \cup {<<"aFRR_lfc_limits", zone, side>> : side \in {"up", "down"}}
  ELSE {}
NordicColumns(db, r, mtu) == [k \in NordicKeys(r.zone) |-> AsOf(db, r, mtu, k)]

BorderColumns(db, r, mtu) ==
  [c \in Corridors(r.zone) |->
     <<AsOf(db, r, mtu, <<"aFRR_border_atc", c.name, "import">>),
       AsOf(db, r, mtu, <<"aFRR_border_atc", c.name, "export">>),
       RealisedOf(db, r, mtu, c.flow)>>]

WindErrorColumn(db, r, mtu) ==
  WindForecastError([w \in Winds |-> Points(db, r, RealisedKey(r.zone, w))],
                    [w \in Winds |-> Points(db, r, ForecastKey(r.zone, w, "day_ahead"))],
                    mtu - r.horizon)

EventColumns(db, r, mtu) ==
  EventFeatures(Knowable(FetchEvents(db, r), r.zone, mtu - r.horizon), mtu - r.horizon)

\* The row of one hour.
Row(db, r, mtu) ==
  [after_gate |-> mtu - r.horizon >= Gate(mtu),
   forecast   |-> ForecastColumns(db, r, mtu),
   revision   |-> RevisionColumns(db, r, mtu),
   realised   |-> RealisedColumns(db, r, mtu),
   residual   |-> ResidualColumn(db, r, mtu),
   cross_zone |-> CrossZoneColumns(db, r, mtu),
   imbalance  |-> ImbalanceColumns(db, r, mtu),
   nordic     |-> NordicColumns(db, r, mtu),
   border     |-> BorderColumns(db, r, mtu),
   wind_error |-> WindErrorColumn(db, r, mtu),
   event      |-> EventColumns(db, r, mtu)]

\* build_features: the rows of a request by their hour.
build_features(db, r) == [mtu \in Grid(r) |-> Row(db, r, mtu)]
===============================================================================
