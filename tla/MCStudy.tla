-------------------------------- MODULE MCStudy --------------------------------
(***************************************************************************)
(* A study of four days of two hours, with two folds: FCR up and the       *)
(* day-ahead price as targets, and a few points behind the features.  At   *)
(* the start one point of FCR up may be missing, or the whole last day.    *)
(***************************************************************************)
EXTENDS Study

MCLead == [x \in {"day_ahead", "5hour", "1hour"} |->
             CASE x = "day_ahead" -> 4 [] x = "5hour" -> 2 [] OTHER -> 1]
MCShare == <<1, 4>>
MCConfig == [min_train_span |-> 8, test_span |-> 4, step |-> 4]

Up == <<"FCR", "DK2", "up">>
Price == <<"day_ahead", "DK2", "price">>
MCLegs == <<[key |-> Up, hourly |-> FALSE], [key |-> Price, hourly |-> TRUE]>>
MCBaselines ==
  {[kind |-> "naive", lag |-> 4], [kind |-> "naive", lag |-> 6]} \cup
  {[kind |-> "climatology", lookback |-> n] : n \in {None, 8}}

Point(key, t, v) == [key |-> key, time |-> t, value |-> v]
UpPoints == {Point(Up, t, (t * t) % 7) : t \in {0, 2, 4, 6, 8, 10, 12, 14, 16}}
PricePoints == {Point(Price, t, t % 3) : t \in {0, 1, 4, 5, 6, 9, 10, 12, 13, 14, 16}}
Offshore == RealisedKey("DK2", "offshore_wind")
Onshore == RealisedKey("DK2", "onshore_wind")
FeaturePoints ==
  {Point(Offshore, t, t) : t \in {-6, -2, 4, 7}} \cup {Point(Onshore, t, 1) : t \in {-2, 4, 8}} \cup
  {Point(ForecastKey("DK2", w, "day_ahead"), t, 2) : w \in Winds, t \in {-2, 4, 8}} \cup
  {Point(ForecastKey("DK2", w, name), 8, 3) : w \in Winds, name \in {"5hour", "1hour"}} \cup
  {Point(<<"aFRR_lfc_limits", "DK2", "up">>, t, t) : t \in {-8, 5}} \cup
  {Point(<<"aFRR_border_atc", "SE4-DK2", "import">>, t, t) : t \in {-9, 1}} \cup
  {Point(<<"imbalance", "DK2", "imbalance_price">>, -1, 0)}

MCInitialData ==
  {(UpPoints \ gap) \cup PricePoints \cup FeaturePoints :
     gap \in {{}} \cup {{p} : p \in {q \in UpPoints : q.time \in {0, 6, 16}}} \cup {{p \in UpPoints : p.time >= 12}}}

MCNewPoints ==
  {Point(Up, 2, 5), Point(Up, 12, 1), Point(Price, 8, 4), Point(Offshore, 8, 0),
   Point(Onshore, 6, 2), Point(ForecastKey("DK2", "solar", "1hour"), 10, 1)}

Event(type, zone, weight, known, effective) ==
  [type |-> type, zone |-> zone, weight |-> weight, known_at |-> known, effective_from |-> effective]
MCNewEvents ==
  {Event("capacity_commissioning", "DK2", 10, 3, 2), Event("outage", "DK2", None, 9, 1),
   Event("demand_volume_change", "DK2", -4, 6, None), Event("regime_change", "DK2", None, 7, 3),
   Event("prequalification", None, 8, 1, 1)}
===============================================================================
