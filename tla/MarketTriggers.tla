---------------------------- MODULE MarketTriggers ----------------------------
(***************************************************************************)
(* The rule engine on the table its writers fill: what it takes for the    *)
(* figure of a time, and which triggers the figures of the market_data     *)
(* view fire.                                                              *)
(***************************************************************************)
EXTENDS RuleEngine, MarketHistory

-----------------------------------------------------------------------------
(* Reference definitions, independent of the set-based ones.               *)

\* The rows in the order of the query: the k-th has k - 1 rows before it.
Listed(rows) ==
  [k \in 1..Cardinality(rows) |->
     CHOOSE r \in rows : Cardinality({s \in rows : Precedes(s, r)}) = k - 1]

\* _dedupe_latest_per_time as the code runs it: scan the rows in the order of
\* the query, keep the first row seen of each time.
ScanDedupe(rows) ==
  LET listed == Listed(rows)
      kept[k \in 0..Cardinality(rows)] ==
        IF k = 0 THEN {}
        ELSE IF \E s \in kept[k - 1] : s.time = listed[k].time THEN kept[k - 1]
        ELSE kept[k - 1] \cup {listed[k]}
  IN  kept[Cardinality(rows)]

\* The market_data view (init-db/01-init.sql): DISTINCT ON (time, zone),
\* highest fetched_at first.
View == {r \in history : \A s \in history :
           s.zone = r.zone /\ s.time = r.time => s.at <= r.at}

SeriesOf(table, z) == {r \in table : r.zone = z}

Fired(table) ==
  LET read == [z \in Zones |-> fetch_history(table, z)]
  IN  run_rule_engine({z \in Zones : SeriesOf(table, z) # {}}, read)

ThresholdTriggers(table) == {t \in Fired(table) : t.type # "revision_alert"}

\* Every series fits in what one fetch_history returns.
SeriesFit(table) == \A z \in Zones : Cardinality(SeriesOf(table, z)) <= HISTORY_FETCH_LIMIT

-----------------------------------------------------------------------------
(* Properties.                                                             *)

\* What the engine takes for "the figure of a time" (rule_engine.py,
\* _dedupe_latest_per_time) is what its list scan returns, and agrees with the
\* market_data view on every time it read: the dashboard and the triggers never
\* disagree about the current figure.
DedupeAgreesWithView ==
  \A z \in Zones :
    LET read == fetch_history(history, z)
    IN  /\ DedupeLatest(read) = ScanDedupe(read)
        /\ DedupeLatest(read) \subseteq View

\* Every fired trigger cites current figures: the value of a spike, a
\* non-positive price or a revision is the view's figure at the trigger's
\* time, and a divergence is the difference of the two zones' view figures;
\* and so does what each of them was compared with.
TriggersCiteTheView ==
  /\ DedupeAgreesWithView
  /\ \A t \in Fired(history) :
    IF t.type = "zone_divergence"
    THEN \E r, s \in View : /\ r.zone = "DK1" /\ s.zone = "DK2"
                            /\ r.time = t.time /\ s.time = t.time
                            /\ t.value = r.value - s.value
    ELSE \E r \in View : r.zone = t.zone /\ r.time = t.time /\ r.value = t.value

\* A save that repeats figures the view already shows changes no spike,
\* non-positive-price or divergence trigger: re-polling the same window every
\* 15 minutes must not skew a baseline.  Only while a series fits in one fetch:
\* beyond HISTORY_FETCH_LIMIT the repeated rows push the oldest times out.
Repeats == history' # history /\ \A n \in history' \ history :
             \E r \in View : r.zone = n.zone /\ r.time = n.time /\ r.value = n.value
RepollIsNeutral ==
  [][Repeats /\ SeriesFit(history') => ThresholdTriggers(history') = ThresholdTriggers(history)]_marketVars

=============================================================================
