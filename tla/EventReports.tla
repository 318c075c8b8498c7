---------------------------- MODULE EventReports ----------------------------
(***************************************************************************)
(* The synthesis cycle of services/orchestrator/main.py and the ledger of  *)
(* published Event Reports (init-db/02-event-reports.sql).                 *)
(*                                                                         *)
(* A cycle reads the history of every series, evaluates the rule engine,   *)
(* and takes the fired triggers one at a time through synthesis (context   *)
(* window, claim retrieval, language model, citation validation), the      *)
(* correction check, the insert and the Slack post.  Every database call   *)
(* is a transaction of its own, so writers of market data, and other       *)
(* cycles, act between any two of them.  Cycles run in the orchestrator    *)
(* service on a schedule and in the API process on demand.                 *)
(*                                                                         *)
(* The model of what the language model writes is whether there is a       *)
(* report: synthesize_event_report overwrites the fields that name it.     *)
(***************************************************************************)
EXTENDS MarketHistory, RuleEngine

CONSTANTS
  Cycles,      \* who may run a cycle, one at a time each: the scheduler, a job, a request
  Faults,      \* which of the failures the code handles may happen
  NoReport,    \* corrects_event_id IS NULL
  MaxCycles    \* bound: cycles started

FaultKinds == {"engine", "trigger_save", "synthesis", "report_save", "slack", "crash"}

VARIABLES
  reports,     \* event_reports
  triggers,    \* the triggers table
  alerts,      \* Event Report alerts posted to Slack
  cycle,       \* the state of each runner's cycle
  started      \* cycles started so far (only for MaxCycles)

cycleVars == <<reports, triggers, alerts, cycle, started>>
vars == <<published, history, clock, batches, writer,
          reports, triggers, alerts, cycle, started>>

ReportZones == Zones \cup {DivergenceZone}
TriggerTypes ==
  {"price_spike", "negative_or_zero_price", "revision_alert", "zone_divergence"}
Triggers == [type : TriggerTypes, zone : ReportZones, time : Times, value : Int,
             up : BOOLEAN]

\* build_event_id, with the "-correction-<detected_at>" suffix as a number (0: none).
EventIds == [zone : ReportZones, time : Times, dir : {Product, "up", "down"}, suffix : Nat]

ASSUME CycleAssumption ==
  /\ Faults \subseteq FaultKinds
  /\ NoReport \notin EventIds
  /\ MaxCycles \in Nat

Drafts == [id : EventIds, zone : ReportZones, time : Times, type : TriggerTypes,
           value : Int, corrects : EventIds \cup {NoReport}, detected : Nat]

\* A row of event_reports: a draft that was inserted at published_at.
Reports == [id : EventIds, zone : ReportZones, time : Times, type : TriggerTypes,
            value : Int, corrects : EventIds \cup {NoReport}, detected : Nat, at : Nat]

PCs == {"idle", "reading", "processing", "synthesizing", "saving", "posting"}

\* One runner's cycle.  attempted and inserted are not in the code: they record
\* which fired triggers were processed and how many rows this cycle added.
CycleStates ==
  [pc : PCs, began : Nat, unread : SUBSET Zones, read : [Zones -> SUBSET Row],
   detected : Nat, fired : SUBSET Triggers, pending : SUBSET Triggers,
   draft : SUBSET Drafts, current : SUBSET Triggers,
   counted : Nat, attempted : SUBSET Triggers, inserted : Nat]

Idle == [pc |-> "idle", began |-> 0, unread |-> {}, read |-> [z \in Zones |-> {}],
         detected |-> 0, fired |-> {}, pending |-> {}, draft |-> {}, current |-> {},
         counted |-> 0, attempted |-> {}, inserted |-> 0]

TypeOK ==
  /\ MarketTypeOK
  /\ reports \subseteq Reports
  /\ triggers \subseteq [trigger : Triggers, detected : Nat]
  /\ alerts \subseteq Drafts
  /\ cycle \in [Cycles -> CycleStates]
  /\ started \in Nat

Init ==
  /\ MarketInit
  /\ reports = {}
  /\ triggers = {}
  /\ alerts = {}
  /\ cycle = [c \in Cycles |-> Idle]
  /\ started = 0

\* The cycle of runner c goes on in state s.
Becomes(c, s) == cycle' = [cycle EXCEPT ![c] = s]

-----------------------------------------------------------------------------
(* The rule engine's part of a cycle.                                      *)

\* run_synthesis_cycle begins: fetch_distinct_series.
StartCycle(c) ==
  /\ cycle[c].pc = "idle"
  /\ started < MaxCycles
  /\ started' = started + 1
  /\ Becomes(c, [Idle EXCEPT !.pc = "reading", !.began = clock,
                              !.unread = {r.zone : r \in history}])
  /\ UNCHANGED <<marketVars, reports, triggers, alerts>>

\* Mutant of ReadHistory: the loop over the series does not advance.
ReadHistoryAgain(c, z) ==
  /\ cycle[c].pc = "reading"
  /\ z \in cycle[c].unread
  /\ Becomes(c, [cycle[c] EXCEPT !.read[z] = fetch_history(history, z)])
  /\ UNCHANGED <<marketVars, reports, triggers, alerts, started>>

\* fetch_history of one series; each is a query of its own.
ReadHistory(c, z) ==
  /\ cycle[c].pc = "reading"
  /\ z \in cycle[c].unread
  /\ Becomes(c, [cycle[c] EXCEPT !.unread = @ \ {z},
                                  !.read[z] = fetch_history(history, z)])
  /\ UNCHANGED <<marketVars, reports, triggers, alerts, started>>

\* A query of the rule engine raises, or ensure_collection does: no trigger fires.
EngineFails(c) ==
  /\ "engine" \in Faults
  /\ cycle[c].pc = "reading"
  /\ Becomes(c, Idle)
  /\ UNCHANGED <<marketVars, reports, triggers, alerts, started>>

FiredBy(c) ==
  run_rule_engine({z \in Zones : cycle[c].read[z] # {}}, cycle[c].read)

\* The checks, then save_trigger for each fired trigger.  A failed insert is
\* logged and the next trigger is tried.
Evaluate(c) ==
  /\ cycle[c].pc = "reading"
  /\ cycle[c].unread = {}
  /\ clock' = Now
  /\ \E fired \in {FiredBy(c)} :
       /\ \E unsaved \in SUBSET fired :
            /\ unsaved # {} => "trigger_save" \in Faults
            /\ triggers' = triggers \cup
                 {[trigger |-> t, detected |-> Now] : t \in fired \ unsaved}
       /\ Becomes(c, [cycle[c] EXCEPT !.pc = "processing", !.read = [z \in Zones |-> {}],
                                       !.detected = Now, !.fired = fired,
                                       !.pending = fired])
  /\ UNCHANGED <<published, history, batches, writer, reports, alerts, started>>

-----------------------------------------------------------------------------
(* process_trigger, for the fired triggers in order.                       *)

TakeTrigger(c) ==
  /\ cycle[c].pc = "processing"
  /\ \E t \in cycle[c].pending :
       /\ \A s \in cycle[c].pending : ~Before(s, t)
       /\ Becomes(c, [cycle[c] EXCEPT !.pc = "synthesizing", !.current = {t},
                                       !.pending = @ \ {t}, !.attempted = @ \cup {t}])
  /\ UNCHANGED <<marketVars, reports, triggers, alerts, started>>

\* process_trigger ended: run_synthesis_cycle goes on to the next trigger.
NextTrigger(s, published_, inserted_) ==
  [s EXCEPT !.pc = "processing", !.current = {}, !.draft = {},
            !.counted = @ + published_, !.inserted = @ + inserted_]

\* Mutant of SynthesisFails: the failure ends the whole cycle.
SynthesisAborts(c) ==
  /\ "synthesis" \in Faults
  /\ cycle[c].pc = "synthesizing"
  /\ Becomes(c, [NextTrigger(cycle[c], 0, 0) EXCEPT !.pc = "idle", !.pending = {}])
  /\ UNCHANGED <<marketVars, reports, triggers, alerts, started>>

\* No report: no API key, the call failed, the report was rejected, or a query
\* raised (caught by run_synthesis_cycle).
SynthesisFails(c) ==
  /\ "synthesis" \in Faults
  /\ cycle[c].pc = "synthesizing"
  /\ Becomes(c, NextTrigger(cycle[c], 0, 0))
  /\ UNCHANGED <<marketVars, reports, triggers, alerts, started>>

\* build_event_id
build_event_id(t) ==
  [zone |-> t.zone, time |-> t.time, dir |-> infer_direction(t), suffix |-> 0]

\* Mutant of find_published_report: ORDER BY published_at without DESC.
FindOldestReport(zone, time) ==
  LET found == {r \in reports : r.zone = zone /\ r.time = time}
  IN  {r \in found : \A s \in found : s.at >= r.at}

\* find_published_report: the newest row of the key, if there is one.
find_published_report(zone, time) ==
  LET found == {r \in reports : r.zone = zone /\ r.time = time}
  IN  {r \in found : \A s \in found : s.at <= r.at}

Draft(t, id, corrects, detected) ==
  [id |-> id, zone |-> t.zone, time |-> t.time, type |-> t.type, value |-> t.value,
   corrects |-> corrects, detected |-> detected]

\* Mutant of DraftsOf: no correction check.
DraftsUnchecked(t, detected) == {Draft(t, build_event_id(t), NoReport, detected)}

\* A revision alert for a key that has a report becomes a correction of the
\* newest one; anything else is published as it is.
DraftsOf(t, detected) ==
  LET existing == IF t.type = "revision_alert"
                  THEN find_published_report(t.zone, t.time) ELSE {}
  IN  IF existing = {}
      THEN {Draft(t, build_event_id(t), NoReport, detected)}
      ELSE {Draft(t, [build_event_id(t) EXCEPT !.suffix = detected], e.id, detected) :
              e \in existing}

\* The model returned a valid report, and the ledger is read.
Synthesize(c) ==
  /\ cycle[c].pc = "synthesizing"
  /\ \E t \in cycle[c].current : \E d \in DraftsOf(t, cycle[c].detected) :
       Becomes(c, [cycle[c] EXCEPT !.pc = "saving", !.draft = {d}])
  /\ UNCHANGED <<marketVars, reports, triggers, alerts, started>>

\* INSERT ... ON CONFLICT (event_id) DO NOTHING; published_at DEFAULT now().
Inserted(d, stamp) ==
  IF \E r \in reports : r.id = d.id THEN {}
  ELSE {[id |-> d.id, zone |-> d.zone, time |-> d.time, type |-> d.type,
         value |-> d.value, corrects |-> d.corrects, detected |-> d.detected,
         at |-> stamp]}

\* Mutant of SaveReport: ON CONFLICT (event_id) DO UPDATE.
SaveReportUpsert(c) ==
  /\ cycle[c].pc = "saving"
  /\ clock' = Now
  /\ \E d \in cycle[c].draft :
       LET old == {r \in reports : r.id = d.id}
           row == [id |-> d.id, zone |-> d.zone, time |-> d.time, type |-> d.type,
                   value |-> d.value, corrects |-> d.corrects, detected |-> d.detected,
                   at |-> Now]
       IN  /\ reports' = (reports \ old) \cup {row}
           /\ Becomes(c, [cycle[c] EXCEPT !.pc = "posting",
                                           !.inserted = @ + 1 - Cardinality(old)])
  /\ UNCHANGED <<published, history, batches, writer, triggers, alerts, started>>

SaveReport(c) ==
  /\ cycle[c].pc = "saving"
  /\ clock' = Now
  /\ \E d \in cycle[c].draft :
       /\ reports' = reports \cup Inserted(d, Now)
       /\ Becomes(c, [cycle[c] EXCEPT !.pc = "posting",
                                       !.inserted = @ + Cardinality(Inserted(d, Now))])
  /\ UNCHANGED <<published, history, batches, writer, triggers, alerts, started>>

\* Mutant of SaveReportFails: the exception is logged but not returned on.
SaveReportFailsOn(c) ==
  /\ "report_save" \in Faults
  /\ cycle[c].pc = "saving"
  /\ Becomes(c, [cycle[c] EXCEPT !.pc = "posting"])
  /\ UNCHANGED <<marketVars, reports, triggers, alerts, started>>

SaveReportFails(c) ==
  /\ "report_save" \in Faults
  /\ cycle[c].pc = "saving"
  /\ Becomes(c, NextTrigger(cycle[c], 0, 0))
  /\ UNCHANGED <<marketVars, reports, triggers, alerts, started>>

\* send_event_report_alert; process_trigger then returns True.
PostAlert(c) ==
  /\ cycle[c].pc = "posting"
  /\ alerts' = alerts \cup cycle[c].draft
  /\ Becomes(c, NextTrigger(cycle[c], 1, 0))
  /\ UNCHANGED <<marketVars, reports, triggers, started>>

\* Slack is not configured, or the post failed: logged, still True.
PostAlertFails(c) ==
  /\ "slack" \in Faults
  /\ cycle[c].pc = "posting"
  /\ Becomes(c, NextTrigger(cycle[c], 1, 0))
  /\ UNCHANGED <<marketVars, reports, triggers, alerts, started>>

-----------------------------------------------------------------------------

FinishCycle(c) ==
  /\ cycle[c].pc = "processing"
  /\ cycle[c].pending = {}
  /\ Becomes(c, [cycle[c] EXCEPT !.pc = "idle"])
  /\ UNCHANGED <<marketVars, reports, triggers, alerts, started>>

\* The process running the cycle dies; nothing of the cycle is kept.
Crash(c) ==
  /\ "crash" \in Faults
  /\ cycle[c].pc # "idle"
  /\ Becomes(c, Idle)
  /\ UNCHANGED <<marketVars, reports, triggers, alerts, started>>

\* A scheduled tick while AUTO_RUN_ENABLED is not "true".
GateClosed == UNCHANGED vars

\* What the code of a running cycle does next, when nothing fails.
Progress(c) ==
  \/ \E z \in Zones : ReadHistory(c, z)
  \/ Evaluate(c)
  \/ TakeTrigger(c)
  \/ Synthesize(c)
  \/ SaveReport(c)
  \/ PostAlert(c)
  \/ FinishCycle(c)

Failure(c) ==
  \/ EngineFails(c)
  \/ SynthesisFails(c)
  \/ SaveReportFails(c)
  \/ PostAlertFails(c)
  \/ Crash(c)

MarketStep ==
  /\ \/ \E k \in Keys, v \in Values : Publish(k, v)
     \/ \E w \in Ingestors : Poll(w)
     \/ \E w \in Backfills, first, last \in Times : BackfillChunk(w, first, last)
     \/ \E w \in Writers : Save(w) \/ SaveFails(w)
  /\ UNCHANGED cycleVars

Next ==
  \/ MarketStep
  \/ \E c \in Cycles : StartCycle(c) \/ Progress(c) \/ Failure(c)
  \/ GateClosed

Spec == Init /\ [][Next]_vars

\* A running cycle goes on: its awaits end (the HTTP clients have timeouts), and
\* nothing in it waits for another process.  No fairness is assumed of the
\* scheduler, the writers or Energinet, and no failure is promised to happen.
FairSpec == Spec /\ \A c \in Cycles : WF_vars(Progress(c))
-----------------------------------------------------------------------------
(* What the ledger promises, and what a cycle promises.                    *)

About(r) == <<r.zone, r.time>>

\* What a row says, for the ledger: nothing of it may ever change.
Says(r) == <<r.type, r.value, r.detected, r.at>>

LedgerView ==
  {[id |-> r.id, about |-> About(r), says |-> Says(r), corrects |-> r.corrects] : r \in reports}

Ledger == INSTANCE ReportLedger WITH
  ledger <- LedgerView, Ids <- EventIds, Subjects <- ReportZones \X Times,
  Contents <- TriggerTypes \X Int \X Nat \X Nat, None <- NoReport

\* event_reports is an append-only ledger whatever the cycles do: an insert
\* never changes a row, a re-used event_id is a no-op, and a correction names
\* a row about the same key that was there before it (README section 5).
ImplementsLedger == Ledger!Spec

\* A report published for a revision alert, of a key that had a report, is a
\* correction (02-event-reports.sql; process_trigger's correction check).
\* Needs that no other cycle publishes between the check and the insert.
RevisionsAreCorrections ==
  \A r, s \in reports :
    r.type = "revision_alert" /\ About(s) = About(r) /\ s.at < r.at
      => r.corrects # NoReport

\* The corrections of a key form one chain: no report is corrected twice, each
\* correction naming the newest report of the key (find_published_report).
\* Needs that no other cycle publishes between the check and the insert.
CorrectionsFormAChain ==
  \A r, s \in reports : r.corrects # NoReport /\ r.corrects = s.corrects => r = s

\* Slack is told of a report only once a report of that event_id is in the
\* ledger: process_trigger returns before the post when the insert raised.
AlertsFollowTheLedger ==
  \A a \in alerts : \E r \in reports : r.id = a.id /\ About(r) = About(a)

\* A failed Slack post does not turn a published report into an uncounted one.
NoUncountedReport ==
  \A c \in Cycles :
    cycle[c].inserted <= cycle[c].counted + (IF cycle[c].pc = "posting" THEN 1 ELSE 0)

\* One trigger's failure never stops the others: a cycle that ends has
\* processed every trigger it fired (process_trigger's docstring).
EveryTriggerAttempted ==
  \A c \in Cycles : cycle[c].pc = "idle" => cycle[c].attempted = cycle[c].fired

\* A trigger never cites a figure that had been superseded when its cycle began:
\* the latest revision stored by then counts (fetch_history,
\* _dedupe_latest_per_time), for each of the two figures a divergence compares.
Superseded(row, when) ==
  \E s \in RowsOf(<<row.zone, row.time>>) : row.at < s.at /\ s.at <= when

Fresh(row, when) == ~Superseded(row, when)

TriggersAreFresh ==
  \A c \in Cycles : \A t \in cycle[c].fired :
    IF t.type = "zone_divergence"
    THEN \E r \in RowsOf(<<"DK1", t.time>>), s \in RowsOf(<<"DK2", t.time>>) :
           /\ t.value = r.value - s.value
           /\ Fresh(r, cycle[c].began) /\ Fresh(s, cycle[c].began)
    ELSE \E r \in RowsOf(<<t.zone, t.time>>) :
           t.value = r.value /\ Fresh(r, cycle[c].began)

\* Every published report can be traced to the persisted trigger it explains,
\* of the same evaluation (GET /triggers), as long as save_trigger succeeds.
ReportsHaveTriggers ==
  \A r \in reports : \E x \in triggers :
    /\ x.detected = r.detected
    /\ x.trigger.type = r.type
    /\ x.trigger.zone = r.zone
    /\ x.trigger.time = r.time
    /\ x.trigger.value = r.value

\* What a cycle leaves behind adds up, whichever of its steps failed: every trigger
\* it fired has been attempted, every report it published has its trigger in the
\* triggers table, and reports_published misses no row the cycle added.
CycleAccounts == EveryTriggerAttempted /\ ReportsHaveTriggers /\ NoUncountedReport

\* A cycle that has begun ends, under every mix of failures.
CycleEnds == \A c \in Cycles : cycle[c].pc # "idle" ~> cycle[c].pc = "idle"

-----------------------------------------------------------------------------
(* What the repository says of a cycle and the code does not do.           *)

\* "A trigger re-fired for the same already-published key is a harmless no-op
\* INSERT, not a duplicate report" (build_event_id): when a later cycle fires the
\* same trigger again, the same class, key, direction and figure, the ledger gains
\* no report.
Refired(r, s) ==
  /\ About(r) = About(s) /\ r.type = s.type
  /\ r.id.dir = s.id.dir /\ r.value = s.value
  /\ r.detected < s.detected

NoDuplicateReport == ~\E r, s \in reports : Refired(r, s)

\* A cycle has begun and ended since the last batch was saved, and all are at rest.
Settled ==
  /\ \A c \in Cycles : cycle[c].pc = "idle"
  /\ \E c \in Cycles : cycle[c].detected # 0 /\ \A r \in history : r.at <= cycle[c].began

Newest(k) == find_published_report(k[1], k[2])

\* "If a revision invalidates an already-published Event Report beyond
\* tolerance, the agent emits a correction event referencing the original
\* report" (README section 5): once a cycle has run over the stored figures
\* without a failure, no key's newest report is off by more than tolerance.
RevisedReportsAreCorrected ==
  Settled => \A k \in Keys : \A r \in Newest(k), v \in ViewRows(k) :
    ~BeyondTolerance(r.value, v.value)

=============================================================================
