# AncillaryNews in TLA+

AncillaryNews watches the Danish ancillary-service markets.  It polls
Energinet's open data, stores every figure it ever saw, fires triggers on
unusual figures, has a language model write an Event Report about each trigger
from cited claims, and publishes the report; a later revision of the figure is
meant to produce a correction, never a rewrite.  Around that core sit a daily
Morning Brief, a crawler that collects the claims, battery simulations, and an
offline forecasting study.

This directory holds TLA+ models of the program, TLC configurations, and proofs
checked by TLAPS.  Paths below are relative to the repository's sources.

## 1. Inventory

Processes: the ingestor, the orchestrator, the crawler and the API service, one
container each, and scripts run by hand.  They share one Postgres database and
one Qdrant collection and nothing else.  Each is one asyncio loop; the API adds a
thread pool and background threads.  No transaction spans two calls of
`DatabaseManager`: every method borrows a connection, runs one transaction and
returns it.  That is why the models take every database call as one atomic step
and put everything else between two of them.

| Component | State it keeps | Operations | Talks to | Hard part | What makes it correct |
|---|---|---|---|---|---|
| market data history (`init-db/01-init.sql`, `db_manager.save_market_data`, `shared/backfill.py`) | append-only table of figures, view of the newest | save a batch, backfill a window | Energinet; read by everything | two writers; revisions; stamps taken at the save | the view is one figure per key, and goes back only by a batch that was overtaken |
| ingestor (`services/ingestor/main.py`) | last poll attempt per dataset, in memory | one cycle: due datasets, fetch, save | Energinet client, history | overrunning cycles, retries, drift of the attempt stamp, two errors outside every `try` of the loop | no dataset early, none starved but by what is counted |
| Energinet client (`shared/base_ingestor.py`) | token bucket | acquire, fetch with retries | HTTP | pacing under retries | request rate bounded |
| rule engine (`shared/rule_engine.py`) | none | four trigger classes | history | several revisions of one time; two zones; short histories | triggers cite current figures; a re-poll changes nothing |
| synthesis cycle (`services/orchestrator/main.py`) | counters of the cycle | evaluate, synthesise, check, insert, post | history, claim store, model, Slack | failure at each await, several runners, re-fired triggers | nothing stops the rest; corrections chain; accounts match |
| report ledger (`init-db/02-event-reports.sql`, `03-triggers.sql`) | event_reports, triggers | insert-or-nothing, find newest | orchestrator, API | check and insert in two transactions | append-only, unique ids, corrections resolve |
| crawler and claim store (`services/crawler/main.py`, `shared/vector_store.py`, `rss_reader.py`, `claim_extractor.py`, `event_extractor.py`) | Qdrant points, market_events | crawl cycle, manual submission | feeds, model, Qdrant, Postgres | check then write; claims and events in two stores; no transaction over both | an article is stored from one reading; its events follow and are never rewritten |
| morning brief (`run_morning_brief`, `forecast_synthesizer.py`) | forecast_cache, morning_briefs | recap, cached forecasts, save, deliver, mark | model, Slack, e-mail | upsert resets flags; two runs of one day | flags tell the truth; a failure stops nothing else |
| API background jobs (`services/api/main.py`) | job registry, lazy singletons | start, finish, query | orchestrator and crawler code in-process | threads; run-now routes beside the registry | one job per name; status is truthful; a job ends |
| connection pool (`db_manager.DatabaseManager`) | up to five connections | borrow, return | Postgres | shared by threads, unlocked | every connection returned; bounded |
| schema migration (`scripts/migrate.py`) | the schema | apply every file | Postgres | stop in the middle, rerun | rerun converges |
| BESS simulator (`shared/bess_simulator.py`) | simulation runs and ticks | backtest of a window, by thresholds or by a plan | history, co-optimiser | prices with holes; rolling cycle cap; power divided among legs; look-ahead | the battery and the cap are kept, power is sold once, decisions rest on the past |
| BESS co-optimiser (`shared/bess_dispatch_milp.py`) | none | plan and settle a window, replay a result | a solver | reserve that must stay deliverable; two sets of prices | the plan is feasible and no better than hindsight |
| economic evaluation (`shared/economic_eval.py`) | none | four policies over the same hours | forecasts | a second copy of the dispatch loop; warm-up hours | policies differ by what they know alone |
| feature store, baselines, forecast model, studies (`shared/feature_store.py`, `baselines.py`, `forecast_model.py`, `scripts/generate_economic_eval_report.py`) | none (offline) | gate, targets, rows, folds, forecasts | history, market_events | look-ahead; a database that is written meanwhile; row limits | a row or a forecast uses only what was known |
| registry, validation, units, metrics, dashboards, report scripts | constants, counters, pages | - | - | - | - |

## 2. The modules

| Module | What it models |
|---|---|
| `MarketHistory` | `market_data_history`, its writers and the external publisher |
| `MarketOrder` | the same table with two history variables: when the batch of each row was fetched |
| `RuleEngine` | the trigger classes, as operators on the rows of a series |
| `MarketTriggers` | composes the two: which triggers the table fires, beside the view and the list scan of the code |
| `EventReports` | the synthesis cycle; EXTENDS `MarketHistory` and `RuleEngine`, so the ingestor's saves interleave with every step of a cycle |
| `ReportLedger` | what the ledger promises, independent of how a cycle works |
| `PollSchedule` | when the ingestor requests which dataset, and the client's pacing and retries |
| `MorningBrief` | the Morning Brief, its forecast cache and its two deliveries |
| `BessSeries` | price series with holes, carry-forward, the causal z-score: what the battery engines share |
| `BessDispatch` | the co-optimiser: the feasible plans of a window, the best of them, its settlement |
| `BessBacktest` | `run_backtest`: the threshold engine period by period, or one plan |
| `EconomicEval` | the four policies of the economic evaluation, hour by hour |
| `SameHours` | composes the two: a backtest and the evaluations of its window, stepped over the same hours |
| `StudyTime`, `FeatureStore`, `WalkForward` | hours and days; the rows of `build_features`; gate, folds, baselines and model fits |
| `Study` | a forecast study from its coverage gate to the scored hours, while the database is written |
| `Articles` | feed entries, pasted posts and model replies, as operators |
| `Crawler` | crawl cycles, jobs, requests and submissions over one claim store and one events table |
| `MCRuleEngine`, `MCEventReports`, `MCPollSchedule`, `MCMorningBrief`, `MCBess`, `MCStudy`, `MCCrawler` | constants and inputs for TLC |
| `EventReportsProofs` (with those about the market data and the rule engine on it), `PollScheduleProofs`, `MorningBriefProofs`, `BessProofs`, `EconomicEvalProofs`, `StudyProofs`, `CrawlerProofs` | theorems |
| `BessSeriesProofs` | the lemmas about sums, fractions, trailing windows and look-ups that `BessProofs` and `EconomicEvalProofs` rest on |

`PollSchedule` and `MarketHistory` are two views of the ingestor: the first says when
a dataset is requested and forgets what comes back, the second says what a save does
and lets it happen at any time.  `MorningBrief` shares no table with the rest but
`bess_simulation_runs`, of which it keeps its own rows.  `SameHours` EXTENDS `BessBacktest`
and `EconomicEval` and steps both over the same hours, so that the two copies of the
dispatch loop can be compared tick by tick.  `Study` EXTENDS `FeatureStore` and
`WalkForward`; its writers are those of the ingestor and the crawler, reduced to what a
reader of the view sees.

### MarketHistory

`published` is Energinet: for each (zone, time) the figures published so far.
A *writer* fetches (`Poll`: the newest times; `BackfillChunk`: a window) and holds
what it fetched in `writer[w]`; `Save` is `save_market_data`, one transaction under
one `fetched_at` read from the clock at the save.  `SaveFails` is the rollback or
the death of the process.  A row carries, besides its columns, `asOf`: which
published figure it is, so that "newer" has a meaning of its own.  Reading the
clock and committing are one step (stated at `Save`).

The table does not say when a batch was fetched, only when it was saved.
`MarketOrder` adds what the order of two writers is told by: `Departs` notes the clock
when a writer fetches (`inFlight`), `Arrives` keeps it with the stamp of the save
(`taken`).  Both only watch (`OrderIsMarket`).

### RuleEngine

`fetch_history`, `_dedupe_latest_per_time`, the four `check_` functions and
`run_rule_engine` are set definitions with the code's names.  The z-score test is
multiplied out to integers, exactly.  The order of the fired list is `Before`.
A deduped series is a set of rows with one row of each time, `Figures` the dict the code
keeps of it; `OutlierTriggers` is the z-score check both of a series and of the
differences of two.  In `MarketTriggers`, `ScanDedupe` is the loop of the code over the
rows in the order of the query; that it keeps what `DedupeLatest` says is part of
`TriggersCiteTheView`.

### EventReports

One record per runner, `cycle[c]`, with a `pc` that moves at the points where the
code awaits or calls the database:

    idle -> reading -> processing -> synthesizing -> saving -> posting
              ^  one fetch_history      |                        |
              |  per series             +------ next trigger ----+

`StartCycle` is `fetch_distinct_series`; `ReadHistory` one query each; `Evaluate`
the checks and the `save_trigger` loop; `TakeTrigger` the loop of
`run_synthesis_cycle`; `Synthesize` the model call, the citation validation and the
correction check; `SaveReport` the insert with ON CONFLICT DO NOTHING; `PostAlert`
the Slack post.  Every failure the code catches is an action (`EngineFails`,
`SynthesisFails`, `SaveReportFails`, `PostAlertFails`, the `unsaved` triggers of
`Evaluate`), and `Crash` is the death of the process.  `Faults` selects which can
happen.  Two fields of the record are not in the code: `attempted` and `inserted`,
which only remember what was done.  One clock reading stands for the `detected_at`
of all triggers of an evaluation, which the code reads one by one.

### PollSchedule

The clock is relative: `since[d]` is the age of the stamp in `_last_poll_attempt`,
`untilRun` the time to the scheduler's next firing, `wait` what is left of a sleep or
a request.  The cycle's state is `pc` and its loop variables:

    idle -> looping -> pacing -> acquiring -> requesting -> looping (next dataset)
                                     ^             |
                                     +-- backoff <-+  a retry

`StartCycle` computes `due_names`; `CycleCannotStart` is `DatabaseManager()` raising
before the loop's `try`, so that nothing is polled or stamped until the next firing;
`PaceDataset`, `StampAttempt` and `Acquire` are the pause, the stamp and the token of
one dataset; `Answered`, `Retry`, `NextAttempt` and `FetchFails` the outcomes of a
request, and `AnswerEndsCycle` the one that is not caught per dataset: JSON that is not
an object makes `data.get` raise and ends the cycle. `MissRun` is a firing while a cycle
runs (APScheduler skips it) and `Restart` forgets the stamps. `Tick` lets time pass only
while the service sleeps or waits; computation takes none. Ages stop at `Horizon`.

`excused[d]` is a history variable.  From the moment a dataset is due until its next
attempt it adds up what is not the loop's doing: a period for each cycle that could not
start, a period and a cycle for each one ended before the dataset's turn, and the time
spent before retries of other datasets, which a `Retry-After` can make as long as it
likes.

### MorningBrief

One record per runner (the 07:00 job, the API route); `pc` moves at the database
calls, the model calls and the deliveries of `run_morning_brief`:

    idle -> forecasting <-> synthesizing -> estimating -> saving -> slack -> email -> marking

`ReadCache`, `SaveForecast`, `SynthesisFails` and `HorizonFails` are
`get_or_refresh_forecast` for one horizon and the `except` around it; `SaveBacktest`
is one round of `run_illustrative_backtests`; `SaveBrief` the upsert that resets the
flags; `Deliver` and `DeliverFails` a channel, whose answer may be lost after the
brief arrived; `MarkDelivery` the flags.  What a brief says is the number of the run
that composed it.  Time is counted in days.  `attempted`, `delivered`, `died` and
`overlapped` are not in the code: they remember what was tried, what arrived, and
which runs crashed or were not alone.

### BessSeries, BessDispatch, BessBacktest, EconomicEval, SameHours

Everything is exact: prices and times are integers, a mean or a ratio is a reduced
fraction, and stored energy is counted in a unit in which a megawatt-hour bought adds
`in` and one sold takes `out`, `in / out` being the round-trip efficiency.  The code
uses floats; rounding is not modelled.

`Tick` is one turn of the loop of `run_backtest`: book the reserve (`BookCapacity`,
with the carry-forward budgets of `ValueAtOrBefore`), then remember the price
(`Remember`), then move (`Move`: the z-score's stance, the headroom, what the rolling
window leaves of the cycle cap).  `Dispatch` is the other engine: the solver is
external, and enters as the choice of an `Optimal` plan among the `Feasible` ones,
which are enumerated in whole megawatts.  `EvalHour` is one hour of `_simulate_core` for
the four policies together; an evaluation begins with any member of `Evaluations`, a
battery with prices and forecasts, that `__post_init__` accepts (`ValidBattery`).  The
rolling window of discharges (`Recent`) is the same code in both engines and is shared.

`SameTick` is a period of the backtest together with an hour of the evaluation, where the
evaluation can read the window (`Comparable`: the threshold engine with an even reserve,
the two FCR-D legs, hourly prices with none missing); beside any other window, and beside
a plan, there is no evaluation.  `Predictions` are the forecasts an evaluation of a window
may be given; the window gives it everything else.

### StudyTime, FeatureStore, WalkForward, Study

`Row` is one row of `build_features`, as a function of the database, the request and
the hour: every column, the events included, but not those that follow from the
calendar alone.  A boosted model is the set of rows it was fitted and validated with,
and its forecast the pair of the model and the row it is asked about: enough to say
what a forecast depends on, which is what the properties are about.  The steps of
`Study` are those of the script, `CoverageGate`, `FetchTarget`, `CompareTargets`,
`BuildFeatures`, `ForecastFold` and `ScoreTicks`, with `StorePoint` and `StoreEvent`
between any two.  The queries of `build_features` are one step.

### Articles, Crawler

One record per run, `runs[r]`; `kind` says who started it (`ScheduledCrawl`, `RouteCrawl`,
`StartJob`, `SubmitManual`) and `pc` where it is:

    ensure -> (create) -> check -> store -> events -> save -> check (next article) ...
                            |                                   -> end -> over

A step ends at an await whose effect others can see: the processed check, the upsert
of claims or of the raw text, the model's answer about events, each insert.  Awaits
that touch nothing shared (fetching a page, asking about claims) belong to the step
that follows.  `EnsureFails`, `FeedFails`, `ArticleFails`, `StoreFails` and `EventsFail`
are the failures the code catches, `ApiRestarts` and `CrawlerRestarts` the deaths.  In
`StoreFails` the claims may have been stored: only the answer was lost.  `overlapped`,
`claimless`, `cut` and `found` are not in the code: they remember which articles two
runs had in hand at once, which gave no claim, whose events were cut short, and how
many events were found.

## 3. The runs

Every instance is exhausted in under four minutes.

| Run | Question | Bounds, and why they suffice |
|---|---|---|
| `rule_engine` | Do the view and the trigger classes see the current figures, whatever the order of polls, backfills and revisions? | an ingestor beside a backfill, so that one batch can overtake the other; two batches over three times and two zones, figures revised already and once more meanwhile: MIN_HISTORY_POINTS is 2, so three times give one evaluated point and a baseline, and each batch can revise any of them; a fetch of five rows, so that six are cut |
| `event_reports` | Does one runner publish, correct, account and finish under every mix of failures? | two cycles, two batches: the spike, its revision, and a second cycle on the revised figure |
| `event_reports_concurrent` | Is the ledger append-only and Slack behind it with two runners, and are the two sides of a divergence current though read apart? | two interchangeable runners with two cycles between them, two zones whose divergence fires, a figure that is revised while they run, two saved batches, report inserts that can fail |
| `poll_schedule` | Is no dataset early and none starved, with retries, outages, malformed answers and restarts? | three cadences (every cycle, undeclared, every other cycle), up to two attempts; a worst cycle outlasts several periods, so runs are missed; turns are lost until a dataset is excused for more than 20, three periods, so an outage spans several cycles and meets a lost turn; the bound is 45 (39 for the faster datasets) and what is excused, and no age of an attempt gets as far as the horizon, 130 |
| `morning_brief` | Do flags, quotes and the cache stay right over two runs with failures? | two runs, so one can overlap the other, follow it on the same day or on the next; two horizons, one fresh on the second day and one not, and a cache that holds an expired forecast; two failures, so a stage of each run or two of one can fail |
| `bess` | Is the battery respected, power sold once, and nothing decided with later prices, by every engine and policy? | windows of five or six hours with a day of four, so the rolling day slides; a lookback of two; prices in three values; a day-ahead series with holes, legs that stop or have a single price; for plans two or three periods, prices below zero, two energy markets |
| `study` | Does a row or a forecast ever use what came later? | four days of two hours and two folds, so there is a training window that has left some rows behind; targets with gaps of a point and of a day; two writes at any moment |
| `article_store` | Is an article stored from one reading of it, with its events, and is a job's record true? | two runs of any kind over an official and a media feed and a pasted post whose page is the media article; one failed call or restart anywhere; replies that are empty, garbage or partly unusable |
| `duplicate_reports` (violation) | Is a re-fired trigger a no-op? | two cycles over one revision; the two reports compared are of one trigger type and figure, found by different evaluations |
| `missed_correction` (violation) | Does every invalidating revision lead to a correction? | three batches, two of them with the same revised figure |
| `bess_dead_leg` (violation) | Does a leg whose data stops stop paying? | the windows of `bess` |
| `study_cut` (violation) | Is every stored figure of a window fetched? | the database of `study`, with a row limit of two |

The violation runs each show the code doing something other than what a comment
or document of the repository says; PROJECT.json quotes the line.

* `duplicate_reports`: a revision alert stays true until another row arrives, so it
  fires in every cycle, and each time is published again as a correction of the report
  before it.  In the run the first cycle publishes the alert and the second, with no row
  in between, publishes it again.
* `missed_correction`: revisions are looked for between the two newest rows, and
  every poll adds a row; a revision polled twice is invisible.
* `bess_dead_leg`: the carry-forward budget of a leg is the spacing of its prices in
  the window; a leg with one price has none, and is paid at that price to the end.
* `study_cut`: `_fetch_sorted_series` passes a limit of 200 000 with newest first,
  which `fetch_series_values` warns against; the reports' windows hold more points.

What `FlagsAreTruthful`, `ReadOnce` and `EventsFollowClaims` leave out, they leave out
because the code does not promise it, as the next section says.

### Seen while modelling, and not run

Market data and synthesis:

* `fetched_at` is called the poll timestamp (`init-db/01-init.sql:10`) but is read at
  the save.  A backfill chunk fetched before a revision and saved after the poll that
  got it hides the revision until the next poll, although `01-init.sql` says the view
  "always reflects the most recently fetched row" (of the stamps that is so, of the
  fetches it is not).  `ViewKeepsUp` states what is true of the fetches.
* An answer that is JSON but not an object raises at `services/ingestor/main.py:207`,
  outside the `try` of its dataset, and ends the cycle, though the docstring of
  `run_ingestion_cycle` says "a single misbehaving dataset doesn't take down polling for
  the rest".  The datasets after it in the registry are polled only when it recovers.
* `_last_poll_attempt` is stamped when a dataset's turn comes.  If more than half a
  cycle of retries lies before it, it is not due in the next cycle, though the docstring
  at `services/ingestor/main.py:159` says such a dataset is polled in every cycle.
* `process_trigger` counts and posts a report whose insert was a no-op: a spike and a
  non-positive price of one time share one id.
* A trigger whose insert and whose synthesis both fail leaves no trace.  (`save_trigger`
  failing is in `Evaluate`, and so in every theorem about the cycle; no run injects it, as
  the subsets of triggers that are saved multiply the states past what TLC exhausts.)  Two concurrent
  runners can publish a revision that is not marked as a correction.  A divergence
  report is filed under `DK1_vs_DK2` and is never found by the correction check.  A
  history of 1000 rows that are mostly revisions can be too short for a baseline.

Morning brief: of two runs of one day that overlap, the one that saves first marks the
row of the one that saved last, whose flags were reset because the content "needs
re-delivering"; and both make the same forecast.

Battery:

* With one energy market and a negative price the co-optimiser charges and discharges
  at once, burning energy for pay.  `BurnsOnlyBelowZero` shows it does so nowhere else.
* With two energy markets an hour missing from the second is planned and settled at its
  last price, without the bound that reserve prices have.
* The oracle policy ranks legs by strength, not by revenue, and so is not an upper
  bound of what a policy can earn in euros.

Study: rows are built from the newest revision of each figure, so a figure revised
after the decision time enters a row of the past; and an event crawled late, but
published early, changes rows that were built before.

Crawler:

* An article without claims leaves no point, so every cycle reads it again, and the
  events of each reading are added by position: a row of one reading can stand beside
  one of another, though `save_market_event` is called idempotent.
* An article stored as raw text, after the model failed, counts as processed: its
  claims are never looked for again.  One whose events failed has none for good.
* `ensure_collection` says "Idempotent" and loses a race with another first run; the
  failure is outside the `try` that closes the Qdrant client.
* A job whose exception has an empty text is recorded as done.
* A post whose LinkedIn page cannot be fetched is stored under the address as typed, and
  again under its canonical address the next time.  Manual submissions give no events.
* A confidence of NaN becomes 1.0, unless the source is tier 2.

### Fairness

`FairSpec` assumes weak fairness of `Progress(c)`: a running cycle takes its next
step.  The code justifies it because every await in a cycle is a call with a
timeout and nothing in a cycle waits for another process.  Nothing is assumed of
the scheduler, the writers, Energinet, or of failures.  `CycleEnds` uses it.

`Crawler`'s `Spec` assumes the same of each run that has been started: its HTTP, model
and Qdrant calls have timeouts, and no lock is held over an await.  Nothing obliges
anyone to start a run, and failures are never owed.  `JobsFinish` uses it: a job that
runs is recorded as over, unless the API stops, which forgets the registry.

No other run assumes fairness: that no dataset starves is a bound on an age in
`PollSchedule` (`StalenessBounded`), and `DeliveryAttempted` says what is true of a
run that has ended.

## 4. The proofs

Every theorem is about a component's `Spec` for every value of its constants.  Most follow
one pattern: an inductive invariant that TLC was first asked about on the instance of the
run, a lemma per action or kind of action, and a step that puts them together.

### History, ledger, synthesis cycle

* `MarketTypeCorrect`, `ViewCorrect` (EventReportsProofs), for any number of ingestors
  and backfills side by side.  Stamps do not follow publication, as a batch can be
  overtaken, so the property is about fetches: a row in the view is at least as new as
  every row that was stored when it was fetched.  The strengthening (`OrderInv`) says it
  of the batch in flight (`BatchCoversStored`), from which a save carries it to its rows
  (`RowCoversStored`); that no stamp lies ahead of the clock and no fetch behind its
  stamp; that no row points beyond what is published; and that a key has one row per
  stamp, which makes the view's row the only one.  `OrderIsMarket`: whatever is proved
  of `MarketSpec` holds of these behaviours.
* `EventTypeCorrect`, `AlertsCorrect`, `LedgerCorrect` (EventReportsProofs), for any
  number of runners and any failures.  The invariant `PublishingInv` adds to the
  type that an id determines the key it is about, that a runner has at most one
  draft, that a draft's correction target is stored and about the draft's key, and
  that a runner about to post has its report stored.  `LedgerCorrect` is the
  refinement: `EventReports` implements `ReportLedger`.  In the abstract ledger
  identifiers are unique and corrections resolve (`LedgerIsSound`), and so they do in
  `event_reports` (`ReportsAreSound`), without an argument about cycles.
* `RevisionsCorrect`, `CorrectionsChain` (EventReportsProofs), for one runner at a
  time (`SingleRunner`): between the correction check and the insert nobody else
  inserts, so what a draft corrects is still the newest report of its key.
* `BooksCorrect`, `AccountsCorrect` (EventReportsProofs), for any number of runners.  The
  end of a cycle says nothing of how it got there; the invariant (`AccountInv`) keeps each
  runner's books on the way: what it fired is what it attempted and what is pending, and
  it is ahead of its count by one row at most, between the insert and the post.  A report
  has its trigger in the log because what a runner works on it fired, and what it fired
  was saved.  The last link is `save_trigger`, whose failure the code swallows:
  `AccountsCorrect` assumes it does not fail, `BooksCorrect` is what is left if it may.
* `TriggersFresh` (EventReportsProofs).  The rows of a series are read at a moment of
  their own, and the table goes on growing.  The invariant (`FreshInv`) says that what a
  cycle has read of a series leaves out no row that supersedes one it has, unless it was
  saved after the cycle began; that survives the cut of `fetch_history` because the cut
  keeps the newest rows.  Then the four checks are gone through: each takes the newest
  row of a time among those read.  The theorem assumes finitely many market time units
  (`FiniteMarket`), without which a "first thousand rows" need not exist.

* `TriggersCited` (EventReportsProofs), of one evaluation on any table.  The invariant
  (`TableInv`) is that the table is finite, that no row is stamped ahead of the clock and
  that no two rows of a key share a stamp.  The last is what makes "the newest row" one
  row: the query lists the rows without a tie (`ListedInOrder`: their ranks are 0 to
  n - 1, by counting), the loop over that list is the recursive function it says it is
  because a function with the closed form `KeptRows` satisfies its equation, and any two
  that do agree, by the smallest place where they would not (`ScanKeeps`).  That the rows
  kept are the view's survives the row limit, which cuts no row newer than one it returns
  (`FetchKeepsNewer`); that triggers cite them is the argument of `TriggersFresh`, for a
  cycle that begins and reads everything now (`EngineFresh`).
* `RepollNeutral` (EventReportsProofs), an action property, for any number of writers.
  Two series with one row per time and the same figures (`SameFigures`) have as many rows
  (`SameCount`), the same newest figure and the same dict before it (`SameParts`,
  `SameDict`), and so fire the same outliers; the differences of two such pairs are such
  a pair (`SameDivergence`).  A save that repeats the view's figures leaves each series
  with the same figures (`RepeatsKeepFigures`), although every row of it may be new.  The
  property says this only of a series that fits in one fetch: beyond
  HISTORY_FETCH_LIMIT the repeated rows push the oldest times out.  Both theorems assume
  `FiniteMarket`.

### Polling

* `ScheduleTypeCorrect`, `NeverEarlyCorrect` (PollScheduleProofs), for any registry,
  cadences, request times and retries.  The invariant `ScheduleInv` adds that a due
  dataset whose turn has not come was old enough when the cycle began and has only
  aged since: the stamp moves late, the decision was made early.
* `StalenessCorrect` (PollScheduleProofs).  The age of a dataset is bounded by adding up
  what can lie before its turn: the rest of the running cycle, which it may have missed by
  a moment, a firing that is skipped, and the next cycle up to its turn.  `CycleRest` is a
  ranking of the running cycle, the time it can still take, and the invariant (`StaleInv`)
  says that it never exceeds a whole cycle, that between cycles a dataset's age plus the
  time to the next firing is bounded, and in a cycle its age plus the rest, each but for
  what the dataset is excused.  No bound on the delays is assumed: the back-off has one,
  but `base_ingestor.py` takes a `Retry-After` as it comes, and a host that asks for a day
  starves the datasets for a day; `excused` counts it, with the turns lost to an outage or
  a malformed answer, and everything else the loop does stays within the constant bound.

### Morning brief

* `BriefTypeCorrect`, `FlagsCorrect`, `ResolveCorrect`, `RegenerationCorrect`
  (MorningBriefProofs), for any number of runners, runs, horizons and failures.  Four
  invariants on top of the type: `Alone` (runs that are in progress together are in
  `overlapped`); `Honest` (what a run counts as sent has arrived, and the row it saved
  is still its own or that of a run that overlapped), which makes writing the flags
  safe; `Resolves` (what a run has collected exists), which makes the saved row
  resolve; and `Waits` (a run that is alone and waits for the model found the newest
  forecast, expired), which makes storing a new one justified.
* `ForwardCorrect`.  `ForwardInv` adds that no row and no run is ahead of today, and that
  what a run in progress has collected for a horizon is no older than what the rows of
  earlier days quote.  A fallback on an expired forecast keeps that because the cache is
  only ever appended to, and the row of a day quotes what was in it (`ResolveInv`).
* `DeliveryCorrect`, also for overlapping runs: by `DeliveryInv` a run that is past a
  channel has tried it, so that a run can end without both only by dying.

### Crawler

For any feeds, posts, replies, runs, failures and restarts.  All four rest on `RunsOK`,
the shape of a run's record at each point of the cycle.

* `RegistryCorrect`: the entry says "running" exactly while a thread runs the job, and
  two threads never do.  The invariant (`RegistryInv`) is the property, in the form that
  any two threads of the job are one; its weight is in the steps: only `StartJob` sets the
  entry, only the end of that thread clears it, a restart takes both.
* `EventsNeverRewritten`, an action property: `save_market_event` does nothing on a
  conflict, so that whatever is inserted, the rows that were there stay as they are.
* `ReadingCorrect`.  The processed check and the writes are several awaits apart.
  `ReadingInv` bridges them: an article that no two runs had in hand at once is in the
  hands of one (`OneHolder`); a run about to store finds nothing of it (`NothingYet`); one
  that has stored wrote all there is (`AllItsOwn`); and what is stored is of one
  extraction (`OneOrigin`).  It needs that an extraction that found claims leaves a point,
  by which the next check sees the article.
* `EventsFollow`.  `EventInv`: in every stored article events have been looked for, or the
  run that stored it is about to; every event found is in the table, or its run is on the
  way to it.

### Battery, study

* `ThresholdIsCausal` (BessProofs), for any configuration and series.  The property
  speaks of the record of ticks, the engine of a list it prunes; the invariant
  (`DecideInv`) says that the list is the newest `lookback` prices of the record, and
  that no decision in the record contradicts the prices before it.  The lemma behind it,
  `NewestSlides`, says that pruning as one goes is the same as pruning once.
* `BandAndCapCorrect`, for both engines.  The property adds up the record of the run; the
  threshold engine adds up a list it prunes from the left, and only when it is about to
  discharge.  The invariant (`BandInv`) says that the list tells the truth about what
  matters (`WindowTells`): what it counts from any time within a day of the newest period
  is what the record sold from then on.  An entry is popped for good, and since the prices
  are in ascending order no later day reaches back to it.  For the co-optimiser the band
  and the cap are those of a feasible plan (`PlanFacts`).  Under both lie the sums: that a
  finite sum exists, unfolds by any one of its elements, and is bounded by the sum over a
  larger set.  The library proves such things by induction with an operator; here the
  smallest counterexample of a finite family of sets is taken instead (`SmallestSet`).
* Most theorems about the battery are about fractions: shares of the reserve and revenues
  are reduced by Euclid's algorithm after every operation, as Python's `Fraction` would,
  where the code has floats.  `BessSeriesProofs` says what that computes.  `Is(x, n, d)`
  means that the fraction `x` has the value `n / d`, by cross-multiplication.  `Gcd`, a
  recursive function over pairs, satisfies its equation (`GcdUnfolds`), divides
  (`GcdDivides`) and scales (`GcdScales`); so a reduced fraction has its value (`FracIs`)
  and equal values reduce to the same fraction (`FracSame`); `++`, `**` and `\preceq` do
  what they say, and a sum of fractions is the sum of their numerators over a common
  denominator, which any finite family has (`SumOverCommon`, `CommonDenominator`).
* `PlansDeliver`: the replay that looks for reserve the battery could not have delivered
  finds none in a plan.  It reads the reported states of charge, the plan its own; the
  invariant (`PlannedInv`) says that a record is that of a feasible plan.  A feasible plan
  holds the energy of its reserve at both ends of a period, and the replay takes the
  lesser of what the two ends have room for (`RoomFacts`).
* `PowerCorrect`, for both engines.  A feasible plan reserves and trades within its power
  in every period.  The threshold engine trades with what it has not committed, so the
  reserve must be no more than the commitment: that the shares of the groups add up to it,
  and the shares of the legs to those of their groups, is `ReservedFacts`, by way of
  `SumGrouped` and the two ways of dividing (`EvenSharesAddUp`, `RankedSharesAddUp`).
  The invariant (`PowerInv`) also says that the trailing windows hold numbers, without
  which a strength could be anything.
* `PlansWorthTheirSettlement`: the reported total is a sum of fractions over periods, legs
  and currencies, the value of a plan a whole number; `ValueIs` brings them together.  A
  record is that of a feasible plan, and its worth is the value of that plan at the
  settlement prices, whichever prices it was made with: so it beats no best plan.
* `AllocationIsCausal`.  The property recomputes each strength from the record; the engine
  keeps two trailing windows per leg.  The invariant (`AllocInv`) says that the windows
  are the newest of the prices the leg cleared at in the covered periods so far, in the
  order of the periods (`WindowsTrail`), and that every period on record was divided by
  the strengths before it.  `AscendingFrom` says that a new largest period comes last in
  the order, `WeighedByStrength` that revenues per unit are in the ratio of the strengths.
* `PoliciesCorrect` (EconomicEvalProofs), for any battery, prices and forecasts and all
  four policies.  That the power is divided, and divided once, is arithmetic: a split by
  weights adds up to what is split, however the weights are signed and also when there
  are none (`SplitAddsUp`), and a split of a split does so again (`SplitDivides`), which
  needs every score to be a fraction, so no normal level to divide by to be zero
  (`NormalLevelFacts`).  The cap is as in `BandAndCapCorrect`, here in fractions since a
  policy trades with a share of the power: the invariant (`RunInv`) says that the window
  holds what the record sold from any time within a day of the newest hour, popping
  entries older than a day changes none of these sums (`PruneKeepsHeld`), and what is let
  through is at most what the cap leaves beside them (`CapLeaves`).
* `PerfectForecastCorrect`.  The two batteries need not be alike: before the first
  forecast the model has no scores and splits evenly, so it trades other amounts.  What
  stays alike (`SameSoFar`) is the capacity revenue of the predicted hours, which depends
  on the division of the power and the prices and not on the battery; that the scored
  hours are the predicted ones makes the totals equal.
* `EvenIsBacktest` (EconomicEvalProofs, about `SameHours`): for any window the evaluation
  can read, however long, and any battery in whole units.  The two loops share no variable
  and reckon differently: the backtest books whole amounts and finds a price by
  carry-forward, the evaluation trades fractions and reads the hour's price.  The invariant
  (`SameInv`) says that battery, past prices and window of discharges are the same once
  the backtest's are written as fractions (`InFractions`), and that the records agree so
  far; it contains `BandInv`, without which a whole amount could be negative.  One lemma
  for each thing the loops do: what is read (`ReadsAlike`, `OwnFigure`: with a point at
  every hour a look-up finds that hour's own, whatever the cadence), the capacity booked
  (`CapacityAlike`), the room and what is wanted (`RoomAlike`), the rest of the cap
  (`CapAlike`, from `RecentAlike`: both pop the same entries), the moves (`MovesAlike`).
  Under them stands the arithmetic of whole fractions (`WholeSum`, `WholeProduct`,
  `SumOverWholes`, ... in BessSeriesProofs).
* `RowsIgnoreTheFutureHolds`, `ForecastsUseThePastHolds` (StudyProofs).  The first
  needs no invariant about steps: that a row is the same on the database and on what is
  known of it at the decision time holds column by column of any database, and the
  columns' lemmas say so; what is invariant is that the database is finite.  The second
  shows that a fold's fit reads nothing from its first tested time on, and that each
  forecast was made by the fold that tests its time.
* `BaselinesUseThePastHolds`: the same of every baseline, from the series alone.  A naive
  one looks `lag` hours back, and `StudyAssumption` says that a lag is at least one.
* `WiderBufferFills`: a row is compared with the row of a wider buffer column by column.
  What makes each column go through is that a buffer only adds points before the first
  one, so that the last point at or before a time is the same unless there was none.
* `TargetsCovered`: the gate and the queries are different steps of a study and the
  database is written in between.  `CoverInv` says that what the gate found covered stays
  covered, since a write adds a point or replaces the figure of one, and that every target
  fetched covers every day.  It assumes a window of whole days with fewer hours than the
  row limit (`WholeDays`, `FewTicks`): the scripts pass dates, and a few years of hours are
  a fraction of 200 000; `study_cut` shows what happens to a longer window.
* `TicksScoredOnce`: the pooled forecasts count every tick once, and cover everything
  from the first tested time to the last.  The invariant (`ForecastsOfFolds`) is that the
  forecasts made are those of the folds that are no longer pending.  That the folds tile
  the span needs a last fold at or before each time; the prover has no induction on
  numbers for it, so a largest element is taken of a finite set by well-foundedness of its
  subsets (`WFMin`).  It assumes a step as long as a test span (`Consecutive`), as in
  `WalkForwardConfig`: with a shorter one a tick is tested by two folds.

### What the proofs assume

The assumptions on constants are those named in the modules (`MarketAssumption`,
`ThresholdsAssumption`, `CycleAssumption`, `ScheduleAssumption`, `BriefAssumption`,
`SeriesAssumption`, `PegAssumption`, `WindowAssumption`, `EvaluationAssumption`,
`HourAssumption`, `TimeAssumption`, `FeatureAssumption`, `WalkForwardAssumption`, `StudyAssumption`,
`CrawlerAssumption`); TLC evaluates each of them on the runs' instances.
`BriefAssumption` lets the cache start with at most one forecast; `StudyAssumption` lets
the database start with one figure of each series and time, which is what its view shows.
`WindowAssumption` asks for whole units of energy (the models' unit, in which the
efficiencies are whole as well), for finitely many whole prices in each series, for prices
oldest first, the order in which `_fetch_series` returns them, and for legs that are sold
up, down or both ways, as `_leg_direction` requires; `EvaluationAssumption` for the same
units and series; `HourAssumption`, which `EvenIsBacktest` alone rests on, for
times counted in hours, as the evaluation books a megawatt held for an hour as one MWh;
`PegAssumption` for a whole peg, which it is once prices in DKK are counted in hundredths.
Beside them stand the hypotheses of single theorems: `SingleRunner`,
`"trigger_save" \notin Faults`, `FiniteMarket`, `WholeDays`, `FewTicks`,
`Consecutive`.  Each is explained where its theorem is; every instance that checks the
property satisfies it, and those of the code do unless it is said otherwise.

Type invariants of `PollSchedule` and `MorningBrief` are proved and not run; those of
`MarketHistory` and `EventReports` are both.

### Only model-checked

* `CycleEnds` and `JobsFinish`: liveness is out of the prover's reach.
* `BurnsOnlyBelowZero`: it is an argument about best plans, by exchange of a plan that
  burns for one that does not, and needs flows as fine as the program's.  On the grid of
  whole megawatts some efficiencies leave a change of the stored energy that only a
  charge and a discharge together can reach, so it is not a theorem of the model for every
  battery; the run's instance has none.
* `FetchIsWhole`, `NoDuplicateReport`, `RevisedReportsAreCorrected` and
  `DataStopsPayStops` are false, which is what their runs show.

## 5. What is not modelled

* What the language model writes: a report is valid or there is none, a reply about an
  article is one of a few shapes, a brief is the number of the run that composed it.
* Text: messages, HTML extraction, embeddings and searches in the claim store.
* Metrics and logging; floating point; time zones (a study tells local time and UTC
  apart, the models do not).
* Several (market, product) pairs at once, which share nothing in a cycle but its order;
  the price recap, one more model call on the brief's way; reading the clock and the
  order of ids in `forecast_cache`, which follow the order of the inserts.
* The boosted trees themselves, and the losses computed from forecasts.
* The connection pool and the lazily created clients of the API: which thread meets
  which is decided by psycopg2's pool and FastAPI's thread pool, neither of which is in
  this repository.
* `scripts/migrate.py`: idempotent statements run by hand while nothing else runs.
* Read routes and pages, the dataset registry and its validation, unit and JSON helpers
  outside the replies, report scripts, container configuration.

## 6. What is left

1. A composition of `MorningBrief` with itself for overlapping runs: which of its
   properties survive the overlap, beyond `BriefsResolve` and `DeliveryAttempted`.
2. The orchestrator's and the brief's background jobs beside the scheduler, as the
   crawler's are in `Crawler`.
3. The estimate and the economics around a backtest (`bess_estimator.py`,
   `bess_economics.py`).
