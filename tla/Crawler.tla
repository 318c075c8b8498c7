------------------------------- MODULE Crawler -------------------------------
(* The crawl cycle (services/crawler/main.py), the claim store it writes      *)
(* (shared/vector_store.py), the market_events table (DatabaseManager.         *)
(* save_market_event), and the API routes that run the same cycle or store a    *)
(* post by hand (services/api/main.py), with the API's background-job registry. *)
(*                                                                             *)
(* Each run is a process of its own: the scheduler's in the crawler container, *)
(* the others inside the API.  A step of a run ends where the code awaits or    *)
(* commits, so the steps of two runs interleave between the processed check     *)
(* and the writes.                                                             *)
EXTENDS Articles, SequencesExt

CONSTANTS
    Feeds,          \* the RSS feeds of shared/rss_feeds.py, in order
    Submissions,    \* what people paste into the manual form
    Pages,          \* what LinkedIn's embed page may answer
    ClaimReplies,   \* what the model may answer about claims
    EventReplies,   \* the same about events
    AutoRun,        \* AUTO_RUN_ENABLED
    MaxStarts,      \* bound: runs started
    MaxFaults       \* bound: calls that fail and processes that restart

VARIABLES
    collection,     \* the Qdrant collection exists
    points,         \* slot <<url, index or 0 for raw>> -> the point stored there
    marketEvents,   \* event id <<url, index>> -> the row stored under it
    runs,           \* every run started so far, in order
    job,            \* _background_jobs["crawler"], None before the first click
    faults,         \* faults that happened (bound)
    overlapped,     \* history: articles two runs had in hand at once
    claimless,      \* history: articles an extraction found no claim in
    cut,            \* history: articles whose event path was cut short
    found           \* history: article -> most events one extraction found, Unread
                    \* if none looked for them

Unread == -1

vars == <<collection, points, marketEvents, runs, job, faults, overlapped,
          claimless, cut, found>>
history == <<overlapped, claimless, cut, found>>
stores == <<collection, points, marketEvents>>

\* A reply of the model is None, no JSON object, or a list under the key asked for.
IsReply(reply) ==
    \/ reply = None \/ JsonObject(reply) = None
    \/ LET said == JsonObject(reply) IN said \in Seq({said[i] : i \in DOMAIN said})

\* _background_jobs["crawler"] from the click on.
RunningJob == [status |-> "running", error |-> None, result |-> None]

ASSUME CrawlerAssumption ==
    /\ Len(Feeds) > 0 /\ AutoRun \in BOOLEAN
    /\ MaxStarts \in Nat /\ MaxFaults \in Nat
    /\ \A reply \in ClaimReplies \cup EventReplies : IsReply(reply)
    /\ None # RunningJob

----------------------------------------------------------------------------
(* Runs. *)

ApiKinds == {"job", "route", "manual"}
Kinds == ApiKinds \cup {"scheduled"}
InHand == {"store", "events", "save"}

NewRun(kind, article, db) ==
    [kind |-> kind, pc |-> "ensure", db |-> db, at |-> 0, article |-> article,
     claims |-> 0, events |-> None, saved |-> 0, error |-> None]

\* What a cycle goes through: the articles of the first feed, then those of the
\* next.
Worklist == FlattenSeq([f \in DOMAIN Feeds |-> FeedArticles(Feeds[f])])

Alive(run) == run.pc # "over"
Holds(run, url) == run.pc \in InHand /\ run.article.url = url

\* An exception leaves the cycle (or the route).  It is "blank" when its text
\* is empty, as a timeout's often is.
Raised(run, text) == [run EXCEPT !.pc = "end", !.error = text]

\* On to article n of the cycle, or to its end; a manual submission has one
\* article and is done with it.
GoTo(run, n) ==
    IF run.kind = "manual" \/ n \notin DOMAIN Worklist
    THEN [run EXCEPT !.pc = "end", !.events = None]
    ELSE [run EXCEPT !.pc = "check", !.at = n, !.article = Worklist[n],
                     !.events = None, !.saved = 0]

Advance(run) == GoTo(run, run.at + 1)

\* process_article raised: the cycle goes on to the next article, the manual
\* route fails.
Failed(run) == IF run.kind = "manual" THEN Raised(run, "text") ELSE Advance(run)

\* A table or collection after a write: what is written over what was there.
Written(stored, new) ==
    [id \in DOMAIN new \cup DOMAIN stored |-> IF id \in DOMAIN new THEN new[id] ELSE stored[id]]

Goes(r, run) == runs' = [runs EXCEPT ![r] = run]
Ext(r) == <<r, runs[r].at>>
Fault == faults < MaxFaults /\ faults' = faults + 1
FaultIf(failed) == IF failed THEN Fault ELSE UNCHANGED faults

----------------------------------------------------------------------------
(* Starting a run. *)

CanStart == Len(runs) < MaxStarts

\* _get_db: the crawl goes on without a database when there is none.
StartCrawl(kind) ==
    /\ CanStart
    /\ \E db \in BOOLEAN :
            /\ FaultIf(~db)
            /\ runs' = Append(runs, NewRun(kind, None, db))

\* The scheduler keeps one instance of its job at a time.
ScheduledCrawl ==
    /\ AutoRun
    /\ ~ \E r \in DOMAIN runs : runs[r].kind = "scheduled" /\ Alive(runs[r])
    /\ StartCrawl("scheduled")
    /\ UNCHANGED <<stores, job, history>>

\* POST /crawler/run-now: no registry.
RouteCrawl ==
    /\ StartCrawl("route")
    /\ UNCHANGED <<stores, job, history>>

JobRunning == job # None /\ job.status = "running"

\* Mutant of MayStartJob: the registry is not asked.
MayStartJobAnyway == TRUE

MayStartJob == ~JobRunning

\* The dashboard's button: start_background_job.  A click while the job runs
\* does nothing.
StartJob ==
    /\ MayStartJob
    /\ StartCrawl("job")
    /\ job' = RunningJob
    /\ UNCHANGED <<stores, history>>

SubmitManual ==
    /\ CanStart
    /\ \E s \in Submissions, page \in Pages :
            runs' = Append(runs, NewRun("manual", ManualArticle(s, page), FALSE))
    /\ UNCHANGED <<stores, job, faults, history>>

----------------------------------------------------------------------------
(* ensure_collection: two calls. *)

Prepared(run) ==
    IF run.kind = "manual" THEN [run EXCEPT !.pc = "check"] ELSE GoTo(run, 1)

EnsureCollection(r) ==
    /\ runs[r].pc = "ensure"
    /\ Goes(r, IF collection THEN Prepared(runs[r])
                             ELSE [runs[r] EXCEPT !.pc = "create"])
    /\ UNCHANGED <<stores, job, faults, history>>

\* Qdrant refuses to create a collection that exists: of two runs that both
\* found none, the second raises.
CreateCollection(r) ==
    /\ runs[r].pc = "create"
    /\ collection' = TRUE
    /\ Goes(r, IF collection THEN Raised(runs[r], "text") ELSE Prepared(runs[r]))
    /\ UNCHANGED <<points, marketEvents, job, faults, history>>

\* Qdrant does not answer.
EnsureFails(r) ==
    /\ runs[r].pc \in {"ensure", "create"}
    /\ Fault
    /\ \E text \in {"text", "blank"} : Goes(r, Raised(runs[r], text))
    /\ UNCHANGED <<stores, job, history>>

----------------------------------------------------------------------------
(* The cycle's two loops.  Fetching a feed touches nothing another run sees:  *)
(* it is part of the step that checks the feed's first article.                *)

FirstOfFeed(n) == n > 1 => Worklist[n - 1].source # Worklist[n].source

NextFeed(n) ==
    CHOOSE m \in n + 1 .. Len(Worklist) + 1 :
        /\ m = Len(Worklist) + 1 \/ Worklist[m].source # Worklist[n].source
        /\ \A k \in n .. m - 1 : Worklist[k].source = Worklist[n].source

\* An unreachable feed is an empty one.
FeedFails(r) ==
    /\ runs[r].pc = "check" /\ runs[r].kind # "manual" /\ FirstOfFeed(runs[r].at)
    /\ Fault
    /\ Goes(r, GoTo(runs[r], NextFeed(runs[r].at)))
    /\ UNCHANGED <<stores, job, history>>

\* Mutant of Processed: only raw articles are recognised.
ProcessedRaw(url) == <<url, 0>> \in DOMAIN points

Processed(url) == \E slot \in DOMAIN points : slot[1] = url

\* The check whose answer is used two awaits later.
CheckProcessed(r) ==
    /\ runs[r].pc = "check"
    /\ LET url == runs[r].article.url
       IN  IF Processed(url)
           THEN Goes(r, Advance(runs[r])) /\ UNCHANGED overlapped
           ELSE /\ Goes(r, [runs[r] EXCEPT !.pc = "store"])
                /\ overlapped' = IF \E q \in DOMAIN runs : Holds(runs[q], url)
                                 THEN overlapped \cup {url} ELSE overlapped
    /\ UNCHANGED <<stores, job, faults, claimless, cut, found>>

\* The check, the page, its text, or an upsert that was not done: the article
\* is left for a later cycle.
ArticleFails(r) ==
    /\ runs[r].pc \in {"check", "store"}
    /\ Fault
    /\ Goes(r, Failed(runs[r]))
    /\ UNCHANGED <<stores, job, history>>

----------------------------------------------------------------------------
(* Storing claims.  Fetching the page, taking its text and asking the model    *)
(* touch nothing another run sees: they are part of the step that stores.      *)

Point(r, type) == [ext |-> Ext(r), source |-> runs[r].article.source,
                   tier |-> runs[r].article.tier, type |-> type]

\* The text itself, in a slot of its own.
RawPoint(r) == [slot \in {<<runs[r].article.url, 0>>} |-> Point(r, "raw")]

\* No extraction: the raw text.  Else one slot per claim, by position,
\* overwriting what is there; no claim, no point.
NewPoints(r, claims) ==
    LET url == runs[r].article.url
    IN  IF claims = None THEN RawPoint(r)
        ELSE [slot \in {<<url, i>> : i \in DOMAIN claims} |-> Point(r, claims[slot[2]])]

SavedCount(claims) == IF claims = None THEN 0 ELSE Len(claims)

\* Mutant of AfterStore: no events for an article stored raw.
AfterStoreOfClaims(run, claims) ==
    LET counted == [run EXCEPT !.claims = @ + SavedCount(claims)]
    IN  IF run.db /\ claims # None THEN [counted EXCEPT !.pc = "events"]
                                   ELSE Advance(counted)

\* The event path is next, in a crawl that has a database.
AfterStore(run, claims) ==
    LET counted == [run EXCEPT !.claims = @ + SavedCount(claims)]
    IN  IF run.db THEN [counted EXCEPT !.pc = "events"] ELSE Advance(counted)

StoreClaims(r) ==
    /\ runs[r].pc = "store"
    /\ \E reply \in ClaimReplies :
            LET claims == ExtractClaims(reply, runs[r].article)
                url == runs[r].article.url
            IN  /\ FaultIf(claims = None)
                /\ points' = Written(points, NewPoints(r, claims))
                /\ Goes(r, AfterStore(runs[r], claims))
                /\ claimless' = IF claims = <<>> THEN claimless \cup {url} ELSE claimless
                /\ cut' = IF runs[r].db THEN cut ELSE cut \cup {url}
    /\ UNCHANGED <<collection, marketEvents, job, overlapped, found>>

\* The upsert raises; its write may have been done, the answer lost: the
\* article then counts as processed and its events were not looked for.
StoreFails(r) ==
    /\ runs[r].pc = "store"
    /\ Fault
    /\ Goes(r, Failed(runs[r]))
    /\ \E reply \in ClaimReplies :
            LET claims == ExtractClaims(reply, runs[r].article)
            IN  claims \notin {None, <<>>} /\ points' = Written(points, NewPoints(r, claims))
    /\ cut' = cut \cup {runs[r].article.url}
    /\ UNCHANGED <<collection, marketEvents, job, overlapped, claimless, found>>

----------------------------------------------------------------------------
(* Storing events. *)

FindEvents(r) ==
    /\ runs[r].pc = "events"
    /\ \E reply \in EventReplies :
            LET url == runs[r].article.url
                events == ExtractEvents(reply, runs[r].article)
            IN  /\ FaultIf(events = None)
                /\ Goes(r, IF events \in {None, <<>>} THEN Advance(runs[r])
                           ELSE [runs[r] EXCEPT !.pc = "save", !.events = events])
                /\ cut' = IF events = None THEN cut \cup {url} ELSE cut
                /\ found' = IF events # None /\ Len(events) > found[url]
                            THEN [found EXCEPT ![url] = Len(events)] ELSE found
    /\ UNCHANGED <<stores, job, overlapped, claimless>>

EventRow(r, event) ==
    [ext |-> Ext(r), tier |-> runs[r].article.tier,
     known_at |-> KnownAt(runs[r].article), event |-> event]

\* Mutant of Inserted: ON CONFLICT (event_id) DO UPDATE.
InsertedOver(id, row) == Written(marketEvents, [i \in {id} |-> row])

\* INSERT ... ON CONFLICT (event_id) DO NOTHING, in a transaction of its own.
Inserted(id, row) == IF id \in DOMAIN marketEvents THEN marketEvents
                     ELSE Written(marketEvents, [i \in {id} |-> row])

SaveEvent(r) ==
    /\ runs[r].pc = "save"
    /\ LET i == runs[r].saved + 1
       IN  /\ marketEvents' = Inserted(<<runs[r].article.url, i>>,
                                       EventRow(r, runs[r].events[i]))
           /\ Goes(r, IF i < Len(runs[r].events) THEN [runs[r] EXCEPT !.saved = i]
                                              ELSE Advance(runs[r]))
    /\ UNCHANGED <<collection, points, job, faults, history>>

\* The extraction or an insert raises: the rest of the events are dropped,
\* the claims stay.
EventsFail(r) ==
    /\ runs[r].pc \in {"events", "save"}
    /\ Fault
    /\ Goes(r, Advance(runs[r]))
    /\ cut' = cut \cup {runs[r].article.url}
    /\ UNCHANGED <<stores, job, overlapped, claimless, found>>

----------------------------------------------------------------------------
(* The end of a run. *)

JobResult(run) ==
    IF run.error = None THEN run.claims ELSE None

\* Mutant of JobRecord: only success is recorded.
JobRecordOfSuccess(run) ==
    IF run.error # None THEN job
    ELSE [status |-> "done", error |-> None, result |-> JobResult(run)]

\* error = str(exc): an exception without a text is not told from none.
JobRecord(run) ==
    [status |-> IF run.error = "text" THEN "failed" ELSE "done",
     error  |-> IF run.error = "text" THEN "text" ELSE None,
     result |-> JobResult(run)]

\* What is left of a run: its kind and what it counted.
Over(run, error) ==
    [NewRun(run.kind, None, FALSE) EXCEPT !.pc = "over", !.error = error,
                                          !.claims = run.claims]

\* The cycle returned or raised; the worker thread then takes the lock once
\* more and records the outcome.
EndRun(r) ==
    /\ runs[r].pc = "end"
    /\ Goes(r, Over(runs[r], runs[r].error))
    /\ job' = IF runs[r].kind = "job" THEN JobRecord(runs[r]) ELSE job
    /\ UNCHANGED <<stores, faults, history>>

Lost(kinds) == {r \in DOMAIN runs : runs[r].kind \in kinds /\ Alive(runs[r])}

\* A process stops: its runs stop wherever they are.
Stop(kinds) ==
    /\ Fault
    /\ runs' = [r \in DOMAIN runs |->
                  IF r \in Lost(kinds)
                  THEN Over(runs[r], "killed")
                  ELSE runs[r]]
    /\ cut' = cut \cup {runs[r].article.url :
                          r \in {q \in Lost(kinds) : runs[q].pc \in {"events", "save"}}}
    /\ UNCHANGED <<stores, overlapped, claimless, found>>

\* The API restarts: the registry is in memory.
ApiRestarts == Stop(ApiKinds) /\ job' = None

CrawlerRestarts == Lost({"scheduled"}) # {} /\ Stop({"scheduled"}) /\ UNCHANGED job

----------------------------------------------------------------------------

Urls == {Worklist[n].url : n \in DOMAIN Worklist}
        \cup {ManualArticle(s, page).url : s \in Submissions, page \in Pages}

Init ==
    /\ collection = FALSE /\ points = <<>> /\ marketEvents = <<>>
    /\ runs = <<>> /\ job = None /\ faults = 0
    /\ overlapped = {} /\ claimless = {} /\ cut = {}
    /\ found = [url \in Urls |-> Unread]

Step(r) ==
    \/ EnsureCollection(r) \/ CreateCollection(r)
    \/ CheckProcessed(r)
    \/ StoreClaims(r) \/ FindEvents(r) \/ SaveEvent(r) \/ EndRun(r)

Breaks(r) ==
    EnsureFails(r) \/ FeedFails(r) \/ ArticleFails(r) \/ StoreFails(r) \/ EventsFail(r)

Next ==
    \/ ScheduledCrawl \/ RouteCrawl \/ StartJob \/ SubmitManual
    \/ ApiRestarts \/ CrawlerRestarts
    \/ \E r \in DOMAIN runs : Step(r) \/ Breaks(r)

\* Every call of a run has a timeout, so a run that is alive takes its next
\* step or fails; nothing obliges anyone to start one.
Spec ==
    /\ Init /\ [][Next]_vars
    /\ \A r \in 1 .. MaxStarts : WF_vars(r \in DOMAIN runs /\ Step(r))

----------------------------------------------------------------------------
(* Properties. *)

Extractions(stored, url) == {stored[id].ext : id \in {i \in DOMAIN stored : i[1] = url}}

\* What is stored of an article comes from one extraction of it (is_processed:
\* re-runs skip what was crawled), whatever failed or was restarted, unless two
\* runs had the article in hand at once; or, for its events, unless the article
\* holds no claim: nothing then marks it as processed.
ReadOnce ==
    \A url \in Urls \ overlapped :
        /\ Cardinality(Extractions(points, url)) <= 1
        /\ url \notin claimless => Cardinality(Extractions(marketEvents, url)) <= 1

\* The events of an article are independent of its claims (process_article: over
\* both the "stored raw" and "stored claims" branches): once no run has the
\* article in hand, its events have been looked for and each one some extraction
\* found is in the table, under its position, unless the event path of the
\* article was cut short by a failure.
EventsFollowClaims ==
    \A url \in {slot[1] : slot \in DOMAIN points} \ cut :
        (\A r \in DOMAIN runs : ~Holds(runs[r], url))
            => /\ found[url] # Unread
               /\ \A i \in 1 .. found[url] : <<url, i>> \in DOMAIN marketEvents

\* A stored event is never changed or taken out, by whatever run reads its
\* article again: features computed for the past stay what they were.
EventsAreNeverRewritten ==
    [][\A id \in DOMAIN marketEvents :
            id \in DOMAIN marketEvents' /\ marketEvents'[id] = marketEvents[id]]_vars

JobThreads == {r \in DOMAIN runs : runs[r].kind = "job" /\ Alive(runs[r])}

\* The registry says "running" exactly while one thread runs the job, and there
\* are never two, however clicks, ends and restarts interleave.
RegistryIsTrue ==
    /\ Cardinality(JobThreads) <= 1
    /\ JobRunning <=> JobThreads # {}

\* A job that was started does not show as running for ever: the cycle ends,
\* raises or dies with its process, and each of them is recorded.
JobsFinish == JobRunning ~> ~JobRunning
=============================================================================
