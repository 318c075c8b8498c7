--------------------------- MODULE CrawlerProofs ---------------------------
(***************************************************************************)
(* Proofs about Crawler, for any feeds, submissions, replies of the model, *)
(* number of runs and failures: the registry is true, a stored event is    *)
(* never rewritten, an article is stored from one reading of it, and its   *)
(* events are looked for whatever its claims were.                         *)
(***************************************************************************)
EXTENDS Crawler, FiniteSetTheorems, SequenceTheorems, TLAPS

-----------------------------------------------------------------------------
(* Runs.                                                                   *)

RunFields == {"kind", "pc", "db", "at", "article", "claims", "events", "saved", "error"}

\* The states in which a run has an article of the feeds or the form.
WithArticle(run) ==
  \/ run.pc \in {"check"} \cup InHand
  \/ run.kind = "manual" /\ run.pc \in {"ensure", "create"}

\* What a run's record holds where it is: saving starts at the first event, and the
\* loop over the events is at one of them.
RunOK(run) ==
  /\ DOMAIN run = RunFields
  /\ run.pc \in {"ensure", "create", "check", "store", "events"} => run.saved = 0
  /\ WithArticle(run) => run.article.url \in Urls
  /\ run.pc = "save" => /\ run.saved \in Nat /\ Len(run.events) \in Nat
                        /\ run.saved < Len(run.events)

RunsOK ==
  /\ runs \in Seq({runs[r] : r \in DOMAIN runs})
  /\ \A r \in DOMAIN runs : RunOK(runs[r])

-----------------------------------------------------------------------------
(* One reading of an article.                                              *)

Ids(stored, url) == {id \in DOMAIN stored : id[1] = url}

\* An article that only ever one run at a time had in hand is in the hands of one run.
OneHolder ==
  \A r, q \in DOMAIN runs :
    /\ {runs[r].pc, runs[q].pc} \subseteq InHand
    /\ runs[r].article.url = runs[q].article.url
    /\ runs[r].article.url \notin overlapped
    => r = q

\* A run that is about to store an article finds nothing of it.
NothingYet ==
  \A r \in DOMAIN runs :
    runs[r].pc = "store" /\ runs[r].article.url \notin overlapped =>
      /\ Ids(points, runs[r].article.url) = {}
      /\ runs[r].article.url \notin claimless => Ids(marketEvents, runs[r].article.url) = {}

\* A run that has stored an article's claims wrote all there is of it.
AllItsOwn ==
  \A r \in DOMAIN runs :
    runs[r].pc \in {"events", "save"} /\ runs[r].article.url \notin overlapped =>
      /\ \A slot \in Ids(points, runs[r].article.url) : points[slot].ext = Ext(r)
      /\ runs[r].article.url \notin claimless =>
           /\ Ids(points, runs[r].article.url) # {}
           /\ \A id \in Ids(marketEvents, runs[r].article.url) : marketEvents[id].ext = Ext(r)

\* What is stored of an article has one origin, and marks the article as processed.
OneOrigin ==
  /\ \A s, t \in DOMAIN points :
       s[1] = t[1] /\ s[1] \notin overlapped => points[s].ext = points[t].ext
  /\ \A s, t \in DOMAIN marketEvents :
       s[1] = t[1] /\ s[1] \notin overlapped \cup claimless
         => marketEvents[s].ext = marketEvents[t].ext /\ Ids(points, s[1]) # {}

ReadingInv == OneHolder /\ NothingYet /\ AllItsOwn /\ OneOrigin

-----------------------------------------------------------------------------
(* The events of an article.                                               *)

\* Run r has url in hand and is there.
HasAt(r, url, pc) == runs[r].pc = pc /\ runs[r].article.url = url

\* Events have been looked for in every stored article, or a run is about to.
LookedFor ==
  \A slot \in DOMAIN points : slot[1] \notin cut =>
    found[slot[1]] # Unread \/ \E r \in DOMAIN runs : HasAt(r, slot[1], "events")

\* Every event that was found is in the table, or a run is about to store it.
FoundAreStored ==
  \A url \in Urls \ cut : \A i \in 1..found[url] :
    \/ <<url, i>> \in DOMAIN marketEvents
    \/ \E r \in DOMAIN runs :
         HasAt(r, url, "save") /\ runs[r].saved < i /\ i <= Len(runs[r].events)

EventInv ==
  /\ found \in [Urls -> Nat \cup {Unread}]
  /\ \A slot \in DOMAIN points : slot[1] \in Urls
  /\ LookedFor
  /\ FoundAreStored

CrawlerInv == RunsOK /\ ReadingInv /\ EventInv

-----------------------------------------------------------------------------
(* Every step keeps the runs well-formed.                                  *)

\* One run goes on, the others stay.
LEMMA RunGoes ==
  ASSUME RunsOK, NEW r \in DOMAIN runs, NEW run, RunOK(run), Goes(r, run)
  PROVE  /\ DOMAIN runs' = DOMAIN runs /\ runs'[r] = run
         /\ \A q \in DOMAIN runs : q # r => runs'[q] = runs[q]
         /\ RunsOK'
<1> DEFINE R == {runs[q] : q \in DOMAIN runs} \cup {run}
<1>1. runs \in Seq(R)
  BY DEF RunsOK
<1>2. DOMAIN runs = 1..Len(runs) /\ Len(runs) \in Nat
  BY <1>1
<1>3. runs' = [runs EXCEPT ![r] = run]
  BY DEF Goes
<1>4. runs' \in Seq(R) /\ Len(runs') = Len(runs)
  BY <1>1, <1>2, <1>3, ExceptSeq
<1>5. /\ DOMAIN runs' = DOMAIN runs /\ runs'[r] = run
      /\ \A q \in DOMAIN runs : q # r => runs'[q] = runs[q]
  BY <1>1, <1>3
<1>6. \A q \in DOMAIN runs' : RunOK(runs'[q])
  BY <1>5 DEF RunsOK
<1>7. runs' \in Seq({runs'[q] : q \in DOMAIN runs'})
  BY <1>4, IsASeq, <1>5, <1>2
<1>. QED BY <1>5, <1>6, <1>7 DEF RunsOK, RunOK, WithArticle

\* A run starts; the others stay.
LEMMA RunStarts ==
  ASSUME RunsOK, NEW run, RunOK(run), runs' = Append(runs, run)
  PROVE  /\ Len(runs) + 1 \notin DOMAIN runs
         /\ DOMAIN runs' = DOMAIN runs \cup {Len(runs) + 1}
         /\ runs'[Len(runs) + 1] = run
         /\ \A q \in DOMAIN runs : runs'[q] = runs[q]
         /\ RunsOK'
<1> DEFINE R == {runs[q] : q \in DOMAIN runs} \cup {run}
<1>1. runs \in Seq(R)
  BY DEF RunsOK
<1>2. DOMAIN runs = 1..Len(runs) /\ Len(runs) \in Nat
  BY <1>1
<1>3. runs' \in Seq(R)
  BY <1>1
<1>4. /\ Len(runs') = Len(runs) + 1 /\ runs'[Len(runs) + 1] = run
      /\ \A q \in DOMAIN runs : runs'[q] = runs[q]
      /\ DOMAIN runs' = DOMAIN runs \cup {Len(runs) + 1}
  BY <1>1, <1>2
<1>5. runs' \in Seq({runs'[q] : q \in DOMAIN runs'})
  BY <1>3, <1>4
<1>6. \A q \in DOMAIN runs' : RunOK(runs'[q])
  BY <1>4 DEF RunsOK
<1>. QED BY <1>2, <1>4, <1>5, <1>6 DEF RunsOK, RunOK, WithArticle

\* A run that starts is well-formed: a crawl has no article yet, a submission has one.
LEMMA NewRunOK ==
  ASSUME NEW kind, NEW article, NEW db, kind = "manual" => article.url \in Urls
  PROVE  /\ RunOK(NewRun(kind, article, db))
         /\ NewRun(kind, article, db).kind = kind
         /\ NewRun(kind, article, db).pc = "ensure"
BY DEF RunOK, NewRun, RunFields, WithArticle, InHand

\* The next article, or the end, of a run that goes on.
LEMMA GoToOK ==
  ASSUME NEW run, DOMAIN run = RunFields, NEW n
  PROVE  /\ RunOK(GoTo(run, n))
         /\ GoTo(run, n).kind = run.kind
         /\ GoTo(run, n).pc \in {"end", "check"}
<1>1. CASE run.kind = "manual" \/ n \notin DOMAIN Worklist
  <2>1. GoTo(run, n) = [run EXCEPT !.pc = "end", !.events = None]
    BY <1>1 DEF GoTo
  <2>. QED BY <2>1 DEF RunOK, RunFields, WithArticle, InHand
<1>2. CASE ~(run.kind = "manual" \/ n \notin DOMAIN Worklist)
  <2>1. GoTo(run, n) = [run EXCEPT !.pc = "check", !.at = n, !.article = Worklist[n],
                                   !.events = None, !.saved = 0]
    BY <1>2 DEF GoTo
  <2>2. Worklist[n].url \in Urls
    BY <1>2 DEF Urls
  <2>. QED BY <2>1, <2>2 DEF RunOK, RunFields, WithArticle, InHand
<1>. QED BY <1>1, <1>2

\* Raising, failing, advancing and ending, of a well-formed run.
LEMMA LeavesOK ==
  ASSUME NEW run, RunOK(run), NEW text
  PROVE  /\ RunOK(Raised(run, text)) /\ Raised(run, text).pc = "end"
         /\ Raised(run, text).kind = run.kind
         /\ RunOK(Advance(run)) /\ Advance(run).pc \in {"end", "check"}
         /\ Advance(run).kind = run.kind
         /\ RunOK(Failed(run)) /\ Failed(run).pc \in {"end", "check"}
         /\ Failed(run).kind = run.kind
         /\ RunOK(Over(run, text)) /\ Over(run, text).pc = "over"
         /\ Over(run, text).kind = run.kind
<1>1. DOMAIN run = RunFields
  BY DEF RunOK
<1>2. \A t : /\ RunOK(Raised(run, t)) /\ Raised(run, t).pc = "end"
             /\ Raised(run, t).kind = run.kind
  BY <1>1 DEF Raised, RunOK, RunFields, WithArticle, InHand
<1>3. /\ RunOK(Advance(run)) /\ Advance(run).pc \in {"end", "check"}
      /\ Advance(run).kind = run.kind
  BY <1>1, GoToOK DEF Advance
<1>4. /\ RunOK(Over(run, text)) /\ Over(run, text).pc = "over"
      /\ Over(run, text).kind = run.kind
  BY <1>1 DEF Over, NewRun, RunOK, RunFields, WithArticle, InHand
<1>. QED BY <1>2, <1>3, <1>4 DEF Failed

\* After ensure_collection: at the first article.
LEMMA PreparedOK ==
  ASSUME NEW run, RunOK(run), run.pc \in {"ensure", "create"}
  PROVE  RunOK(Prepared(run)) /\ Prepared(run).pc \in {"end", "check"}
         /\ Prepared(run).kind = run.kind
<1>1. DOMAIN run = RunFields
  BY DEF RunOK
<1>2. CASE run.kind = "manual"
  <2>1. Prepared(run) = [run EXCEPT !.pc = "check"]
    BY <1>2 DEF Prepared
  <2>. QED BY <1>1, <1>2, <2>1 DEF RunOK, RunFields, WithArticle, InHand
<1>3. CASE run.kind # "manual"
  BY <1>1, <1>3, GoToOK DEF Prepared
<1>. QED BY <1>2, <1>3

\* The model's list of events is a list.
LEMMA EventsAreAList ==
  ASSUME NEW reply \in EventReplies, NEW article, ExtractEvents(reply, article) # None
  PROVE  /\ Len(ExtractEvents(reply, article)) \in Nat
         /\ ExtractEvents(reply, article) # <<>> => Len(ExtractEvents(reply, article)) > 0
<1> DEFINE list == JsonObject(reply)
           kept == {j \in DOMAIN list : list[j].excerpt}
           events == ExtractEvents(reply, article)
           item(i) == events[i]
<1>1. reply # None /\ list # None
  BY DEF ExtractEvents
<1>2. list \in Seq({list[i] : i \in DOMAIN list})
  BY <1>1, CrawlerAssumption DEF IsReply
<1>3. DOMAIN list = 1..Len(list) /\ Len(list) \in Nat
  BY <1>2
<1>4. Cardinality(kept) \in Nat
  <2>1. IsFiniteSet(DOMAIN list)
    BY <1>3, FS_Interval
  <2>. QED BY <2>1, FS_Subset, FS_CardinalityType
<1>5. events = [i \in 1..Cardinality(kept) |-> item(i)]
  BY <1>1 DEF ExtractEvents
<1>. HIDE DEF list, kept, events
<1>6. events \in Seq({item(i) : i \in 1..Cardinality(kept)}) /\ DOMAIN events = 1..Cardinality(kept)
  BY <1>4, <1>5, IsASeq
<1>. QED BY <1>4, <1>6 DEF events

\* A run that starts has no article in hand.
Starts(x) ==
  /\ RunOK(x) /\ x.pc = "ensure"
  /\ runs' = Append(runs, x)

LEMMA StartStep ==
  ASSUME RunsOK, ScheduledCrawl \/ RouteCrawl \/ StartJob \/ SubmitManual
  PROVE  \E x : /\ Starts(x) /\ UNCHANGED <<stores, history>>
                /\ IF StartJob THEN x.kind = "job" /\ job' = RunningJob /\ ~JobRunning
                   ELSE x.kind # "job" /\ UNCHANGED job
<1>1. ASSUME NEW kind, kind # "manual", StartCrawl(kind)
      PROVE  \E x : Starts(x) /\ x.kind = kind
  BY <1>1, NewRunOK DEF StartCrawl, Starts
<1>2. CASE StartJob
  BY <1>1, <1>2 DEF StartJob, MayStartJob
<1>3. CASE ScheduledCrawl /\ ~StartJob
  BY <1>1, <1>3 DEF ScheduledCrawl
<1>4. CASE RouteCrawl /\ ~StartJob
  BY <1>1, <1>4 DEF RouteCrawl
<1>5. CASE SubmitManual /\ ~StartJob
  <2>1. PICK s \in Submissions, page \in Pages :
          runs' = Append(runs, NewRun("manual", ManualArticle(s, page), FALSE))
    BY <1>5 DEF SubmitManual
  <2> DEFINE article == ManualArticle(s, page)
             x == NewRun("manual", article, FALSE)
  <2>2. article.url \in Urls
    BY DEF Urls
  <2>3. RunOK(x) /\ x.kind = "manual" /\ x.pc = "ensure" /\ runs' = Append(runs, x)
    <3> HIDE DEF article
    <3>1. RunOK(x) /\ x.kind = "manual" /\ x.pc = "ensure"
      BY <2>2 DEF RunOK, NewRun, RunFields, WithArticle, InHand
    <3>. QED BY <2>1, <3>1 DEF article
  <2>4. UNCHANGED <<stores, history, job>>
    BY <1>5 DEF SubmitManual
  <2> HIDE DEF x
  <2>. QED BY <1>5, <2>3, <2>4 DEF Starts
<1>. QED BY <1>2, <1>3, <1>4, <1>5

\* Run r goes on in the well-formed state x, and is what it was.
GoesTo(r, x) == RunOK(x) /\ Goes(r, x) /\ x.kind = runs[r].kind

\* The steps after which a run has no article in hand.
Leaves(r) ==
  \/ EnsureCollection(r) \/ CreateCollection(r) \/ EnsureFails(r) \/ FeedFails(r)
  \/ ArticleFails(r) \/ StoreFails(r) \/ EventsFail(r)

LEMMA LeavesStep ==
  ASSUME RunsOK, NEW r \in DOMAIN runs, Leaves(r)
  PROVE  /\ \E x : GoesTo(r, x) /\ x.pc \notin InHand \cup {"over"}
         /\ runs[r].pc # "over" /\ UNCHANGED job
<1>1. RunOK(runs[r]) /\ DOMAIN runs[r] = RunFields
  BY DEF RunsOK, RunOK
<1>2. ASSUME EnsureCollection(r) PROVE \E x : GoesTo(r, x) /\ x.pc \notin InHand \cup {"over"}
  <2>1. CASE collection
    BY <1>1, <1>2, <2>1, PreparedOK DEF EnsureCollection, GoesTo, InHand
  <2>2. CASE ~collection
    <3>1. Goes(r, [runs[r] EXCEPT !.pc = "create"]) /\ runs[r].pc = "ensure"
      BY <1>2, <2>2 DEF EnsureCollection
    <3>2. RunOK([runs[r] EXCEPT !.pc = "create"])
      BY <1>1, <3>1 DEF RunOK, RunFields, WithArticle, InHand
    <3>. QED BY <1>1, <3>1, <3>2 DEF GoesTo, InHand, RunFields
  <2>. QED BY <2>1, <2>2
<1>3. ASSUME CreateCollection(r) PROVE \E x : GoesTo(r, x) /\ x.pc \notin InHand \cup {"over"}
  BY <1>1, <1>3, PreparedOK, LeavesOK DEF CreateCollection, GoesTo, InHand
<1>4. ASSUME EnsureFails(r) PROVE \E x : GoesTo(r, x) /\ x.pc \notin InHand \cup {"over"}
  BY <1>1, <1>4, LeavesOK DEF EnsureFails, GoesTo, InHand
<1>5. ASSUME FeedFails(r) PROVE \E x : GoesTo(r, x) /\ x.pc \notin InHand \cup {"over"}
  BY <1>1, <1>5, GoToOK DEF FeedFails, GoesTo, InHand
<1>6. ASSUME ArticleFails(r) \/ StoreFails(r) \/ EventsFail(r)
      PROVE  \E x : GoesTo(r, x) /\ x.pc \notin InHand \cup {"over"}
  BY <1>1, <1>6, LeavesOK DEF ArticleFails, StoreFails, EventsFail, GoesTo, InHand
<1>. QED BY <1>2, <1>3, <1>4, <1>5, <1>6
         DEF Leaves, EnsureCollection, CreateCollection, EnsureFails, FeedFails,
             ArticleFails, StoreFails, EventsFail

\* Run r stays with its article.
SameArticle(r, x) == x.article = runs[r].article /\ x.at = runs[r].at

\* Run r is through with its article.
Through(x) == x.pc \in {"end", "check"}

LEMMA CheckGoes ==
  ASSUME RunsOK, NEW r \in DOMAIN runs, CheckProcessed(r)
  PROVE  \E x : /\ GoesTo(r, x)
                /\ IF Processed(runs[r].article.url) THEN Through(x)
                   ELSE x.pc = "store" /\ SameArticle(r, x)
<1>1. RunOK(runs[r]) /\ DOMAIN runs[r] = RunFields
  BY DEF RunsOK, RunOK
<1>2. CASE Processed(runs[r].article.url)
  BY <1>1, <1>2, LeavesOK DEF CheckProcessed, GoesTo, Through
<1>3. CASE ~Processed(runs[r].article.url)
  <2> DEFINE x == [runs[r] EXCEPT !.pc = "store"]
  <2>1. Goes(r, x) /\ runs[r].pc = "check"
    BY <1>3 DEF CheckProcessed
  <2>2. RunOK(x)
    BY <1>1, <2>1 DEF RunOK, RunFields, WithArticle, InHand
  <2>3. x.kind = runs[r].kind /\ x.pc = "store" /\ SameArticle(r, x)
    BY <1>1 DEF RunFields, SameArticle
  <2> HIDE DEF x
  <2>. QED BY <1>3, <2>1, <2>2, <2>3 DEF GoesTo
<1>. QED BY <1>2, <1>3

LEMMA StoreGoes ==
  ASSUME RunsOK, NEW r \in DOMAIN runs, StoreClaims(r)
  PROVE  \E x : /\ GoesTo(r, x)
                /\ IF runs[r].db THEN x.pc = "events" /\ SameArticle(r, x) ELSE Through(x)
<1>1. RunOK(runs[r]) /\ DOMAIN runs[r] = RunFields
  BY DEF RunsOK, RunOK
<1>2. PICK claims : Goes(r, AfterStore(runs[r], claims)) /\ runs[r].pc = "store"
  BY DEF StoreClaims
<1> DEFINE counted == [runs[r] EXCEPT !.claims = @ + SavedCount(claims)]
<1>3. /\ RunOK(counted) /\ counted.kind = runs[r].kind /\ counted.pc = "store"
      /\ SameArticle(r, counted) /\ DOMAIN counted = RunFields
  BY <1>1, <1>2 DEF RunOK, RunFields, WithArticle, InHand, SameArticle
<1>4. AfterStore(runs[r], claims) =
        IF runs[r].db THEN [counted EXCEPT !.pc = "events"] ELSE Advance(counted)
  BY DEF AfterStore
<1> HIDE DEF counted
<1> DEFINE x == [counted EXCEPT !.pc = "events"]
<1>5. RunOK(x) /\ x.kind = runs[r].kind /\ x.pc = "events" /\ SameArticle(r, x)
  BY <1>3 DEF RunOK, RunFields, WithArticle, InHand, SameArticle
<1>6. CASE runs[r].db
  <2>1. Goes(r, x)
    BY <1>2, <1>4, <1>6
  <2> HIDE DEF x
  <2>. QED BY <1>5, <1>6, <2>1 DEF GoesTo
<1>7. CASE ~runs[r].db
  BY <1>2, <1>3, <1>4, <1>7, LeavesOK DEF GoesTo, Through
<1>. QED BY <1>6, <1>7

\* What an extraction of events does: it fails, or finds n of them.
LEMMA FindGoes ==
  ASSUME RunsOK, NEW r \in DOMAIN runs, FindEvents(r)
  PROVE  \E x : /\ GoesTo(r, x)
                /\ \/ Through(x) /\ cut' = cut \cup {runs[r].article.url} /\ found' = found
                   \/ \E n \in Nat :
                        /\ cut' = cut
                        /\ found' = IF n > found[runs[r].article.url]
                                    THEN [found EXCEPT ![runs[r].article.url] = n] ELSE found
                        /\ \/ n = 0 /\ Through(x)
                           \/ /\ x.pc = "save" /\ SameArticle(r, x)
                              /\ x.saved = 0 /\ Len(x.events) = n
<1> DEFINE url == runs[r].article.url
<1>1. RunOK(runs[r]) /\ DOMAIN runs[r] = RunFields /\ runs[r].pc = "events"
  BY DEF RunsOK, RunOK, FindEvents
<1>2. PICK reply \in EventReplies :
        LET events == ExtractEvents(reply, runs[r].article)
        IN  /\ Goes(r, IF events \in {None, <<>>} THEN Advance(runs[r])
                       ELSE [runs[r] EXCEPT !.pc = "save", !.events = events])
            /\ cut' = IF events = None THEN cut \cup {url} ELSE cut
            /\ found' = IF events # None /\ Len(events) > found[url]
                        THEN [found EXCEPT ![url] = Len(events)] ELSE found
  BY DEF FindEvents
<1> DEFINE events == ExtractEvents(reply, runs[r].article)
<1>3. events # None => Len(events) \in Nat /\ (events # <<>> => Len(events) > 0)
  BY EventsAreAList
<1>4. /\ Goes(r, IF events \in {None, <<>>} THEN Advance(runs[r])
                 ELSE [runs[r] EXCEPT !.pc = "save", !.events = events])
      /\ cut' = IF events = None THEN cut \cup {url} ELSE cut
      /\ found' = IF events # None /\ Len(events) > found[url]
                  THEN [found EXCEPT ![url] = Len(events)] ELSE found
  BY <1>2
<1> HIDE DEF events, url
<1>5. CASE events = None
  <2>1. Goes(r, Advance(runs[r])) /\ cut' = cut \cup {url} /\ found' = found
    BY <1>4, <1>5
  <2>. QED BY <1>1, <2>1, LeavesOK DEF GoesTo, Through, url
<1>6. CASE events # None /\ events = <<>>
  <2>1. /\ Goes(r, Advance(runs[r])) /\ cut' = cut
        /\ found' = IF 0 > found[url] THEN [found EXCEPT ![url] = 0] ELSE found
    BY <1>4, <1>6
  <2>2. GoesTo(r, Advance(runs[r])) /\ Through(Advance(runs[r]))
    BY <1>1, <2>1, LeavesOK DEF GoesTo, Through
  <2>. QED BY <2>1, <2>2 DEF url
<1>7. CASE events # None /\ events # <<>>
  <2> DEFINE x == [runs[r] EXCEPT !.pc = "save", !.events = events]
             n == Len(events)
  <2>1. /\ Goes(r, x) /\ cut' = cut /\ n \in Nat /\ n > 0
        /\ found' = IF n > found[url] THEN [found EXCEPT ![url] = n] ELSE found
    BY <1>3, <1>4, <1>7
  <2>2. x.pc = "save" /\ x.kind = runs[r].kind /\ SameArticle(r, x) /\ x.events = events
        /\ x.saved = 0
    BY <1>1 DEF RunOK, RunFields, SameArticle
  <2>3. RunOK(x)
    BY <1>1, <2>1, <2>2 DEF RunOK, RunFields, WithArticle, InHand
  <2>4. Len(x.events) = n
    BY <2>2
  <2> HIDE DEF x, n
  <2>. QED BY <2>1, <2>2, <2>3, <2>4 DEF GoesTo, url
<1>. QED BY <1>5, <1>6, <1>7

LEMMA SaveGoes ==
  ASSUME RunsOK, NEW r \in DOMAIN runs, SaveEvent(r)
  PROVE  \E x : /\ GoesTo(r, x)
                /\ IF runs[r].saved + 1 < Len(runs[r].events)
                   THEN /\ x.pc = "save" /\ SameArticle(r, x)
                        /\ x.saved = runs[r].saved + 1 /\ x.events = runs[r].events
                   ELSE Through(x)
<1> DEFINE i == runs[r].saved + 1
<1>1. /\ RunOK(runs[r]) /\ DOMAIN runs[r] = RunFields
      /\ runs[r].pc = "save" /\ runs[r].saved \in Nat /\ Len(runs[r].events) \in Nat
  BY DEF SaveEvent, RunsOK, RunOK
<1>2. CASE i < Len(runs[r].events)
  <2> DEFINE x == [runs[r] EXCEPT !.saved = i]
  <2>1. Goes(r, x)
    BY <1>2 DEF SaveEvent
  <2>2. RunOK(x)
    BY <1>1, <1>2 DEF RunOK, RunFields, WithArticle, InHand
  <2>3. /\ x.pc = "save" /\ x.kind = runs[r].kind /\ SameArticle(r, x)
        /\ x.saved = i /\ x.events = runs[r].events
    BY <1>1 DEF RunFields, SameArticle
  <2> HIDE DEF x
  <2>. QED BY <1>2, <2>1, <2>2, <2>3 DEF GoesTo
<1>3. CASE ~(i < Len(runs[r].events))
  BY <1>1, <1>3, LeavesOK DEF SaveEvent, GoesTo, Through
<1>. QED BY <1>2, <1>3

\* A step that reads, stores or goes through an article.
LEMMA ArticleStep ==
  ASSUME RunsOK, NEW r \in DOMAIN runs,
         CheckProcessed(r) \/ StoreClaims(r) \/ FindEvents(r) \/ SaveEvent(r)
  PROVE  /\ \E x : GoesTo(r, x) /\ x.pc # "over"
         /\ runs[r].pc # "over" /\ UNCHANGED job
<1>1. CheckProcessed(r) => \E x : GoesTo(r, x) /\ x.pc # "over"
  BY CheckGoes DEF Through
<1>2. StoreClaims(r) => \E x : GoesTo(r, x) /\ x.pc # "over"
  BY StoreGoes DEF Through
<1>3. FindEvents(r) => \E x : GoesTo(r, x) /\ x.pc # "over"
  BY FindGoes DEF Through
<1>4. SaveEvent(r) => \E x : GoesTo(r, x) /\ x.pc # "over"
  BY SaveGoes DEF Through
<1>. QED BY <1>1, <1>2, <1>3, <1>4 DEF CheckProcessed, StoreClaims, FindEvents, SaveEvent

\* The end of a run.
LEMMA EndStep ==
  ASSUME RunsOK, NEW r \in DOMAIN runs, EndRun(r)
  PROVE  /\ \E x : GoesTo(r, x) /\ x.pc = "over"
         /\ runs[r].pc # "over"
<1> DEFINE x == Over(runs[r], runs[r].error)
<1>1. RunOK(runs[r]) /\ runs[r].pc = "end" /\ Goes(r, x)
  BY DEF EndRun, RunsOK
<1>2. RunOK(x) /\ x.pc = "over" /\ x.kind = runs[r].kind
  BY <1>1, LeavesOK
<1> HIDE DEF x
<1>. QED BY <1>1, <1>2 DEF GoesTo

\* A process stops: the runs it ran are over, the others stay.
LEMMA StopStep ==
  ASSUME RunsOK, NEW kinds, Stop(kinds)
  PROVE  /\ RunsOK' /\ DOMAIN runs' = DOMAIN runs
         /\ \A r \in DOMAIN runs :
              IF r \in Lost(kinds) THEN runs'[r].pc = "over" /\ runs'[r].kind = runs[r].kind
              ELSE runs'[r] = runs[r]
<1>1. /\ runs' = [r \in DOMAIN runs |->
                    IF r \in Lost(kinds) THEN Over(runs[r], "killed") ELSE runs[r]]
      /\ DOMAIN runs' = DOMAIN runs
  BY DEF Stop
<1>2. \A r \in DOMAIN runs :
        /\ IF r \in Lost(kinds) THEN runs'[r].pc = "over" /\ runs'[r].kind = runs[r].kind
           ELSE runs'[r] = runs[r]
        /\ RunOK(runs'[r])
  BY <1>1, LeavesOK DEF RunsOK
<1>3. Len(runs) \in Nat /\ DOMAIN runs = 1..Len(runs)
  BY DEF RunsOK
<1>4. runs' \in Seq({runs'[r] : r \in DOMAIN runs'})
  BY <1>1, <1>3, IsASeq
<1>. QED BY <1>1, <1>2, <1>4 DEF RunsOK, RunOK, WithArticle

\* Every step keeps the runs well-formed.
LEMMA RunsStep == ASSUME RunsOK, [Next]_vars PROVE RunsOK'
<1>1. CASE ScheduledCrawl \/ RouteCrawl \/ StartJob \/ SubmitManual
  BY <1>1, StartStep, RunStarts DEF Starts
<1>2. CASE ApiRestarts \/ CrawlerRestarts
  BY <1>2, StopStep DEF ApiRestarts, CrawlerRestarts
<1>3. ASSUME NEW r \in DOMAIN runs, Step(r) \/ Breaks(r) PROVE RunsOK'
  <2>1. \E x : GoesTo(r, x)
    BY <1>3, LeavesStep, ArticleStep, EndStep DEF Step, Breaks, Leaves
  <2>. QED BY <2>1, RunGoes DEF GoesTo
<1>4. CASE UNCHANGED vars
  BY <1>4 DEF vars, RunsOK, RunOK, WithArticle
<1>. QED BY <1>1, <1>2, <1>3, <1>4 DEF Next

LEMMA RunsInit == Init => RunsOK
BY DEF Init, RunsOK

-----------------------------------------------------------------------------
(* The registry of background jobs.                                        *)

RegistryInv ==
  /\ \A r, q \in JobThreads : r = q
  /\ JobRunning <=> JobThreads # {}

\* A step that leaves the kind and the life of every run alone, and the registry.
LEMMA ThreadsStay ==
  ASSUME RegistryInv, UNCHANGED job, DOMAIN runs' = DOMAIN runs,
         \A r \in DOMAIN runs : runs'[r].kind = runs[r].kind
                                /\ ((runs'[r].pc = "over") <=> (runs[r].pc = "over"))
  PROVE  RegistryInv'
<1>1. JobThreads' = JobThreads
  BY DEF JobThreads, Alive
<1>2. JobRunning' <=> JobRunning
  BY DEF JobRunning
<1>. QED BY <1>1, <1>2 DEF RegistryInv

LEMMA RegistryStep == ASSUME RunsOK, RegistryInv, [Next]_vars PROVE RegistryInv'
<1>1. CASE ScheduledCrawl \/ RouteCrawl \/ StartJob \/ SubmitManual
  <2>1. PICK x : /\ Starts(x)
                 /\ IF StartJob THEN x.kind = "job" /\ job' = RunningJob /\ ~JobRunning
                    ELSE x.kind # "job" /\ UNCHANGED job
    BY <1>1, StartStep
  <2> DEFINE new == Len(runs) + 1
  <2>2. /\ new \notin DOMAIN runs /\ DOMAIN runs' = DOMAIN runs \cup {new}
        /\ runs'[new] = x /\ x.pc = "ensure" /\ \A q \in DOMAIN runs : runs'[q] = runs[q]
    BY <2>1, RunStarts DEF Starts
  <2> HIDE DEF new
  <2>3. CASE StartJob
    <3>1. JobThreads = {} /\ x.kind = "job" /\ job' = RunningJob
      BY <2>1, <2>3 DEF RegistryInv
    <3>2. JobThreads' = {new}
      BY <2>2, <3>1 DEF JobThreads, Alive
    <3>3. JobRunning'
      BY <3>1, CrawlerAssumption DEF JobRunning, RunningJob
    <3>. QED BY <3>2, <3>3 DEF RegistryInv
  <2>4. CASE ~StartJob
    <3>1. JobThreads' = JobThreads
      BY <2>1, <2>2, <2>4 DEF JobThreads, Alive
    <3>2. JobRunning' <=> JobRunning
      BY <2>1, <2>4 DEF JobRunning
    <3>. QED BY <3>1, <3>2 DEF RegistryInv
  <2>. QED BY <2>3, <2>4
<1>2. CASE ApiRestarts
  <2>1. JobThreads' = {}
    BY <1>2, StopStep DEF ApiRestarts, JobThreads, Alive, Lost, ApiKinds
  <2>2. ~JobRunning'
    BY <1>2 DEF ApiRestarts, JobRunning
  <2>. QED BY <2>1, <2>2 DEF RegistryInv
<1>3. CASE CrawlerRestarts
  <2>1. JobThreads' = JobThreads
    BY <1>3, StopStep DEF CrawlerRestarts, JobThreads, Alive, Lost
  <2>2. JobRunning' <=> JobRunning
    BY <1>3 DEF CrawlerRestarts, JobRunning
  <2>. QED BY <2>1, <2>2 DEF RegistryInv
<1>4. ASSUME NEW r \in DOMAIN runs,
             Leaves(r) \/ CheckProcessed(r) \/ StoreClaims(r) \/ FindEvents(r) \/ SaveEvent(r)
      PROVE  RegistryInv'
  <2>1. /\ \E x : GoesTo(r, x) /\ x.pc # "over"
        /\ runs[r].pc # "over" /\ UNCHANGED job
    BY <1>4, LeavesStep, ArticleStep
  <2>2. PICK x : GoesTo(r, x) /\ x.pc # "over"
    BY <2>1
  <2>. QED BY <2>1, <2>2, RunGoes, ThreadsStay DEF GoesTo
<1>5. ASSUME NEW r \in DOMAIN runs, EndRun(r) PROVE RegistryInv'
  <2>1. PICK x : GoesTo(r, x) /\ x.pc = "over"
    BY <1>5, EndStep
  <2>2. /\ DOMAIN runs' = DOMAIN runs /\ runs'[r].pc = "over" /\ runs'[r].kind = runs[r].kind
        /\ \A q \in DOMAIN runs : q # r => runs'[q] = runs[q]
    BY <2>1, RunGoes DEF GoesTo
  <2>3. runs[r].pc = "end" /\ job' = IF runs[r].kind = "job" THEN JobRecord(runs[r]) ELSE job
    BY <1>5 DEF EndRun
  <2>4. CASE runs[r].kind = "job"
    <3>1. r \in JobThreads
      BY <2>3, <2>4 DEF JobThreads, Alive
    <3>2. JobThreads' = {}
      BY <2>2, <2>4, <3>1 DEF JobThreads, Alive, RegistryInv
    <3>3. ~JobRunning'
      BY <2>3, <2>4 DEF JobRunning, JobRecord
    <3>. QED BY <3>2, <3>3 DEF RegistryInv
  <2>5. CASE runs[r].kind # "job"
    <3>1. JobThreads' = JobThreads
      BY <2>2, <2>5 DEF JobThreads, Alive
    <3>2. JobRunning' <=> JobRunning
      BY <2>3, <2>5 DEF JobRunning
    <3>. QED BY <3>1, <3>2 DEF RegistryInv
  <2>. QED BY <2>4, <2>5
<1>6. CASE UNCHANGED vars
  BY <1>6, ThreadsStay DEF vars
<1>. QED BY <1>1, <1>2, <1>3, <1>4, <1>5, <1>6 DEF Next, Step, Breaks, Leaves

\* The registry says "running" exactly while one thread runs the job, and there are
\* never two, for any number of runs, failures and restarts (start_background_job).
THEOREM RegistryCorrect == Spec => []RegistryIsTrue
<1>1. Init => RunsOK /\ RegistryInv
  BY RunsInit DEF Init, RegistryInv, JobThreads, JobRunning
<1>2. RunsOK /\ RegistryInv /\ [Next]_vars => RunsOK' /\ RegistryInv'
  BY RunsStep, RegistryStep
<1>3. RegistryInv => RegistryIsTrue
  <2> SUFFICES ASSUME RegistryInv PROVE Cardinality(JobThreads) <= 1
    BY DEF RegistryInv, RegistryIsTrue
  <2>1. CASE JobThreads = {}
    BY <2>1, FS_EmptySet
  <2>2. ASSUME NEW r \in JobThreads PROVE Cardinality(JobThreads) <= 1
    <3>1. JobThreads = {r}
      BY <2>2 DEF RegistryInv
    <3>. QED BY <3>1, FS_Singleton
  <2>. QED BY <2>1, <2>2
<1>. QED BY <1>1, <1>2, <1>3, PTL DEF Spec

-----------------------------------------------------------------------------
(* The table of market events.                                             *)

\* A stored event stays as it is.
EventsKept ==
  \A id \in DOMAIN marketEvents :
    id \in DOMAIN marketEvents' /\ marketEvents'[id] = marketEvents[id]

\* What a write of new items over stored ones holds.
LEMMA WrittenIs ==
  ASSUME NEW stored, NEW new
  PROVE  /\ DOMAIN Written(stored, new) = DOMAIN new \cup DOMAIN stored
         /\ \A id \in DOMAIN new : Written(stored, new)[id] = new[id]
         /\ \A id \in DOMAIN stored \ DOMAIN new : Written(stored, new)[id] = stored[id]
BY DEF Written

\* An insert adds a row under an identifier that was free, and no other.
LEMMA InsertedIs ==
  ASSUME NEW id, NEW row
  PROVE  /\ DOMAIN Inserted(id, row) = DOMAIN marketEvents \cup {id}
         /\ \A i \in DOMAIN marketEvents : Inserted(id, row)[i] = marketEvents[i]
         /\ id \notin DOMAIN marketEvents => Inserted(id, row)[id] = row
<1> DEFINE new == [i \in {id} |-> row]
<1>1. CASE id \in DOMAIN marketEvents
  <2>1. Inserted(id, row) = marketEvents
    BY <1>1 DEF Inserted
  <2>. QED BY <1>1, <2>1
<1>2. CASE id \notin DOMAIN marketEvents
  <2>1. Inserted(id, row) = Written(marketEvents, new)
    BY <1>2 DEF Inserted
  <2>2. DOMAIN new = {id} /\ new[id] = row
    OBVIOUS
  <2> HIDE DEF new
  <2>3. /\ DOMAIN Written(marketEvents, new) = DOMAIN new \cup DOMAIN marketEvents
        /\ \A i \in DOMAIN new : Written(marketEvents, new)[i] = new[i]
        /\ \A i \in DOMAIN marketEvents \ DOMAIN new :
             Written(marketEvents, new)[i] = marketEvents[i]
    BY WrittenIs
  <2>. QED BY <1>2, <2>1, <2>2, <2>3
<1>. QED BY <1>1, <1>2

\* Only SaveEvent writes the table.
LEMMA OnlySaveEventWrites ==
  ASSUME [Next]_vars
  PROVE  marketEvents' = marketEvents \/ \E r \in DOMAIN runs : SaveEvent(r)
<1>1. ScheduledCrawl \/ RouteCrawl \/ StartJob \/ SubmitManual => UNCHANGED marketEvents
  BY DEF ScheduledCrawl, RouteCrawl, StartJob, SubmitManual, stores
<1>2. ApiRestarts \/ CrawlerRestarts => UNCHANGED marketEvents
  BY DEF ApiRestarts, CrawlerRestarts, Stop, stores
<1>3. ASSUME NEW r, Leaves(r) \/ EndRun(r) PROVE UNCHANGED marketEvents
  BY <1>3 DEF Leaves, EnsureCollection, CreateCollection, EnsureFails, FeedFails,
              ArticleFails, StoreFails, EventsFail, EndRun, stores
<1>4. ASSUME NEW r, CheckProcessed(r) \/ StoreClaims(r) \/ FindEvents(r)
      PROVE  UNCHANGED marketEvents
  <2>1. CheckProcessed(r) => UNCHANGED marketEvents
    BY DEF CheckProcessed, stores
  <2>2. StoreClaims(r) => UNCHANGED marketEvents
    BY DEF StoreClaims
  <2>3. FindEvents(r) => UNCHANGED marketEvents
    BY DEF FindEvents, stores
  <2>. QED BY <1>4, <2>1, <2>2, <2>3
<1>5. UNCHANGED vars => UNCHANGED marketEvents
  BY DEF vars
<1>. QED BY <1>1, <1>2, <1>3, <1>4, <1>5 DEF Next, Step, Breaks, Leaves

\* A stored event is never changed or taken out, for any runs and failures (INSERT ...
\* ON CONFLICT DO NOTHING).
THEOREM EventsNeverRewritten == Spec => EventsAreNeverRewritten
<1>1. [Next]_vars => EventsKept
  <2> SUFFICES ASSUME [Next]_vars PROVE EventsKept
    OBVIOUS
  <2>1. CASE marketEvents' = marketEvents
    BY <2>1 DEF EventsKept
  <2>2. ASSUME NEW r \in DOMAIN runs, SaveEvent(r) PROVE EventsKept
    <3>1. PICK id, row : marketEvents' = Inserted(id, row)
      BY <2>2 DEF SaveEvent
    <3>2. /\ DOMAIN marketEvents' = DOMAIN marketEvents \cup {id}
          /\ \A i \in DOMAIN marketEvents : (marketEvents')[i] = marketEvents[i]
      <4>1. /\ DOMAIN Inserted(id, row) = DOMAIN marketEvents \cup {id}
            /\ \A i \in DOMAIN marketEvents : Inserted(id, row)[i] = marketEvents[i]
        BY InsertedIs
      <4>. QED BY <3>1, <4>1
    <3>. QED BY <3>2 DEF EventsKept
  <2>. QED BY <2>1, <2>2, OnlySaveEventWrites
<1>. QED BY <1>1, PTL DEF Spec, EventsAreNeverRewritten, EventsKept

-----------------------------------------------------------------------------
(* One reading of an article: the invariant is kept.                       *)

\* Run q goes on with the article it has in hand, or has none.
Stays(q) ==
  runs'[q].pc \in InHand =>
    /\ q \in DOMAIN runs
    /\ runs'[q].article = runs[q].article /\ runs'[q].at = runs[q].at
    /\ \/ runs'[q].pc = runs[q].pc
       \/ {runs[q].pc, runs'[q].pc} \subseteq {"events", "save"}

OthersStay(r) ==
  /\ r \in DOMAIN runs /\ DOMAIN runs' = DOMAIN runs
  /\ \A q \in DOMAIN runs : q # r => runs'[q] = runs[q]

\* A step that writes nothing, and after which no run has another article in hand.
LEMMA QuietStep ==
  ASSUME ReadingInv, \A q \in DOMAIN runs' : Stays(q),
         UNCHANGED <<points, marketEvents, overlapped, claimless>>
  PROVE  ReadingInv'
<1>1. \A url : Ids(points', url) = Ids(points, url)
               /\ Ids(marketEvents', url) = Ids(marketEvents, url)
  BY DEF Ids
<1>3. OneHolder'
  BY DEF ReadingInv, OneHolder, Stays, InHand
<1>4. NothingYet'
  BY <1>1 DEF ReadingInv, NothingYet, Stays, InHand
<1>5. AllItsOwn'
  BY <1>1 DEF ReadingInv, AllItsOwn, Stays, InHand, Ext
<1>6. OneOrigin'
  BY <1>1 DEF ReadingInv, OneOrigin
<1>. QED BY <1>3, <1>4, <1>5, <1>6 DEF ReadingInv

\* The processed check, when it finds nothing of the article.
LEMMA CheckKeeps ==
  ASSUME ReadingInv, NEW r, OthersStay(r), runs[r].pc \notin InHand,
         ~Processed(runs[r].article.url),
         runs'[r].pc = "store", runs'[r].article = runs[r].article,
         overlapped' = IF \E q \in DOMAIN runs : Holds(runs[q], runs[r].article.url)
                       THEN overlapped \cup {runs[r].article.url} ELSE overlapped,
         UNCHANGED <<points, marketEvents, claimless>>
  PROVE  ReadingInv'
<1> DEFINE url == runs[r].article.url
<1>1. Ids(points, url) = {}
  BY DEF Processed, Ids
<1>2. \A u : Ids(points', u) = Ids(points, u) /\ Ids(marketEvents', u) = Ids(marketEvents, u)
  BY DEF Ids
<1>3. overlapped \subseteq overlapped'
  OBVIOUS
<1>4. OneHolder'
  <2> SUFFICES ASSUME NEW p \in DOMAIN runs, NEW q \in DOMAIN runs,
                      {runs'[p].pc, runs'[q].pc} \subseteq InHand,
                      runs'[p].article.url = runs'[q].article.url,
                      runs'[p].article.url \notin overlapped'
               PROVE  p = q
    BY DEF OneHolder, OthersStay
  <2>1. \A h \in DOMAIN runs : Holds(runs[h], url) => url \in overlapped'
    OBVIOUS
  <2>2. CASE p # r /\ q # r
    BY <1>3, <2>2 DEF OthersStay, ReadingInv, OneHolder
  <2>3. CASE p = r /\ q # r
    BY <2>1, <2>3 DEF OthersStay, Holds
  <2>4. CASE p # r /\ q = r
    BY <2>1, <2>4 DEF OthersStay, Holds
  <2>. QED BY <2>2, <2>3, <2>4
<1>5. NothingYet'
  <2> SUFFICES ASSUME NEW q \in DOMAIN runs, runs'[q].pc = "store",
                      runs'[q].article.url \notin overlapped'
               PROVE  /\ Ids(points, runs'[q].article.url) = {}
                      /\ runs'[q].article.url \notin claimless =>
                           Ids(marketEvents, runs'[q].article.url) = {}
    BY <1>2 DEF NothingYet, OthersStay
  <2>1. CASE q # r
    BY <1>3, <2>1 DEF OthersStay, ReadingInv, NothingYet
  <2>2. CASE q = r
    <3>1. runs'[q].article.url = url
      BY <2>2
    <3>2. url \notin claimless => Ids(marketEvents, url) = {}
      BY <1>1, <1>3, <2>2, <3>1 DEF ReadingInv, OneOrigin, Ids
    <3>. QED BY <1>1, <3>1, <3>2
  <2>. QED BY <2>1, <2>2
<1>6. AllItsOwn'
  BY <1>2, <1>3 DEF ReadingInv, AllItsOwn, OthersStay, Ext
<1>7. OneOrigin'
  BY <1>2, <1>3 DEF ReadingInv, OneOrigin
<1>. QED BY <1>4, <1>5, <1>6, <1>7 DEF ReadingInv

\* An upsert of points of the run's article, all of its own reading.
LEMMA StoreKeeps ==
  ASSUME ReadingInv, NEW r, OthersStay(r), runs[r].pc = "store",
         runs'[r].pc \in InHand => /\ runs'[r].pc = "events"
                                   /\ runs'[r].article = runs[r].article
                                   /\ runs'[r].at = runs[r].at,
         NEW new, points' = Written(points, new),
         \A slot \in DOMAIN new : slot[1] = runs[r].article.url /\ new[slot].ext = Ext(r),
         claimless \subseteq claimless',
         DOMAIN new # {} \/ runs[r].article.url \in claimless',
         UNCHANGED <<marketEvents, overlapped>>
  PROVE  ReadingInv'
<1> DEFINE url == runs[r].article.url
<1>1. /\ DOMAIN points' = DOMAIN new \cup DOMAIN points
      /\ \A slot \in DOMAIN new : (points')[slot] = new[slot]
      /\ \A slot \in DOMAIN points \ DOMAIN new : (points')[slot] = points[slot]
  BY DEF Written
<1>2. \A slot \in DOMAIN points' :
        IF slot \in DOMAIN new THEN slot[1] = url /\ (points')[slot].ext = Ext(r)
        ELSE slot \in DOMAIN points /\ (points')[slot] = points[slot]
  BY <1>1
<1>3. \A u : Ids(points, u) \subseteq Ids(points', u)
  BY <1>1 DEF Ids
<1>4. \A u : u # url => Ids(points', u) = Ids(points, u)
  BY <1>1, <1>2 DEF Ids
<1>5. url \notin claimless' => Ids(points', url) # {}
  BY <1>1 DEF Ids
<1>6. \A q \in DOMAIN runs : q # r /\ runs[q].pc \in InHand /\ runs[q].article.url \notin overlapped
        => runs[q].article.url # url
  BY DEF ReadingInv, OneHolder, InHand, OthersStay
<1>7. url \notin overlapped => Ids(points, url) = {}
  BY DEF ReadingInv, NothingYet, OthersStay
<1>8. url \notin overlapped =>
        \A slot \in Ids(points', url) : (points')[slot].ext = Ext(r)
  BY <1>2, <1>7 DEF Ids
<1>9. OneHolder'
  BY DEF ReadingInv, OneHolder, OthersStay, InHand
<1>10. NothingYet'
  <2> SUFFICES ASSUME NEW q \in DOMAIN runs, runs'[q].pc = "store",
                      runs'[q].article.url \notin overlapped
               PROVE  /\ Ids(points', runs'[q].article.url) = {}
                      /\ runs'[q].article.url \notin claimless' =>
                           Ids(marketEvents, runs'[q].article.url) = {}
    BY DEF NothingYet, OthersStay, Ids
  <2>1. q # r /\ runs'[q] = runs[q]
    BY DEF OthersStay, InHand
  <2>2. runs[q].article.url # url
    BY <1>6, <2>1 DEF InHand
  <2>3. Ids(points', runs[q].article.url) = {}
    BY <1>4, <2>1, <2>2 DEF ReadingInv, NothingYet
  <2>. QED BY <2>1, <2>3 DEF ReadingInv, NothingYet
<1>11. AllItsOwn'
  <2> SUFFICES ASSUME NEW q \in DOMAIN runs, runs'[q].pc \in {"events", "save"},
                      runs'[q].article.url \notin overlapped
               PROVE  /\ \A slot \in Ids(points', runs'[q].article.url) :
                           (points')[slot].ext = <<q, runs'[q].at>>
                      /\ runs'[q].article.url \notin claimless' =>
                           /\ Ids(points', runs'[q].article.url) # {}
                           /\ \A id \in Ids(marketEvents, runs'[q].article.url) :
                                marketEvents[id].ext = <<q, runs'[q].at>>
    BY DEF AllItsOwn, OthersStay, Ids, Ext
  <2>1. CASE q # r
    <3>1. runs'[q] = runs[q] /\ runs[q].article.url # url
      BY <1>6, <2>1 DEF OthersStay, InHand
    <3>2. \A slot \in Ids(points', runs[q].article.url) :
            slot \in Ids(points, runs[q].article.url) /\ (points')[slot] = points[slot]
      BY <1>2, <3>1 DEF Ids
    <3>. QED BY <1>3, <3>1, <3>2 DEF ReadingInv, AllItsOwn, Ext
  <2>2. CASE q = r
    <3>1. runs'[r].article = runs[r].article /\ Ext(r) = <<q, runs'[q].at>>
      BY <2>2 DEF InHand, Ext
    <3>2. url \notin claimless => Ids(marketEvents, url) = {}
      BY <2>2, <3>1 DEF ReadingInv, NothingYet
    <3>. QED BY <1>5, <1>8, <2>2, <3>1, <3>2
  <2>. QED BY <2>1, <2>2
<1>12. OneOrigin'
  <2>1. \A s, t \in DOMAIN points' :
          s[1] = t[1] /\ s[1] \notin overlapped => (points')[s].ext = (points')[t].ext
    <3> SUFFICES ASSUME NEW s \in DOMAIN points', NEW t \in DOMAIN points',
                        s[1] = t[1], s[1] \notin overlapped
                 PROVE  (points')[s].ext = (points')[t].ext
      OBVIOUS
    <3>1. CASE s[1] = url
      BY <1>8, <3>1 DEF Ids
    <3>2. CASE s[1] # url
      BY <1>2, <3>2 DEF ReadingInv, OneOrigin
    <3>. QED BY <3>1, <3>2
  <2>2. \A s, t \in DOMAIN marketEvents :
          s[1] = t[1] /\ s[1] \notin overlapped \cup claimless'
            => marketEvents[s].ext = marketEvents[t].ext /\ Ids(points', s[1]) # {}
    BY <1>3 DEF ReadingInv, OneOrigin
  <2>. QED BY <2>1, <2>2 DEF OneOrigin, Ids
<1>. QED BY <1>9, <1>10, <1>11, <1>12 DEF ReadingInv

\* An insert of an event of the run's article, of its own reading.
LEMMA SaveKeeps ==
  ASSUME ReadingInv, NEW r, OthersStay(r), runs[r].pc = "save",
         runs'[r].pc \in InHand => /\ runs'[r].pc = "save"
                                   /\ runs'[r].article = runs[r].article
                                   /\ runs'[r].at = runs[r].at,
         NEW new, new[1] = runs[r].article.url,
         DOMAIN marketEvents' = DOMAIN marketEvents \cup {new},
         \A id \in DOMAIN marketEvents : (marketEvents')[id] = marketEvents[id],
         new \notin DOMAIN marketEvents => (marketEvents')[new].ext = Ext(r),
         UNCHANGED <<points, overlapped, claimless>>
  PROVE  ReadingInv'
<1> DEFINE url == runs[r].article.url
<1>1. \A u : Ids(points', u) = Ids(points, u)
  BY DEF Ids
<1>3. \A id \in DOMAIN marketEvents' :
        IF id \in DOMAIN marketEvents THEN (marketEvents')[id] = marketEvents[id]
        ELSE id = new /\ (marketEvents')[id].ext = Ext(r)
  OBVIOUS
<1>4. \A u : u # url => Ids(marketEvents', u) = Ids(marketEvents, u)
  BY DEF Ids
<1>5. \A q \in DOMAIN runs : q # r /\ runs[q].pc \in InHand /\ runs[q].article.url \notin overlapped
        => runs[q].article.url # url
  BY DEF ReadingInv, OneHolder, InHand, OthersStay
<1>6. url \notin overlapped \cup claimless =>
        /\ Ids(points, url) # {}
        /\ \A id \in Ids(marketEvents', url) : (marketEvents')[id].ext = Ext(r)
  BY <1>3 DEF ReadingInv, AllItsOwn, Ids, OthersStay
<1>7. OneHolder'
  BY DEF ReadingInv, OneHolder, OthersStay, InHand
<1>8. NothingYet'
  <2> SUFFICES ASSUME NEW q \in DOMAIN runs, runs'[q].pc = "store",
                      runs'[q].article.url \notin overlapped
               PROVE  /\ Ids(points, runs'[q].article.url) = {}
                      /\ runs'[q].article.url \notin claimless =>
                           Ids(marketEvents', runs'[q].article.url) = {}
    BY <1>1 DEF NothingYet, OthersStay
  <2>1. q # r /\ runs'[q] = runs[q]
    BY DEF OthersStay, InHand
  <2>2. runs[q].article.url # url
    BY <1>5, <2>1 DEF InHand
  <2>. QED BY <1>4, <2>1, <2>2 DEF ReadingInv, NothingYet
<1>9. AllItsOwn'
  <2> SUFFICES ASSUME NEW q \in DOMAIN runs, runs'[q].pc \in {"events", "save"},
                      runs'[q].article.url \notin overlapped
               PROVE  /\ \A slot \in Ids(points, runs'[q].article.url) :
                           points[slot].ext = <<q, runs'[q].at>>
                      /\ runs'[q].article.url \notin claimless =>
                           /\ Ids(points, runs'[q].article.url) # {}
                           /\ \A id \in Ids(marketEvents', runs'[q].article.url) :
                                (marketEvents')[id].ext = <<q, runs'[q].at>>
    BY <1>1 DEF AllItsOwn, OthersStay, Ext
  <2>1. CASE q # r
    <3>1. runs'[q] = runs[q] /\ runs[q].article.url # url
      BY <1>5, <2>1 DEF OthersStay, InHand
    <3>. QED BY <1>3, <1>4, <3>1 DEF ReadingInv, AllItsOwn, Ext, Ids
  <2>2. CASE q = r
    <3>1. runs'[r].article = runs[r].article /\ Ext(r) = <<q, runs'[q].at>>
      BY <2>2 DEF InHand, Ext
    <3>2. \A slot \in Ids(points, url) : points[slot].ext = Ext(r)
      BY <2>2, <3>1 DEF ReadingInv, AllItsOwn
    <3>. QED BY <1>6, <2>2, <3>1, <3>2
  <2>. QED BY <2>1, <2>2
<1>10. OneOrigin'
  <2> SUFFICES ASSUME NEW s \in DOMAIN marketEvents', NEW t \in DOMAIN marketEvents',
                      s[1] = t[1], s[1] \notin overlapped \cup claimless
               PROVE  (marketEvents')[s].ext = (marketEvents')[t].ext /\ Ids(points, s[1]) # {}
    BY <1>1 DEF ReadingInv, OneOrigin
  <2>1. CASE s[1] = url
    BY <1>6, <2>1 DEF Ids
  <2>2. CASE s[1] # url
    BY <1>3, <2>2 DEF ReadingInv, OneOrigin
  <2>. QED BY <2>1, <2>2
<1>. QED BY <1>7, <1>8, <1>9, <1>10 DEF ReadingInv

\* Points of a run's article, from what the run extracted.
WrittenBy(new, r) ==
  \A slot \in DOMAIN new : slot[1] = runs[r].article.url /\ new[slot].ext = Ext(r)

\* The points an extraction of claims leads to are the article's and the run's, and there
\* are none only when it found no claim.
LEMMA NewPointsAre ==
  ASSUME NEW r, NEW reply \in ClaimReplies, NEW article, NEW claims,
         claims = ExtractClaims(reply, article)
  PROVE  /\ WrittenBy(NewPoints(r, claims), r)
         /\ claims # <<>> => DOMAIN NewPoints(r, claims) # {}
<1> USE DEF WrittenBy
<1> DEFINE url == runs[r].article.url
<1>1. CASE claims = None
  <2>1. NewPoints(r, claims) = RawPoint(r)
    BY <1>1 DEF NewPoints
  <2>2. RawPoint(r) = [slot \in {<<url, 0>>} |-> Point(r, "raw")]
    BY DEF RawPoint
  <2>3. Point(r, "raw").ext = Ext(r)
    BY DEF Point
  <2>. QED BY <2>1, <2>2, <2>3
<1>2. CASE claims # None
  <2>1. NewPoints(r, claims) =
          [slot \in {<<url, i>> : i \in DOMAIN claims} |-> Point(r, claims[slot[2]])]
    BY <1>2 DEF NewPoints
  <2>2. \A type : Point(r, type).ext = Ext(r)
    BY DEF Point
  <2>3. DOMAIN NewPoints(r, claims) = {} => DOMAIN claims = {}
    BY <2>1
  <2>4. DOMAIN claims = {} => claims = <<>>
    <3> DEFINE said == SelectSeq(JsonObject(reply), LAMBDA c : c.text)
               item(i) == TrustedType(article.tier, said[i].type)
    <3>1. claims = [i \in DOMAIN said |-> item(i)]
      BY <1>2 DEF ExtractClaims
    <3> HIDE DEF said, item
    <3>2. SUFFICES ASSUME DOMAIN said = {} PROVE claims = <<>>
      BY <3>1
    <3>3. claims = [i \in 1..0 |-> item(i)]
      BY <3>1, <3>2
    <3>. QED BY <3>3
  <2>. QED BY <2>1, <2>2, <2>3, <2>4
<1>. QED BY <1>1, <1>2

\* Where a run that goes on to x stands.
LEMMA GoesOn ==
  ASSUME RunsOK, NEW r \in DOMAIN runs, NEW x, GoesTo(r, x)
  PROVE  OthersStay(r) /\ runs'[r] = x
BY RunGoes DEF GoesTo, OthersStay

\* Storing claims, whatever the model said of the article.
LEMMA StoringKeeps ==
  ASSUME RunsOK, ReadingInv, NEW r \in DOMAIN runs, StoreClaims(r)
  PROVE  ReadingInv'
<1>1. PICK x : GoesTo(r, x) /\ ((x.pc = "events" /\ SameArticle(r, x)) \/ Through(x))
  BY StoreGoes
<1>2. OthersStay(r) /\ runs'[r] = x /\ runs[r].pc = "store"
  BY <1>1, GoesOn DEF StoreClaims
<1>3. PICK reply \in ClaimReplies :
        LET claims == ExtractClaims(reply, runs[r].article)
        IN  /\ points' = Written(points, NewPoints(r, claims))
            /\ claimless' = IF claims = <<>> THEN claimless \cup {runs[r].article.url}
                            ELSE claimless
  BY DEF StoreClaims
<1>4. PICK claims : /\ claims = ExtractClaims(reply, runs[r].article)
                    /\ points' = Written(points, NewPoints(r, claims))
                    /\ claimless' = IF claims = <<>> THEN claimless \cup {runs[r].article.url}
                                    ELSE claimless
  BY <1>3
<1>5. PICK new : new = NewPoints(r, claims)
  OBVIOUS
<1>6. /\ \A slot \in DOMAIN new : slot[1] = runs[r].article.url /\ new[slot].ext = Ext(r)
      /\ DOMAIN new # {} \/ runs[r].article.url \in claimless'
  <2>1. PICK article : article = runs[r].article
    OBVIOUS
  <2>2. claims = ExtractClaims(reply, article)
    BY <1>4, <2>1
  <2>3. WrittenBy(new, r) /\ (claims # <<>> => DOMAIN new # {})
    BY <1>5, <2>2, NewPointsAre
  <2>. QED BY <1>4, <2>3 DEF WrittenBy
<1>7. UNCHANGED <<marketEvents, overlapped>>
  BY DEF StoreClaims
<1>8. claimless \subseteq claimless' /\ points' = Written(points, new)
  BY <1>4, <1>5
<1>9. runs'[r].pc \in InHand => /\ runs'[r].pc = "events"
                                /\ runs'[r].article = runs[r].article
                                /\ runs'[r].at = runs[r].at
  BY <1>1, <1>2 DEF SameArticle, Through, InHand
<1>. QED BY <1>2, <1>6, <1>7, <1>8, <1>9, StoreKeeps

\* An upsert whose answer is lost.
LEMMA LosingKeeps ==
  ASSUME RunsOK, ReadingInv, NEW r \in DOMAIN runs, StoreFails(r)
  PROVE  ReadingInv'
<1>1. PICK x : GoesTo(r, x) /\ x.pc \notin InHand \cup {"over"}
  BY LeavesStep DEF Leaves
<1>2. OthersStay(r) /\ runs'[r] = x /\ runs[r].pc = "store"
  BY <1>1, GoesOn DEF StoreFails
<1>3. PICK reply \in ClaimReplies :
        LET claims == ExtractClaims(reply, runs[r].article)
        IN  claims \notin {None, <<>>} /\ points' = Written(points, NewPoints(r, claims))
  BY DEF StoreFails
<1>4. PICK claims : /\ claims = ExtractClaims(reply, runs[r].article) /\ claims # <<>>
                    /\ points' = Written(points, NewPoints(r, claims))
  BY <1>3
<1>5. PICK new : new = NewPoints(r, claims)
  OBVIOUS
<1>6. /\ \A slot \in DOMAIN new : slot[1] = runs[r].article.url /\ new[slot].ext = Ext(r)
      /\ DOMAIN new # {}
  <2>1. PICK article : article = runs[r].article
    OBVIOUS
  <2>2. claims = ExtractClaims(reply, article)
    BY <1>4, <2>1
  <2>3. WrittenBy(new, r) /\ DOMAIN new # {}
    BY <1>4, <1>5, <2>2, NewPointsAre
  <2>. QED BY <2>3 DEF WrittenBy
<1>7. UNCHANGED <<marketEvents, overlapped, claimless>> /\ points' = Written(points, new)
  BY <1>4, <1>5 DEF StoreFails
<1>. QED BY <1>1, <1>2, <1>6, <1>7, StoreKeeps

LEMMA SavingKeeps ==
  ASSUME RunsOK, ReadingInv, NEW r \in DOMAIN runs, SaveEvent(r)
  PROVE  ReadingInv'
<1>1. PICK x : GoesTo(r, x) /\ ((x.pc = "save" /\ SameArticle(r, x)) \/ Through(x))
  BY SaveGoes
<1>2. OthersStay(r) /\ runs'[r] = x /\ runs[r].pc = "save"
  BY <1>1, GoesOn DEF SaveEvent
<1>3. PICK id, row : /\ marketEvents' = Inserted(id, row)
                     /\ id[1] = runs[r].article.url /\ row.ext = Ext(r)
  <2> DEFINE i == <<runs[r].article.url, runs[r].saved + 1>>
             w == EventRow(r, runs[r].events[runs[r].saved + 1])
  <2>1. marketEvents' = Inserted(i, w) /\ i[1] = runs[r].article.url
    BY DEF SaveEvent
  <2>2. w.ext = Ext(r)
    BY DEF EventRow
  <2> HIDE DEF i, w
  <2>. QED BY <2>1, <2>2
<1>4. /\ DOMAIN Inserted(id, row) = DOMAIN marketEvents \cup {id}
      /\ \A i \in DOMAIN marketEvents : Inserted(id, row)[i] = marketEvents[i]
      /\ id \notin DOMAIN marketEvents => Inserted(id, row)[id] = row
  BY InsertedIs
<1>5. /\ DOMAIN marketEvents' = DOMAIN marketEvents \cup {id}
      /\ \A i \in DOMAIN marketEvents : (marketEvents')[i] = marketEvents[i]
      /\ id \notin DOMAIN marketEvents => (marketEvents')[id].ext = Ext(r)
  BY <1>3, <1>4
<1>6. UNCHANGED <<points, overlapped, claimless>>
  BY DEF SaveEvent, history
<1>7. runs'[r].pc \in InHand => /\ runs'[r].pc = "save"
                                /\ runs'[r].article = runs[r].article
                                /\ runs'[r].at = runs[r].at
  BY <1>1, <1>2 DEF SameArticle, Through, InHand
<1>. QED BY <1>2, <1>3, <1>5, <1>6, <1>7, SaveKeeps

\* The processed check, whichever way it goes.
LEMMA CheckingKeeps ==
  ASSUME RunsOK, ReadingInv, NEW r \in DOMAIN runs, CheckProcessed(r)
  PROVE  ReadingInv'
<1>1. PICK x : /\ GoesTo(r, x)
               /\ IF Processed(runs[r].article.url) THEN Through(x)
                  ELSE x.pc = "store" /\ SameArticle(r, x)
  BY CheckGoes
<1>2. OthersStay(r) /\ runs'[r] = x /\ runs[r].pc = "check"
  BY <1>1, GoesOn DEF CheckProcessed
<1>3. UNCHANGED <<points, marketEvents, claimless>>
  BY DEF CheckProcessed, stores
<1>4. CASE Processed(runs[r].article.url)
  <2>1. UNCHANGED overlapped
    BY <1>4 DEF CheckProcessed
  <2>2. \A q \in DOMAIN runs' : Stays(q)
    BY <1>1, <1>2, <1>4 DEF OthersStay, Stays, Through, InHand
  <2>. QED BY <1>3, <2>1, <2>2, QuietStep
<1>5. CASE ~Processed(runs[r].article.url)
  <2>1. overlapped' = IF \E q \in DOMAIN runs : Holds(runs[q], runs[r].article.url)
                      THEN overlapped \cup {runs[r].article.url} ELSE overlapped
    BY <1>5 DEF CheckProcessed
  <2>. QED BY <1>1, <1>2, <1>3, <1>5, <2>1, CheckKeeps DEF SameArticle, InHand
<1>. QED BY <1>4, <1>5

LEMMA ReadingStep == ASSUME RunsOK, ReadingInv, [Next]_vars PROVE ReadingInv'
<1>1. CASE ScheduledCrawl \/ RouteCrawl \/ StartJob \/ SubmitManual
  <2>1. PICK x : Starts(x) /\ UNCHANGED <<stores, history>>
    BY <1>1, StartStep
  <2>2. \A q \in DOMAIN runs' : Stays(q)
    BY <2>1, RunStarts DEF Starts, Stays, InHand
  <2>. QED BY <2>1, <2>2, QuietStep DEF stores, history
<1>2. CASE ApiRestarts \/ CrawlerRestarts
  <2>1. PICK kinds : Stop(kinds)
    BY <1>2 DEF ApiRestarts, CrawlerRestarts
  <2>2. \A q \in DOMAIN runs' : Stays(q)
    BY <2>1, StopStep DEF Stays, InHand
  <2>3. UNCHANGED <<points, marketEvents, overlapped, claimless>>
    BY <2>1 DEF Stop, stores
  <2>. QED BY <2>2, <2>3, QuietStep
<1>3. ASSUME NEW r \in DOMAIN runs, Leaves(r) \/ EndRun(r), ~StoreFails(r) PROVE ReadingInv'
  <2>1. PICK x : GoesTo(r, x) /\ x.pc \notin InHand
    BY <1>3, LeavesStep, EndStep DEF InHand
  <2>2. \A q \in DOMAIN runs' : Stays(q)
    BY <2>1, GoesOn DEF OthersStay, Stays
  <2>3. UNCHANGED <<points, marketEvents, overlapped, claimless>>
    BY <1>3 DEF Leaves, EnsureCollection, CreateCollection, EnsureFails, FeedFails,
                ArticleFails, EventsFail, EndRun, stores, history
  <2>. QED BY <2>2, <2>3, QuietStep
<1>4. ASSUME NEW r \in DOMAIN runs, FindEvents(r) PROVE ReadingInv'
  <2>1. PICK x : GoesTo(r, x) /\ ((x.pc = "save" /\ SameArticle(r, x)) \/ Through(x))
    BY <1>4, FindGoes
  <2>2. OthersStay(r) /\ runs'[r] = x /\ runs[r].pc = "events"
    BY <1>4, <2>1, GoesOn DEF FindEvents
  <2>3. \A q \in DOMAIN runs' : Stays(q)
    BY <2>1, <2>2 DEF OthersStay, Stays, SameArticle, Through, InHand
  <2>4. UNCHANGED <<points, marketEvents, overlapped, claimless>>
    BY <1>4 DEF FindEvents, stores
  <2>. QED BY <2>3, <2>4, QuietStep
<1>5. ASSUME NEW r \in DOMAIN runs,
             CheckProcessed(r) \/ StoreClaims(r) \/ StoreFails(r) \/ SaveEvent(r)
      PROVE  ReadingInv'
  BY <1>5, CheckingKeeps, StoringKeeps, LosingKeeps, SavingKeeps
<1>6. CASE UNCHANGED vars
  <2>1. \A q \in DOMAIN runs' : Stays(q)
    BY <1>6 DEF vars, Stays
  <2>. QED BY <1>6, <2>1, QuietStep DEF vars
<1>. QED BY <1>1, <1>2, <1>3, <1>4, <1>5, <1>6 DEF Next, Step, Breaks, Leaves

LEMMA ReadingInit == Init => ReadingInv
BY DEF Init, ReadingInv, OneHolder, NothingYet, AllItsOwn, OneOrigin

\* A set of which any two members are equal has at most one.
LEMMA AtMostOne ==
  ASSUME NEW S, \A a, b \in S : a = b
  PROVE  Cardinality(S) <= 1
<1>1. CASE S = {}
  BY <1>1, FS_EmptySet
<1>2. ASSUME NEW a \in S PROVE Cardinality(S) <= 1
  <2>1. S = {a}
    BY <1>2
  <2>. QED BY <2>1, FS_Singleton
<1>. QED BY <1>1, <1>2

\* What is stored of an article comes from one extraction of it, for any feeds, runs,
\* failures and restarts, unless two runs had it in hand at once, or, for its events,
\* an extraction found no claim in it (is_processed in process_article).
THEOREM ReadingCorrect == Spec => []ReadOnce
<1>1. Init => RunsOK /\ ReadingInv
  BY RunsInit, ReadingInit
<1>2. RunsOK /\ ReadingInv /\ [Next]_vars => RunsOK' /\ ReadingInv'
  BY RunsStep, ReadingStep
<1>3. ReadingInv => ReadOnce
  <2> SUFFICES ASSUME ReadingInv, NEW url \in Urls \ overlapped
               PROVE  /\ Cardinality(Extractions(points, url)) <= 1
                      /\ url \notin claimless => Cardinality(Extractions(marketEvents, url)) <= 1
    BY DEF ReadOnce
  <2>1. \A a, b \in Extractions(points, url) : a = b
    BY DEF Extractions, ReadingInv, OneOrigin
  <2>2. url \notin claimless => \A a, b \in Extractions(marketEvents, url) : a = b
    BY DEF Extractions, ReadingInv, OneOrigin
  <2>. QED BY <2>1, <2>2, AtMostOne
<1>. QED BY <1>1, <1>2, <1>3, PTL DEF Spec

-----------------------------------------------------------------------------
(* The events of an article: the invariant is kept.                        *)

\* A step that finds nothing: a run in the event path of an article stays there, or the
\* path was cut short, and an article that gets points has a run in its event path.
LEMMA PathsStay ==
  ASSUME EventInv, UNCHANGED <<marketEvents, found>>, cut \subseteq cut',
         \A q \in DOMAIN runs :
           runs[q].pc \in {"events", "save"} /\ runs[q].article.url \notin cut' =>
             q \in DOMAIN runs' /\ runs'[q] = runs[q],
         \A slot \in DOMAIN points' \ DOMAIN points :
           /\ slot[1] \in Urls
           /\ slot[1] \in cut' \/ \E r \in DOMAIN runs' : HasAt(r, slot[1], "events")'
  PROVE  EventInv'
<1>1. /\ found' \in [Urls -> Nat \cup {Unread}]
      /\ \A slot \in DOMAIN points' : slot[1] \in Urls
  BY DEF EventInv
<1>2. ASSUME NEW r \in DOMAIN runs, NEW url, url \notin cut', NEW pc \in {"events", "save"},
             HasAt(r, url, pc)
      PROVE  r \in DOMAIN runs' /\ HasAt(r, url, pc)' /\ runs'[r] = runs[r]
  BY <1>2 DEF HasAt
<1>3. LookedFor'
  <2> SUFFICES ASSUME NEW slot \in DOMAIN points', slot[1] \notin cut'
               PROVE  found[slot[1]] # Unread
                      \/ \E r \in DOMAIN runs' : HasAt(r, slot[1], "events")'
    BY DEF LookedFor
  <2>1. CASE slot \in DOMAIN points
    <3>1. found[slot[1]] # Unread \/ \E r \in DOMAIN runs : HasAt(r, slot[1], "events")
      BY <2>1 DEF EventInv, LookedFor
    <3>. QED BY <1>2, <3>1
  <2>2. CASE slot \notin DOMAIN points
    BY <2>2
  <2>. QED BY <2>1, <2>2
<1>4. FoundAreStored'
  <2> SUFFICES ASSUME NEW url \in Urls, url \notin cut', NEW i \in 1..found[url]
               PROVE  \/ <<url, i>> \in DOMAIN marketEvents
                      \/ \E r \in DOMAIN runs' :
                           HasAt(r, url, "save")' /\ runs'[r].saved < i
                           /\ i <= Len(runs'[r].events)
    BY DEF FoundAreStored
  <2>1. \/ <<url, i>> \in DOMAIN marketEvents
        \/ \E r \in DOMAIN runs :
             HasAt(r, url, "save") /\ runs[r].saved < i /\ i <= Len(runs[r].events)
    BY DEF EventInv, FoundAreStored
  <2>. QED BY <1>2, <2>1
<1>. QED BY <1>1, <1>3, <1>4 DEF EventInv

\* An extraction of events that succeeds.
LEMMA FindingFollows ==
  ASSUME RunsOK, EventInv, NEW r \in DOMAIN runs, runs[r].pc = "events", OthersStay(r),
         NEW n \in Nat,
         found' = IF n > found[runs[r].article.url]
                  THEN [found EXCEPT ![runs[r].article.url] = n] ELSE found,
         \/ n = 0
         \/ /\ runs'[r].pc = "save" /\ runs'[r].article = runs[r].article
            /\ runs'[r].saved = 0 /\ Len(runs'[r].events) = n,
         UNCHANGED <<points, marketEvents, cut>>
  PROVE  EventInv'
<1> DEFINE url == runs[r].article.url
<1>1. url \in Urls
  BY DEF RunsOK, RunOK, WithArticle, InHand
<1>2. /\ found' \in [Urls -> Nat \cup {Unread}]
      /\ found'[url] # Unread
      /\ \A u \in Urls : u # url => found'[u] = found[u]
      /\ found'[url] = found[url] \/ found'[url] = n
  BY <1>1 DEF EventInv, Unread
<1>3. LookedFor'
  <2> SUFFICES ASSUME NEW slot \in DOMAIN points, slot[1] \notin cut
               PROVE  found'[slot[1]] # Unread
                      \/ \E q \in DOMAIN runs' : HasAt(q, slot[1], "events")'
    BY DEF LookedFor
  <2>1. CASE slot[1] = url
    BY <1>2, <2>1
  <2>2. CASE slot[1] # url
    <3>1. found[slot[1]] # Unread \/ \E q \in DOMAIN runs : HasAt(q, slot[1], "events")
      BY DEF EventInv, LookedFor
    <3>2. slot[1] \in Urls
      BY DEF EventInv
    <3>. QED BY <1>2, <2>2, <3>1, <3>2 DEF HasAt, OthersStay
  <2>. QED BY <2>1, <2>2
<1>4. FoundAreStored'
  <2> SUFFICES ASSUME NEW u \in Urls, u \notin cut, NEW i \in 1..found'[u]
               PROVE  \/ <<u, i>> \in DOMAIN marketEvents
                      \/ \E q \in DOMAIN runs' :
                           HasAt(q, u, "save")' /\ runs'[q].saved < i
                           /\ i <= Len(runs'[q].events)
    BY DEF FoundAreStored
  <2>1. CASE i \in 1..found[u]
    <3>1. \/ <<u, i>> \in DOMAIN marketEvents
          \/ \E q \in DOMAIN runs :
               HasAt(q, u, "save") /\ runs[q].saved < i /\ i <= Len(runs[q].events)
      BY <2>1 DEF EventInv, FoundAreStored
    <3>. QED BY <3>1 DEF HasAt, OthersStay
  <2>2. CASE i \notin 1..found[u]
    <3>1. u = url /\ found'[url] = n
      BY <1>2, <2>2
    <3>2. i \in 1..n /\ n > 0
      BY <3>1
    <3>3. HasAt(r, u, "save")' /\ runs'[r].saved = 0 /\ Len(runs'[r].events) = n
      BY <3>1, <3>2 DEF HasAt
    <3>. QED BY <3>2, <3>3 DEF OthersStay
  <2>. QED BY <2>1, <2>2
<1>. QED BY <1>2, <1>3, <1>4 DEF EventInv

\* The insert of an event: the next one is in the table, those after it are still to come.
LEMMA SavingFollows ==
  ASSUME RunsOK, EventInv, NEW r \in DOMAIN runs, runs[r].pc = "save", OthersStay(r),
         runs[r].saved + 1 < Len(runs[r].events) =>
           /\ runs'[r].pc = "save" /\ runs'[r].article = runs[r].article
           /\ runs'[r].saved = runs[r].saved + 1 /\ runs'[r].events = runs[r].events,
         DOMAIN marketEvents' =
           DOMAIN marketEvents \cup {<<runs[r].article.url, runs[r].saved + 1>>},
         UNCHANGED <<points, found, cut>>
  PROVE  EventInv'
<1>1. runs[r].saved \in Nat /\ Len(runs[r].events) \in Nat
  BY DEF RunsOK, RunOK
<1>2. LookedFor'
  <2> SUFFICES ASSUME NEW slot \in DOMAIN points, slot[1] \notin cut
               PROVE  found[slot[1]] # Unread
                      \/ \E q \in DOMAIN runs' : HasAt(q, slot[1], "events")'
    BY DEF LookedFor
  <2>1. found[slot[1]] # Unread \/ \E q \in DOMAIN runs : HasAt(q, slot[1], "events")
    BY DEF EventInv, LookedFor
  <2>. QED BY <2>1 DEF HasAt, OthersStay
<1>3. FoundAreStored'
  <2> SUFFICES ASSUME NEW u \in Urls, u \notin cut, NEW i \in 1..found[u]
               PROVE  \/ <<u, i>> \in DOMAIN marketEvents'
                      \/ \E q \in DOMAIN runs' :
                           HasAt(q, u, "save")' /\ runs'[q].saved < i
                           /\ i <= Len(runs'[q].events)
    BY DEF FoundAreStored
  <2>1. \/ <<u, i>> \in DOMAIN marketEvents
        \/ \E q \in DOMAIN runs :
             HasAt(q, u, "save") /\ runs[q].saved < i /\ i <= Len(runs[q].events)
    BY DEF EventInv, FoundAreStored
  <2>2. CASE <<u, i>> \in DOMAIN marketEvents
    BY <2>2
  <2>3. ASSUME NEW q \in DOMAIN runs, q # r,
               HasAt(q, u, "save") /\ runs[q].saved < i /\ i <= Len(runs[q].events)
        PROVE  \E p \in DOMAIN runs' :
                 HasAt(p, u, "save")' /\ runs'[p].saved < i /\ i <= Len(runs'[p].events)
    BY <2>3 DEF HasAt, OthersStay
  <2>4. ASSUME HasAt(r, u, "save") /\ runs[r].saved < i /\ i <= Len(runs[r].events)
        PROVE  \/ <<u, i>> \in DOMAIN marketEvents'
               \/ \E p \in DOMAIN runs' :
                    HasAt(p, u, "save")' /\ runs'[p].saved < i /\ i <= Len(runs'[p].events)
    <3>1. i \in Int /\ runs[r].article.url = u
      BY <2>4 DEF HasAt
    <3>2. CASE i = runs[r].saved + 1
      BY <3>1, <3>2
    <3>3. CASE i # runs[r].saved + 1
      <4>1. runs[r].saved + 1 < i /\ runs[r].saved + 1 < Len(runs[r].events)
        BY <1>1, <2>4, <3>1, <3>3
      <4>2. HasAt(r, u, "save")' /\ runs'[r].saved < i /\ i <= Len(runs'[r].events)
        BY <2>4, <3>1, <4>1 DEF HasAt
      <4>. QED BY <4>2 DEF OthersStay
    <3>. QED BY <3>2, <3>3
  <2>. QED BY <2>1, <2>2, <2>3, <2>4
<1>. QED BY <1>2, <1>3 DEF EventInv

\* The points a run stores are the article's.
LEMMA StoredAt ==
  ASSUME RunsOK, NEW r \in DOMAIN runs, StoreClaims(r) \/ StoreFails(r)
  PROVE  \A slot \in DOMAIN points' \ DOMAIN points :
           slot[1] = runs[r].article.url /\ slot[1] \in Urls
<1>1. PICK reply \in ClaimReplies :
        LET claims == ExtractClaims(reply, runs[r].article)
        IN  points' = Written(points, NewPoints(r, claims))
  BY DEF StoreClaims, StoreFails
<1>2. PICK claims : /\ claims = ExtractClaims(reply, runs[r].article)
                    /\ points' = Written(points, NewPoints(r, claims))
  BY <1>1
<1>3. PICK new : new = NewPoints(r, claims)
  OBVIOUS
<1>4. \A slot \in DOMAIN new : slot[1] = runs[r].article.url
  <2>1. PICK article : article = runs[r].article
    OBVIOUS
  <2>2. claims = ExtractClaims(reply, article)
    BY <1>2, <2>1
  <2>3. WrittenBy(new, r)
    BY <1>3, <2>2, NewPointsAre
  <2>. QED BY <2>3 DEF WrittenBy
<1>5. DOMAIN points' = DOMAIN new \cup DOMAIN points
  BY <1>2, <1>3 DEF Written
<1>6. runs[r].article.url \in Urls
  BY DEF StoreClaims, StoreFails, RunsOK, RunOK, WithArticle, InHand
<1>. QED BY <1>4, <1>5, <1>6

LEMMA EventStep == ASSUME RunsOK, EventInv, [Next]_vars PROVE EventInv'
<1>1. CASE ScheduledCrawl \/ RouteCrawl \/ StartJob \/ SubmitManual
  <2>1. PICK x : Starts(x) /\ UNCHANGED <<stores, history>>
    BY <1>1, StartStep
  <2>2. \A q \in DOMAIN runs : q \in DOMAIN runs' /\ runs'[q] = runs[q]
    BY <2>1, RunStarts DEF Starts
  <2>. QED BY <2>1, <2>2, PathsStay DEF stores, history
<1>2. CASE ApiRestarts \/ CrawlerRestarts
  <2>1. PICK kinds : Stop(kinds)
    BY <1>2 DEF ApiRestarts, CrawlerRestarts
  <2>2. \A q \in DOMAIN runs :
          runs[q].pc \in {"events", "save"} /\ runs[q].article.url \notin cut' =>
            q \in DOMAIN runs' /\ runs'[q] = runs[q]
    BY <2>1, StopStep DEF Stop
  <2>3. UNCHANGED <<points, marketEvents, found>> /\ cut \subseteq cut'
    BY <2>1 DEF Stop, stores
  <2>. QED BY <2>2, <2>3, PathsStay
<1>3. ASSUME NEW r \in DOMAIN runs, Leaves(r) \/ EndRun(r), ~StoreFails(r) PROVE EventInv'
  <2>1. PICK x : GoesTo(r, x)
    BY <1>3, LeavesStep, EndStep
  <2>2. OthersStay(r)
    BY <2>1, GoesOn
  <2>3. UNCHANGED <<points, marketEvents, found>> /\ cut \subseteq cut'
    BY <1>3 DEF Leaves, EnsureCollection, CreateCollection, EnsureFails, FeedFails,
                ArticleFails, EventsFail, EndRun, stores, history
  <2>4. runs[r].pc \in {"events", "save"} => runs[r].article.url \in cut'
    BY <1>3 DEF Leaves, EnsureCollection, CreateCollection, EnsureFails, FeedFails,
                ArticleFails, EventsFail, EndRun
  <2>. QED BY <2>2, <2>3, <2>4, PathsStay DEF OthersStay
<1>4. ASSUME NEW r \in DOMAIN runs, StoreFails(r) PROVE EventInv'
  <2>1. PICK x : GoesTo(r, x)
    BY <1>4, LeavesStep DEF Leaves
  <2>2. OthersStay(r) /\ runs[r].pc = "store"
    BY <1>4, <2>1, GoesOn DEF StoreFails
  <2>3. UNCHANGED <<marketEvents, found>> /\ cut' = cut \cup {runs[r].article.url}
    BY <1>4 DEF StoreFails
  <2>4. \A slot \in DOMAIN points' \ DOMAIN points : slot[1] \in Urls /\ slot[1] \in cut'
    BY <1>4, <2>3, StoredAt
  <2>. QED BY <2>2, <2>3, <2>4, PathsStay DEF OthersStay
<1>5. ASSUME NEW r \in DOMAIN runs, CheckProcessed(r) PROVE EventInv'
  <2>1. PICK x : GoesTo(r, x)
    BY <1>5, CheckGoes
  <2>2. OthersStay(r) /\ runs[r].pc = "check"
    BY <1>5, <2>1, GoesOn DEF CheckProcessed
  <2>3. UNCHANGED <<points, marketEvents, found, cut>>
    BY <1>5 DEF CheckProcessed, stores
  <2>. QED BY <2>2, <2>3, PathsStay DEF OthersStay
<1>6. ASSUME NEW r \in DOMAIN runs, StoreClaims(r) PROVE EventInv'
  <2>1. PICK x : /\ GoesTo(r, x)
                 /\ IF runs[r].db THEN x.pc = "events" /\ SameArticle(r, x) ELSE Through(x)
    BY <1>6, StoreGoes
  <2>2. OthersStay(r) /\ runs'[r] = x /\ runs[r].pc = "store"
    BY <1>6, <2>1, GoesOn DEF StoreClaims
  <2>3. /\ UNCHANGED <<marketEvents, found>>
        /\ cut' = IF runs[r].db THEN cut ELSE cut \cup {runs[r].article.url}
    BY <1>6 DEF StoreClaims
  <2>5. \A slot \in DOMAIN points' \ DOMAIN points :
          /\ slot[1] \in Urls
          /\ slot[1] \in cut' \/ \E q \in DOMAIN runs' : HasAt(q, slot[1], "events")'
    <3> SUFFICES ASSUME NEW slot \in DOMAIN points' \ DOMAIN points
                 PROVE  /\ slot[1] \in Urls
                        /\ slot[1] \in cut' \/ HasAt(r, slot[1], "events")'
      BY <2>2 DEF OthersStay
    <3>1. slot[1] = runs[r].article.url /\ slot[1] \in Urls
      BY <1>6, StoredAt
    <3>2. runs[r].db => runs'[r].pc = "events" /\ runs'[r].article = runs[r].article
      BY <2>1, <2>2 DEF SameArticle
    <3>. QED BY <2>3, <3>1, <3>2 DEF HasAt
  <2>. QED BY <2>2, <2>3, <2>5, PathsStay DEF OthersStay
<1>7. ASSUME NEW r \in DOMAIN runs, FindEvents(r) PROVE EventInv'
  <2>1. PICK x :
          /\ GoesTo(r, x)
          /\ \/ Through(x) /\ cut' = cut \cup {runs[r].article.url} /\ found' = found
             \/ \E n \in Nat :
                  /\ cut' = cut
                  /\ found' = IF n > found[runs[r].article.url]
                              THEN [found EXCEPT ![runs[r].article.url] = n] ELSE found
                  /\ \/ n = 0 /\ Through(x)
                     \/ /\ x.pc = "save" /\ SameArticle(r, x)
                        /\ x.saved = 0 /\ Len(x.events) = n
    BY <1>7, FindGoes
  <2>2. OthersStay(r) /\ runs'[r] = x /\ runs[r].pc = "events"
    BY <1>7, <2>1, GoesOn DEF FindEvents
  <2>3. UNCHANGED <<points, marketEvents>>
    BY <1>7 DEF FindEvents, stores
  <2>4. CASE cut' = cut \cup {runs[r].article.url} /\ found' = found
    BY <2>2, <2>3, <2>4, PathsStay DEF OthersStay
  <2>5. ASSUME NEW n \in Nat, cut' = cut,
               found' = IF n > found[runs[r].article.url]
                        THEN [found EXCEPT ![runs[r].article.url] = n] ELSE found,
               \/ n = 0 /\ Through(x)
               \/ /\ x.pc = "save" /\ SameArticle(r, x)
                  /\ x.saved = 0 /\ Len(x.events) = n
        PROVE  EventInv'
    BY <2>2, <2>3, <2>5, FindingFollows DEF SameArticle
  <2>. QED BY <2>1, <2>4, <2>5
<1>8. ASSUME NEW r \in DOMAIN runs, SaveEvent(r) PROVE EventInv'
  <2>1. PICK x : /\ GoesTo(r, x)
                 /\ runs[r].saved + 1 < Len(runs[r].events) =>
                      /\ x.pc = "save" /\ SameArticle(r, x)
                      /\ x.saved = runs[r].saved + 1 /\ x.events = runs[r].events
    BY <1>8, SaveGoes
  <2>2. OthersStay(r) /\ runs'[r] = x /\ runs[r].pc = "save"
    BY <1>8, <2>1, GoesOn DEF SaveEvent
  <2>3. DOMAIN marketEvents' =
          DOMAIN marketEvents \cup {<<runs[r].article.url, runs[r].saved + 1>>}
    <3>1. PICK id, row : /\ id = <<runs[r].article.url, runs[r].saved + 1>>
                         /\ marketEvents' = Inserted(id, row)
      BY <1>8 DEF SaveEvent
    <3>2. DOMAIN Inserted(id, row) = DOMAIN marketEvents \cup {id}
      BY InsertedIs
    <3>. QED BY <3>1, <3>2
  <2>4. UNCHANGED <<points, found, cut>>
    BY <1>8 DEF SaveEvent, history
  <2>. QED BY <2>1, <2>2, <2>3, <2>4, SavingFollows DEF SameArticle
<1>9. CASE UNCHANGED vars
  BY <1>9, PathsStay DEF vars
<1>. QED BY <1>1, <1>2, <1>3, <1>4, <1>5, <1>6, <1>7, <1>8, <1>9
         DEF Next, Step, Breaks, Leaves

LEMMA EventInit == Init => EventInv
BY DEF Init, EventInv, LookedFor, FoundAreStored, Unread

\* The events of an article are looked for and stored whatever its claims were, for any
\* feeds, replies, runs, failures and restarts, unless its event path was cut short
\* (process_article: over both the "stored raw" and "stored claims" branches).
THEOREM EventsFollow == Spec => []EventsFollowClaims
<1>1. Init => RunsOK /\ EventInv
  BY RunsInit, EventInit
<1>2. RunsOK /\ EventInv /\ [Next]_vars => RunsOK' /\ EventInv'
  BY RunsStep, EventStep
<1>3. EventInv => EventsFollowClaims
  <2> SUFFICES ASSUME EventInv, NEW slot \in DOMAIN points, slot[1] \notin cut,
                      \A r \in DOMAIN runs : ~Holds(runs[r], slot[1])
               PROVE  /\ found[slot[1]] # Unread
                      /\ \A i \in 1..found[slot[1]] : <<slot[1], i>> \in DOMAIN marketEvents
    BY DEF EventsFollowClaims
  <2>1. slot[1] \in Urls
    BY DEF EventInv
  <2>2. \A r \in DOMAIN runs : ~HasAt(r, slot[1], "events") /\ ~HasAt(r, slot[1], "save")
    BY DEF HasAt, Holds, InHand
  <2>. QED BY <2>1, <2>2 DEF EventInv, LookedFor, FoundAreStored
<1>. QED BY <1>1, <1>2, <1>3, PTL DEF Spec

=============================================================================
