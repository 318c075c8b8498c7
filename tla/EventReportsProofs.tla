------------------------- MODULE EventReportsProofs -------------------------
(***************************************************************************)
(* Proofs about EventReports and the market data it reads, for any zones,  *)
(* times, figures, writers, runners and failures.  Of the market data: its *)
(* type invariant, and that the market_data view never goes behind what    *)
(* was stored when its figure was fetched, whoever writes.  Of the         *)
(* reports: the type invariant, that event_reports implements the abstract *)
(* append-only ledger, that Slack follows the ledger, that revisions       *)
(* become corrections and corrections a chain, that the accounts of a      *)
(* cycle match, and that triggers cite figures current when it began.      *)
(***************************************************************************)
EXTENDS EventReports, MarketTriggers, MarketOrder, TLAPS, FiniteSetTheorems

-----------------------------------------------------------------------------
(* The type invariant of the market data.                                  *)

\* A snapshot is a batch: it maps every key to an index or 0.
LEMMA SnapshotType ==
  ASSUME MarketTypeOK, NEW asked
  PROVE  Snapshot(asked) \in [Keys -> Nat]
  BY DEF MarketTypeOK, Snapshot

\* What a step does to a batch is to take a snapshot or to drop it.
LEMMA EmptyBatchType == EmptyBatch \in [Keys -> Nat]
  BY DEF EmptyBatch

\* The batch a writer holds never points beyond what has been published: the
\* rows of a save are well defined.
BatchesPublished ==
  \A w \in Writers, k \in Keys : writer[w][k] <= Len(published[k])

\* The rows a save adds are rows of the table.
LEMMA SavedRowsType ==
  ASSUME MarketTypeOK, BatchesPublished, NEW w \in Writers
  PROVE  SavedRows(writer[w], Now) \subseteq Row
<1>1. Now \in Nat \ {0}
  BY DEF MarketTypeOK, Now
<1>2. ASSUME NEW k \in Keys, writer[w][k] # 0
      PROVE  /\ k[1] \in Zones /\ k[2] \in Times
             /\ writer[w][k] \in Nat \ {0}
             /\ published[k][writer[w][k]] \in Values
  <2>1. /\ writer[w][k] \in Nat
        /\ published[k] \in Seq(Values)
    BY <1>2 DEF MarketTypeOK
  <2>2. writer[w][k] \in 1..Len(published[k])
    BY <1>2, <2>1 DEF BatchesPublished
  <2>3. published[k][writer[w][k]] \in Values
    BY <2>1, <2>2
  <2>. QED BY <1>2, <2>1, <2>3 DEF Keys
<1>. QED BY <1>1, <1>2 DEF SavedRows, Row

TypeInv == MarketTypeOK /\ BatchesPublished

\* The type invariant holds initially.
LEMMA TypeInit == MarketInit => TypeInv
<1> SUFFICES ASSUME MarketInit PROVE TypeInv
  OBVIOUS
<1>1. published \in [Keys -> Seq(Values)]
  BY MarketAssumption DEF MarketInit
<1>2. MarketTypeOK
  BY <1>1, EmptyBatchType DEF MarketInit, MarketTypeOK
<1>3. BatchesPublished
  BY <1>1 DEF MarketInit, BatchesPublished, EmptyBatch
<1>. QED BY <1>2, <1>3 DEF TypeInv

\* A fetch keeps the type invariant.
LEMMA FetchedType ==
  ASSUME TypeInv, NEW w \in Writers, NEW asked, Fetched(w, asked)
  PROVE  TypeInv'
<1> USE DEF TypeInv
<1>1. MarketTypeOK'
  BY SnapshotType DEF MarketTypeOK, Fetched
<1>2. ASSUME NEW v \in Writers, NEW k \in Keys
      PROVE  writer'[v][k] <= Len(published'[k])
  <2>1. CASE v = w
    BY <2>1 DEF MarketTypeOK, Fetched, Snapshot
  <2>2. CASE v # w
    BY <2>2 DEF MarketTypeOK, Fetched, BatchesPublished
  <2>. QED BY <2>1, <2>2
<1>. QED BY <1>1, <1>2 DEF BatchesPublished

\* Publishing keeps the type invariant.
LEMMA PublishType ==
  ASSUME TypeInv, NEW k \in Keys, NEW v \in Values, Publish(k, v)
  PROVE  /\ TypeInv'
         /\ \A j \in Keys : Len(published[j]) <= Len(published'[j])
<1> USE DEF TypeInv
<1>1. published' \in [Keys -> Seq(Values)]
  BY DEF MarketTypeOK, Publish
<1>2. MarketTypeOK'
  BY <1>1 DEF MarketTypeOK, Publish
<1>3. ASSUME NEW j \in Keys
      PROVE  Len(published[j]) <= Len(published'[j])
  <2>1. published[j] \in Seq(Values)
    BY DEF MarketTypeOK
  <2>2. CASE j = k
    BY <2>1, <2>2 DEF Publish, MarketTypeOK
  <2>3. CASE j # k
    BY <2>1, <2>3 DEF Publish, MarketTypeOK
  <2>. QED BY <2>2, <2>3
<1>4. BatchesPublished'
  <2> SUFFICES ASSUME NEW w \in Writers, NEW j \in Keys
               PROVE  writer[w][j] <= Len(published'[j])
    BY DEF BatchesPublished, Publish
  <2>1. writer[w][j] \in Nat /\ published[j] \in Seq(Values) /\ published'[j] \in Seq(Values)
    BY <1>1 DEF MarketTypeOK
  <2>. QED BY <1>3, <2>1 DEF BatchesPublished
<1>. QED BY <1>2, <1>3, <1>4

\* Dropping a batch, saved or not, keeps the type invariant.
LEMMA SaveType ==
  ASSUME TypeInv, NEW w \in Writers, Save(w) \/ SaveFails(w)
  PROVE  TypeInv'
<1> USE DEF TypeInv
<1>1. writer' \in [Writers -> [Keys -> Nat]] /\ UNCHANGED published
  BY EmptyBatchType DEF MarketTypeOK, Save, SaveFails
<1>2. MarketTypeOK'
  <2>1. CASE Save(w)
    BY <1>1, <2>1, SavedRowsType DEF MarketTypeOK, Save, Now
  <2>2. CASE SaveFails(w)
    BY <1>1, <2>2 DEF MarketTypeOK, SaveFails
  <2>. QED BY <2>1, <2>2
<1>3. ASSUME NEW v \in Writers, NEW k \in Keys
      PROVE  writer'[v][k] <= Len(published[k])
  <2>1. writer'[v][k] = 0 \/ writer'[v][k] = writer[v][k]
    BY DEF MarketTypeOK, Save, SaveFails, EmptyBatch
  <2>2. Len(published[k]) \in Nat
    BY DEF MarketTypeOK
  <2>. QED BY <2>1, <2>2 DEF BatchesPublished
<1>. QED BY <1>1, <1>2, <1>3 DEF BatchesPublished

\* Every step keeps the type invariant.
LEMMA TypeStep == TypeInv /\ [MarketNext]_marketVars => TypeInv'
<1> SUFFICES ASSUME TypeInv, [MarketNext]_marketVars PROVE TypeInv'
  OBVIOUS
<1>1. ASSUME NEW k \in Keys, NEW v \in Values, Publish(k, v) PROVE TypeInv'
  BY <1>1, PublishType
<1>2. ASSUME NEW w \in Ingestors, Poll(w) PROVE TypeInv'
  BY <1>2, FetchedType DEF Poll, Writers
<1>3. ASSUME NEW w \in Backfills, NEW first \in Times, NEW last \in Times,
             BackfillChunk(w, first, last)
      PROVE  TypeInv'
  BY <1>3, FetchedType DEF BackfillChunk, Writers
<1>4. ASSUME NEW w \in Writers, Save(w) \/ SaveFails(w) PROVE TypeInv'
  BY <1>4, SaveType
<1>5. CASE UNCHANGED marketVars
  BY <1>5 DEF TypeInv, MarketTypeOK, BatchesPublished, marketVars
<1>. QED BY <1>1, <1>2, <1>3, <1>4, <1>5 DEF MarketNext, NothingPolled

\* The table and its writers are type correct in every reachable state.
THEOREM MarketTypeCorrect == MarketSpec => []MarketTypeOK
<1>1. MarketInit => TypeInv
  BY TypeInit
<1>2. TypeInv /\ [MarketNext]_marketVars => TypeInv'
  BY TypeStep
<1>3. TypeInv => MarketTypeOK
  BY DEF TypeInv
<1>. QED BY <1>1, <1>2, <1>3, PTL DEF MarketSpec

-----------------------------------------------------------------------------
(* Figures reach the view in the order of their fetches, whoever writes.   *)
(* The order of the stamps is not the order of publication: a batch can be *)
(* overtaken.  What holds with any number of writers is that a batch is at *)
(* least as new as every row that was stored when it was fetched, and the  *)
(* invariant carries this from the batch in flight to the saved row.       *)

StampsArePast == \A r \in history : r.at <= clock

RowsPublished ==
  \A r \in history : r.asOf <= Len(published[<<r.zone, r.time>>])

FetchesArePast ==
  /\ inFlight \in [Writers -> Nat]
  /\ \A w \in Writers : inFlight[w] <= clock
  /\ \A r \in history : /\ r.at \in DOMAIN taken
                        /\ taken[r.at] \in Nat
                        /\ taken[r.at] < r.at

BatchCoversStored ==
  \A w \in Writers, r \in history :
    writer[w][<<r.zone, r.time>>] # 0 /\ r.at <= inFlight[w]
      => r.asOf <= writer[w][<<r.zone, r.time>>]

RowCoversStored ==
  \A r, s \in history :
    r.zone = s.zone /\ r.time = s.time /\ s.at <= taken[r.at] => s.asOf <= r.asOf

OneRowPerStamp(table) ==
  \A r, s \in table : r.zone = s.zone /\ r.time = s.time /\ r.at = s.at => r = s

OrderInv ==
  /\ TypeInv /\ StampsArePast /\ RowsPublished /\ FetchesArePast
  /\ BatchCoversStored /\ RowCoversStored /\ OneRowPerStamp(history)

\* A key's row is about one of the keys, and its fields are numbers.
LEMMA RowFacts ==
  ASSUME MarketTypeOK, NEW r \in history
  PROVE  /\ <<r.zone, r.time>> \in Keys
         /\ r.at \in Nat /\ r.asOf \in Nat \ {0}
         /\ Len(published[<<r.zone, r.time>>]) \in Nat
<1>1. r \in Row
  BY DEF MarketTypeOK
<1>2. <<r.zone, r.time>> \in Keys
  BY <1>1 DEF Row, Keys
<1>3. published[<<r.zone, r.time>>] \in Seq(Values)
  BY <1>2 DEF MarketTypeOK
<1>. QED BY <1>1, <1>2, <1>3 DEF Row

\* A fetch takes the current figure of each key, which covers every stored row.
LEMMA FetchedOrder ==
  ASSUME OrderInv, NEW w \in Writers, NEW asked, Fetched(w, asked), Departs(w)
  PROVE  OrderInv'
<1>1. TypeInv'
  BY FetchedType DEF OrderInv
<1>2. UNCHANGED <<published, history, clock, taken>>
  BY DEF Fetched, Departs
<1>3. clock \in Nat /\ inFlight \in [Writers -> Nat]
  BY DEF OrderInv, TypeInv, MarketTypeOK, FetchesArePast
<1>4. FetchesArePast'
  <2>1. inFlight' \in [Writers -> Nat]
    BY <1>3 DEF Departs
  <2>2. \A v \in Writers : inFlight'[v] <= clock
    BY <1>3 DEF OrderInv, FetchesArePast, Departs
  <2>. QED BY <1>2, <2>1, <2>2 DEF OrderInv, FetchesArePast
<1>5. ASSUME NEW v \in Writers, NEW r \in history,
             writer'[v][<<r.zone, r.time>>] # 0, r.at <= inFlight'[v]
      PROVE  r.asOf <= writer'[v][<<r.zone, r.time>>]
  <2>1. <<r.zone, r.time>> \in Keys
    BY RowFacts DEF OrderInv, TypeInv
  <2>2. CASE v = w
    <3>1. writer'[v][<<r.zone, r.time>>] = Len(published[<<r.zone, r.time>>])
      BY <1>5, <2>1, <2>2 DEF OrderInv, TypeInv, MarketTypeOK, Fetched, Snapshot
    <3>. QED BY <3>1 DEF OrderInv, RowsPublished
  <2>3. CASE v # w
    <3>1. writer'[v] = writer[v] /\ inFlight'[v] = inFlight[v]
      BY <1>3, <2>3 DEF OrderInv, TypeInv, MarketTypeOK, Fetched, Departs
    <3>. QED BY <1>5, <3>1 DEF OrderInv, BatchCoversStored
  <2>. QED BY <2>2, <2>3
<1>6. BatchCoversStored'
  BY <1>2, <1>5 DEF BatchCoversStored
<1>7. StampsArePast' /\ RowsPublished' /\ RowCoversStored' /\ OneRowPerStamp(history)'
  BY <1>2 DEF OrderInv, StampsArePast, RowsPublished, RowCoversStored, OneRowPerStamp
<1>. QED BY <1>1, <1>4, <1>6, <1>7 DEF OrderInv

\* Publishing adds a figure at the end, which no row or batch points at yet.
LEMMA PublishOrder ==
  ASSUME OrderInv, NEW k \in Keys, NEW v \in Values, Publish(k, v),
         UNCHANGED <<inFlight, taken>>
  PROVE  OrderInv'
<1>1. TypeInv' /\ \A j \in Keys : Len(published[j]) <= Len(published'[j])
  BY PublishType DEF OrderInv
<1>2. UNCHANGED <<history, clock, writer>>
  BY DEF Publish
<1>3. ASSUME NEW r \in history
      PROVE  r.asOf <= Len(published'[<<r.zone, r.time>>])
  <2>1. /\ <<r.zone, r.time>> \in Keys /\ r.asOf \in Nat
        /\ Len(published[<<r.zone, r.time>>]) \in Nat
    BY RowFacts DEF OrderInv, TypeInv
  <2>2. published'[<<r.zone, r.time>>] \in Seq(Values)
    BY <1>1, <2>1 DEF TypeInv, MarketTypeOK
  <2>. QED BY <1>1, <2>1, <2>2 DEF OrderInv, RowsPublished
<1>4. RowsPublished'
  BY <1>2, <1>3 DEF RowsPublished
<1>5. StampsArePast' /\ FetchesArePast'
  BY <1>2 DEF OrderInv, StampsArePast, FetchesArePast
<1>6. BatchCoversStored' /\ RowCoversStored' /\ OneRowPerStamp(history)'
  BY <1>2 DEF OrderInv, BatchCoversStored, RowCoversStored, OneRowPerStamp
<1>. QED BY <1>1, <1>4, <1>5, <1>6 DEF OrderInv

\* The rows of a save carry the batch, under a stamp later than all others.
LEMMA SavedRowFacts ==
  ASSUME OrderInv, NEW w \in Writers, NEW r \in SavedRows(writer[w], Now)
  PROVE  /\ r.at = clock + 1
         /\ writer[w][<<r.zone, r.time>>] # 0
         /\ r.asOf = writer[w][<<r.zone, r.time>>]
         /\ r.asOf <= Len(published[<<r.zone, r.time>>])
         /\ \A s \in SavedRows(writer[w], Now) : s.zone = r.zone /\ s.time = r.time => s = r
<1>1. PICK k \in Keys :
        /\ writer[w][k] # 0
        /\ r = [zone |-> k[1], time |-> k[2], value |-> published[k][writer[w][k]],
                at |-> Now, asOf |-> writer[w][k]]
  BY DEF SavedRows
<1>2. k = <<r.zone, r.time>>
  BY <1>1 DEF Keys
<1>3. r.asOf <= Len(published[k])
  BY <1>1 DEF OrderInv, TypeInv, BatchesPublished
<1>4. ASSUME NEW s \in SavedRows(writer[w], Now), s.zone = r.zone, s.time = r.time
      PROVE  s = r
  <2>1. PICK j \in Keys :
          s = [zone |-> j[1], time |-> j[2], value |-> published[j][writer[w][j]],
               at |-> Now, asOf |-> writer[w][j]]
    BY DEF SavedRows
  <2>2. j = k
    BY <1>1, <1>4, <2>1 DEF Keys
  <2>. QED BY <1>1, <2>1, <2>2
<1>. QED BY <1>1, <1>2, <1>3, <1>4 DEF Now

\* Saving keeps the order: the saved rows inherit what the batch covered, and a
\* batch still in flight was fetched before their stamp.
LEMMA SaveOrder ==
  ASSUME OrderInv, NEW w \in Writers, Save(w), Arrives(w)
  PROVE  OrderInv'
<1> DEFINE new == SavedRows(writer[w], Now)
<1>1. TypeInv' /\ TypeInv /\ MarketTypeOK /\ MarketTypeOK'
  BY SaveType DEF OrderInv, TypeInv
<1>2. /\ history' = history \cup new
      /\ clock' = clock + 1 /\ published' = published /\ clock \in Nat
      /\ inFlight' = inFlight
  BY <1>1 DEF Save, Now, MarketTypeOK, Arrives
<1>3. ASSUME NEW r \in history
      PROVE  /\ r.at \in Nat /\ r.at <= clock
             /\ r.at \in DOMAIN taken /\ taken'[r.at] = taken[r.at]
             /\ r.at \in DOMAIN taken'
             /\ taken[r.at] \in Nat /\ taken[r.at] < r.at
  <2>0. r.at \in Nat /\ r.at <= clock
    BY <1>1, RowFacts DEF OrderInv, StampsArePast
  <2>1. r.at # Now
    BY <1>2, <2>0 DEF Now
  <2>2. r.at \in DOMAIN taken /\ taken[r.at] \in Nat /\ taken[r.at] < r.at
    BY DEF OrderInv, FetchesArePast
  <2>3. r.at \in DOMAIN taken' /\ taken'[r.at] = taken[r.at]
    BY <2>1, <2>2 DEF Arrives
  <2>. QED BY <2>0, <2>2, <2>3
<1>4. ASSUME NEW r \in new
      PROVE  /\ r.at = clock + 1
             /\ r.at \in DOMAIN taken' /\ taken'[r.at] = inFlight[w]
             /\ inFlight[w] \in Nat /\ inFlight[w] <= clock
  <2>1. r.at = clock + 1 /\ r.at = Now
    BY SavedRowFacts DEF Now
  <2>. QED BY <2>1 DEF Arrives, OrderInv, FetchesArePast
<1>5. StampsArePast'
  BY <1>2, <1>3, <1>4 DEF StampsArePast
<1>6. RowsPublished'
  BY <1>2, SavedRowFacts DEF OrderInv, RowsPublished
<1>7. FetchesArePast'
  <2>1. \A v \in Writers : inFlight[v] \in Nat /\ inFlight[v] <= clock + 1
    BY <1>2 DEF OrderInv, FetchesArePast
  <2>2. \A r \in history' : /\ r.at \in DOMAIN taken'
                            /\ taken'[r.at] \in Nat /\ taken'[r.at] < r.at
    BY <1>2, <1>3, <1>4
  <2>. QED BY <1>2, <2>1, <2>2 DEF OrderInv, FetchesArePast
<1>8. BatchCoversStored'
  <2> SUFFICES ASSUME NEW v \in Writers, NEW r \in history',
                      writer'[v][<<r.zone, r.time>>] # 0, r.at <= inFlight[v]
               PROVE  r.asOf <= writer'[v][<<r.zone, r.time>>]
    BY <1>2 DEF BatchCoversStored
  <2>1. r \in Row
    BY <1>1 DEF MarketTypeOK
  <2>2. <<r.zone, r.time>> \in Keys
    BY <2>1 DEF Row, Keys
  <2>3. v # w /\ writer'[v] = writer[v]
    BY <1>1, <2>2 DEF Save, MarketTypeOK, EmptyBatch
  <2>4. inFlight[v] \in Nat /\ inFlight[v] <= clock
    BY DEF OrderInv, FetchesArePast
  <2>5. r \in history
    BY <1>2, <1>4, <2>4
  <2>. QED BY <2>3, <2>5 DEF OrderInv, BatchCoversStored
<1>9. RowCoversStored'
  <2> SUFFICES ASSUME NEW r \in history', NEW s \in history',
                      r.zone = s.zone, r.time = s.time, s.at <= taken'[r.at]
               PROVE  s.asOf <= r.asOf
    BY DEF RowCoversStored
  <2>1. CASE r \in history /\ s \in history
    BY <1>3, <2>1 DEF OrderInv, RowCoversStored
  <2>2. CASE r \in new /\ s \in history
    <3>1. s.at <= inFlight[w]
      BY <1>4, <2>2
    <3>2. r.asOf = writer[w][<<s.zone, s.time>>] /\ writer[w][<<s.zone, s.time>>] # 0
      BY <2>2, SavedRowFacts
    <3>. QED BY <2>2, <3>1, <3>2 DEF OrderInv, BatchCoversStored
  <2>3. CASE r \in history /\ s \in new
    BY <1>2, <1>3, <1>4, <2>3
  <2>4. CASE r \in new /\ s \in new
    BY <1>2, <1>4, <2>4
  <2>. QED BY <1>2, <2>1, <2>2, <2>3, <2>4
<1>10. OneRowPerStamp(history)'
  <2> SUFFICES ASSUME NEW r \in history', NEW s \in history',
                      r.zone = s.zone, r.time = s.time, r.at = s.at
               PROVE  r = s
    BY DEF OneRowPerStamp
  <2>1. CASE r \in history /\ s \in history
    BY <2>1 DEF OrderInv, OneRowPerStamp
  <2>2. CASE r \in new /\ s \in new
    BY <2>2, SavedRowFacts
  <2>3. CASE (r \in history /\ s \in new) \/ (r \in new /\ s \in history)
    BY <1>2, <1>3, <1>4, <2>3
  <2>. QED BY <1>2, <2>1, <2>2, <2>3
<1>. QED BY <1>1, <1>5, <1>6, <1>7, <1>8, <1>9, <1>10 DEF OrderInv

\* A batch that is dropped leaves the rows as they were.
LEMMA SaveFailsOrder ==
  ASSUME OrderInv, NEW w \in Writers, SaveFails(w), UNCHANGED <<inFlight, taken>>
  PROVE  OrderInv'
<1>1. TypeInv'
  BY SaveType DEF OrderInv
<1>2. UNCHANGED <<published, history, clock>>
  BY DEF SaveFails
<1>3. ASSUME NEW v \in Writers, NEW k \in Keys
      PROVE  writer'[v][k] = 0 \/ writer'[v][k] = writer[v][k]
  BY DEF OrderInv, TypeInv, MarketTypeOK, SaveFails, EmptyBatch
<1>4. BatchCoversStored'
  BY <1>2, <1>3, RowFacts DEF OrderInv, TypeInv, BatchCoversStored
<1>5. StampsArePast' /\ RowsPublished' /\ FetchesArePast'
  BY <1>2 DEF OrderInv, StampsArePast, RowsPublished, FetchesArePast
<1>6. RowCoversStored' /\ OneRowPerStamp(history)'
  BY <1>2 DEF OrderInv, RowCoversStored, OneRowPerStamp
<1>. QED BY <1>1, <1>4, <1>5, <1>6 DEF OrderInv

\* Every step keeps the order, whichever processes write.
LEMMA OrderStep == OrderInv /\ [OrderNext]_orderVars => OrderInv'
<1> SUFFICES ASSUME OrderInv, [OrderNext]_orderVars PROVE OrderInv'
  OBVIOUS
<1>1. ASSUME NEW k \in Keys, NEW v \in Values, Publish(k, v), UNCHANGED <<inFlight, taken>>
      PROVE  OrderInv'
  BY <1>1, PublishOrder
<1>2. ASSUME NEW w \in Ingestors, Poll(w), Departs(w) PROVE OrderInv'
  BY <1>2, FetchedOrder DEF Poll, Writers
<1>3. ASSUME NEW w \in Backfills, NEW first \in Times, NEW last \in Times,
             BackfillChunk(w, first, last), Departs(w)
      PROVE  OrderInv'
  BY <1>3, FetchedOrder DEF BackfillChunk, Writers
<1>4. ASSUME NEW w \in Writers, Save(w), Arrives(w) PROVE OrderInv'
  BY <1>4, SaveOrder
<1>5. ASSUME NEW w \in Writers, SaveFails(w), UNCHANGED <<inFlight, taken>> PROVE OrderInv'
  BY <1>5, SaveFailsOrder
<1>6. CASE UNCHANGED orderVars
  <2>1. TypeInv' /\ StampsArePast' /\ RowsPublished' /\ FetchesArePast'
    BY <1>6 DEF OrderInv, TypeInv, MarketTypeOK, BatchesPublished, StampsArePast,
                RowsPublished, FetchesArePast, orderVars
  <2>2. BatchCoversStored' /\ RowCoversStored' /\ OneRowPerStamp(history)'
    BY <1>6 DEF OrderInv, BatchCoversStored, RowCoversStored, OneRowPerStamp, orderVars
  <2>. QED BY <2>1, <2>2 DEF OrderInv
<1>7. NothingPolled /\ UNCHANGED <<inFlight, taken>> => UNCHANGED orderVars
  BY DEF NothingPolled, marketVars, orderVars
<1>. QED BY <1>1, <1>2, <1>3, <1>4, <1>5, <1>6, <1>7 DEF OrderNext

\* The view's row covers what was stored at its fetch, and it is one row: two
\* rows of a key with the highest stamp are the same.
LEMMA OrderImpliesView == OrderInv => ViewKeepsUp
<1> SUFFICES ASSUME OrderInv, NEW k \in Keys, NEW r \in ViewRows(k)
             PROVE  /\ \A s \in ViewRows(k) : s = r
                    /\ \A s \in RowsOf(k) : s.at <= taken[r.at] => s.asOf <= r.asOf
  BY DEF ViewKeepsUp
<1>1. r \in history /\ r.zone = k[1] /\ r.time = k[2]
  BY DEF ViewRows, RowsOf
<1>2. ASSUME NEW s \in ViewRows(k) PROVE s = r
  <2>1. s \in history /\ s.zone = r.zone /\ s.time = r.time
    BY <1>1 DEF ViewRows, RowsOf
  <2>2. s.at <= r.at /\ r.at <= s.at
    BY DEF ViewRows
  <2>3. s.at \in Nat /\ r.at \in Nat
    BY <1>1, <2>1, RowFacts DEF OrderInv, TypeInv
  <2>4. s.at = r.at
    BY <2>2, <2>3
  <2>. QED BY <1>1, <2>1, <2>4 DEF OrderInv, OneRowPerStamp
<1>3. ASSUME NEW s \in RowsOf(k), s.at <= taken[r.at] PROVE s.asOf <= r.asOf
  BY <1>1, <1>3 DEF RowsOf, OrderInv, RowCoversStored
<1>. QED BY <1>2, <1>3

\* However many ingestors and backfills write beside one another, however long
\* they run and whatever Energinet revises, the market_data view shows one figure
\* of a key, and none older than a figure stored when the shown one was fetched.
THEOREM ViewCorrect == OrderSpec => []ViewKeepsUp
<1>1. OrderInit => OrderInv
  <2> SUFFICES ASSUME OrderInit PROVE OrderInv
    OBVIOUS
  <2>1. TypeInv /\ history = {} /\ clock = 0
    BY TypeInit DEF OrderInit, MarketInit
  <2>2. inFlight \in [Writers -> Nat] /\ \A w \in Writers : inFlight[w] <= clock
    BY <2>1 DEF OrderInit
  <2>. QED BY <2>1, <2>2 DEF OrderInv, StampsArePast, RowsPublished, FetchesArePast,
                             BatchCoversStored, RowCoversStored, OneRowPerStamp
<1>2. OrderInv /\ [OrderNext]_orderVars => OrderInv'
  BY OrderStep
<1>3. OrderInv => ViewKeepsUp
  BY OrderImpliesView
<1>. QED BY <1>1, <1>2, <1>3, PTL DEF OrderSpec

\* The history variables only watch: every step is a step of the market data, so
\* what is proved of MarketSpec below holds of the behaviours that record fetches.
THEOREM OrderIsMarket == OrderSpec => MarketSpec
<1>1. OrderInit => MarketInit
  BY DEF OrderInit
<1>2. [OrderNext]_orderVars => [MarketNext]_marketVars
  BY DEF OrderNext, MarketNext, orderVars, marketVars
<1>. QED BY <1>1, <1>2, PTL DEF OrderSpec, MarketSpec

-----------------------------------------------------------------------------
(* The rule engine returns well-formed triggers.                           *)

\* What the threshold comparisons yield.
LEMMA AboveMeanType ==
  ASSUME NEW x, NEW past PROVE AboveMean(x, past) \in BOOLEAN
  BY DEF AboveMean

\* The rows a row belongs to when it was read.
LEMMA ReadRows ==
  ASSUME NEW rows \in SUBSET Row, NEW r \in rows
  PROVE  r.time \in Times /\ r.value \in Int /\ r.zone \in Zones
  BY MarketAssumption DEF Row

\* A zone's own checks return triggers of that zone.
LEMMA ZoneTriggersType ==
  ASSUME NEW z \in Zones, NEW rows \in SUBSET Row
  PROVE  /\ check_price_spike(z, rows) \subseteq Triggers
         /\ check_negative_or_zero(z, rows) \subseteq Triggers
         /\ check_revisions(z, rows) \subseteq Triggers
<1>1. check_price_spike(z, rows) \subseteq Triggers
  <2> SUFFICES ASSUME NEW t \in check_price_spike(z, rows) PROVE t \in Triggers
    OBVIOUS
  <2>1. PICK r \in rows, u \in BOOLEAN : t = Trigger("price_spike", z, r.time, r.value, u)
    BY AboveMeanType DEF check_price_spike, OutlierTriggers, DedupeLatest, Latest
  <2>. QED BY <2>1, ReadRows DEF Trigger, Triggers, TriggerTypes, ReportZones
<1>2. check_negative_or_zero(z, rows) \subseteq Triggers
  <2> SUFFICES ASSUME NEW t \in check_negative_or_zero(z, rows) PROVE t \in Triggers
    OBVIOUS
  <2>1. PICK r \in rows :
          t = Trigger("negative_or_zero_price", z, r.time, r.value, FALSE)
    BY DEF check_negative_or_zero, DedupeLatest, Latest
  <2>. QED BY <2>1, ReadRows DEF Trigger, Triggers, TriggerTypes, ReportZones
<1>3. check_revisions(z, rows) \subseteq Triggers
  <2> SUFFICES ASSUME NEW t \in check_revisions(z, rows) PROVE t \in Triggers
    OBVIOUS
  <2>1. PICK p \in rows \X rows :
          t = Trigger("revision_alert", z, p[2].time, p[2].value, p[2].value > p[1].value)
    BY DEF check_revisions, LastTwo
  <2>2. p[2] \in rows /\ (p[2].value > p[1].value) \in BOOLEAN
    BY <2>1
  <2>. QED BY <2>1, <2>2, ReadRows DEF Trigger, Triggers, TriggerTypes, ReportZones
<1>. QED BY <1>1, <1>2, <1>3

\* The divergence check returns triggers of the pseudo-zone.
LEMMA DivergenceTriggersType ==
  ASSUME NEW dk1 \in SUBSET Row, NEW dk2 \in SUBSET Row
  PROVE  check_zone_divergence(dk1, dk2) \subseteq Triggers
<1> SUFFICES ASSUME NEW t \in check_zone_divergence(dk1, dk2) PROVE t \in Triggers
  OBVIOUS
<1>1. PICK p \in dk1 \X dk2, u \in BOOLEAN :
        t = Trigger("zone_divergence", DivergenceZone, p[1].time, p[1].value - p[2].value, u)
  <2>1. PICK d \in Differences(Paired(DedupeLatest(dk1), DedupeLatest(dk2))), u \in BOOLEAN :
          t = Trigger("zone_divergence", DivergenceZone, d.time, d.value, u)
    BY AboveMeanType DEF check_zone_divergence, OutlierTriggers, Latest
  <2>. QED BY <2>1 DEF Differences, Paired, DedupeLatest
<1>2. /\ p[1].time \in Times /\ p[1].value - p[2].value \in Int
  <2>1. p[1] \in dk1 /\ p[2] \in dk2
    OBVIOUS
  <2>. QED BY <2>1, ReadRows
<1>. QED BY <1>1, <1>2 DEF Trigger, Triggers, TriggerTypes, ReportZones

\* The rule engine fires well-formed triggers, whatever rows it read.
LEMMA FiredType ==
  ASSUME NEW zones \in SUBSET Zones, NEW read \in [Zones -> SUBSET Row]
  PROVE  run_rule_engine(zones, read) \subseteq Triggers
<1> SUFFICES ASSUME NEW t \in run_rule_engine(zones, read) PROVE t \in Triggers
  OBVIOUS
<1>1. CASE \E z \in zones : t \in check_price_spike(z, read[z])
                                  \cup check_negative_or_zero(z, read[z])
                                  \cup check_revisions(z, read[z])
  BY <1>1, ZoneTriggersType
<1>2. CASE /\ {"DK1", "DK2"} \subseteq zones
           /\ t \in check_zone_divergence(read["DK1"], read["DK2"])
  <2>1. read["DK1"] \in SUBSET Row /\ read["DK2"] \in SUBSET Row
    BY <1>2
  <2>. QED BY <1>2, <2>1, DivergenceTriggersType
<1>. QED BY <1>1, <1>2 DEF run_rule_engine

-----------------------------------------------------------------------------
(* The type invariant of the reports.                                      *)

\* The type invariant with what a save needs to know of the writers' batches.
EventTypeInv == TypeOK /\ BatchesPublished

\* One runner's state changes, to a well-formed one.
LEMMA CycleUpdate ==
  ASSUME cycle \in [Cycles -> CycleStates], NEW c \in Cycles, NEW s \in CycleStates,
         Becomes(c, s)
  PROVE  /\ cycle' \in [Cycles -> CycleStates]
         /\ cycle'[c] = s
         /\ \A b \in Cycles : b # c => cycle'[b] = cycle[b]
  BY DEF Becomes

LEMMA IdleType == Idle \in CycleStates
  BY DEF Idle, CycleStates, PCs

\* Leaving a trigger for the next one keeps the runner's state well-formed.
LEMMA NextTriggerType ==
  ASSUME NEW s \in CycleStates, NEW m \in Nat, NEW n \in Nat
  PROVE  /\ NextTrigger(s, m, n) \in CycleStates
         /\ NextTrigger(s, m, n).draft = {}
         /\ NextTrigger(s, m, n).pc = "processing"
<1>1. s.counted + m \in Nat /\ s.inserted + n \in Nat
  BY DEF CycleStates
<1>2. "processing" \in PCs
  BY DEF PCs
<1>3. ASSUME NEW x \in Nat, NEW y \in Nat
      PROVE  [s EXCEPT !.pc = "processing", !.current = {}, !.draft = {},
                       !.counted = x, !.inserted = y] \in CycleStates
  BY <1>2 DEF CycleStates
<1>4. NextTrigger(s, m, n) \in CycleStates
  BY <1>1, <1>3 DEF NextTrigger
<1>. QED BY <1>4 DEF NextTrigger, CycleStates

\* The identifier of a report names a key and a direction.
LEMMA EventIdType ==
  ASSUME NEW t \in Triggers
  PROVE  /\ build_event_id(t) \in EventIds
         /\ build_event_id(t).zone = t.zone
         /\ build_event_id(t).time = t.time
<1>1. infer_direction(t) \in {Product, "up", "down"}
  BY DEF infer_direction
<1>. QED BY <1>1 DEF build_event_id, Triggers, EventIds

\* The rows find_published_report can return.
LEMMA FoundReports ==
  ASSUME NEW zone, NEW time, NEW e \in find_published_report(zone, time)
  PROVE  e \in reports /\ e.zone = zone /\ e.time = time
  BY DEF find_published_report

\* A draft is well-formed and carries an identifier of its key; if it corrects
\* a report, that report is in the ledger, about the same key.
LEMMA DraftsType ==
  ASSUME reports \subseteq Reports, NEW t \in Triggers, NEW n \in Nat,
         NEW d \in DraftsOf(t, n)
  PROVE  /\ d \in Drafts
         /\ d.id.zone = d.zone /\ d.id.time = d.time
         /\ d.corrects = NoReport
              \/ \E r \in reports : r.id = d.corrects /\ About(r) = About(d)
<1>1. /\ t.zone \in ReportZones /\ t.time \in Times
      /\ t.type \in TriggerTypes /\ t.value \in Int
  BY DEF Triggers
<1>2. CASE d = Draft(t, build_event_id(t), NoReport, n)
  BY <1>1, <1>2, EventIdType DEF Draft, Drafts
<1>3. ASSUME NEW e \in find_published_report(t.zone, t.time),
             d = Draft(t, [build_event_id(t) EXCEPT !.suffix = n], e.id, n)
      PROVE  /\ d \in Drafts
             /\ d.id.zone = d.zone /\ d.id.time = d.time
             /\ \E r \in reports : r.id = d.corrects /\ About(r) = About(d)
  <2>1. e \in reports /\ e.zone = t.zone /\ e.time = t.time /\ e.id \in EventIds
    BY FoundReports DEF Reports
  <2>2. /\ [build_event_id(t) EXCEPT !.suffix = n] \in EventIds
        /\ [build_event_id(t) EXCEPT !.suffix = n].zone = t.zone
        /\ [build_event_id(t) EXCEPT !.suffix = n].time = t.time
    BY EventIdType DEF EventIds
  <2>. QED BY <1>1, <1>3, <2>1, <2>2 DEF Draft, Drafts, About
<1>. QED BY <1>2, <1>3 DEF DraftsOf

\* The types of the variables a cycle changes.
LEMMA EventTypeInit == Init => EventTypeInv
<1> SUFFICES ASSUME Init PROVE EventTypeInv
  OBVIOUS
<1>1. MarketTypeOK /\ BatchesPublished
  BY TypeInit DEF Init, TypeInv
<1>. QED BY <1>1, IdleType DEF Init, EventTypeInv, TypeOK

\* A step of the writers or of Energinet keeps the types.
LEMMA MarketStepType ==
  ASSUME EventTypeInv, MarketStep PROVE EventTypeInv'
<1>1. MarketNext
  BY DEF MarketStep, MarketNext
<1>2. (MarketTypeOK /\ BatchesPublished)'
  BY <1>1, TypeStep DEF EventTypeInv, TypeOK, TypeInv
<1>3. UNCHANGED cycleVars
  BY DEF MarketStep
<1>. QED BY <1>2, <1>3 DEF EventTypeInv, TypeOK, cycleVars

\* A step of a cycle leaves the market's types alone; it may read the clock.
LEMMA CycleStepMarketType ==
  ASSUME EventTypeInv, UNCHANGED <<published, history, batches, writer>>,
         clock' = clock \/ clock' = Now
  PROVE  MarketTypeOK' /\ BatchesPublished'
<1>1. MarketTypeOK /\ BatchesPublished
  BY DEF EventTypeInv, TypeOK
<1>2. clock' \in Nat
  BY <1>1 DEF MarketTypeOK, Now
<1>. QED BY <1>1, <1>2 DEF MarketTypeOK, BatchesPublished

\* A step that changes one runner's state only, to a well-formed one.
LEMMA RunnerStepType ==
  ASSUME EventTypeInv, NEW c \in Cycles, NEW s \in CycleStates,
         Becomes(c, s),
         UNCHANGED <<published, history, clock, batches, writer, reports, triggers>>,
         alerts' \subseteq Drafts, started' \in Nat
  PROVE  EventTypeInv'
<1>1. MarketTypeOK' /\ BatchesPublished'
  BY CycleStepMarketType
<1>2. TypeOK
  BY DEF EventTypeInv
<1>3. cycle' \in [Cycles -> CycleStates]
  BY <1>2, CycleUpdate DEF TypeOK
<1>. QED BY <1>1, <1>2, <1>3 DEF EventTypeInv, TypeOK

\* Fetching the series and reading their histories.
LEMMA ReadingType ==
  ASSUME EventTypeInv, NEW c \in Cycles,
         \/ StartCycle(c)
         \/ \E z \in Zones : ReadHistory(c, z)
         \/ EngineFails(c)
  PROVE  EventTypeInv'
<1>1. TypeOK /\ cycle[c] \in CycleStates /\ history \subseteq Row /\ clock \in Nat
  BY DEF EventTypeInv, TypeOK, MarketTypeOK
<1>2. CASE StartCycle(c)
  <2> DEFINE s == [Idle EXCEPT !.pc = "reading", !.began = clock,
                               !.unread = {r.zone : r \in history}]
  <2>1. {r.zone : r \in history} \subseteq Zones
    BY <1>1 DEF Row
  <2>2. s \in CycleStates
    <3>1. Idle \in CycleStates /\ "reading" \in PCs
      BY IdleType DEF PCs
    <3>. QED BY <1>1, <2>1, <3>1 DEF CycleStates
  <2>3. Becomes(c, s) /\ started' \in Nat
    BY <1>1, <1>2 DEF StartCycle, TypeOK
  <2>. HIDE DEF s
  <2>. QED BY <1>1, <1>2, <2>2, <2>3, RunnerStepType DEF StartCycle, TypeOK, marketVars
<1>3. ASSUME NEW z \in Zones, ReadHistory(c, z) PROVE EventTypeInv'
  <2> DEFINE s == [cycle[c] EXCEPT !.unread = @ \ {z},
                                   !.read[z] = fetch_history(history, z)]
  <2>1. fetch_history(history, z) \in SUBSET Row
    BY <1>1 DEF fetch_history
  <2>2. /\ [cycle[c].read EXCEPT ![z] = fetch_history(history, z)]
             \in [Zones -> SUBSET Row]
        /\ cycle[c].unread \ {z} \in SUBSET Zones
    BY <1>1, <2>1 DEF CycleStates
  <2>3. s \in CycleStates
    BY <1>1, <2>2 DEF CycleStates
  <2>4. Becomes(c, s)
    BY <1>3 DEF ReadHistory
  <2>5. /\ UNCHANGED <<published, history, clock, batches, writer, reports, triggers>>
        /\ alerts' \subseteq Drafts /\ started' \in Nat
    BY <1>1, <1>3 DEF ReadHistory, TypeOK, marketVars
  <2>. HIDE DEF s
  <2>. QED BY <2>3, <2>4, <2>5, RunnerStepType
<1>4. CASE EngineFails(c)
  BY <1>1, <1>4, IdleType, RunnerStepType DEF EngineFails, TypeOK, marketVars
<1>. QED BY <1>2, <1>3, <1>4

\* Evaluating the checks and saving the fired triggers.
LEMMA EvaluateType ==
  ASSUME EventTypeInv, NEW c \in Cycles, Evaluate(c) PROVE EventTypeInv'
<1>1. /\ TypeOK /\ cycle \in [Cycles -> CycleStates] /\ cycle[c] \in CycleStates
      /\ Now \in Nat
  BY DEF EventTypeInv, TypeOK, MarketTypeOK, Now
<1>2. MarketTypeOK' /\ BatchesPublished'
  BY CycleStepMarketType DEF Evaluate
<1>3. FiredBy(c) \subseteq Triggers
  <2>1. cycle[c].read \in [Zones -> SUBSET Row]
    BY <1>1 DEF CycleStates
  <2>. QED BY <2>1, FiredType DEF FiredBy
<1>4. triggers' \subseteq [trigger : Triggers, detected : Nat]
  <2>1. PICK unsaved \in SUBSET FiredBy(c) :
          triggers' = triggers \cup
            {[trigger |-> t, detected |-> Now] : t \in FiredBy(c) \ unsaved}
    BY DEF Evaluate
  <2>. QED BY <1>1, <1>3, <2>1 DEF TypeOK
<1>5. cycle' \in [Cycles -> CycleStates]
  <2> DEFINE s == [cycle[c] EXCEPT !.pc = "processing", !.read = [z \in Zones |-> {}],
                                   !.detected = Now, !.fired = FiredBy(c),
                                   !.pending = FiredBy(c)]
  <2>1. [z \in Zones |-> {}] \in [Zones -> SUBSET Row] /\ "processing" \in PCs
    BY DEF PCs
  <2>2. s \in CycleStates
    BY <1>1, <1>3, <2>1 DEF CycleStates
  <2>3. Becomes(c, s)
    BY DEF Evaluate
  <2>. HIDE DEF s
  <2>. QED BY <1>1, <2>2, <2>3, CycleUpdate
<1>. QED BY <1>1, <1>2, <1>4, <1>5 DEF Evaluate, EventTypeInv, TypeOK

\* Taking a trigger, drafting its report, and every way of leaving a cycle
\* or a trigger without changing the ledger.
LEMMA TriggerStepType ==
  ASSUME EventTypeInv, NEW c \in Cycles,
         \/ TakeTrigger(c)
         \/ SynthesisFails(c)
         \/ Synthesize(c)
         \/ SaveReportFails(c)
         \/ FinishCycle(c)
         \/ Crash(c)
  PROVE  EventTypeInv'
<1>1. /\ cycle[c] \in CycleStates /\ started \in Nat /\ alerts \subseteq Drafts
      /\ reports \subseteq Reports
  BY DEF EventTypeInv, TypeOK
<1>2. UNCHANGED <<published, history, clock, batches, writer, reports, triggers, alerts, started>>
  BY DEF TakeTrigger, SynthesisFails, Synthesize, SaveReportFails, FinishCycle, Crash,
         marketVars
<1>3. PICK s \in CycleStates : Becomes(c, s)
  <2>1. CASE TakeTrigger(c)
    <3>1. PICK t \in cycle[c].pending :
            Becomes(c, [cycle[c] EXCEPT !.pc = "synthesizing", !.current = {t},
                                        !.pending = @ \ {t}, !.attempted = @ \cup {t}])
      BY <2>1 DEF TakeTrigger
    <3>2. t \in Triggers /\ "synthesizing" \in PCs
      BY <1>1 DEF CycleStates, PCs
    <3>3. [cycle[c] EXCEPT !.pc = "synthesizing", !.current = {t},
                           !.pending = @ \ {t}, !.attempted = @ \cup {t}] \in CycleStates
      BY <1>1, <3>2 DEF CycleStates
    <3>. QED BY <3>1, <3>3
  <2>2. CASE SynthesisFails(c) \/ SaveReportFails(c)
    <3>1. Becomes(c, NextTrigger(cycle[c], 0, 0))
      BY <2>2 DEF SynthesisFails, SaveReportFails
    <3>. QED BY <1>1, <3>1, NextTriggerType
  <2>3. CASE Synthesize(c)
    <3>1. PICK t \in cycle[c].current : \E d \in DraftsOf(t, cycle[c].detected) :
            Becomes(c, [cycle[c] EXCEPT !.pc = "saving", !.draft = {d}])
      BY <2>3 DEF Synthesize
    <3>2. PICK d \in DraftsOf(t, cycle[c].detected) :
            Becomes(c, [cycle[c] EXCEPT !.pc = "saving", !.draft = {d}])
      BY <3>1
    <3>3. t \in Triggers /\ cycle[c].detected \in Nat /\ "saving" \in PCs
      BY <1>1 DEF CycleStates, PCs
    <3>4. d \in Drafts
      BY <1>1, <3>3, DraftsType
    <3>5. [cycle[c] EXCEPT !.pc = "saving", !.draft = {d}] \in CycleStates
      BY <1>1, <3>3, <3>4 DEF CycleStates
    <3>. QED BY <3>2, <3>5
  <2>4. CASE FinishCycle(c)
    <3>1. [cycle[c] EXCEPT !.pc = "idle"] \in CycleStates
      BY <1>1 DEF CycleStates, PCs
    <3>. QED BY <2>4, <3>1 DEF FinishCycle
  <2>5. CASE Crash(c)
    BY <2>5, IdleType DEF Crash
  <2>. QED BY <2>1, <2>2, <2>3, <2>4, <2>5
<1>. QED BY <1>1, <1>2, <1>3, RunnerStepType

\* What an insert adds: at most one row, a well-formed one.
LEMMA InsertedType ==
  ASSUME NEW d \in Drafts, NEW n \in Nat
  PROVE  /\ Inserted(d, n) \subseteq Reports
         /\ Cardinality(Inserted(d, n)) \in Nat
<1>1. CASE Inserted(d, n) = {}
  BY <1>1, FS_EmptySet
<1>2. CASE Inserted(d, n) # {}
  <2>1. PICK r : Inserted(d, n) = {r} /\ r \in Reports
    BY <1>2 DEF Inserted, Drafts, Reports
  <2>2. Inserted(d, n) \subseteq Reports
    BY <2>1
  <2>3. Cardinality({r}) = 1
    BY FS_Singleton, Zenon
  <2>4. Cardinality(Inserted(d, n)) = 1
    BY <2>1, <2>3, Zenon
  <2>. QED BY <2>2, <2>4
<1>. QED BY <1>1, <1>2

\* The insert, and the post.
LEMMA PublishStepType ==
  ASSUME EventTypeInv, NEW c \in Cycles,
         SaveReport(c) \/ PostAlert(c) \/ PostAlertFails(c)
  PROVE  EventTypeInv'
<1>1. /\ TypeOK /\ cycle \in [Cycles -> CycleStates] /\ cycle[c] \in CycleStates
      /\ cycle[c].draft \subseteq Drafts /\ Now \in Nat
  BY DEF EventTypeInv, TypeOK, MarketTypeOK, Now, CycleStates
<1>2. CASE SaveReport(c)
  <2>1. PICK d \in cycle[c].draft :
          /\ reports' = reports \cup Inserted(d, Now)
          /\ Becomes(c, [cycle[c] EXCEPT !.pc = "posting",
                                         !.inserted = @ + Cardinality(Inserted(d, Now))])
    BY <1>2 DEF SaveReport
  <2>2. Inserted(d, Now) \subseteq Reports /\ Cardinality(Inserted(d, Now)) \in Nat
    BY <1>1, InsertedType
  <2>3. cycle[c].inserted + Cardinality(Inserted(d, Now)) \in Nat /\ "posting" \in PCs
    BY <1>1, <2>2 DEF CycleStates, PCs
  <2>4. [cycle[c] EXCEPT !.pc = "posting",
                         !.inserted = @ + Cardinality(Inserted(d, Now))] \in CycleStates
    BY <1>1, <2>3 DEF CycleStates
  <2>5. cycle' \in [Cycles -> CycleStates]
    BY <1>1, <2>1, <2>4, CycleUpdate
  <2>6. MarketTypeOK' /\ BatchesPublished'
    BY <1>2, CycleStepMarketType DEF SaveReport
  <2>. QED BY <1>1, <1>2, <2>1, <2>2, <2>5, <2>6 DEF SaveReport, EventTypeInv, TypeOK
<1>3. CASE PostAlert(c) \/ PostAlertFails(c)
  <2>1. Becomes(c, NextTrigger(cycle[c], 1, 0)) /\ alerts' \subseteq Drafts
        /\ started' \in Nat
        /\ UNCHANGED <<published, history, clock, batches, writer, reports, triggers>>
    BY <1>1, <1>3 DEF PostAlert, PostAlertFails, TypeOK, marketVars
  <2>2. NextTrigger(cycle[c], 1, 0) \in CycleStates
    BY <1>1, NextTriggerType
  <2>. QED BY <2>1, <2>2, RunnerStepType
<1>. QED BY <1>2, <1>3

\* Every step keeps the types.
LEMMA EventTypeStep == EventTypeInv /\ [Next]_vars => EventTypeInv'
<1> SUFFICES ASSUME EventTypeInv, [Next]_vars PROVE EventTypeInv'
  OBVIOUS
<1>1. CASE MarketStep
  BY <1>1, MarketStepType
<1>2. ASSUME NEW c \in Cycles, StartCycle(c) \/ Progress(c) \/ Failure(c)
      PROVE  EventTypeInv'
  BY <1>2, ReadingType, EvaluateType, TriggerStepType, PublishStepType
     DEF Progress, Failure
<1>3. CASE UNCHANGED vars
  <2>1. UNCHANGED <<published, history, clock, batches, writer>>
        /\ UNCHANGED <<reports, triggers, alerts, cycle, started>>
    BY <1>3 DEF vars
  <2>. QED BY <2>1 DEF EventTypeInv, TypeOK, MarketTypeOK, BatchesPublished
<1>. QED BY <1>1, <1>2, <1>3 DEF Next, GateClosed

\* Whatever the cycles, the writers and Energinet do, and whichever failures
\* happen, every variable keeps its type: the ledger holds well-formed rows,
\* and a cycle only ever works on well-formed triggers and drafts.
THEOREM EventTypeCorrect == Spec => []TypeOK
<1>1. Init => EventTypeInv
  BY EventTypeInit
<1>2. EventTypeInv /\ [Next]_vars => EventTypeInv'
  BY EventTypeStep
<1>3. EventTypeInv => TypeOK
  BY DEF EventTypeInv
<1>. QED BY <1>1, <1>2, <1>3, PTL DEF Spec

-----------------------------------------------------------------------------
(* The ledger.                                                             *)

\* The identifier of a row, or of a draft, names its key.
IdsNameKeys ==
  /\ \A r \in reports : r.id.zone = r.zone /\ r.id.time = r.time
  /\ \A c \in Cycles : \A d \in cycle[c].draft : d.id.zone = d.zone /\ d.id.time = d.time

\* A runner has one draft at a time.
OneDraft == \A c \in Cycles : \A d, e \in cycle[c].draft : d = e

\* The report a draft corrects is in the ledger, about the same key.
DraftsResolve ==
  \A c \in Cycles : \A d \in cycle[c].draft :
    d.corrects = NoReport \/ \E r \in reports : r.id = d.corrects /\ About(r) = About(d)

\* A draft about to be posted has a row of its identifier.
PostedAreStored ==
  \A c \in Cycles : cycle[c].pc = "posting" =>
    \A d \in cycle[c].draft : \E r \in reports : r.id = d.id

PublishingInv ==
  /\ EventTypeInv
  /\ IdsNameKeys
  /\ OneDraft
  /\ DraftsResolve
  /\ PostedAreStored
  /\ AlertsFollowTheLedger

LEMMA PublishingInit == Init => PublishingInv
<1> SUFFICES ASSUME Init PROVE PublishingInv
  OBVIOUS
<1>1. /\ reports = {} /\ alerts = {}
      /\ \A c \in Cycles : cycle[c].draft = {}
  BY DEF Init, Idle
<1>. QED BY <1>1, EventTypeInit
         DEF PublishingInv, IdsNameKeys, OneDraft, DraftsResolve, PostedAreStored,
             AlertsFollowTheLedger

\* A step that leaves ledger and alerts alone, and where a runner keeps its
\* draft without being about to post, or gives it up, disturbs nothing.
LEMMA DraftsKept ==
  ASSUME PublishingInv, EventTypeInv', NEW c \in Cycles,
         cycle'[c].draft = {}
           \/ (cycle'[c].draft = cycle[c].draft /\ cycle'[c].pc # "posting"),
         \A b \in Cycles : b # c => cycle'[b] = cycle[b],
         UNCHANGED <<reports, alerts>>
  PROVE  PublishingInv'
<1>1. \A b \in Cycles :
        cycle'[b].draft = {}
          \/ (cycle'[b].draft = cycle[b].draft
                /\ (cycle'[b].pc = "posting" => cycle[b].pc = "posting"))
  OBVIOUS
<1>2. IdsNameKeys' /\ OneDraft' /\ DraftsResolve'
  BY <1>1 DEF PublishingInv, IdsNameKeys, OneDraft, DraftsResolve, About
<1>3. PostedAreStored'
  BY <1>1 DEF PublishingInv, PostedAreStored
<1>4. AlertsFollowTheLedger'
  BY DEF PublishingInv, AlertsFollowTheLedger, About
<1>. QED BY <1>2, <1>3, <1>4 DEF PublishingInv

\* The same for a runner that gives up its draft.
LEMMA DraftGivenUp ==
  ASSUME PublishingInv, EventTypeInv', NEW c \in Cycles, NEW s \in CycleStates,
         Becomes(c, s), s.draft = {}, UNCHANGED <<reports, alerts>>
  PROVE  PublishingInv'
<1>1. cycle \in [Cycles -> CycleStates]
  BY DEF PublishingInv, EventTypeInv, TypeOK
<1>2. cycle'[c] = s /\ \A b \in Cycles : b # c => cycle'[b] = cycle[b]
  BY <1>1, CycleUpdate
<1>. QED BY <1>2, DraftsKept

\* Synthesize drafts a report that resolves.
LEMMA SynthesizePublishing ==
  ASSUME PublishingInv, EventTypeInv', NEW c \in Cycles, Synthesize(c)
  PROVE  PublishingInv'
<1>1. /\ cycle \in [Cycles -> CycleStates] /\ cycle[c] \in CycleStates
      /\ reports \subseteq Reports
  BY DEF PublishingInv, EventTypeInv, TypeOK
<1>2. PICK t \in cycle[c].current : \E d \in DraftsOf(t, cycle[c].detected) :
        Becomes(c, [cycle[c] EXCEPT !.pc = "saving", !.draft = {d}])
  BY DEF Synthesize
<1>3. PICK d \in DraftsOf(t, cycle[c].detected) :
        Becomes(c, [cycle[c] EXCEPT !.pc = "saving", !.draft = {d}])
  BY <1>2
<1>4. t \in Triggers /\ cycle[c].detected \in Nat
  BY <1>1 DEF CycleStates
<1>5. /\ d \in Drafts
      /\ d.id.zone = d.zone /\ d.id.time = d.time
      /\ d.corrects = NoReport
           \/ \E r \in reports : r.id = d.corrects /\ About(r) = About(d)
  BY <1>1, <1>4, DraftsType
<1>6. /\ cycle'[c].draft = {d} /\ cycle'[c].pc = "saving"
      /\ \A b \in Cycles : b # c => cycle'[b] = cycle[b]
  BY <1>1, <1>3 DEF Becomes, CycleStates
<1>7. UNCHANGED <<reports, alerts>>
  BY DEF Synthesize
<1>8. IdsNameKeys' /\ OneDraft' /\ DraftsResolve'
  BY <1>5, <1>6, <1>7 DEF PublishingInv, IdsNameKeys, OneDraft, DraftsResolve, About
<1>9. PostedAreStored'
  BY <1>6, <1>7 DEF PublishingInv, PostedAreStored
<1>10. AlertsFollowTheLedger'
  BY <1>7 DEF PublishingInv, AlertsFollowTheLedger, About
<1>. QED BY <1>8, <1>9, <1>10 DEF PublishingInv

\* What SaveReport inserts, if anything: the draft as a row, under an identifier
\* that was not in use; and afterwards there is a row of that identifier.
LEMMA SaveReportInserts ==
  ASSUME PublishingInv, NEW c \in Cycles, SaveReport(c)
  PROVE  \E d \in cycle[c].draft :
           /\ reports' = reports \cup Inserted(d, Now)
           /\ \A r \in Inserted(d, Now) :
                /\ r.id = d.id /\ r.zone = d.zone /\ r.time = d.time
                /\ r.corrects = d.corrects
                /\ \A o \in reports : o.id # r.id
                /\ Inserted(d, Now) = {r}
           /\ \E r \in reports' : r.id = d.id
           /\ cycle'[c].draft = cycle[c].draft
           /\ \A b \in Cycles : b # c => cycle'[b] = cycle[b]
<1>1. PICK d \in cycle[c].draft :
        /\ reports' = reports \cup Inserted(d, Now)
        /\ Becomes(c, [cycle[c] EXCEPT !.pc = "posting",
                                       !.inserted = @ + Cardinality(Inserted(d, Now))])
  BY DEF SaveReport
<1>2. \A r \in Inserted(d, Now) :
        /\ r.id = d.id /\ r.zone = d.zone /\ r.time = d.time
        /\ r.corrects = d.corrects
        /\ \A o \in reports : o.id # r.id
        /\ Inserted(d, Now) = {r}
  BY DEF Inserted
<1>3. \E r \in reports' : r.id = d.id
  <2>1. CASE \E r \in reports : r.id = d.id
    BY <1>1, <2>1
  <2>2. CASE ~ \E r \in reports : r.id = d.id
    <3>1. \E r \in Inserted(d, Now) : r.id = d.id
      BY <2>2 DEF Inserted
    <3>. QED BY <1>1, <3>1
  <2>. QED BY <2>1, <2>2
<1>4. cycle'[c].draft = cycle[c].draft /\ \A b \in Cycles : b # c => cycle'[b] = cycle[b]
  <2>1. cycle \in [Cycles -> CycleStates] /\ cycle[c] \in CycleStates
    BY DEF PublishingInv, EventTypeInv, TypeOK
  <2>. QED BY <1>1, <2>1 DEF Becomes, CycleStates
<1>. QED BY <1>1, <1>2, <1>3, <1>4

\* The insert keeps the identifiers, the drafts and the alerts in order.
LEMMA SaveReportPublishing ==
  ASSUME PublishingInv, EventTypeInv', NEW c \in Cycles, SaveReport(c)
  PROVE  PublishingInv'
<1>1. PICK d \in cycle[c].draft :
        /\ reports' = reports \cup Inserted(d, Now)
        /\ \A r \in Inserted(d, Now) :
             /\ r.id = d.id /\ r.zone = d.zone /\ r.time = d.time
             /\ r.corrects = d.corrects
             /\ \A o \in reports : o.id # r.id
             /\ Inserted(d, Now) = {r}
        /\ \E r \in reports' : r.id = d.id
        /\ cycle'[c].draft = cycle[c].draft
        /\ \A b \in Cycles : b # c => cycle'[b] = cycle[b]
  BY SaveReportInserts
<1>2. \A b \in Cycles : cycle'[b].draft = cycle[b].draft
  BY <1>1
<1>3. UNCHANGED alerts
  BY DEF SaveReport
<1>4. IdsNameKeys'
  BY <1>1, <1>2 DEF PublishingInv, IdsNameKeys
<1>5. OneDraft' /\ DraftsResolve'
  BY <1>1, <1>2 DEF PublishingInv, OneDraft, DraftsResolve, About
<1>6. PostedAreStored'
  BY <1>1, <1>2 DEF PublishingInv, OneDraft, PostedAreStored
<1>7. AlertsFollowTheLedger'
  BY <1>1, <1>3 DEF PublishingInv, AlertsFollowTheLedger, About
<1>. QED BY <1>4, <1>5, <1>6, <1>7 DEF PublishingInv

\* The post tells Slack of a draft whose row exists: the row is about the
\* draft's key because the identifier names the key.
LEMMA PostAlertPublishing ==
  ASSUME PublishingInv, EventTypeInv', NEW c \in Cycles, PostAlert(c)
  PROVE  PublishingInv'
<1>1. cycle \in [Cycles -> CycleStates] /\ cycle[c] \in CycleStates
  BY DEF PublishingInv, EventTypeInv, TypeOK
<1>2. /\ Becomes(c, NextTrigger(cycle[c], 1, 0)) /\ cycle[c].pc = "posting"
      /\ alerts' = alerts \cup cycle[c].draft /\ UNCHANGED reports
  BY DEF PostAlert
<1>3. cycle'[c].draft = {} /\ \A b \in Cycles : b # c => cycle'[b] = cycle[b]
  <2>1. NextTrigger(cycle[c], 1, 0) \in CycleStates /\ NextTrigger(cycle[c], 1, 0).draft = {}
    BY <1>1, NextTriggerType
  <2>. QED BY <1>1, <1>2, <2>1, CycleUpdate
<1>4. IdsNameKeys' /\ OneDraft' /\ DraftsResolve' /\ PostedAreStored'
  BY <1>2, <1>3 DEF PublishingInv, IdsNameKeys, OneDraft, DraftsResolve, PostedAreStored, About
<1>5. \A d \in cycle[c].draft : \E r \in reports : r.id = d.id /\ About(r) = About(d)
  BY <1>2 DEF PublishingInv, PostedAreStored, IdsNameKeys, About
<1>6. AlertsFollowTheLedger'
  BY <1>2, <1>5 DEF PublishingInv, AlertsFollowTheLedger, About
<1>. QED BY <1>4, <1>6 DEF PublishingInv

LEMMA PublishingStep == PublishingInv /\ [Next]_vars => PublishingInv'
<1> SUFFICES ASSUME PublishingInv, [Next]_vars PROVE PublishingInv'
  OBVIOUS
<1>1. EventTypeInv'
  BY EventTypeStep DEF PublishingInv
<1>2. /\ cycle \in [Cycles -> CycleStates] /\ clock \in Nat /\ history \subseteq Row
      /\ \A c \in Cycles : cycle[c] \in CycleStates
  BY DEF PublishingInv, EventTypeInv, TypeOK, MarketTypeOK
<1>3. CASE UNCHANGED cycleVars
  BY <1>1, <1>3 DEF PublishingInv, IdsNameKeys, OneDraft, DraftsResolve, PostedAreStored,
                    AlertsFollowTheLedger, About, cycleVars
<1>4. ASSUME NEW c \in Cycles, StartCycle(c) PROVE PublishingInv'
  <2> DEFINE s == [Idle EXCEPT !.pc = "reading", !.began = clock,
                               !.unread = {r.zone : r \in history}]
  <2>1. {r.zone : r \in history} \subseteq Zones
    BY <1>2 DEF Row
  <2>2. Idle \in CycleStates /\ Idle.draft = {} /\ "reading" \in PCs
    BY IdleType DEF PCs, Idle
  <2>3. s \in CycleStates /\ s.draft = {}
    BY <1>2, <2>1, <2>2 DEF CycleStates
  <2>4. Becomes(c, s) /\ UNCHANGED <<reports, alerts>>
    BY <1>4 DEF StartCycle
  <2>. HIDE DEF s
  <2>. QED BY <1>1, <2>3, <2>4, DraftGivenUp
<1>5. ASSUME NEW c \in Cycles, NEW z \in Zones, ReadHistory(c, z) PROVE PublishingInv'
  <2>1. UNCHANGED <<reports, alerts>> /\ cycle'[c].pc = "reading"
        /\ cycle'[c].draft = cycle[c].draft
        /\ \A b \in Cycles : b # c => cycle'[b] = cycle[b]
    BY <1>2, <1>5 DEF ReadHistory, Becomes, CycleStates
  <2>. QED BY <1>1, <2>1, DraftsKept
<1>6. ASSUME NEW c \in Cycles, Evaluate(c) PROVE PublishingInv'
  <2>1. UNCHANGED <<reports, alerts>> /\ cycle'[c].pc = "processing"
        /\ cycle'[c].draft = cycle[c].draft
        /\ \A b \in Cycles : b # c => cycle'[b] = cycle[b]
    BY <1>2, <1>6 DEF Evaluate, Becomes, CycleStates
  <2>. QED BY <1>1, <2>1, DraftsKept
<1>7. ASSUME NEW c \in Cycles, TakeTrigger(c) PROVE PublishingInv'
  <2>1. UNCHANGED <<reports, alerts>> /\ cycle'[c].pc = "synthesizing"
        /\ cycle'[c].draft = cycle[c].draft
        /\ \A b \in Cycles : b # c => cycle'[b] = cycle[b]
    BY <1>2, <1>7 DEF TakeTrigger, Becomes, CycleStates
  <2>. QED BY <1>1, <2>1, DraftsKept
<1>8. ASSUME NEW c \in Cycles, EngineFails(c) \/ Crash(c) PROVE PublishingInv'
  <2>1. Becomes(c, Idle) /\ UNCHANGED <<reports, alerts>> /\ Idle.draft = {}
    BY <1>8 DEF EngineFails, Crash, Idle
  <2>. QED BY <1>1, <2>1, IdleType, DraftGivenUp
<1>9. ASSUME NEW c \in Cycles, SynthesisFails(c) \/ SaveReportFails(c)
      PROVE  PublishingInv'
  <2>1. Becomes(c, NextTrigger(cycle[c], 0, 0)) /\ UNCHANGED <<reports, alerts>>
    BY <1>9 DEF SynthesisFails, SaveReportFails
  <2>2. NextTrigger(cycle[c], 0, 0) \in CycleStates /\ NextTrigger(cycle[c], 0, 0).draft = {}
    BY <1>2, NextTriggerType
  <2>. QED BY <1>1, <2>1, <2>2, DraftGivenUp
<1>10. ASSUME NEW c \in Cycles, PostAlertFails(c) PROVE PublishingInv'
  <2>1. Becomes(c, NextTrigger(cycle[c], 1, 0)) /\ UNCHANGED <<reports, alerts>>
    BY <1>10 DEF PostAlertFails
  <2>2. NextTrigger(cycle[c], 1, 0) \in CycleStates /\ NextTrigger(cycle[c], 1, 0).draft = {}
    BY <1>2, NextTriggerType
  <2>. QED BY <1>1, <2>1, <2>2, DraftGivenUp
<1>11. ASSUME NEW c \in Cycles, FinishCycle(c) PROVE PublishingInv'
  <2>1. UNCHANGED <<reports, alerts>> /\ cycle'[c].pc = "idle"
        /\ cycle'[c].draft = cycle[c].draft
        /\ \A b \in Cycles : b # c => cycle'[b] = cycle[b]
    BY <1>2, <1>11 DEF FinishCycle, Becomes, CycleStates
  <2>. QED BY <1>1, <2>1, DraftsKept
<1>12. ASSUME NEW c \in Cycles, Synthesize(c) \/ SaveReport(c) \/ PostAlert(c)
       PROVE  PublishingInv'
  BY <1>1, <1>12, SynthesizePublishing, SaveReportPublishing, PostAlertPublishing
<1>13. CASE UNCHANGED vars
  BY <1>3, <1>13 DEF vars, cycleVars
<1>. QED BY <1>3, <1>4, <1>5, <1>6, <1>7, <1>8, <1>9, <1>10, <1>11, <1>12, <1>13
         DEF Next, Progress, Failure, MarketStep, GateClosed

\* Slack is never told of a report that is not in the ledger under its
\* identifier and about its key, with any number of concurrent runners.
THEOREM AlertsCorrect == Spec => []AlertsFollowTheLedger
<1>1. PublishingInv => AlertsFollowTheLedger
  BY DEF PublishingInv
<1>. QED BY <1>1, PublishingInit, PublishingStep, PTL DEF Spec

-----------------------------------------------------------------------------
(* event_reports implements the abstract ledger.                           *)

\* The entry of a row.
Entry(r) == [id |-> r.id, about |-> About(r), says |-> Says(r), corrects |-> r.corrects]

LEMMA LedgerViewEntries == LedgerView = {Entry(r) : r \in reports}
  BY DEF LedgerView, Entry

LEMMA EntryType ==
  ASSUME NEW r \in Reports
  PROVE  /\ Entry(r) \in Ledger!Entries
         /\ Entry(r).id = r.id /\ Entry(r).about = About(r)
         /\ Entry(r).corrects = r.corrects
<1>1. About(r) \in ReportZones \X Times /\ Says(r) \in TriggerTypes \X Int \X Nat \X Nat
  BY DEF Reports, About, Says
<1>. QED BY <1>1 DEF Entry, Ledger!Entries, Reports

\* A step that leaves event_reports alone is a stutter of the ledger.
LEMMA UnchangedLedger ==
  ASSUME UNCHANGED reports PROVE UNCHANGED LedgerView
  BY DEF LedgerView, About, Says

\* An insert is a step of the ledger, or changes nothing.
LEMMA SaveReportRefines ==
  ASSUME PublishingInv, NEW c \in Cycles, SaveReport(c)
  PROVE  Ledger!Next \/ UNCHANGED LedgerView
<1>1. PICK d \in cycle[c].draft :
        /\ reports' = reports \cup Inserted(d, Now)
        /\ \A r \in Inserted(d, Now) :
             /\ r.id = d.id /\ r.zone = d.zone /\ r.time = d.time
             /\ r.corrects = d.corrects
             /\ \A o \in reports : o.id # r.id
             /\ Inserted(d, Now) = {r}
        /\ \E r \in reports' : r.id = d.id
        /\ cycle'[c].draft = cycle[c].draft
        /\ \A b \in Cycles : b # c => cycle'[b] = cycle[b]
  BY SaveReportInserts
<1>2. reports \subseteq Reports /\ d \in Drafts /\ Now \in Nat
  BY DEF PublishingInv, EventTypeInv, TypeOK, MarketTypeOK, CycleStates, Now
<1>3. CASE Inserted(d, Now) = {}
  BY <1>1, <1>3, UnchangedLedger
<1>4. CASE Inserted(d, Now) # {}
  <2>1. PICK r \in Inserted(d, Now) :
          /\ r.id = d.id /\ About(r) = About(d) /\ r.corrects = d.corrects
          /\ \A o \in reports : o.id # r.id
          /\ reports' = reports \cup {r}
    BY <1>1, <1>4 DEF About
  <2>2. r \in Reports
    BY <1>2, InsertedType
  <2>3. LedgerView' = LedgerView \cup {Entry(r)} /\ Entry(r) \in LedgerView'
    <3>1. LedgerView' = {Entry(x) : x \in reports'}
      BY DEF LedgerView, Entry, About, Says
    <3>. QED BY <2>1, <3>1, LedgerViewEntries
  <2>4. \A o \in LedgerView : o.id # Entry(r).id
    BY <1>2, <2>1, <2>2, EntryType, LedgerViewEntries
  <2>5. Ledger!Append(Entry(r))
    BY <2>2, <2>3, <2>4, EntryType DEF Ledger!Append
  <2>6. CASE d.corrects = NoReport
    <3>1. Ledger!Publish(Entry(r))
      BY <2>1, <2>2, <2>5, <2>6, EntryType DEF Ledger!Publish
    <3>. QED BY <2>3, <3>1 DEF Ledger!Next
  <2>7. CASE d.corrects # NoReport
    <3>1. PICK o \in reports : o.id = d.corrects /\ About(o) = About(d)
      BY <2>7 DEF PublishingInv, DraftsResolve
    <3>2. Entry(o) \in LedgerView /\ Entry(o).id = Entry(r).corrects
            /\ Entry(o).about = Entry(r).about
      BY <1>2, <2>1, <2>2, <3>1, EntryType, LedgerViewEntries
    <3>3. Ledger!Correct(Entry(r), Entry(o))
      BY <2>5, <3>2 DEF Ledger!Correct
    <3>. QED BY <2>3, <3>2, <3>3 DEF Ledger!Next
  <2>. QED BY <2>6, <2>7
<1>. QED BY <1>3, <1>4

\* Every step is a step of the ledger or leaves it alone.
LEMMA LedgerStep ==
  PublishingInv /\ [Next]_vars => [Ledger!Next]_LedgerView
<1> SUFFICES ASSUME PublishingInv, [Next]_vars
             PROVE  Ledger!Next \/ UNCHANGED LedgerView
  OBVIOUS
<1>1. ASSUME NEW c \in Cycles, SaveReport(c)
      PROVE  Ledger!Next \/ UNCHANGED LedgerView
  BY <1>1, SaveReportRefines
<1>2. CASE UNCHANGED reports
  BY <1>2, UnchangedLedger
<1>3. UNCHANGED reports \/ \E c \in Cycles : SaveReport(c)
  BY DEF Next, MarketStep, cycleVars, StartCycle, Progress, ReadHistory, Evaluate,
         TakeTrigger, Synthesize, PostAlert, FinishCycle, Failure, EngineFails,
         SynthesisFails, SaveReportFails, PostAlertFails, Crash, GateClosed, vars
<1>. QED BY <1>1, <1>2, <1>3

\* event_reports is an append-only ledger: whatever the runners do, together or
\* alone, and whichever failures happen, no row ever changes or goes away, a
\* re-used event_id is a no-op, and a correction names a row that was there
\* before it and is about the same key.
THEOREM LedgerCorrect == Spec => ImplementsLedger
<1>1. Init => Ledger!Init
  BY DEF Init, Ledger!Init, LedgerView
<1>2. PublishingInv /\ [Next]_vars => [Ledger!Next]_LedgerView
  BY LedgerStep
<1>. QED BY <1>1, <1>2, PublishingInit, PublishingStep, PTL
         DEF Spec, ImplementsLedger, Ledger!Spec

\* An append keeps the ledger's invariant when the new entry, if it corrects anything,
\* corrects an entry of the ledger about the same key.
LEMMA AppendKeepsLedgerInv ==
  ASSUME Ledger!LedgerInv, NEW e, Ledger!Append(e),
         \/ e.corrects = NoReport
         \/ \E o \in LedgerView : e.corrects = o.id /\ e.about = o.about
  PROVE  Ledger!LedgerInv'
<1>1. /\ LedgerView' = LedgerView \cup {e} /\ e \in Ledger!Entries
      /\ \A o \in LedgerView : o.id # e.id
  BY DEF Ledger!Append
<1>2. Ledger!LedgerTypeOK'
  BY <1>1 DEF Ledger!LedgerInv, Ledger!LedgerTypeOK
<1>3. Ledger!IdsAreUnique'
  BY <1>1 DEF Ledger!LedgerInv, Ledger!IdsAreUnique
<1>4. Ledger!CorrectionsResolve'
  BY <1>1 DEF Ledger!LedgerInv, Ledger!CorrectionsResolve
<1>. QED BY <1>2, <1>3, <1>4 DEF Ledger!LedgerInv

LEMMA LedgerStepKeepsInv ==
  ASSUME Ledger!LedgerInv, [Ledger!Next]_LedgerView PROVE Ledger!LedgerInv'
<1>1. ASSUME NEW e, Ledger!Publish(e) PROVE Ledger!LedgerInv'
  BY <1>1, AppendKeepsLedgerInv DEF Ledger!Publish
<1>2. ASSUME NEW e, NEW o \in LedgerView, Ledger!Correct(e, o) PROVE Ledger!LedgerInv'
  BY <1>2, AppendKeepsLedgerInv DEF Ledger!Correct
<1>3. CASE UNCHANGED LedgerView
  BY <1>3 DEF Ledger!LedgerInv, Ledger!LedgerTypeOK, Ledger!IdsAreUnique, Ledger!CorrectionsResolve
<1>. QED BY <1>1, <1>2, <1>3 DEF Ledger!Next

\* The abstract ledger keeps what a reader of event_reports relies on, for ever:
\* identifiers are unique, and every correction resolves to an entry about the same key.
THEOREM LedgerIsSound == Ledger!Spec => []Ledger!LedgerInv
<1>1. Ledger!Init => Ledger!LedgerInv
  BY DEF Ledger!Init, Ledger!LedgerInv, Ledger!LedgerTypeOK, Ledger!IdsAreUnique,
         Ledger!CorrectionsResolve
<1>. QED BY <1>1, LedgerStepKeepsInv, PTL DEF Ledger!Spec

\* So does the table that implements it, whatever the cycles do.
THEOREM ReportsAreSound == Spec => []Ledger!LedgerInv
BY LedgerCorrect, LedgerIsSound, PTL DEF ImplementsLedger
-----------------------------------------------------------------------------
(* The correction check of process_trigger, when one runner at a time      *)
(* executes cycles: every revision of a key that has a report is a         *)
(* correction, and corrections form a chain.                               *)


\* No two cycles run at once.  Without it the theorems below are false: between
\* the check and the insert another cycle may publish.
SingleRunner == \A b, c \in Cycles : b = c

\* published_at tells the rows apart and is never in the future.
PublishedInOrder ==
  /\ \A r \in reports : r.at <= clock
  /\ \A r, s \in reports : r.at = s.at => r = s

\* event_id is the primary key.
EventIdsUnique == \A r, s \in reports : r.id = s.id => r = s

IsNewest(e) == \A r \in reports : About(r) = About(e) => r.at <= e.at

\* A key that has a report has a newest one.
NewestExists ==
  \A r \in reports : \E e \in reports : About(e) = About(r) /\ IsNewest(e)

\* A correction names an earlier report of its key.
CorrectionsLookBack ==
  \A r \in reports : r.corrects # NoReport =>
    \E e \in reports : e.id = r.corrects /\ About(e) = About(r) /\ e.at < r.at

\* What the correction check found still holds when the draft is inserted.
CheckStillHolds ==
  \A c \in Cycles : cycle[c].pc = "saving" =>
    \A d \in cycle[c].draft :
      /\ d.type = "revision_alert" /\ d.corrects = NoReport
           => \A r \in reports : About(r) # About(d)
      /\ d.corrects # NoReport
           => \E e \in reports : e.id = d.corrects /\ About(e) = About(d) /\ IsNewest(e)

CorrectionInv ==
  /\ PublishingInv
  /\ PublishedInOrder
  /\ EventIdsUnique
  /\ NewestExists
  /\ CorrectionsLookBack
  /\ CheckStillHolds
  /\ RevisionsAreCorrections
  /\ CorrectionsFormAChain

LEMMA CorrectionInit == Init => CorrectionInv
<1> SUFFICES ASSUME Init PROVE CorrectionInv
  OBVIOUS
<1>1. reports = {} /\ \A c \in Cycles : cycle[c].draft = {}
  BY DEF Init, Idle
<1>. QED BY <1>1, PublishingInit
         DEF CorrectionInv, PublishedInOrder, EventIdsUnique, NewestExists, IsNewest,
             CorrectionsLookBack, CheckStillHolds, RevisionsAreCorrections,
             CorrectionsFormAChain

\* Time passes, and no draft that waits to be inserted changes.
LEMMA LedgerUntouched ==
  ASSUME CorrectionInv, PublishingInv', UNCHANGED reports, clock' \in Nat, clock <= clock',
         \A c \in Cycles : cycle'[c].pc = "saving" =>
           cycle[c].pc = "saving" /\ cycle'[c].draft = cycle[c].draft
  PROVE  CorrectionInv'
<1>1. PublishedInOrder'
  <2>1. \A r \in reports : r.at \in Nat
    BY DEF CorrectionInv, PublishingInv, EventTypeInv, TypeOK, Reports
  <2>2. clock \in Nat
    BY DEF CorrectionInv, PublishingInv, EventTypeInv, TypeOK, MarketTypeOK
  <2>. QED BY <2>1, <2>2 DEF CorrectionInv, PublishedInOrder
<1>2. EventIdsUnique' /\ NewestExists' /\ CorrectionsLookBack'
  BY DEF CorrectionInv, EventIdsUnique, NewestExists, IsNewest, CorrectionsLookBack, About
<1>3. CheckStillHolds'
  BY DEF CorrectionInv, CheckStillHolds, IsNewest, About
<1>4. RevisionsAreCorrections' /\ CorrectionsFormAChain'
  BY DEF CorrectionInv, RevisionsAreCorrections, CorrectionsFormAChain, About
<1>. QED BY <1>1, <1>2, <1>3, <1>4 DEF CorrectionInv

\* The correction check: a key without a report has none at all, and the report
\* a correction names is the newest of its key.
LEMMA CheckFinds ==
  ASSUME CorrectionInv, NEW t \in Triggers, NEW n \in Nat, NEW d \in DraftsOf(t, n)
  PROVE  /\ d.type = "revision_alert" /\ d.corrects = NoReport
              => \A r \in reports : About(r) # About(d)
         /\ d.corrects # NoReport
              => \E e \in reports : e.id = d.corrects /\ About(e) = About(d) /\ IsNewest(e)
<1> DEFINE found == find_published_report(t.zone, t.time)
<1>1. \A e \in reports :
        About(e) = <<t.zone, t.time>> /\ IsNewest(e) => e \in found
  BY DEF find_published_report, IsNewest, About
<1>2. \A e \in found : e \in reports /\ About(e) = <<t.zone, t.time>> /\ IsNewest(e)
  BY DEF find_published_report, IsNewest, About
<1>3. \A e \in reports : e.id # NoReport
  BY CycleAssumption DEF CorrectionInv, PublishingInv, EventTypeInv, TypeOK, Reports
<1>4. CASE d = Draft(t, build_event_id(t), NoReport, n)
           /\ (t.type = "revision_alert" => found = {})
  <2>1. d.type = t.type /\ d.corrects = NoReport /\ About(d) = <<t.zone, t.time>>
    BY <1>4 DEF Draft, About
  <2>2. ASSUME t.type = "revision_alert", NEW r \in reports, About(r) = About(d)
        PROVE  FALSE
    <3>1. PICK e \in reports : About(e) = About(r) /\ IsNewest(e)
      BY DEF CorrectionInv, NewestExists
    <3>. QED BY <1>1, <1>4, <2>1, <2>2, <3>1
  <2>. QED BY <2>1, <2>2
<1>5. ASSUME NEW e \in found,
             d = Draft(t, [build_event_id(t) EXCEPT !.suffix = n], e.id, n)
      PROVE  /\ d.corrects = e.id /\ About(d) = About(e) /\ e.id # NoReport
             /\ e \in reports /\ IsNewest(e)
  BY <1>2, <1>3, <1>5 DEF Draft, About
<1>6. \/ d = Draft(t, build_event_id(t), NoReport, n)
         /\ (t.type = "revision_alert" => found = {})
      \/ \E e \in found : d = Draft(t, [build_event_id(t) EXCEPT !.suffix = n], e.id, n)
  BY DEF DraftsOf
<1>. QED BY <1>4, <1>5, <1>6

\* Synthesize runs the check.
LEMMA SynthesizeChecks ==
  ASSUME SingleRunner, CorrectionInv, PublishingInv', NEW c \in Cycles, Synthesize(c)
  PROVE  CorrectionInv'
<1>1. /\ cycle \in [Cycles -> CycleStates] /\ cycle[c] \in CycleStates
      /\ clock \in Nat
  BY DEF CorrectionInv, PublishingInv, EventTypeInv, TypeOK, MarketTypeOK
<1>2. PICK t \in cycle[c].current : \E d \in DraftsOf(t, cycle[c].detected) :
        Becomes(c, [cycle[c] EXCEPT !.pc = "saving", !.draft = {d}])
  BY DEF Synthesize
<1>3. PICK d \in DraftsOf(t, cycle[c].detected) :
        Becomes(c, [cycle[c] EXCEPT !.pc = "saving", !.draft = {d}])
  BY <1>2
<1>4. t \in Triggers /\ cycle[c].detected \in Nat
  BY <1>1 DEF CycleStates
<1>5. cycle'[c].draft = {d} /\ \A b \in Cycles : b = c
  BY <1>1, <1>3 DEF Becomes, CycleStates, SingleRunner
<1>6. UNCHANGED <<reports, clock>>
  BY DEF Synthesize, marketVars
<1>7. CheckStillHolds'
  <2>1. /\ d.type = "revision_alert" /\ d.corrects = NoReport
             => \A r \in reports : About(r) # About(d)
        /\ d.corrects # NoReport
             => \E e \in reports : e.id = d.corrects /\ About(e) = About(d) /\ IsNewest(e)
    BY <1>4, CheckFinds
  <2>. QED BY <1>5, <1>6, <2>1 DEF CheckStillHolds, IsNewest, About
<1>8. PublishedInOrder' /\ EventIdsUnique' /\ NewestExists' /\ CorrectionsLookBack'
  BY <1>6 DEF CorrectionInv, PublishedInOrder, EventIdsUnique, NewestExists, IsNewest,
              CorrectionsLookBack, About
<1>9. RevisionsAreCorrections' /\ CorrectionsFormAChain'
  BY <1>6 DEF CorrectionInv, RevisionsAreCorrections, CorrectionsFormAChain, About
<1>. QED BY <1>7, <1>8, <1>9 DEF CorrectionInv

\* The row an insert adds.
LEMMA InsertedRow ==
  ASSUME NEW d, NEW n, NEW r \in Inserted(d, n)
  PROVE  /\ Inserted(d, n) = {r}
         /\ r.id = d.id /\ About(r) = About(d) /\ r.type = d.type
         /\ r.corrects = d.corrects /\ r.at = n
         /\ \A o \in reports : o.id # r.id
  BY DEF Inserted, About

\* A row is added under a fresh identifier at a later moment than every other,
\* and what the check found still holds: the only runner was busy with it.
LEMMA RowAdded ==
  ASSUME CorrectionInv, NEW d, NEW r,
         reports' = reports \cup {r}, r.at = clock + 1, clock' = clock + 1,
         \A o \in reports : o.id # r.id,
         r.corrects = d.corrects, r.type = d.type, About(r) = About(d),
         d.type = "revision_alert" /\ d.corrects = NoReport
           => \A o \in reports : About(o) # About(d),
         d.corrects # NoReport
           => \E e \in reports : e.id = d.corrects /\ About(e) = About(d) /\ IsNewest(e)
  PROVE  /\ PublishedInOrder' /\ EventIdsUnique' /\ NewestExists' /\ CorrectionsLookBack'
         /\ RevisionsAreCorrections' /\ CorrectionsFormAChain'
<1>1. clock \in Nat /\ \A o \in reports : o.at \in Nat /\ o.at <= clock
  BY DEF CorrectionInv, PublishingInv, EventTypeInv, TypeOK, MarketTypeOK, Reports,
         PublishedInOrder
<1>2. \A o \in reports : o.at < r.at /\ o.at # r.at
  BY <1>1
<1>3. PublishedInOrder'
  BY <1>1, <1>2 DEF CorrectionInv, PublishedInOrder
<1>4. EventIdsUnique'
  BY DEF CorrectionInv, EventIdsUnique
<1>5. NewestExists'
  <2> SUFFICES ASSUME NEW o \in reports'
               PROVE  \E e \in reports' : /\ About(e) = About(o)
                                          /\ \A x \in reports' : About(x) = About(e) => x.at <= e.at
    BY DEF NewestExists, IsNewest, About
  <2>1. CASE About(o) = About(r)
    <3>1. r \in reports' /\ \A x \in reports' : x.at <= r.at
      BY <1>1, <1>2
    <3>. QED BY <2>1, <3>1
  <2>2. CASE About(o) # About(r)
    <3>1. o \in reports
      BY <2>2
    <3>2. PICK e \in reports : About(e) = About(o) /\ IsNewest(e)
      BY <3>1 DEF CorrectionInv, NewestExists
    <3>. QED BY <2>2, <3>2 DEF IsNewest
  <2>. QED BY <2>1, <2>2
<1>6. CorrectionsLookBack'
  <2>1. \A o \in reports : o.corrects # NoReport =>
          \E e \in reports' : e.id = o.corrects /\ About(e) = About(o) /\ e.at < o.at
    BY DEF CorrectionInv, CorrectionsLookBack
  <2>2. r.corrects # NoReport =>
          \E e \in reports' : e.id = r.corrects /\ About(e) = About(r) /\ e.at < r.at
    BY <1>2
  <2>. QED BY <2>1, <2>2 DEF CorrectionsLookBack, About
<1>7. RevisionsAreCorrections'
  <2> SUFFICES ASSUME NEW o \in reports', NEW s \in reports', o.type = "revision_alert",
                      About(s) = About(o), s.at < o.at, o.corrects = NoReport
               PROVE  FALSE
    BY DEF RevisionsAreCorrections, About
  <2>1. CASE o = r
    <3>1. s \in reports
      BY <1>1, <2>1
    <3>. QED BY <2>1, <3>1
  <2>2. CASE o # r
    <3>1. o \in reports /\ s \in reports
      BY <1>1, <1>2, <2>2
    <3>. QED BY <3>1 DEF CorrectionInv, RevisionsAreCorrections
  <2>. QED BY <2>1, <2>2
<1>8. CorrectionsFormAChain'
  <2>1. ASSUME NEW s \in reports, r.corrects # NoReport, s.corrects = r.corrects PROVE FALSE
    <3>1. PICK e \in reports : e.id = r.corrects /\ About(e) = About(r) /\ IsNewest(e)
      BY <2>1
    <3>2. PICK f \in reports : f.id = s.corrects /\ About(f) = About(s) /\ f.at < s.at
      BY <2>1 DEF CorrectionInv, CorrectionsLookBack
    <3>3. e = f
      BY <2>1, <3>1, <3>2 DEF CorrectionInv, EventIdsUnique
    <3>4. s.at <= e.at
      BY <3>1, <3>2, <3>3 DEF IsNewest
    <3>. QED BY <1>1, <3>2, <3>3, <3>4
  <2>2. \A o, s \in reports : o.corrects # NoReport /\ o.corrects = s.corrects => o = s
    BY DEF CorrectionInv, CorrectionsFormAChain
  <2>. QED BY <2>1, <2>2 DEF CorrectionsFormAChain
<1>. QED BY <1>3, <1>4, <1>5, <1>6, <1>7, <1>8

LEMMA SaveReportCorrects ==
  ASSUME SingleRunner, CorrectionInv, PublishingInv', NEW c \in Cycles, SaveReport(c)
  PROVE  CorrectionInv'
<1>1. /\ cycle \in [Cycles -> CycleStates] /\ cycle[c] \in CycleStates
      /\ clock \in Nat /\ clock' = clock + 1 /\ cycle[c].pc = "saving"
  BY DEF CorrectionInv, PublishingInv, EventTypeInv, TypeOK, MarketTypeOK, SaveReport, Now
<1>2. PICK d \in cycle[c].draft :
        /\ reports' = reports \cup Inserted(d, Now)
        /\ Becomes(c, [cycle[c] EXCEPT !.pc = "posting",
                                       !.inserted = @ + Cardinality(Inserted(d, Now))])
  BY DEF SaveReport
<1>3. cycle'[c].pc = "posting" /\ \A b \in Cycles : b = c
  BY <1>1, <1>2 DEF Becomes, CycleStates, SingleRunner
<1>4. CheckStillHolds'
  BY <1>3 DEF CheckStillHolds
<1>5. CASE Inserted(d, Now) = {}
  BY <1>1, <1>2, <1>3, <1>5, LedgerUntouched
<1>6. CASE Inserted(d, Now) # {}
  <2>1. PICK r \in Inserted(d, Now) : TRUE
    BY <1>6
  <2>2. /\ reports' = reports \cup {r} /\ r.at = clock + 1
        /\ \A o \in reports : o.id # r.id
        /\ r.corrects = d.corrects /\ r.type = d.type /\ About(r) = About(d)
    BY <1>2, <2>1, InsertedRow DEF Now
  <2>3. /\ d.type = "revision_alert" /\ d.corrects = NoReport
             => \A o \in reports : About(o) # About(d)
        /\ d.corrects # NoReport
             => \E e \in reports : e.id = d.corrects /\ About(e) = About(d) /\ IsNewest(e)
    BY <1>1 DEF CorrectionInv, CheckStillHolds
  <2>4. /\ PublishedInOrder' /\ EventIdsUnique' /\ NewestExists' /\ CorrectionsLookBack'
        /\ RevisionsAreCorrections' /\ CorrectionsFormAChain'
    BY <1>1, <2>2, <2>3, RowAdded
  <2>. QED BY <1>4, <2>4 DEF CorrectionInv
<1>. QED BY <1>5, <1>6

\* Every other step leaves the ledger alone and prepares no insert.
LEMMA OtherStepCorrects ==
  ASSUME CorrectionInv, PublishingInv', [Next]_vars,
         \A c \in Cycles : ~Synthesize(c) /\ ~SaveReport(c)
  PROVE  CorrectionInv'
<1>1. /\ cycle \in [Cycles -> CycleStates] /\ clock \in Nat /\ clock' \in Nat
      /\ \A c \in Cycles : cycle[c] \in CycleStates
  BY DEF CorrectionInv, PublishingInv, EventTypeInv, TypeOK, MarketTypeOK
<1>2. CASE MarketStep \/ UNCHANGED vars
  <2>1. UNCHANGED <<reports, cycle>>
    BY <1>2 DEF MarketStep, cycleVars, vars
  <2>2. clock <= clock'
    <3>1. ASSUME MarketStep PROVE clock' = clock \/ clock' = clock + 1
      BY <3>1 DEF MarketStep, Publish, Poll, BackfillChunk, Fetched, Save, SaveFails, Now
    <3>2. ASSUME UNCHANGED vars PROVE clock' = clock
      BY <3>2 DEF vars
    <3>. QED BY <1>1, <1>2, <3>1, <3>2
  <2>. QED BY <1>1, <2>1, <2>2, LedgerUntouched
<1>3. ASSUME NEW c \in Cycles, StartCycle(c) \/ Progress(c) \/ Failure(c)
      PROVE  CorrectionInv'
  <2>1. UNCHANGED reports /\ (clock' = clock \/ clock' = clock + 1)
    BY <1>3 DEF StartCycle, Progress, ReadHistory, Evaluate, TakeTrigger, Synthesize, PostAlert,
               FinishCycle, Failure, EngineFails, SynthesisFails, SaveReportFails,
               PostAlertFails, Crash, marketVars, Now
  <2>2. cycle'[c].pc # "saving"
    <3>1. /\ NextTrigger(cycle[c], 0, 0) \in CycleStates
          /\ NextTrigger(cycle[c], 1, 0) \in CycleStates
          /\ NextTrigger(cycle[c], 0, 0).pc = "processing"
          /\ NextTrigger(cycle[c], 1, 0).pc = "processing"
          /\ Idle.pc = "idle" /\ Idle \in CycleStates
      BY <1>1, NextTriggerType, IdleType DEF Idle
    <3>2. CASE StartCycle(c)
      BY <1>1, <3>1, <3>2 DEF StartCycle, Becomes, Idle
    <3>3. CASE \E z \in Zones : ReadHistory(c, z)
      BY <1>1, <3>3 DEF ReadHistory, Becomes, CycleStates
    <3>4. CASE Evaluate(c)
      BY <1>1, <3>4 DEF Evaluate, Becomes, CycleStates
    <3>5. CASE TakeTrigger(c)
      BY <1>1, <3>5 DEF TakeTrigger, Becomes, CycleStates
    <3>6. CASE FinishCycle(c)
      BY <1>1, <3>6 DEF FinishCycle, Becomes, CycleStates
    <3>7. CASE PostAlert(c) \/ PostAlertFails(c) \/ SynthesisFails(c) \/ SaveReportFails(c)
      BY <1>1, <3>1, <3>7, CycleUpdate
         DEF PostAlert, PostAlertFails, SynthesisFails, SaveReportFails
    <3>8. CASE EngineFails(c) \/ Crash(c)
      BY <1>1, <3>1, <3>8, CycleUpdate DEF EngineFails, Crash
    <3>. QED BY <1>3, <3>2, <3>3, <3>4, <3>5, <3>6, <3>7, <3>8 DEF Progress, Failure
  <2>3. \A b \in Cycles : b # c => cycle'[b] = cycle[b]
    BY <1>1, <1>3 DEF StartCycle, Progress, ReadHistory, Evaluate, TakeTrigger, Synthesize,
               PostAlert, FinishCycle, Failure, EngineFails, SynthesisFails, SaveReportFails,
               PostAlertFails, Crash, Becomes
  <2>. QED BY <1>1, <2>1, <2>2, <2>3, LedgerUntouched
<1>. QED BY <1>2, <1>3 DEF Next, GateClosed

LEMMA CorrectionStep ==
  ASSUME SingleRunner PROVE CorrectionInv /\ [Next]_vars => CorrectionInv'
<1> SUFFICES ASSUME CorrectionInv, [Next]_vars PROVE CorrectionInv'
  OBVIOUS
<1>1. PublishingInv'
  BY PublishingStep DEF CorrectionInv
<1>2. CASE \E c \in Cycles : Synthesize(c) \/ SaveReport(c)
  BY <1>1, <1>2, SynthesizeChecks, SaveReportCorrects
<1>3. CASE \A c \in Cycles : ~Synthesize(c) /\ ~SaveReport(c)
  BY <1>1, <1>3, OtherStepCorrects
<1>. QED BY <1>2, <1>3

\* With one runner, a revision of a key that has a report is always published as
\* a correction, whatever the writers do meanwhile and whichever steps fail.
THEOREM RevisionsCorrect ==
  ASSUME SingleRunner PROVE Spec => []RevisionsAreCorrections
<1>1. CorrectionInv /\ [Next]_vars => CorrectionInv'
  BY CorrectionStep
<1>2. CorrectionInv => RevisionsAreCorrections
  BY DEF CorrectionInv
<1>. QED BY <1>1, <1>2, CorrectionInit, PTL DEF Spec

\* With one runner, the corrections of a key form a chain: no report is
\* corrected twice.
THEOREM CorrectionsChain ==
  ASSUME SingleRunner PROVE Spec => []CorrectionsFormAChain
<1>1. CorrectionInv /\ [Next]_vars => CorrectionInv'
  BY CorrectionStep
<1>2. CorrectionInv => CorrectionsFormAChain
  BY DEF CorrectionInv
<1>. QED BY <1>1, <1>2, CorrectionInit, PTL DEF Spec
-----------------------------------------------------------------------------
(* What a cycle leaves behind adds up.                                     *)

\* A runner's books: what it fired it has attempted or still has to, what it works
\* on it fired, and it owes the count one row at most, until the post.
Accounted(s) ==
  /\ s.fired = s.attempted \cup s.pending
  /\ s.pc = "idle" => s.pending = {}
  /\ s.pc = "reading" => s.fired = {}
  /\ s.current \subseteq s.fired
  /\ s.inserted <= s.counted + (IF s.pc = "posting" THEN 1 ELSE 0)

\* save_trigger can fail, and its trigger is worked on all the same.
LogMayFail == "trigger_save" \in Faults

\* The triggers table holds what a runner fired.
Logged(t, when) == LogMayFail \/ [trigger |-> t, detected |-> when] \in triggers

FiredSaved == \A c \in Cycles : \A t \in cycle[c].fired : Logged(t, cycle[c].detected)

\* The trigger a draft or a row explains is in the triggers table.
Traced(d) ==
  LogMayFail \/ \E x \in triggers :
    /\ x.detected = d.detected
    /\ x.trigger.type = d.type
    /\ x.trigger.zone = d.zone
    /\ x.trigger.time = d.time
    /\ x.trigger.value = d.value

AccountInv ==
  /\ EventTypeInv
  /\ \A c \in Cycles : Accounted(cycle[c])
  /\ FiredSaved
  /\ \A c \in Cycles : \A d \in cycle[c].draft : Traced(d)
  /\ \A r \in reports : Traced(r)

LEMMA IdleAccounted == Accounted(Idle) /\ Idle.fired = {} /\ Idle.draft = {}
  BY DEF Accounted, Idle

LEMMA AccountInit == Init => AccountInv
<1> SUFFICES ASSUME Init PROVE AccountInv
  OBVIOUS
<1>1. reports = {} /\ \A c \in Cycles : cycle[c] = Idle
  BY DEF Init
<1>. QED BY <1>1, EventTypeInit, IdleAccounted DEF AccountInv, FiredSaved

\* One runner goes on with its books in order, the tables grow by what is traced.
LEMMA RunnerAccounts ==
  ASSUME AccountInv, EventTypeInv', NEW c \in Cycles, NEW s \in CycleStates, Becomes(c, s),
         Accounted(s), triggers \subseteq triggers',
         \A t \in s.fired : Logged(t, s.detected)',
         \A d \in s.draft : Traced(d)',
         \A r \in reports' : r \in reports \/ Traced(r)'
  PROVE  AccountInv'
<1>1. cycle'[c] = s /\ \A b \in Cycles : b # c => cycle'[b] = cycle[b]
  BY CycleUpdate DEF AccountInv, EventTypeInv, TypeOK
<1>2. \A d : Traced(d) => Traced(d)'
  BY DEF Traced, LogMayFail
<1>3. \A b \in Cycles : Accounted(cycle'[b])
  BY <1>1 DEF AccountInv
<1>4. FiredSaved'
  <2>1. \A t, w : Logged(t, w) => Logged(t, w)'
    BY DEF Logged, LogMayFail
  <2>. QED BY <1>1, <2>1 DEF AccountInv, FiredSaved
<1>5. \A b \in Cycles : \A d \in cycle'[b].draft : Traced(d)'
  BY <1>1, <1>2 DEF AccountInv
<1>6. \A r \in reports' : Traced(r)'
  BY <1>2 DEF AccountInv
<1>7. \A b \in Cycles : Accounted(cycle[b])'
  BY <1>3 DEF Accounted
<1>. QED BY <1>4, <1>5, <1>6, <1>7 DEF AccountInv

\* Leaving a trigger for the next one, with the row it added counted.
LEMMA NextTriggerAccounts ==
  ASSUME NEW s \in CycleStates, Accounted(s), s.pc \in {"synthesizing", "saving", "posting"},
         NEW n \in Nat, n = IF s.pc = "posting" THEN 1 ELSE 0
  PROVE  /\ Accounted(NextTrigger(s, n, 0))
         /\ NextTrigger(s, n, 0).fired = s.fired
         /\ NextTrigger(s, n, 0).detected = s.detected
<1>1. s.counted \in Nat /\ s.inserted \in Nat
  BY DEF CycleStates
<1>2. ASSUME NEW x \in Nat, NEW y \in Nat, y <= x
      PROVE  /\ Accounted([s EXCEPT !.pc = "processing", !.current = {}, !.draft = {},
                                    !.counted = x, !.inserted = y])
             /\ [s EXCEPT !.pc = "processing", !.current = {}, !.draft = {},
                          !.counted = x, !.inserted = y].fired = s.fired
             /\ [s EXCEPT !.pc = "processing", !.current = {}, !.draft = {},
                          !.counted = x, !.inserted = y].detected = s.detected
  BY <1>2 DEF CycleStates, Accounted
<1>3. s.counted + n \in Nat /\ s.inserted + 0 \in Nat /\ s.inserted + 0 <= s.counted + n
  BY <1>1 DEF Accounted
<1>. QED BY <1>2, <1>3 DEF NextTrigger

\* A runner that stops or goes on to its next trigger.
LEMMA LeavingAccounts ==
  ASSUME AccountInv, EventTypeInv', NEW c \in Cycles,
         \/ EngineFails(c) \/ Crash(c) \/ SynthesisFails(c) \/ SaveReportFails(c)
         \/ PostAlert(c) \/ PostAlertFails(c)
  PROVE  AccountInv'
<1>1. cycle[c] \in CycleStates /\ Accounted(cycle[c]) /\ FiredSaved
  BY DEF AccountInv, EventTypeInv, TypeOK
<1>2. UNCHANGED <<reports, triggers>>
  BY DEF EngineFails, Crash, SynthesisFails, SaveReportFails, PostAlert, PostAlertFails
<1>3. CASE EngineFails(c) \/ Crash(c)
  BY <1>2, <1>3, IdleType, IdleAccounted, RunnerAccounts DEF EngineFails, Crash
<1>4. CASE SynthesisFails(c) \/ SaveReportFails(c)
  <2>1. Becomes(c, NextTrigger(cycle[c], 0, 0)) /\ cycle[c].pc \in {"synthesizing", "saving"}
    BY <1>4 DEF SynthesisFails, SaveReportFails
  <2>2. /\ NextTrigger(cycle[c], 0, 0) \in CycleStates
        /\ NextTrigger(cycle[c], 0, 0).draft = {}
        /\ Accounted(NextTrigger(cycle[c], 0, 0))
        /\ NextTrigger(cycle[c], 0, 0).fired = cycle[c].fired
        /\ NextTrigger(cycle[c], 0, 0).detected = cycle[c].detected
    BY <1>1, <2>1, NextTriggerType, NextTriggerAccounts
  <2>. QED BY <1>1, <1>2, <2>1, <2>2, RunnerAccounts DEF FiredSaved, Logged, LogMayFail
<1>5. CASE PostAlert(c) \/ PostAlertFails(c)
  <2>1. Becomes(c, NextTrigger(cycle[c], 1, 0)) /\ cycle[c].pc = "posting"
    BY <1>5 DEF PostAlert, PostAlertFails
  <2>2. /\ NextTrigger(cycle[c], 1, 0) \in CycleStates
        /\ NextTrigger(cycle[c], 1, 0).draft = {}
        /\ Accounted(NextTrigger(cycle[c], 1, 0))
        /\ NextTrigger(cycle[c], 1, 0).fired = cycle[c].fired
        /\ NextTrigger(cycle[c], 1, 0).detected = cycle[c].detected
    BY <1>1, <2>1, NextTriggerType, NextTriggerAccounts
  <2>. QED BY <1>1, <1>2, <2>1, <2>2, RunnerAccounts DEF FiredSaved, Logged, LogMayFail
<1>. QED BY <1>3, <1>4, <1>5

\* Reading the series, taking a trigger, and the end of the cycle.
LEMMA WorkingAccounts ==
  ASSUME AccountInv, EventTypeInv', NEW c \in Cycles,
         \/ StartCycle(c) \/ TakeTrigger(c) \/ FinishCycle(c)
         \/ \E z \in Zones : ReadHistory(c, z)
  PROVE  AccountInv'
<1>1. /\ cycle \in [Cycles -> CycleStates] /\ cycle[c] \in CycleStates /\ Accounted(cycle[c])
      /\ FiredSaved /\ \A d \in cycle[c].draft : Traced(d)
      /\ cycle'[c] \in CycleStates
  BY DEF AccountInv, EventTypeInv, TypeOK
<1>2. UNCHANGED <<reports, triggers>>
  BY DEF StartCycle, TakeTrigger, FinishCycle, ReadHistory
<1>3. /\ Becomes(c, cycle'[c]) /\ Accounted(cycle'[c])
      /\ cycle'[c].fired = {} \/ /\ cycle'[c].fired = cycle[c].fired
                                 /\ cycle'[c].detected = cycle[c].detected
      /\ cycle'[c].draft \subseteq cycle[c].draft
  <2>1. CASE StartCycle(c)
    <3>1. cycle' = [cycle EXCEPT ![c] = [Idle EXCEPT !.pc = "reading", !.began = clock,
                                                     !.unread = {r.zone : r \in history}]]
      BY <2>1 DEF StartCycle, Becomes
    <3>2. cycle'[c] = [Idle EXCEPT !.pc = "reading", !.began = clock,
                                   !.unread = {r.zone : r \in history}]
      BY <1>1, <3>1
    <3>3. Accounted(cycle'[c]) /\ cycle'[c].fired = {} /\ cycle'[c].draft = {}
      BY <3>2 DEF Idle, Accounted
    <3>. QED BY <3>1, <3>2, <3>3 DEF Becomes
  <2>2. ASSUME NEW z \in Zones, ReadHistory(c, z)
        PROVE  /\ Becomes(c, cycle'[c]) /\ Accounted(cycle'[c])
               /\ cycle'[c].fired = cycle[c].fired /\ cycle'[c].detected = cycle[c].detected
               /\ cycle'[c].draft = cycle[c].draft
    <3>1. cycle' = [cycle EXCEPT ![c] = [cycle[c] EXCEPT !.unread = @ \ {z},
                                           !.read[z] = fetch_history(history, z)]]
      BY <2>2 DEF ReadHistory, Becomes
    <3>2. cycle'[c] = [cycle[c] EXCEPT !.unread = @ \ {z},
                                       !.read[z] = fetch_history(history, z)]
      BY <1>1, <3>1
    <3>3. /\ Accounted(cycle'[c])
          /\ cycle'[c].fired = cycle[c].fired /\ cycle'[c].detected = cycle[c].detected
          /\ cycle'[c].draft = cycle[c].draft
      BY <1>1, <3>2 DEF CycleStates, Accounted
    <3>. QED BY <3>1, <3>2, <3>3 DEF Becomes
  <2>3. CASE TakeTrigger(c)
    <3>1. PICK t \in cycle[c].pending :
            cycle' = [cycle EXCEPT ![c] =
                        [cycle[c] EXCEPT !.pc = "synthesizing", !.current = {t},
                                         !.pending = @ \ {t}, !.attempted = @ \cup {t}]]
      BY <2>3 DEF TakeTrigger, Becomes
    <3>2. cycle'[c] = [cycle[c] EXCEPT !.pc = "synthesizing", !.current = {t},
                                       !.pending = @ \ {t}, !.attempted = @ \cup {t}]
      BY <1>1, <3>1
    <3>3. cycle[c].pc = "processing"
      BY <2>3 DEF TakeTrigger
    <3>4. /\ cycle'[c].fired = cycle[c].fired /\ cycle'[c].detected = cycle[c].detected
          /\ cycle'[c].draft = cycle[c].draft /\ cycle'[c].current = {t}
          /\ cycle'[c].pending = cycle[c].pending \ {t} /\ cycle'[c].pc = "synthesizing"
          /\ cycle'[c].attempted = cycle[c].attempted \cup {t}
          /\ cycle'[c].counted = cycle[c].counted /\ cycle'[c].inserted = cycle[c].inserted
      BY <1>1, <3>2 DEF CycleStates
    <3>5. Accounted(cycle'[c])
      BY <1>1, <3>3, <3>4 DEF Accounted
    <3>. QED BY <3>1, <3>2, <3>4, <3>5 DEF Becomes
  <2>4. CASE FinishCycle(c)
    <3>1. cycle' = [cycle EXCEPT ![c] = [cycle[c] EXCEPT !.pc = "idle"]]
          /\ cycle[c].pending = {} /\ cycle[c].pc = "processing"
      BY <2>4 DEF FinishCycle, Becomes
    <3>2. cycle'[c] = [cycle[c] EXCEPT !.pc = "idle"]
      BY <1>1, <3>1
    <3>3. /\ Accounted(cycle'[c])
          /\ cycle'[c].fired = cycle[c].fired /\ cycle'[c].detected = cycle[c].detected
          /\ cycle'[c].draft = cycle[c].draft
      BY <1>1, <3>1, <3>2 DEF CycleStates, Accounted
    <3>. QED BY <3>1, <3>2, <3>3 DEF Becomes
  <2>. QED BY <2>1, <2>2, <2>3, <2>4
<1>4. \A d : Traced(d) => Traced(d)'
  BY <1>2 DEF Traced
<1>5. PICK s \in CycleStates : s = cycle'[c]
  BY <1>1
<1>6. /\ Becomes(c, s) /\ Accounted(s)
      /\ \A t \in s.fired : Logged(t, s.detected)'
      /\ \A d \in s.draft : Traced(d)'
  BY <1>1, <1>2, <1>3, <1>4, <1>5 DEF FiredSaved, Logged, LogMayFail
<1>. QED BY <1>2, <1>6, RunnerAccounts

\* The triggers are fired, and saved unless the insert fails.
LEMMA EvaluateAccounts ==
  ASSUME AccountInv, EventTypeInv', NEW c \in Cycles, Evaluate(c)
  PROVE  AccountInv'
<1>1. /\ cycle \in [Cycles -> CycleStates] /\ cycle[c] \in CycleStates /\ Accounted(cycle[c])
      /\ \A d \in cycle[c].draft : Traced(d)
      /\ cycle'[c] \in CycleStates
  BY DEF AccountInv, EventTypeInv, TypeOK
<1>2. PICK fired : /\ triggers \subseteq triggers'
                   /\ LogMayFail \/ \A t \in fired :
                                     [trigger |-> t, detected |-> Now] \in triggers'
                   /\ Becomes(c, [cycle[c] EXCEPT !.pc = "processing",
                                    !.read = [z \in Zones |-> {}], !.detected = Now,
                                    !.fired = fired, !.pending = fired])
  <2>1. PICK fired \in {FiredBy(c)}, unsaved \in SUBSET FiredBy(c) :
          /\ unsaved # {} => "trigger_save" \in Faults
          /\ triggers' = triggers \cup
               {[trigger |-> t, detected |-> Now] : t \in fired \ unsaved}
          /\ Becomes(c, [cycle[c] EXCEPT !.pc = "processing",
                           !.read = [z \in Zones |-> {}], !.detected = Now,
                           !.fired = fired, !.pending = fired])
    BY DEF Evaluate
  <2>2. LogMayFail \/ fired \ unsaved = fired
    BY <2>1 DEF LogMayFail
  <2>. QED BY <2>1, <2>2
<1>3. cycle'[c] = [cycle[c] EXCEPT !.pc = "processing", !.read = [z \in Zones |-> {}],
                                   !.detected = Now, !.fired = fired, !.pending = fired]
  BY <1>1, <1>2 DEF Becomes
<1>4. /\ cycle'[c].pc = "processing" /\ cycle'[c].detected = Now
      /\ cycle'[c].fired = fired /\ cycle'[c].pending = fired
      /\ cycle'[c].attempted = cycle[c].attempted /\ cycle'[c].current = cycle[c].current
      /\ cycle'[c].draft = cycle[c].draft
      /\ cycle'[c].counted = cycle[c].counted /\ cycle'[c].inserted = cycle[c].inserted
  BY <1>1, <1>3 DEF CycleStates
<1>5. Accounted(cycle'[c])
  <2>1. cycle[c].pc = "reading"
    BY DEF Evaluate
  <2>. QED BY <1>1, <1>4, <2>1 DEF Accounted
<1>6. PICK s \in CycleStates : s = cycle'[c]
  BY <1>1
<1>7. /\ Becomes(c, s) /\ Accounted(s) /\ triggers \subseteq triggers'
      /\ \A t \in s.fired : Logged(t, s.detected)'
  BY <1>2, <1>3, <1>4, <1>5, <1>6 DEF Becomes, Logged, LogMayFail
<1>8. \A d \in s.draft : Traced(d)'
  BY <1>1, <1>4, <1>6, <1>7 DEF Traced
<1>9. UNCHANGED reports
  BY DEF Evaluate
<1>. QED BY <1>7, <1>8, <1>9, RunnerAccounts

\* A draft explains one of the triggers its runner fired.
LEMMA SynthesizeAccounts ==
  ASSUME AccountInv, EventTypeInv', NEW c \in Cycles, Synthesize(c)
  PROVE  AccountInv'
<1>1. /\ cycle \in [Cycles -> CycleStates] /\ cycle[c] \in CycleStates /\ Accounted(cycle[c])
      /\ FiredSaved /\ cycle'[c] \in CycleStates
  BY DEF AccountInv, EventTypeInv, TypeOK
<1>2. PICK t \in cycle[c].current : \E d \in DraftsOf(t, cycle[c].detected) :
        Becomes(c, [cycle[c] EXCEPT !.pc = "saving", !.draft = {d}])
  BY DEF Synthesize
<1>3. PICK d \in DraftsOf(t, cycle[c].detected) :
        Becomes(c, [cycle[c] EXCEPT !.pc = "saving", !.draft = {d}])
  BY <1>2
<1>4. UNCHANGED <<reports, triggers>> /\ cycle[c].pc = "synthesizing"
  BY DEF Synthesize
<1>5. Traced(d)'
  <2>1. Logged(t, cycle[c].detected)
    BY <1>1 DEF Accounted, FiredSaved
  <2>2. /\ d.detected = cycle[c].detected /\ d.type = t.type /\ d.zone = t.zone
        /\ d.time = t.time /\ d.value = t.value
    BY DEF DraftsOf, Draft
  <2>. QED BY <1>4, <2>1, <2>2 DEF Traced, Logged, LogMayFail
<1>6. cycle'[c] = [cycle[c] EXCEPT !.pc = "saving", !.draft = {d}]
  BY <1>1, <1>3 DEF Becomes
<1>7. /\ cycle'[c].fired = cycle[c].fired /\ cycle'[c].detected = cycle[c].detected
      /\ cycle'[c].draft = {d} /\ Accounted(cycle'[c])
  BY <1>1, <1>4, <1>6 DEF CycleStates, Accounted
<1>8. PICK s \in CycleStates : s = cycle'[c]
  BY <1>1
<1>9. /\ Becomes(c, s) /\ Accounted(s)
      /\ \A u \in s.fired : Logged(u, s.detected)'
      /\ \A e \in s.draft : Traced(e)'
  BY <1>1, <1>3, <1>4, <1>5, <1>6, <1>7, <1>8 DEF FiredSaved, Logged, LogMayFail
<1>. QED BY <1>4, <1>9, RunnerAccounts

\* A row explains the trigger its draft does, and is counted at most once.
LEMMA SaveReportAccounts ==
  ASSUME AccountInv, EventTypeInv', NEW c \in Cycles, SaveReport(c)
  PROVE  AccountInv'
<1>1. /\ cycle \in [Cycles -> CycleStates] /\ cycle[c] \in CycleStates /\ Accounted(cycle[c])
      /\ FiredSaved /\ cycle'[c] \in CycleStates /\ \A d \in cycle[c].draft : Traced(d)
  BY DEF AccountInv, EventTypeInv, TypeOK
<1>2. PICK d \in cycle[c].draft :
        /\ reports' = reports \cup Inserted(d, Now)
        /\ Becomes(c, [cycle[c] EXCEPT !.pc = "posting",
                                       !.inserted = @ + Cardinality(Inserted(d, Now))])
  BY DEF SaveReport
<1>3. UNCHANGED triggers /\ cycle[c].pc = "saving"
  BY DEF SaveReport
<1>4. \A r \in Inserted(d, Now) : Traced(r)
  <2>1. \A r \in Inserted(d, Now) : /\ r.detected = d.detected /\ r.type = d.type
                                    /\ r.zone = d.zone /\ r.time = d.time /\ r.value = d.value
    BY DEF Inserted
  <2>2. Traced(d)
    BY <1>1
  <2>. QED BY <2>1, <2>2 DEF Traced
<1>5. Cardinality(Inserted(d, Now)) \in {0, 1}
  <2>1. CASE Inserted(d, Now) = {}
    BY <2>1, FS_EmptySet
  <2>2. CASE Inserted(d, Now) # {}
    <3>1. PICK r : Inserted(d, Now) = {r}
      BY <2>2 DEF Inserted
    <3>2. Cardinality({r}) = 1
      BY FS_Singleton, Zenon
    <3>. QED BY <3>1, <3>2
  <2>. QED BY <2>1, <2>2
<1>6. PICK n \in {0, 1} :
        cycle' = [cycle EXCEPT ![c] = [cycle[c] EXCEPT !.pc = "posting", !.inserted = @ + n]]
  BY <1>2, <1>5 DEF Becomes
<1>7. cycle'[c] = [cycle[c] EXCEPT !.pc = "posting", !.inserted = @ + n]
  BY <1>1, <1>6
<1>8. /\ cycle'[c].fired = cycle[c].fired /\ cycle'[c].detected = cycle[c].detected
      /\ cycle'[c].draft = cycle[c].draft /\ cycle'[c].current = cycle[c].current
      /\ cycle'[c].pending = cycle[c].pending /\ cycle'[c].attempted = cycle[c].attempted
      /\ cycle'[c].pc = "posting" /\ cycle'[c].counted = cycle[c].counted
      /\ cycle'[c].inserted = cycle[c].inserted + n
  BY <1>1, <1>7 DEF CycleStates
<1>9. Accounted(cycle'[c])
  <2>1. cycle[c].inserted \in Nat /\ cycle[c].counted \in Nat
    BY <1>1 DEF CycleStates
  <2>2. cycle'[c].inserted <= cycle'[c].counted + 1
    BY <1>1, <1>3, <1>8, <2>1 DEF Accounted
  <2>. QED BY <1>1, <1>3, <1>8, <2>2 DEF Accounted
<1>10. PICK s \in CycleStates : s = cycle'[c]
  BY <1>1
<1>11. \A e : Traced(e) => Traced(e)'
  BY <1>3 DEF Traced
<1>12. /\ Becomes(c, s) /\ Accounted(s)
       /\ \A u \in s.fired : Logged(u, s.detected)'
       /\ \A e \in s.draft : Traced(e)'
  BY <1>1, <1>3, <1>6, <1>7, <1>8, <1>9, <1>10, <1>11 DEF FiredSaved, Becomes, Logged, LogMayFail
<1>13. \A r \in reports' : r \in reports \/ Traced(r)'
  BY <1>2, <1>4, <1>11
<1>. QED BY <1>3, <1>12, <1>13, RunnerAccounts

LEMMA AccountStep ==
  ASSUME AccountInv, [Next]_vars
  PROVE  AccountInv'
<1>1. EventTypeInv'
  BY EventTypeStep DEF AccountInv
<1>2. CASE UNCHANGED cycleVars
  <2>1. UNCHANGED <<reports, triggers, cycle>>
    BY <1>2 DEF cycleVars
  <2>. QED BY <1>1, <2>1 DEF AccountInv, FiredSaved, Traced, Accounted, Logged, LogMayFail
<1>3. ASSUME NEW c \in Cycles, StartCycle(c) \/ Progress(c) \/ Failure(c) PROVE AccountInv'
  BY <1>1, <1>3, WorkingAccounts, EvaluateAccounts, SynthesizeAccounts, SaveReportAccounts,
     LeavingAccounts DEF Progress, Failure
<1>4. UNCHANGED vars => UNCHANGED cycleVars
  BY DEF vars, cycleVars
<1>. QED BY <1>2, <1>3, <1>4 DEF Next, MarketStep, GateClosed

\* Whatever fails and however many runners there are, a cycle that has ended has
\* attempted every trigger it fired, and counted every row it added (run_synthesis_cycle).
THEOREM BooksCorrect == Spec => [](EveryTriggerAttempted /\ NoUncountedReport)
<1>1. AccountInv /\ [Next]_vars => AccountInv'
  BY AccountStep
<1>2. AccountInv => EveryTriggerAttempted /\ NoUncountedReport
  BY DEF AccountInv, Accounted, EveryTriggerAttempted, NoUncountedReport
<1>. QED BY <1>1, <1>2, AccountInit, PTL DEF Spec

\* As long as save_trigger does not fail, every report also has its trigger in the log:
\* what a cycle leaves behind adds up.
THEOREM AccountsCorrect ==
  ASSUME "trigger_save" \notin Faults PROVE Spec => []CycleAccounts
<1>1. AccountInv /\ [Next]_vars => AccountInv'
  BY AccountStep
<1>2. AccountInv => CycleAccounts
  <2>1. AccountInv => EveryTriggerAttempted /\ NoUncountedReport
    BY DEF AccountInv, Accounted, EveryTriggerAttempted, NoUncountedReport
  <2>2. AccountInv => ReportsHaveTriggers
    BY DEF AccountInv, Traced, LogMayFail, ReportsHaveTriggers
  <2>. QED BY <2>1, <2>2 DEF CycleAccounts
<1>. QED BY <1>1, <1>2, AccountInit, PTL DEF Spec
-----------------------------------------------------------------------------
(* No trigger cites a figure that was superseded when its cycle began.     *)

\* There are finitely many market time units to publish figures for.  Without it
\* a table may be infinite, and the cut of fetch_history has no meaning.
FiniteMarket == IsFiniteSet(Keys)

\* What a cycle has read of a series leaves out no figure that supersedes one it
\* has, unless it was saved after the cycle began.
ReadsCurrent(s) ==
  \A z \in Zones : \A r \in s.read[z] :
    /\ r \in history /\ r.zone = z
    /\ \A n \in RowsOf(<<z, r.time>>) : r.at < n.at /\ n.at <= s.began => n \in s.read[z]

\* What TriggersAreFresh says of one trigger, of a cycle that began then.
FreshTrigger(t, when) ==
  IF t.type = "zone_divergence"
  THEN \E r \in RowsOf(<<"DK1", t.time>>), s \in RowsOf(<<"DK2", t.time>>) :
         /\ t.value = r.value - s.value /\ Fresh(r, when) /\ Fresh(s, when)
  ELSE \E r \in RowsOf(<<t.zone, t.time>>) : t.value = r.value /\ Fresh(r, when)

FreshInv ==
  /\ EventTypeInv
  /\ IsFiniteSet(history)
  /\ \A r \in history : r.at <= clock
  /\ \A c \in Cycles : /\ cycle[c].began <= clock
                       /\ ReadsCurrent(cycle[c])
                       /\ \A t \in cycle[c].fired : FreshTrigger(t, cycle[c].began)

\* The rows a save adds are finitely many.
LEMMA SavedRowsFinite ==
  ASSUME FiniteMarket, NEW batch, NEW stamp
  PROVE  IsFiniteSet(SavedRows(batch, stamp))
<1> DEFINE K == {x \in Keys : batch[x] # 0}
           row(k) == [zone |-> k[1], time |-> k[2], value |-> published[k][batch[k]],
                      at |-> stamp, asOf |-> batch[k]]
           f == [k \in K |-> row(k)]
<1>1. IsFiniteSet(K)
  BY FS_Subset DEF FiniteMarket
<1>2. SavedRows(batch, stamp) = {row(k) : k \in K}
  BY DEF SavedRows
<1> HIDE DEF K, row
<1>3. f \in [K -> SavedRows(batch, stamp)]
  BY <1>2
<1>4. \A r \in SavedRows(batch, stamp) : \E k \in K : f[k] = r
  BY <1>2
<1>5. f \in Surjection(K, SavedRows(batch, stamp))
  BY <1>3, <1>4 DEF Surjection
<1>. QED BY <1>1, <1>5, FS_Surjection

\* fetch_history returns, with a row, every row of its time that was saved later.
LEMMA FetchKeepsNewer ==
  ASSUME history \subseteq Row, IsFiniteSet(history), NEW z \in Zones,
         NEW r \in fetch_history(history, z), NEW n \in history,
         n.zone = z, n.time = r.time, r.at < n.at
  PROVE  n \in fetch_history(history, z)
<1> DEFINE series == {x \in history : x.zone = z}
           ahead(x) == {y \in series : Precedes(y, x)}
<1>2. \A x \in history : x.time \in Nat /\ x.at \in Nat
  BY MarketAssumption DEF Row
<1>3. IsFiniteSet(series)
  BY FS_Subset
<1>4. r \in series /\ n \in series /\ Cardinality(ahead(r)) < HISTORY_FETCH_LIMIT
  BY DEF fetch_history
<1>5. ahead(n) \subseteq ahead(r) /\ ahead(r) \subseteq series
  BY <1>2, <1>4 DEF Precedes
<1>6. IsFiniteSet(ahead(r)) /\ Cardinality(ahead(r)) \in Nat
  BY <1>3, <1>5, FS_Subset, FS_CardinalityType
<1>7. IsFiniteSet(ahead(n)) /\ Cardinality(ahead(n)) <= Cardinality(ahead(r))
  BY <1>5, <1>6, FS_Subset
<1>8. Cardinality(ahead(n)) \in Nat
  BY <1>7, FS_CardinalityType
<1>9. Cardinality(ahead(n)) < HISTORY_FETCH_LIMIT
  <2>1. HISTORY_FETCH_LIMIT \in Nat
    BY ThresholdsAssumption
  <2>. QED BY <1>4, <1>6, <1>7, <1>8, <2>1
<1>. QED BY <1>4, <1>9 DEF fetch_history

\* A row that no other of its time in what was read is newer than is fresh.
LEMMA NewestReadIsFresh ==
  ASSUME NEW s, ReadsCurrent(s), history \subseteq Row, NEW z \in Zones, NEW r \in s.read[z],
         \A n \in s.read[z] : n.time = r.time => n.at <= r.at
  PROVE  r \in RowsOf(<<z, r.time>>) /\ r.zone = z /\ Fresh(r, s.began)
<1>1. r \in history /\ r.zone = z
  BY DEF ReadsCurrent
<1>2. r \in RowsOf(<<z, r.time>>)
  BY <1>1 DEF RowsOf
<1>3. ASSUME NEW n \in RowsOf(<<r.zone, r.time>>), r.at < n.at, n.at <= s.began PROVE FALSE
  <2>1. n \in s.read[z] /\ n \in history /\ n.time = r.time
    BY <1>1, <1>3 DEF ReadsCurrent, RowsOf
  <2>2. n.at \in Nat /\ r.at \in Nat
    BY <1>1, <2>1 DEF Row
  <2>. QED BY <1>3, <2>1, <2>2
<1>. QED BY <1>1, <1>2, <1>3 DEF Fresh, Superseded

\* The three checks of one zone cite fresh figures.
LEMMA ZoneTriggersFresh ==
  ASSUME NEW s, ReadsCurrent(s), history \subseteq Row, NEW z \in Zones,
         NEW t \in check_price_spike(z, s.read[z]) \cup check_negative_or_zero(z, s.read[z])
                     \cup check_revisions(z, s.read[z])
  PROVE  FreshTrigger(t, s.began)
<1>1. \A r \in s.read[z] : r \in history
  BY DEF ReadsCurrent
<1>2. PICK r \in s.read[z] : /\ t.zone = z /\ t.time = r.time /\ t.value = r.value
                             /\ t.type # "zone_divergence"
                             /\ \A n \in s.read[z] : n.time = r.time => n.at <= r.at
  <2>1. CASE t \in check_price_spike(z, s.read[z])
    <3>1. PICK r, up : /\ r \in DedupeLatest(s.read[z])
                       /\ t = Trigger("price_spike", z, r.time, r.value, up)
      BY <2>1 DEF check_price_spike, OutlierTriggers, Latest
    <3>. QED BY <3>1 DEF Trigger, DedupeLatest
  <2>2. CASE t \in check_negative_or_zero(z, s.read[z])
    <3>1. PICK r \in DedupeLatest(s.read[z]) :
            t = Trigger("negative_or_zero_price", z, r.time, r.value, FALSE)
      BY <2>2 DEF check_negative_or_zero, Latest
    <3>. QED BY <3>1 DEF Trigger, DedupeLatest
  <2>3. CASE t \in check_revisions(z, s.read[z])
    <3>1. PICK p \in LastTwo(s.read[z]) :
            t = Trigger("revision_alert", z, p[2].time, p[2].value, p[2].value > p[1].value)
      BY <2>3 DEF check_revisions
    <3>2. /\ p[1] \in s.read[z] /\ p[2] \in s.read[z] /\ p[1].time = p[2].time
          /\ p[1].at < p[2].at
          /\ \A n \in s.read[z] : n.time = p[1].time => n.at <= p[1].at \/ n.at = p[2].at
      BY DEF LastTwo
    <3>3. \A n \in s.read[z] : n.at \in Nat
      BY <1>1 DEF Row
    <3>4. \A n \in s.read[z] : n.time = p[2].time => n.at <= p[2].at
      BY <3>2, <3>3
    <3>5. /\ t.zone = z /\ t.time = p[2].time /\ t.value = p[2].value
          /\ t.type # "zone_divergence"
      BY <3>1 DEF Trigger
    <3>. QED BY <3>2, <3>4, <3>5
  <2>. QED BY <2>1, <2>2, <2>3
<1>3. r \in RowsOf(<<z, r.time>>) /\ Fresh(r, s.began)
  BY <1>2, NewestReadIsFresh
<1>. QED BY <1>2, <1>3 DEF FreshTrigger

\* So does the divergence check, for both of its figures.
LEMMA DivergenceFresh ==
  ASSUME NEW s, ReadsCurrent(s), history \subseteq Row, "DK1" \in Zones, "DK2" \in Zones,
         NEW t \in check_zone_divergence(s.read["DK1"], s.read["DK2"])
  PROVE  FreshTrigger(t, s.began)
<1>1. PICK p \in Paired(DedupeLatest(s.read["DK1"]), DedupeLatest(s.read["DK2"])) :
        \E up : t = Trigger("zone_divergence", DivergenceZone, p[1].time,
                             p[1].value - p[2].value, up)
  <2>1. PICK d \in Differences(Paired(DedupeLatest(s.read["DK1"]), DedupeLatest(s.read["DK2"]))) :
          \E up : t = Trigger("zone_divergence", DivergenceZone, d.time, d.value, up)
    BY DEF check_zone_divergence, OutlierTriggers, Latest
  <2>. QED BY <2>1 DEF Differences
<1>2. /\ p[1] \in DedupeLatest(s.read["DK1"]) /\ p[2] \in DedupeLatest(s.read["DK2"])
      /\ p[1].time = p[2].time
  BY DEF Paired
<1>3. PICK r, q : r = p[1] /\ q = p[2]
  OBVIOUS
<1>4. /\ r \in s.read["DK1"] /\ \A n \in s.read["DK1"] : n.time = r.time => n.at <= r.at
      /\ q \in s.read["DK2"] /\ \A n \in s.read["DK2"] : n.time = q.time => n.at <= q.at
      /\ r.time = q.time
  BY <1>2, <1>3 DEF DedupeLatest
<1>5. /\ r \in RowsOf(<<"DK1", r.time>>) /\ Fresh(r, s.began)
      /\ q \in RowsOf(<<"DK2", q.time>>) /\ Fresh(q, s.began)
  BY <1>4, NewestReadIsFresh
<1>6. t.type = "zone_divergence" /\ t.time = r.time /\ t.value = r.value - q.value
  BY <1>1, <1>3 DEF Trigger
<1>. QED BY <1>4, <1>5, <1>6 DEF FreshTrigger

\* Every trigger fired on what was read cites fresh figures.
LEMMA EngineFresh ==
  ASSUME NEW s, ReadsCurrent(s), history \subseteq Row, NEW zones \in SUBSET Zones,
         NEW t \in run_rule_engine(zones, s.read)
  PROVE  FreshTrigger(t, s.began)
<1>1. CASE \E z \in Zones : t \in check_price_spike(z, s.read[z])
                                    \cup check_negative_or_zero(z, s.read[z])
                                    \cup check_revisions(z, s.read[z])
  BY <1>1, ZoneTriggersFresh
<1>2. CASE /\ "DK1" \in Zones /\ "DK2" \in Zones
           /\ t \in check_zone_divergence(s.read["DK1"], s.read["DK2"])
  BY <1>2, DivergenceFresh
<1>. QED BY <1>1, <1>2 DEF run_rule_engine

\* So does every trigger a cycle fires.
LEMMA FiredFresh ==
  ASSUME NEW c \in Cycles, ReadsCurrent(cycle[c]), history \subseteq Row,
         NEW t \in FiredBy(c)
  PROVE  FreshTrigger(t, cycle[c].began)
<1>1. PICK s : s = cycle[c]
  OBVIOUS
<1>2. PICK zones \in SUBSET Zones : t \in run_rule_engine(zones, s.read)
  BY <1>1 DEF FiredBy
<1>. QED BY <1>1, <1>2, EngineFresh

\* A step of a cycle that reads nothing new.
LEMMA CycleFresh ==
  ASSUME FreshInv, EventTypeInv', NEW c \in Cycles, NEW s \in CycleStates, Becomes(c, s),
         UNCHANGED history, clock' = clock \/ clock' = Now,
         s.began <= clock, ReadsCurrent(s), \A t \in s.fired : FreshTrigger(t, s.began)
  PROVE  FreshInv'
<1>1. cycle'[c] = s /\ \A b \in Cycles : b # c => cycle'[b] = cycle[b]
  BY CycleUpdate DEF FreshInv, EventTypeInv, TypeOK
<1>2. clock \in Nat /\ clock' \in Nat /\ clock <= clock'
  BY DEF FreshInv, EventTypeInv, TypeOK, MarketTypeOK, Now
<1>3. \A b \in Cycles : cycle'[b].began \in Nat /\ cycle'[b].began <= clock
  BY <1>1 DEF FreshInv, EventTypeInv, TypeOK, CycleStates
<1>4. \A r \in history : r.at \in Nat
  BY DEF FreshInv, EventTypeInv, TypeOK, MarketTypeOK, Row
<1>5. \A b \in Cycles : /\ ReadsCurrent(cycle'[b])
                        /\ \A t \in cycle'[b].fired : FreshTrigger(t, cycle'[b].began)
  BY <1>1 DEF FreshInv
<1>6. \A k : RowsOf(k)' = RowsOf(k)
  BY DEF RowsOf
<1>7. \A b \in Cycles : ReadsCurrent(cycle[b])'
  BY <1>5, <1>6 DEF ReadsCurrent, RowsOf
<1>8. \A t, w : FreshTrigger(t, w)' = FreshTrigger(t, w)
  BY DEF FreshTrigger, Fresh, Superseded, RowsOf
<1>9. \A b \in Cycles : \A t \in cycle'[b].fired : FreshTrigger(t, cycle[b].began)'
  BY <1>5 DEF FreshTrigger, Fresh, Superseded, RowsOf
<1>10. (IsFiniteSet(history) /\ \A r \in history : r.at <= clock)'
  BY <1>2, <1>4 DEF FreshInv
<1>. QED BY <1>2, <1>3, <1>7, <1>9, <1>10 DEF FreshInv

\* Rows are added under a stamp later than any cycle's beginning.
LEMMA MarketFresh ==
  ASSUME FiniteMarket, FreshInv, EventTypeInv', MarketStep
  PROVE  FreshInv'
<1>1. UNCHANGED cycle /\ \A c \in Cycles : cycle[c].began \in Nat
  BY DEF MarketStep, cycleVars, FreshInv, EventTypeInv, TypeOK, CycleStates
<1>2. clock \in Nat /\ clock' \in Nat
  BY DEF FreshInv, EventTypeInv, TypeOK, MarketTypeOK
<1>3. \/ UNCHANGED <<history, clock>>
      \/ \E w \in Writers : /\ history' = history \cup SavedRows(writer[w], Now)
                            /\ clock' = Now
  BY DEF MarketStep, Publish, Poll, BackfillChunk, Fetched, Save, SaveFails
<1>4. PICK new : /\ history' = history \cup new /\ IsFiniteSet(new) /\ clock <= clock'
                 /\ \A n \in new : clock < n.at /\ n.at <= clock'
  <2>1. CASE UNCHANGED <<history, clock>>
    <3>1. history' = history \cup {} /\ clock <= clock'
      BY <1>2, <2>1
    <3>. QED BY <3>1, FS_EmptySet
  <2>2. ASSUME NEW w \in Writers, history' = history \cup SavedRows(writer[w], Now),
               clock' = Now
        PROVE  \E new : /\ history' = history \cup new /\ IsFiniteSet(new) /\ clock <= clock'
                        /\ \A n \in new : clock < n.at /\ n.at <= clock'
    <3>1. PICK batch, stamp : batch = writer[w] /\ stamp = Now
      OBVIOUS
    <3>2. IsFiniteSet(SavedRows(batch, stamp))
      BY SavedRowsFinite
    <3>3. \A n \in SavedRows(batch, stamp) : n.at = stamp
      BY DEF SavedRows
    <3>4. stamp = clock + 1
      BY <3>1 DEF Now
    <3>5. history' = history \cup SavedRows(batch, stamp) /\ clock' = stamp
      BY <2>2, <3>1
    <3>6. PICK new : new = SavedRows(batch, stamp)
      OBVIOUS
    <3>. QED BY <1>2, <3>2, <3>3, <3>4, <3>5, <3>6
  <2>. QED BY <1>3, <2>1, <2>2
<1>5. (IsFiniteSet(history) /\ \A r \in history : r.at <= clock)'
  <2>1. IsFiniteSet(history')
    BY <1>4, FS_Union DEF FreshInv
  <2>2. \A r \in history : r.at \in Nat
    BY DEF FreshInv, EventTypeInv, TypeOK, MarketTypeOK, Row
  <2>3. \A r \in history' : r.at <= clock'
    BY <1>2, <1>4, <2>2 DEF FreshInv
  <2>. QED BY <2>1, <2>3
<1>6. \A r \in history' : r.at \in Nat
  BY DEF EventTypeInv, TypeOK, MarketTypeOK, Row
<1>7. ASSUME NEW when \in Nat, when <= clock, NEW t, FreshTrigger(t, when)
      PROVE  FreshTrigger(t, when)'
  <2>1. \A r \in history : Fresh(r, when) => Fresh(r, when)'
    BY <1>2, <1>4, <1>6, <1>7 DEF Fresh, Superseded, RowsOf
  <2>2. \A k : RowsOf(k) \subseteq RowsOf(k)' /\ RowsOf(k) \subseteq history
    BY <1>4 DEF RowsOf
  <2>. QED BY <1>7, <2>1, <2>2 DEF FreshTrigger
<1>8. ASSUME NEW s, s.began \in Nat, s.began <= clock, ReadsCurrent(s)
      PROVE  ReadsCurrent(s)'
  <2> SUFFICES ASSUME NEW z \in Zones, NEW r \in s.read[z]
               PROVE  /\ r \in history' /\ r.zone = z
                      /\ \A n \in history' :
                           n.zone = z /\ n.time = r.time /\ r.at < n.at /\ n.at <= s.began
                             => n \in s.read[z]
    BY DEF ReadsCurrent, RowsOf
  <2>1. r \in history /\ r.zone = z
    BY <1>8 DEF ReadsCurrent
  <2>2. ASSUME NEW n \in history', n.zone = z, n.time = r.time, r.at < n.at, n.at <= s.began
        PROVE  n \in s.read[z]
    <3>1. n \in history
      BY <1>2, <1>4, <1>6, <1>8, <2>2
    <3>. QED BY <1>8, <2>2, <3>1 DEF ReadsCurrent, RowsOf
  <2>. QED BY <1>4, <2>1, <2>2
<1>9. ASSUME NEW c \in Cycles
      PROVE  (/\ cycle[c].began <= clock
              /\ ReadsCurrent(cycle[c])
              /\ \A t \in cycle[c].fired : FreshTrigger(t, cycle[c].began))'
  <2>1. PICK s : s = cycle[c]
    OBVIOUS
  <2>2. /\ s.began \in Nat /\ s.began <= clock /\ ReadsCurrent(s)
        /\ \A t \in s.fired : FreshTrigger(t, s.began)
    BY <1>1, <2>1 DEF FreshInv
  <2>3. s.began <= clock'
    BY <1>2, <1>4, <2>2
  <2>4. ReadsCurrent(s)' /\ \A t \in s.fired : FreshTrigger(t, s.began)'
    BY <1>7, <1>8, <2>2
  <2>5. s = cycle'[c]
    BY <1>1, <2>1
  <2>. QED BY <2>3, <2>4, <2>5 DEF ReadsCurrent, FreshTrigger, Fresh, Superseded, RowsOf
<1>. QED BY <1>5, <1>9 DEF FreshInv

LEMMA FreshInit == ASSUME FiniteMarket PROVE Init => FreshInv
<1> SUFFICES ASSUME Init PROVE FreshInv
  OBVIOUS
<1>1. EventTypeInv
  BY EventTypeInit
<1>2. history = {} /\ clock = 0 /\ IsFiniteSet({})
  BY FS_EmptySet DEF Init, MarketInit
<1>3. \A c \in Cycles : cycle[c] = Idle
  BY DEF Init
<1>4. /\ Idle.began <= 0 /\ Idle.fired = {} /\ \A z \in Zones : Idle.read[z] = {}
  BY DEF Idle
<1>5. ReadsCurrent(Idle)
  BY <1>4 DEF ReadsCurrent
<1>6. \A c \in Cycles : ReadsCurrent(cycle[c])
  BY <1>3, <1>5 DEF ReadsCurrent
<1>. QED BY <1>1, <1>2, <1>3, <1>4, <1>6 DEF FreshInv

\* A cycle begins, is abandoned, or goes on with what it had read and fired.
LEMMA SameReadsFresh ==
  ASSUME FreshInv, EventTypeInv', NEW c \in Cycles, NEW s \in CycleStates, Becomes(c, s),
         UNCHANGED history, clock' = clock \/ clock' = Now,
         \/ /\ s.began <= clock /\ s.fired = {} /\ \A z \in Zones : s.read[z] = {}
         \/ /\ s.began = cycle[c].began /\ s.read = cycle[c].read
            /\ s.fired = cycle[c].fired
  PROVE  FreshInv'
<1>1. /\ cycle[c].began <= clock /\ ReadsCurrent(cycle[c])
      /\ \A t \in cycle[c].fired : FreshTrigger(t, cycle[c].began)
  BY DEF FreshInv
<1>2. /\ s.began <= clock /\ ReadsCurrent(s)
      /\ \A t \in s.fired : FreshTrigger(t, s.began)
  BY <1>1 DEF ReadsCurrent
<1>. QED BY <1>2, CycleFresh

\* The history of one more series is read: every revision saved before the cycle
\* began is there, whatever the limit cuts off.
LEMMA ReadHistoryFresh ==
  ASSUME FreshInv, EventTypeInv', NEW c \in Cycles, NEW z \in Zones, ReadHistory(c, z)
  PROVE  FreshInv'
<1>1. /\ cycle \in [Cycles -> CycleStates] /\ cycle[c] \in CycleStates
      /\ cycle'[c] \in CycleStates
      /\ EventTypeInv /\ IsFiniteSet(history)
      /\ cycle[c].began <= clock /\ ReadsCurrent(cycle[c])
      /\ \A t \in cycle[c].fired : FreshTrigger(t, cycle[c].began)
  BY DEF FreshInv, EventTypeInv, TypeOK
<1>2. cycle' = [cycle EXCEPT ![c] = [cycle[c] EXCEPT !.unread = @ \ {z},
                                       !.read[z] = fetch_history(history, z)]]
  BY DEF ReadHistory, Becomes
<1>3. cycle'[c] = [cycle[c] EXCEPT !.unread = @ \ {z},
                                   !.read[z] = fetch_history(history, z)]
  BY <1>1, <1>2
<1>4. PICK s \in CycleStates : s = cycle'[c]
  BY <1>1
<1>5. PICK got : got = fetch_history(history, z)
  OBVIOUS
<1>6. /\ s.began = cycle[c].began /\ s.fired = cycle[c].fired
      /\ s.read[z] = got
      /\ \A y \in Zones : y # z => s.read[y] = cycle[c].read[y]
  BY <1>1, <1>3, <1>4, <1>5 DEF CycleStates
<1>7. \A r \in got : r \in history /\ r.zone = z
  BY <1>5 DEF fetch_history
<1>8. \A r \in got : \A n \in RowsOf(<<z, r.time>>) : r.at < n.at => n \in got
  <2>1. history \subseteq Row /\ IsFiniteSet(history)
    BY DEF FreshInv, EventTypeInv, TypeOK, MarketTypeOK
  <2>. QED BY <1>1, <1>5, <2>1, FetchKeepsNewer DEF RowsOf
<1>9. ReadsCurrent(s)
  <2>1. ASSUME NEW y \in Zones, NEW r \in s.read[y]
        PROVE  /\ r \in history /\ r.zone = y
               /\ \A n \in RowsOf(<<y, r.time>>) :
                    r.at < n.at /\ n.at <= s.began => n \in s.read[y]
    <3>1. CASE y = z
      BY <1>6, <1>7, <1>8, <2>1, <3>1
    <3>2. CASE y # z
      BY <1>1, <1>6, <2>1, <3>2 DEF ReadsCurrent
    <3>. QED BY <3>1, <3>2
  <2>. QED BY <2>1 DEF ReadsCurrent
<1>10. Becomes(c, s) /\ UNCHANGED history /\ UNCHANGED clock
  BY <1>2, <1>3, <1>4 DEF Becomes, ReadHistory, marketVars
<1>11. s.began <= clock /\ \A t \in s.fired : FreshTrigger(t, s.began)
  BY <1>1, <1>6
<1>. QED BY <1>9, <1>10, <1>11, CycleFresh

\* The rule engine runs on what was read.
LEMMA EvaluateFresh ==
  ASSUME FreshInv, EventTypeInv', NEW c \in Cycles, Evaluate(c)
  PROVE  FreshInv'
<1>1. /\ cycle \in [Cycles -> CycleStates] /\ cycle[c] \in CycleStates
      /\ cycle'[c] \in CycleStates /\ history \subseteq Row
      /\ cycle[c].began <= clock /\ ReadsCurrent(cycle[c])
  BY DEF FreshInv, EventTypeInv, TypeOK, MarketTypeOK
<1>2. PICK fired : /\ fired = FiredBy(c)
                   /\ cycle' = [cycle EXCEPT ![c] =
                        [cycle[c] EXCEPT !.pc = "processing", !.read = [z \in Zones |-> {}],
                                         !.detected = Now, !.fired = fired,
                                         !.pending = fired]]
  BY DEF Evaluate, Becomes
<1>3. cycle'[c] = [cycle[c] EXCEPT !.pc = "processing", !.read = [z \in Zones |-> {}],
                                   !.detected = Now, !.fired = fired, !.pending = fired]
  BY <1>1, <1>2
<1>4. PICK s \in CycleStates : s = cycle'[c]
  BY <1>1
<1>5. /\ s.began = cycle[c].began /\ s.fired = fired
      /\ \A z \in Zones : s.read[z] = {}
  BY <1>1, <1>3, <1>4 DEF CycleStates
<1>6. ReadsCurrent(s)
  BY <1>5 DEF ReadsCurrent
<1>7. \A t \in fired : FreshTrigger(t, cycle[c].began)
  BY <1>1, <1>2, FiredFresh
<1>8. \A t \in s.fired : FreshTrigger(t, s.began)
  BY <1>5, <1>7
<1>9. Becomes(c, s) /\ UNCHANGED history /\ clock' = Now
  BY <1>2, <1>3, <1>4 DEF Becomes, Evaluate
<1>. QED BY <1>1, <1>5, <1>6, <1>8, <1>9, CycleFresh

\* What the other steps of a cycle do to what it has read and fired.
LEMMA OtherStepReads ==
  ASSUME FreshInv, NEW c \in Cycles,
         \/ StartCycle(c) \/ TakeTrigger(c) \/ Synthesize(c) \/ SaveReport(c) \/ PostAlert(c)
         \/ FinishCycle(c) \/ Failure(c)
  PROVE  /\ UNCHANGED history /\ (clock' = clock \/ clock' = Now)
         /\ Becomes(c, cycle'[c])
         /\ \/ /\ cycle'[c].began <= clock /\ cycle'[c].fired = {}
               /\ \A z \in Zones : cycle'[c].read[z] = {}
            \/ /\ cycle'[c].began = cycle[c].began /\ cycle'[c].read = cycle[c].read
               /\ cycle'[c].fired = cycle[c].fired
<1>1. cycle \in [Cycles -> CycleStates] /\ cycle[c] \in CycleStates /\ clock \in Nat
  BY DEF FreshInv, EventTypeInv, TypeOK, MarketTypeOK
<1>2. UNCHANGED history /\ (clock' = clock \/ clock' = Now)
  BY DEF StartCycle, TakeTrigger, Synthesize, SaveReport, PostAlert, FinishCycle, Failure,
         EngineFails, SynthesisFails, SaveReportFails, PostAlertFails, Crash, marketVars
<1>3. CASE StartCycle(c)
  <2>1. cycle' = [cycle EXCEPT ![c] = [Idle EXCEPT !.pc = "reading", !.began = clock,
                                                   !.unread = {r.zone : r \in history}]]
    BY <1>3 DEF StartCycle, Becomes
  <2>2. cycle'[c] = [Idle EXCEPT !.pc = "reading", !.began = clock,
                                 !.unread = {r.zone : r \in history}]
    BY <1>1, <2>1
  <2>3. /\ cycle'[c].began = clock /\ cycle'[c].fired = {}
        /\ \A z \in Zones : cycle'[c].read[z] = {}
    BY <2>2 DEF Idle
  <2>. QED BY <1>1, <1>2, <2>1, <2>2, <2>3 DEF Becomes
<1>4. CASE EngineFails(c) \/ Crash(c)
  <2>1. cycle' = [cycle EXCEPT ![c] = Idle]
    BY <1>4 DEF EngineFails, Crash, Becomes
  <2>2. cycle'[c] = Idle
    BY <1>1, <2>1
  <2>3. Idle.began <= clock /\ Idle.fired = {} /\ \A z \in Zones : Idle.read[z] = {}
    BY <1>1 DEF Idle
  <2>. QED BY <1>2, <2>1, <2>2, <2>3 DEF Becomes
<1>5. CASE \/ TakeTrigger(c) \/ Synthesize(c) \/ SaveReport(c) \/ PostAlert(c)
           \/ FinishCycle(c) \/ SynthesisFails(c) \/ SaveReportFails(c) \/ PostAlertFails(c)
  <2>1. /\ Becomes(c, cycle'[c])
        /\ cycle'[c].began = cycle[c].began /\ cycle'[c].read = cycle[c].read
        /\ cycle'[c].fired = cycle[c].fired
    <3>1. CASE TakeTrigger(c)
      <4>1. PICK t : cycle' = [cycle EXCEPT ![c] =
                       [cycle[c] EXCEPT !.pc = "synthesizing", !.current = {t},
                                        !.pending = @ \ {t}, !.attempted = @ \cup {t}]]
        BY <3>1 DEF TakeTrigger, Becomes
      <4>2. cycle'[c] = [cycle[c] EXCEPT !.pc = "synthesizing", !.current = {t},
                                        !.pending = @ \ {t}, !.attempted = @ \cup {t}]
        BY <1>1, <4>1
      <4>. QED BY <1>1, <4>1, <4>2 DEF CycleStates, Becomes
    <3>2. CASE Synthesize(c)
      <4>1. PICK d : cycle' = [cycle EXCEPT ![c] =
                       [cycle[c] EXCEPT !.pc = "saving", !.draft = {d}]]
        BY <3>2 DEF Synthesize, Becomes
      <4>2. cycle'[c] = [cycle[c] EXCEPT !.pc = "saving", !.draft = {d}]
        BY <1>1, <4>1
      <4>. QED BY <1>1, <4>1, <4>2 DEF CycleStates, Becomes
    <3>3. CASE SaveReport(c)
      <4>1. PICK n : cycle' = [cycle EXCEPT ![c] =
                       [cycle[c] EXCEPT !.pc = "posting", !.inserted = n]]
        BY <3>3 DEF SaveReport, Becomes
      <4>2. cycle'[c] = [cycle[c] EXCEPT !.pc = "posting", !.inserted = n]
        BY <1>1, <4>1
      <4>. QED BY <1>1, <4>1, <4>2 DEF CycleStates, Becomes
    <3>4. CASE FinishCycle(c)
      <4>1. cycle' = [cycle EXCEPT ![c] =
                       [cycle[c] EXCEPT !.pc = "idle"]]
        BY <3>4 DEF FinishCycle, Becomes
      <4>2. cycle'[c] = [cycle[c] EXCEPT !.pc = "idle"]
        BY <1>1, <4>1
      <4>. QED BY <1>1, <4>1, <4>2 DEF CycleStates, Becomes
    <3>5. CASE SynthesisFails(c) \/ SaveReportFails(c) \/ PostAlert(c) \/ PostAlertFails(c)
      <4>1. PICK n, m : cycle' = [cycle EXCEPT ![c] = NextTrigger(cycle[c], n, m)]
        BY <3>5 DEF SynthesisFails, SaveReportFails, PostAlert, PostAlertFails, Becomes
      <4>2. PICK s : s = cycle[c] /\ s \in CycleStates
        BY <1>1
      <4>3. /\ NextTrigger(s, n, m).began = s.began /\ NextTrigger(s, n, m).read = s.read
            /\ NextTrigger(s, n, m).fired = s.fired
        BY <4>2 DEF NextTrigger, CycleStates
      <4>4. cycle'[c] = NextTrigger(s, n, m) /\ cycle' = [cycle EXCEPT ![c] = cycle'[c]]
        BY <1>1, <4>1, <4>2
      <4>. QED BY <4>2, <4>3, <4>4 DEF Becomes
    <3>. QED BY <1>5, <3>1, <3>2, <3>3, <3>4, <3>5
  <2>. QED BY <1>2, <2>1
<1>. QED BY <1>3, <1>4, <1>5 DEF Failure

LEMMA FreshStep ==
  ASSUME FiniteMarket, FreshInv, [Next]_vars PROVE FreshInv'
<1>1. EventTypeInv'
  BY EventTypeStep DEF FreshInv
<1>2. CASE MarketStep
  BY <1>1, <1>2, MarketFresh
<1>3. ASSUME NEW c \in Cycles, StartCycle(c) \/ Progress(c) \/ Failure(c) PROVE FreshInv'
  <2>1. CASE \/ StartCycle(c) \/ TakeTrigger(c) \/ Synthesize(c) \/ SaveReport(c)
             \/ PostAlert(c) \/ FinishCycle(c) \/ Failure(c)
    <3>1. PICK s \in CycleStates : s = cycle'[c]
      BY <1>1 DEF EventTypeInv, TypeOK
    <3>2. /\ UNCHANGED history /\ (clock' = clock \/ clock' = Now)
          /\ Becomes(c, s)
          /\ \/ s.began <= clock /\ s.fired = {} /\ \A z \in Zones : s.read[z] = {}
             \/ /\ s.began = cycle[c].began /\ s.read = cycle[c].read
                /\ s.fired = cycle[c].fired
      BY <2>1, <3>1, OtherStepReads
    <3>. QED BY <1>1, <3>2, SameReadsFresh
  <2>. QED BY <1>1, <1>3, <2>1, ReadHistoryFresh, EvaluateFresh DEF Progress
<1>4. CASE UNCHANGED vars
  <2>1. UNCHANGED <<history, clock, cycle>>
    BY <1>4 DEF vars
  <2>. QED BY <1>1, <2>1 DEF FreshInv, ReadsCurrent, FreshTrigger, Fresh, Superseded, RowsOf
<1>. QED BY <1>2, <1>3, <1>4 DEF Next, GateClosed

\* Whatever is saved while a cycle runs, and however many cycles run, no trigger cites
\* a figure that had been superseded when its cycle began.
THEOREM TriggersFresh == ASSUME FiniteMarket PROVE Spec => []TriggersAreFresh
<1>1. FreshInv /\ [Next]_vars => FreshInv'
  BY FreshStep
<1>2. FreshInv => TriggersAreFresh
  BY DEF FreshInv, TriggersAreFresh, FreshTrigger
<1>. QED BY <1>1, <1>2, FreshInit, PTL DEF Spec
-----------------------------------------------------------------------------
(* The checks of a series depend on its figures only.                      *)

\* Two series have the same figure for every time.
SameFigures(D, E) ==
  /\ \A r \in D : \E s \in E : s.time = r.time /\ s.value = r.value
  /\ \A s \in E : \E r \in D : r.time = s.time /\ r.value = s.value

\* What _dedupe_latest_per_time returns: one figure for each time.
IsSeries(D) == /\ \A r \in D : r.time \in Int
               /\ \A r, s \in D : r.time = s.time => r = s

\* They have as many points.
LEMMA SameCount ==
  ASSUME NEW D, NEW E, IsFiniteSet(D), IsSeries(D), IsSeries(E), SameFigures(D, E)
  PROVE  IsFiniteSet(E) /\ Cardinality(E) = Cardinality(D)
<1> DEFINE f == [r \in D |-> CHOOSE s \in E : s.time = r.time]
<1>1. ASSUME NEW r \in D PROVE f[r] \in E /\ f[r].time = r.time
  <2>1. \E s \in E : s.time = r.time
    BY DEF SameFigures
  <2>. QED BY <2>1
<1>2. \A s \in E : \E r \in D : f[r] = s
  <2> SUFFICES ASSUME NEW s \in E PROVE \E r \in D : f[r] = s
    OBVIOUS
  <2>1. PICK r \in D : r.time = s.time
    BY DEF SameFigures
  <2>2. f[r] = s
    <3> HIDE DEF f
    <3>. QED BY <1>1, <2>1 DEF IsSeries
  <2>. QED BY <2>2
<1>3. f \in [D -> E]
  <2>1. \A r \in D : f[r] \in E
    BY <1>1
  <2>. QED BY <2>1
<1>4. \A r, s \in D : f[r] = f[s] => r = s
  <2> HIDE DEF f
  <2>. QED BY <1>1 DEF IsSeries
<1>5. f \in Bijection(D, E)
  <2> HIDE DEF f
  <2>. QED BY <1>2, <1>3, <1>4 DEF Bijection, Injection, Surjection, IsInjective
<1>. QED BY <1>5, FS_Bijection DEF ExistsBijection

\* Their newest points, and what is before them, have the same figures too.
LEMMA SameParts ==
  ASSUME NEW D, NEW E, IsSeries(D), IsSeries(E), SameFigures(D, E)
  PROVE  /\ SameFigures(Latest(D), Latest(E))
         /\ SameFigures(History(D), History(E))
         /\ IsSeries(History(D)) /\ IsSeries(History(E))
<1>1. \A r \in D, s \in E : r.time = s.time => (r \in Latest(D) <=> s \in Latest(E))
  <2> SUFFICES ASSUME NEW r \in D, NEW s \in E, r.time = s.time
               PROVE  r \in Latest(D) <=> s \in Latest(E)
    OBVIOUS
  <2>1. ASSUME r \in Latest(D) PROVE s \in Latest(E)
    BY <2>1 DEF Latest, SameFigures
  <2>2. ASSUME s \in Latest(E) PROVE r \in Latest(D)
    BY <2>2 DEF Latest, SameFigures
  <2>. QED BY <2>1, <2>2
<1>2. Latest(D) \subseteq D /\ Latest(E) \subseteq E
  BY DEF Latest
<1>3. SameFigures(Latest(D), Latest(E))
  <2>1. ASSUME NEW r \in Latest(D)
        PROVE  \E s \in Latest(E) : s.time = r.time /\ s.value = r.value
    BY <1>1, <1>2 DEF SameFigures
  <2>2. ASSUME NEW s \in Latest(E)
        PROVE  \E r \in Latest(D) : r.time = s.time /\ r.value = s.value
    BY <1>1, <1>2 DEF SameFigures
  <2>. QED BY <2>1, <2>2 DEF SameFigures
<1>4. SameFigures(History(D), History(E))
  <2>1. ASSUME NEW r \in History(D)
        PROVE  \E s \in History(E) : s.time = r.time /\ s.value = r.value
    BY <1>1 DEF SameFigures, History
  <2>2. ASSUME NEW s \in History(E)
        PROVE  \E r \in History(D) : r.time = s.time /\ r.value = s.value
    BY <1>1 DEF SameFigures, History
  <2>. QED BY <2>1, <2>2 DEF SameFigures
<1>5. IsSeries(History(D)) /\ IsSeries(History(E))
  BY DEF IsSeries, History
<1>. QED BY <1>3, <1>4, <1>5

\* As dicts they are equal.
LEMMA SameDict ==
  ASSUME NEW D, NEW E, IsSeries(D), IsSeries(E), SameFigures(D, E)
  PROVE  Figures(D) = Figures(E)
<1> DEFINE at(S, t) == CHOOSE r \in S : r.time = t
<1>1. {r.time : r \in D} = {s.time : s \in E}
  BY DEF SameFigures
<1>2. ASSUME NEW t \in {r.time : r \in D} PROVE at(D, t).value = at(E, t).value
  <2>1. at(D, t) \in D /\ at(D, t).time = t
    OBVIOUS
  <2>2. at(E, t) \in E /\ at(E, t).time = t
    BY <1>1
  <2>3. PICK r, s : r = at(D, t) /\ s = at(E, t)
    OBVIOUS
  <2>4. r \in D /\ s \in E /\ r.time = s.time
    BY <2>1, <2>2, <2>3
  <2>5. PICK q \in E : q.time = r.time /\ q.value = r.value
    BY <2>4 DEF SameFigures
  <2>6. q = s
    BY <2>4, <2>5 DEF IsSeries
  <2>. QED BY <2>3, <2>5, <2>6
<1>3. PICK T : T = {r.time : r \in D} /\ T = {s.time : s \in E}
  BY <1>1
<1>4. Figures(D) = [t \in T |-> at(D, t).value] /\ Figures(E) = [t \in T |-> at(E, t).value]
  BY <1>3, Zenon DEF Figures
<1>5. \A t \in T : at(D, t).value = at(E, t).value
  BY <1>2, <1>3
<1> HIDE DEF at
<1>. QED BY <1>4, <1>5

\* A z-score check fires the same triggers.
LEMMA SameOutliers ==
  ASSUME NEW D, NEW E, NEW type, NEW zone,
         IsFiniteSet(D), IsSeries(D), IsSeries(E), SameFigures(D, E)
  PROVE  OutlierTriggers(type, zone, D) = OutlierTriggers(type, zone, E)
<1>1. PICK past : past = Figures(History(D)) /\ past = Figures(History(E))
  BY SameParts, SameDict
<1>2. EnoughHistory(D) <=> EnoughHistory(E)
  BY SameCount DEF EnoughHistory
<1>3. SameFigures(Latest(D), Latest(E))
  BY SameParts
<1> DEFINE fires(S) == {Trigger(type, zone, r.time, r.value, AboveMean(r.value, past)) :
                          r \in {x \in Latest(S) : EnoughHistory(S) /\ Outlier(x.value, past)}}
<1>4. OutlierTriggers(type, zone, D) = fires(D) /\ OutlierTriggers(type, zone, E) = fires(E)
  BY <1>1 DEF OutlierTriggers
<1>5. ASSUME NEW t \in fires(D) PROVE t \in fires(E)
  <2>1. PICK r \in Latest(D) :
          /\ EnoughHistory(D) /\ Outlier(r.value, past)
          /\ t = Trigger(type, zone, r.time, r.value, AboveMean(r.value, past))
    OBVIOUS
  <2>2. PICK s \in Latest(E) : s.time = r.time /\ s.value = r.value
    BY <1>3 DEF SameFigures
  <2>. QED BY <1>2, <2>1, <2>2
<1>6. ASSUME NEW t \in fires(E) PROVE t \in fires(D)
  <2>1. PICK s \in Latest(E) :
          /\ EnoughHistory(E) /\ Outlier(s.value, past)
          /\ t = Trigger(type, zone, s.time, s.value, AboveMean(s.value, past))
    OBVIOUS
  <2>2. PICK r \in Latest(D) : r.time = s.time /\ r.value = s.value
    BY <1>3 DEF SameFigures
  <2>. QED BY <1>2, <2>1, <2>2
<1> HIDE DEF fires
<1>. QED BY <1>4, <1>5, <1>6

\* So does the check for a rare non-positive figure.
LEMMA SameNonPositive ==
  ASSUME NEW rows, NEW others, NEW zone,
         IsFiniteSet(DedupeLatest(rows)), IsSeries(DedupeLatest(rows)),
         IsSeries(DedupeLatest(others)),
         SameFigures(DedupeLatest(rows), DedupeLatest(others))
  PROVE  check_negative_or_zero(zone, rows) = check_negative_or_zero(zone, others)
<1>1. PICK D, E : D = DedupeLatest(rows) /\ E = DedupeLatest(others)
  OBVIOUS
<1>2. IsFiniteSet(D) /\ IsSeries(D) /\ IsSeries(E) /\ SameFigures(D, E)
  BY <1>1
<1>3. PICK past : past = Figures(History(D)) /\ past = Figures(History(E))
  BY <1>2, SameParts, SameDict
<1>4. EnoughHistory(D) <=> EnoughHistory(E)
  BY <1>2, SameCount DEF EnoughHistory
<1>5. SameFigures(Latest(D), Latest(E))
  BY <1>2, SameParts
<1> DEFINE rare == RATE_DENOMINATOR * Cardinality({t \in DOMAIN past : past[t] <= 0})
                     < Cardinality(DOMAIN past)
           fires(S) == {Trigger("negative_or_zero_price", zone, r.time, r.value, FALSE) :
                          r \in {x \in Latest(S) : EnoughHistory(S) /\ x.value <= 0 /\ rare}}
<1>6. /\ check_negative_or_zero(zone, rows) = fires(D)
      /\ check_negative_or_zero(zone, others) = fires(E)
  BY <1>1, <1>3 DEF check_negative_or_zero
<1> HIDE DEF rare
<1>7. ASSUME NEW t \in fires(D) PROVE t \in fires(E)
  <2>1. PICK r \in Latest(D) :
          /\ EnoughHistory(D) /\ r.value <= 0 /\ rare
          /\ t = Trigger("negative_or_zero_price", zone, r.time, r.value, FALSE)
    OBVIOUS
  <2>2. PICK s \in Latest(E) : s.time = r.time /\ s.value = r.value
    BY <1>5 DEF SameFigures
  <2>. QED BY <1>4, <2>1, <2>2
<1>8. ASSUME NEW t \in fires(E) PROVE t \in fires(D)
  <2>1. PICK s \in Latest(E) :
          /\ EnoughHistory(E) /\ s.value <= 0 /\ rare
          /\ t = Trigger("negative_or_zero_price", zone, s.time, s.value, FALSE)
    OBVIOUS
  <2>2. PICK r \in Latest(D) : r.time = s.time /\ r.value = s.value
    BY <1>5 DEF SameFigures
  <2>. QED BY <1>4, <2>1, <2>2
<1> HIDE DEF fires
<1>. QED BY <1>6, <1>7, <1>8

\* The differences of two series are a series, with one point for a time of both.
LEMMA DifferencesAre ==
  ASSUME NEW D, NEW F, IsFiniteSet(D), IsSeries(D), IsSeries(F)
  PROVE  /\ IsSeries(Differences(Paired(D, F)))
         /\ IsFiniteSet(Differences(Paired(D, F)))
         /\ \A d \in Differences(Paired(D, F)) :
              \E r \in D, s \in F : /\ r.time = s.time
                                    /\ d.time = r.time /\ d.value = r.value - s.value
         /\ \A r \in D, s \in F : r.time = s.time =>
              \E d \in Differences(Paired(D, F)) : /\ d.time = r.time
                                                   /\ d.value = r.value - s.value
<1>1. PICK L : L = Differences(Paired(D, F))
  OBVIOUS
<1>2. ASSUME NEW d \in L
      PROVE  \E r \in D, s \in F : /\ r.time = s.time
                                   /\ d = [time |-> r.time, value |-> r.value - s.value]
  <2>1. PICK p \in Paired(D, F) : d = [time |-> p[1].time, value |-> p[1].value - p[2].value]
    BY <1>1 DEF Differences
  <2>2. p[1] \in D /\ p[2] \in F /\ p[1].time = p[2].time
    BY DEF Paired
  <2>. QED BY <2>1, <2>2
<1>3. ASSUME NEW r \in D, NEW s \in F, r.time = s.time
      PROVE  [time |-> r.time, value |-> r.value - s.value] \in L
  <2>1. <<r, s>> \in Paired(D, F)
    BY <1>3 DEF Paired
  <2>2. PICK p \in Paired(D, F) : p[1] = r /\ p[2] = s
    BY <2>1
  <2>3. [time |-> p[1].time, value |-> p[1].value - p[2].value] \in L
    BY <1>1 DEF Differences
  <2>. QED BY <2>2, <2>3
<1>4. IsSeries(L)
  <2>1. \A d \in L : d.time \in Int
    BY <1>2 DEF IsSeries
  <2>2. ASSUME NEW d \in L, NEW e \in L, d.time = e.time PROVE d = e
    <3>1. PICK r \in D, s \in F : /\ r.time = s.time
                                  /\ d = [time |-> r.time, value |-> r.value - s.value]
      BY <1>2
    <3>2. PICK q \in D, u \in F : /\ q.time = u.time
                                  /\ e = [time |-> q.time, value |-> q.value - u.value]
      BY <1>2
    <3>3. r.time = q.time
      BY <2>2, <3>1, <3>2
    <3>. QED BY <3>1, <3>2, <3>3 DEF IsSeries
  <2>. QED BY <2>1, <2>2 DEF IsSeries
<1>5. IsFiniteSet(L)
  <2> DEFINE f == [d \in L |-> CHOOSE r \in D : r.time = d.time]
  <2>1. ASSUME NEW d \in L PROVE f[d] \in D /\ f[d].time = d.time
    <3>1. \E r \in D : r.time = d.time
      BY <1>2
    <3>. QED BY <3>1
  <2>2. f \in [L -> D]
    <3>1. \A d \in L : f[d] \in D
      BY <2>1
    <3>. QED BY <3>1
  <2> HIDE DEF f
  <2>3. \A d, e \in L : f[d] = f[e] => d = e
    BY <1>4, <2>1 DEF IsSeries
  <2>4. f \in Injection(L, D)
    BY <2>2, <2>3 DEF Injection, IsInjective
  <2>. QED BY <2>4, FS_Injection
<1>6. /\ \A d \in L : \E r \in D, s \in F : /\ r.time = s.time
                                            /\ d.time = r.time /\ d.value = r.value - s.value
      /\ \A r \in D, s \in F : r.time = s.time =>
           \E d \in L : d.time = r.time /\ d.value = r.value - s.value
  <2>1. ASSUME NEW d \in L
        PROVE  \E r \in D, s \in F : /\ r.time = s.time
                                     /\ d.time = r.time /\ d.value = r.value - s.value
    <3>1. PICK r \in D, s \in F : /\ r.time = s.time
                                  /\ d = [time |-> r.time, value |-> r.value - s.value]
      BY <1>2
    <3>. QED BY <3>1
  <2>2. ASSUME NEW r \in D, NEW s \in F, r.time = s.time
        PROVE  \E d \in L : d.time = r.time /\ d.value = r.value - s.value
    <3>1. PICK d : d = [time |-> r.time, value |-> r.value - s.value]
      OBVIOUS
    <3>. QED BY <1>3, <2>2, <3>1
  <2>. QED BY <2>1, <2>2
<1>. QED BY <1>1, <1>4, <1>5, <1>6

\* The divergence check fires the same triggers.
LEMMA SameDivergence ==
  ASSUME NEW dk1, NEW dk2, NEW one, NEW two,
         IsFiniteSet(DedupeLatest(dk1)),
         IsSeries(DedupeLatest(dk1)), IsSeries(DedupeLatest(dk2)),
         IsFiniteSet(DedupeLatest(one)),
         IsSeries(DedupeLatest(one)), IsSeries(DedupeLatest(two)),
         SameFigures(DedupeLatest(dk1), DedupeLatest(one)),
         SameFigures(DedupeLatest(dk2), DedupeLatest(two))
  PROVE  check_zone_divergence(dk1, dk2) = check_zone_divergence(one, two)
<1>1. PICK D, F : D = DedupeLatest(dk1) /\ F = DedupeLatest(dk2)
  OBVIOUS
<1>2. PICK E, G : E = DedupeLatest(one) /\ G = DedupeLatest(two)
  OBVIOUS
<1>3. PICK L, M : L = Differences(Paired(D, F)) /\ M = Differences(Paired(E, G))
  OBVIOUS
<1>4. SameFigures(D, E) /\ SameFigures(F, G)
  BY <1>1, <1>2
<1>5. /\ IsFiniteSet(L) /\ IsSeries(L)
      /\ \A d \in L : \E r \in D, s \in F : /\ r.time = s.time
                                            /\ d.time = r.time /\ d.value = r.value - s.value
      /\ \A r \in D, s \in F : r.time = s.time =>
           \E d \in L : d.time = r.time /\ d.value = r.value - s.value
  BY <1>1, <1>3, DifferencesAre
<1>6. /\ IsSeries(M)
      /\ \A d \in M : \E r \in E, s \in G : /\ r.time = s.time
                                            /\ d.time = r.time /\ d.value = r.value - s.value
      /\ \A r \in E, s \in G : r.time = s.time =>
           \E d \in M : d.time = r.time /\ d.value = r.value - s.value
  BY <1>2, <1>3, DifferencesAre
<1>7. SameFigures(L, M)
  <2>1. ASSUME NEW d \in L PROVE \E e \in M : e.time = d.time /\ e.value = d.value
    <3>1. PICK r \in D, s \in F : /\ r.time = s.time
                                  /\ d.time = r.time /\ d.value = r.value - s.value
      BY <1>5
    <3>2. PICK q \in E : q.time = r.time /\ q.value = r.value
      BY <1>4 DEF SameFigures
    <3>3. PICK u \in G : u.time = s.time /\ u.value = s.value
      BY <1>4 DEF SameFigures
    <3>. QED BY <1>6, <3>1, <3>2, <3>3
  <2>2. ASSUME NEW e \in M PROVE \E d \in L : d.time = e.time /\ d.value = e.value
    <3>1. PICK q \in E, u \in G : /\ q.time = u.time
                                  /\ e.time = q.time /\ e.value = q.value - u.value
      BY <1>6
    <3>2. PICK r \in D : r.time = q.time /\ r.value = q.value
      BY <1>4 DEF SameFigures
    <3>3. PICK s \in F : s.time = u.time /\ s.value = u.value
      BY <1>4 DEF SameFigures
    <3>. QED BY <1>5, <3>1, <3>2, <3>3
  <2>. QED BY <2>1, <2>2 DEF SameFigures
<1>8. OutlierTriggers("zone_divergence", DivergenceZone, L)
        = OutlierTriggers("zone_divergence", DivergenceZone, M)
  BY <1>5, <1>6, <1>7, SameOutliers
<1>. QED BY <1>1, <1>2, <1>3, <1>8 DEF check_zone_divergence

-----------------------------------------------------------------------------
(* What the engine reads of the table.  The invariant needs that no two    *)
(* rows of a key share a stamp: with two newest rows of a time the scan of *)
(* the code would keep one of them and the view another.                   *)

TableInv == TypeInv /\ IsFiniteSet(history) /\ StampsArePast /\ OneRowPerStamp(history)

\* What a step adds to the table is finite, and stamped after everything in it.
LEMMA TableGrows ==
  ASSUME FiniteMarket, TableInv, [MarketNext]_marketVars
  PROVE  \/ UNCHANGED <<history, clock>>
         \/ \E new : /\ history' = history \cup new /\ IsFiniteSet(new)
                     /\ clock' = clock + 1
                     /\ \A r \in new : r.at = clock + 1
                     /\ \A r, s \in new : r.zone = s.zone /\ r.time = s.time => r = s
<1>1. ASSUME NEW w \in Writers, Save(w)
      PROVE  \E new : /\ history' = history \cup new /\ IsFiniteSet(new)
                      /\ clock' = clock + 1
                      /\ \A r \in new : r.at = clock + 1
                      /\ \A r, s \in new : r.zone = s.zone /\ r.time = s.time => r = s
  <2>1. PICK new : new = SavedRows(writer[w], Now)
    OBVIOUS
  <2>2. \A r \in new : \E k \in Keys :
          r = [zone |-> k[1], time |-> k[2], value |-> published[k][writer[w][k]],
               at |-> Now, asOf |-> writer[w][k]]
    BY <2>1 DEF SavedRows
  <2>3. \A r \in new : r.at = clock + 1
    BY <2>2 DEF Now
  <2>4. ASSUME NEW r \in new, NEW s \in new, r.zone = s.zone, r.time = s.time PROVE r = s
    <3>1. PICK k \in Keys :
            r = [zone |-> k[1], time |-> k[2], value |-> published[k][writer[w][k]],
                 at |-> Now, asOf |-> writer[w][k]]
      BY <2>2
    <3>2. PICK l \in Keys :
            s = [zone |-> l[1], time |-> l[2], value |-> published[l][writer[w][l]],
                 at |-> Now, asOf |-> writer[w][l]]
      BY <2>2
    <3>3. k = l
      BY <2>4, <3>1, <3>2 DEF Keys
    <3>. QED BY <3>1, <3>2, <3>3
  <2>5. IsFiniteSet(new)
    BY <2>1, SavedRowsFinite
  <2>6. history' = history \cup new /\ clock' = clock + 1
    BY <1>1, <2>1 DEF Save, Now
  <2>. QED BY <2>3, <2>4, <2>5, <2>6
<1>2. CASE ~ \E w \in Writers : Save(w)
  BY <1>2 DEF MarketNext, Publish, Poll, BackfillChunk, Fetched, SaveFails, NothingPolled,
              marketVars
<1>. QED BY <1>1, <1>2

\* The invariant of the table holds initially, and every step keeps it.
LEMMA TableInit == MarketInit => TableInv
  BY TypeInit, FS_EmptySet DEF MarketInit, TableInv, StampsArePast, OneRowPerStamp

LEMMA TableStep ==
  ASSUME FiniteMarket PROVE TableInv /\ [MarketNext]_marketVars => TableInv'
<1> SUFFICES ASSUME TableInv, [MarketNext]_marketVars PROVE TableInv'
  OBVIOUS
<1>1. TypeInv'
  BY TypeStep DEF TableInv
<1>2. CASE UNCHANGED <<history, clock>>
  BY <1>1, <1>2 DEF TableInv, StampsArePast, OneRowPerStamp
<1>3. CASE \E new : /\ history' = history \cup new /\ IsFiniteSet(new)
                    /\ clock' = clock + 1
                    /\ \A r \in new : r.at = clock + 1
                    /\ \A r, s \in new : r.zone = s.zone /\ r.time = s.time => r = s
  <2>1. PICK new : /\ history' = history \cup new /\ IsFiniteSet(new)
                   /\ clock' = clock + 1
                   /\ \A r \in new : r.at = clock + 1
                   /\ \A r, s \in new : r.zone = s.zone /\ r.time = s.time => r = s
    BY <1>3
  <2>2. IsFiniteSet(history')
    BY <2>1, FS_Union DEF TableInv
  <2>3. clock \in Nat /\ \A r \in history : r.at \in Nat /\ r.at <= clock
    BY RowFacts DEF TableInv, TypeInv, MarketTypeOK, StampsArePast
  <2>4. StampsArePast'
    BY <2>1, <2>3 DEF StampsArePast
  <2>5. OneRowPerStamp(history')
    BY <2>1, <2>3 DEF TableInv, OneRowPerStamp
  <2>. QED BY <1>1, <2>2, <2>4, <2>5 DEF TableInv
<1>. QED BY <1>2, <1>3, TableGrows

\* A series that fits is read whole.
LEMMA FetchAll ==
  ASSUME NEW table \in SUBSET Row, IsFiniteSet(table), NEW z \in Zones,
         Cardinality(SeriesOf(table, z)) <= HISTORY_FETCH_LIMIT
  PROVE  fetch_history(table, z) = SeriesOf(table, z)
<1>1. PICK S : S = SeriesOf(table, z)
  OBVIOUS
<1>2. IsFiniteSet(S) /\ S \subseteq Row
  BY <1>1, FS_Subset DEF SeriesOf
<1>3. ASSUME NEW r \in S PROVE Cardinality({s \in S : Precedes(s, r)}) < HISTORY_FETCH_LIMIT
  <2>1. PICK before : before = {s \in S : Precedes(s, r)}
    OBVIOUS
  <2>2. r \notin before /\ before \subseteq S
    <3>1. r.time \in Nat /\ r.at \in Nat
      BY <1>2, MarketAssumption DEF Row
    <3>. QED BY <2>1, <3>1 DEF Precedes
  <2>3. /\ Cardinality(before) <= Cardinality(S) /\ Cardinality(before) # Cardinality(S)
        /\ IsFiniteSet(before)
    BY <1>2, <2>2, FS_Subset
  <2>4. Cardinality(before) \in Nat /\ Cardinality(S) \in Nat
    BY <1>2, <2>3, FS_CardinalityType
  <2>5. HISTORY_FETCH_LIMIT \in Nat
    BY ThresholdsAssumption
  <2>. QED BY <1>1, <2>1, <2>3, <2>4, <2>5
<1>. QED BY <1>1, <1>3 DEF fetch_history, SeriesOf

\* The deduped rows of a zone are a series, and finitely many.
LEMMA DedupedSeries ==
  ASSUME NEW table \in SUBSET Row, IsFiniteSet(table), OneRowPerStamp(table),
         NEW z, NEW rows \in SUBSET SeriesOf(table, z)
  PROVE  IsFiniteSet(DedupeLatest(rows)) /\ IsSeries(DedupeLatest(rows))
<1>1. DedupeLatest(rows) \subseteq rows /\ rows \subseteq table
  BY DEF DedupeLatest, SeriesOf
<1>2. IsFiniteSet(DedupeLatest(rows))
  <2>1. IsFiniteSet(rows)
    BY <1>1, FS_Subset
  <2>. QED BY <1>1, <2>1, FS_Subset
<1>3. \A r \in table : r.time \in Nat /\ r.at \in Nat
  BY MarketAssumption DEF Row
<1>4. ASSUME NEW r \in DedupeLatest(rows), NEW s \in DedupeLatest(rows), r.time = s.time
      PROVE  r = s
  <2>1. r.at <= s.at /\ s.at <= r.at
    BY <1>1, <1>4 DEF DedupeLatest
  <2>2. r \in table /\ s \in table /\ r.zone = s.zone
    BY <1>1 DEF SeriesOf
  <2>. QED BY <1>3, <1>4, <2>1, <2>2 DEF OneRowPerStamp
<1>. QED BY <1>1, <1>2, <1>3, <1>4 DEF IsSeries

-----------------------------------------------------------------------------
(* Re-polling unchanged figures.                                           *)

\* The triggers of the three threshold checks, when every series is read whole.
LEMMA ThresholdTriggersAre ==
  ASSUME NEW table, \A z \in Zones : fetch_history(table, z) = SeriesOf(table, z), NEW t
  PROVE  t \in ThresholdTriggers(table) <=>
           \/ \E z \in Zones : /\ SeriesOf(table, z) # {}
                               /\ \/ t \in check_price_spike(z, SeriesOf(table, z))
                                  \/ t \in check_negative_or_zero(z, SeriesOf(table, z))
           \/ /\ "DK1" \in Zones /\ SeriesOf(table, "DK1") # {}
              /\ "DK2" \in Zones /\ SeriesOf(table, "DK2") # {}
              /\ SameCurrency
              /\ t \in check_zone_divergence(SeriesOf(table, "DK1"), SeriesOf(table, "DK2"))
<1>1. PICK read : read = [z \in Zones |-> fetch_history(table, z)]
  OBVIOUS
<1>2. PICK zones : zones = {z \in Zones : SeriesOf(table, z) # {}}
  OBVIOUS
<1>3. \A z \in Zones : read[z] = SeriesOf(table, z)
  BY <1>1
<1>4. Fired(table) = run_rule_engine(zones, read)
  BY <1>1, <1>2 DEF Fired
<1>5. ASSUME NEW rows, NEW z
      PROVE  /\ \A u \in check_price_spike(z, rows) : u.type = "price_spike"
             /\ \A u \in check_negative_or_zero(z, rows) : u.type = "negative_or_zero_price"
             /\ \A u \in check_revisions(z, rows) : u.type = "revision_alert"
  <2>1. \A u \in check_price_spike(z, rows) : u.type = "price_spike"
    BY DEF check_price_spike, OutlierTriggers, Trigger
  <2>2. ASSUME NEW u \in check_negative_or_zero(z, rows) PROVE u.type = "negative_or_zero_price"
    <3>1. PICK r \in DedupeLatest(rows) :
            u = Trigger("negative_or_zero_price", z, r.time, r.value, FALSE)
      BY DEF check_negative_or_zero, Latest
    <3>. QED BY <3>1 DEF Trigger
  <2>3. \A u \in check_revisions(z, rows) : u.type = "revision_alert"
    BY DEF check_revisions, Trigger
  <2>. QED BY <2>1, <2>2, <2>3
<1>6. ASSUME NEW one, NEW two
      PROVE  \A u \in check_zone_divergence(one, two) : u.type = "zone_divergence"
  BY DEF check_zone_divergence, OutlierTriggers, Trigger
<1>7. t \in ThresholdTriggers(table) <=> t \in run_rule_engine(zones, read) /\ t.type # "revision_alert"
  BY <1>4 DEF ThresholdTriggers
<1>8. t \in run_rule_engine(zones, read) <=>
        \/ \E z \in zones : \/ t \in check_price_spike(z, read[z])
                            \/ t \in check_negative_or_zero(z, read[z])
                            \/ t \in check_revisions(z, read[z])
        \/ /\ "DK1" \in zones /\ "DK2" \in zones /\ SameCurrency
           /\ t \in check_zone_divergence(read["DK1"], read["DK2"])
  BY DEF run_rule_engine
<1>9. t \in ThresholdTriggers(table) <=>
        \/ \E z \in zones : \/ t \in check_price_spike(z, read[z])
                            \/ t \in check_negative_or_zero(z, read[z])
        \/ /\ "DK1" \in zones /\ "DK2" \in zones /\ SameCurrency
           /\ t \in check_zone_divergence(read["DK1"], read["DK2"])
  BY <1>5, <1>6, <1>7, <1>8
<1>10. \A z : z \in zones <=> z \in Zones /\ SeriesOf(table, z) # {}
  BY <1>2
<1>. QED BY <1>3, <1>9, <1>10

\* A save that repeats the view's figures leaves every series its figures.
LEMMA RepeatsKeepFigures ==
  ASSUME TableInv, history' \subseteq Row, Repeats,
         NEW new, history' = history \cup new, \A r \in new : r.at = clock + 1,
         NEW z
  PROVE  /\ SameFigures(DedupeLatest(SeriesOf(history, z)), DedupeLatest(SeriesOf(history', z)))
         /\ SeriesOf(history, z) = {} <=> SeriesOf(history', z) = {}
<1>1. PICK S, T : S = SeriesOf(history, z) /\ T = SeriesOf(history', z)
  OBVIOUS
<1>2. clock \in Nat /\ \A r \in history : r.at \in Nat /\ r.at <= clock
  BY RowFacts DEF TableInv, TypeInv, MarketTypeOK, StampsArePast
<1>3. \A n \in new : n \notin history
  BY <1>2
<1>4. ASSUME NEW n \in new
      PROVE  \E r \in history :
               /\ r.zone = n.zone /\ r.time = n.time /\ r.value = n.value
               /\ \A s \in history : s.zone = r.zone /\ s.time = r.time => s.at <= r.at
  <2>1. n \in history' \ history
    BY <1>3
  <2>. QED BY <2>1 DEF Repeats, View
<1>5. S = {r \in history : r.zone = z} /\ T = {r \in history \cup new : r.zone = z}
  BY <1>1 DEF SeriesOf
<1>6. ASSUME NEW r \in DedupeLatest(S)
      PROVE  \E s \in DedupeLatest(T) : s.time = r.time /\ s.value = r.value
  <2>1. r \in S /\ \A s \in S : s.time = r.time => s.at <= r.at
    BY DEF DedupeLatest
  <2>2. CASE \E n \in new : n.zone = z /\ n.time = r.time
    <3>1. PICK n \in new : n.zone = z /\ n.time = r.time
      BY <2>2
    <3>2. PICK q \in history :
            /\ q.zone = n.zone /\ q.time = n.time /\ q.value = n.value
            /\ \A s \in history : s.zone = q.zone /\ s.time = q.time => s.at <= q.at
      BY <1>4
    <3>3. q.at <= r.at /\ r.at <= q.at
      BY <1>5, <2>1, <3>1, <3>2
    <3>4. q = r
      BY <1>2, <1>5, <2>1, <3>1, <3>2, <3>3 DEF TableInv, OneRowPerStamp
    <3>5. n \in DedupeLatest(T)
      <4>1. n \in T
        BY <1>5, <3>1
      <4>2. \A s \in T : s.at <= n.at
        BY <1>2, <1>5
      <4>. QED BY <4>1, <4>2 DEF DedupeLatest
    <3>. QED BY <3>1, <3>2, <3>4, <3>5
  <2>3. CASE ~ \E n \in new : n.zone = z /\ n.time = r.time
    <3>1. r \in DedupeLatest(T)
      BY <1>5, <2>1, <2>3 DEF DedupeLatest
    <3>. QED BY <3>1
  <2>. QED BY <2>2, <2>3
<1>7. ASSUME NEW s \in DedupeLatest(T)
      PROVE  \E r \in DedupeLatest(S) : r.time = s.time /\ r.value = s.value
  <2>1. s \in T /\ \A n \in T : n.time = s.time => n.at <= s.at
    BY DEF DedupeLatest
  <2>2. CASE s \in new
    <3>1. PICK q \in history :
            /\ q.zone = s.zone /\ q.time = s.time /\ q.value = s.value
            /\ \A n \in history : n.zone = q.zone /\ n.time = q.time => n.at <= q.at
      BY <1>4, <2>2
    <3>2. q \in DedupeLatest(S)
      BY <1>5, <2>1, <3>1 DEF DedupeLatest
    <3>. QED BY <3>1, <3>2
  <2>3. CASE s \in history
    <3>1. s \in DedupeLatest(S)
      BY <1>5, <2>1, <2>3 DEF DedupeLatest
    <3>. QED BY <3>1
  <2>. QED BY <1>5, <2>1, <2>2, <2>3
<1>8. S = {} <=> T = {}
  <2>1. ASSUME S = {} PROVE T = {}
    BY <1>4, <1>5, <2>1
  <2>2. ASSUME T = {} PROVE S = {}
    BY <1>5, <2>2
  <2>. QED BY <2>1, <2>2
<1>9. SameFigures(DedupeLatest(S), DedupeLatest(T))
  BY <1>6, <1>7 DEF SameFigures
<1>. QED BY <1>1, <1>8, <1>9

\* So it changes no trigger of the three threshold checks.
LEMMA RepollStep ==
  ASSUME FiniteMarket, TableInv, [MarketNext]_marketVars, Repeats, SeriesFit(history')
  PROVE  ThresholdTriggers(history') = ThresholdTriggers(history)
<1>1. PICK new : /\ history' = history \cup new /\ IsFiniteSet(new)
                 /\ \A r \in new : r.at = clock + 1
  BY TableGrows DEF Repeats
<1>2. /\ history' \subseteq Row /\ IsFiniteSet(history') /\ OneRowPerStamp(history')
      /\ history \subseteq Row /\ IsFiniteSet(history) /\ OneRowPerStamp(history)
  <2>1. TableInv'
    BY TableStep
  <2>. QED BY <2>1 DEF TableInv, TypeInv, MarketTypeOK
<1>3. PICK H : H = history'
  OBVIOUS
<1>4. H \in SUBSET Row /\ IsFiniteSet(H) /\ OneRowPerStamp(H) /\ SeriesFit(H) /\ history \subseteq H
  BY <1>1, <1>2, <1>3
<1>5. \A z \in Zones : fetch_history(H, z) = SeriesOf(H, z)
  BY <1>4, FetchAll DEF SeriesFit
<1>6. \A z \in Zones : fetch_history(history, z) = SeriesOf(history, z)
  <2> SUFFICES ASSUME NEW z \in Zones PROVE fetch_history(history, z) = SeriesOf(history, z)
    OBVIOUS
  <2>1. SeriesOf(history, z) \subseteq SeriesOf(H, z) /\ SeriesOf(H, z) \subseteq H
    BY <1>4 DEF SeriesOf
  <2>2. IsFiniteSet(SeriesOf(H, z))
    BY <1>4, <2>1, FS_Subset
  <2>3. /\ Cardinality(SeriesOf(history, z)) <= Cardinality(SeriesOf(H, z))
        /\ IsFiniteSet(SeriesOf(history, z))
    BY <2>1, <2>2, FS_Subset
  <2>4. Cardinality(SeriesOf(history, z)) \in Nat /\ Cardinality(SeriesOf(H, z)) \in Nat
    BY <2>2, <2>3, FS_CardinalityType
  <2>5. Cardinality(SeriesOf(H, z)) <= HISTORY_FETCH_LIMIT /\ HISTORY_FETCH_LIMIT \in Nat
    BY <1>4, ThresholdsAssumption DEF SeriesFit
  <2>6. Cardinality(SeriesOf(history, z)) <= HISTORY_FETCH_LIMIT
    BY <2>3, <2>4, <2>5
  <2>. QED BY <1>2, <2>6, FetchAll
<1>7. \A z : /\ SameFigures(DedupeLatest(SeriesOf(history, z)), DedupeLatest(SeriesOf(H, z)))
             /\ SeriesOf(history, z) = {} <=> SeriesOf(H, z) = {}
  BY <1>1, <1>2, <1>3, RepeatsKeepFigures
<1>8. \A z : /\ IsFiniteSet(DedupeLatest(SeriesOf(history, z)))
             /\ IsSeries(DedupeLatest(SeriesOf(history, z)))
             /\ IsFiniteSet(DedupeLatest(SeriesOf(H, z)))
             /\ IsSeries(DedupeLatest(SeriesOf(H, z)))
  BY <1>2, <1>4, DedupedSeries
<1>9. \A z : check_price_spike(z, SeriesOf(history, z)) = check_price_spike(z, SeriesOf(H, z))
  BY <1>7, <1>8, SameOutliers DEF check_price_spike
<1>10. \A z : check_negative_or_zero(z, SeriesOf(history, z))
                = check_negative_or_zero(z, SeriesOf(H, z))
  BY <1>7, <1>8, SameNonPositive
<1>11. check_zone_divergence(SeriesOf(history, "DK1"), SeriesOf(history, "DK2"))
         = check_zone_divergence(SeriesOf(H, "DK1"), SeriesOf(H, "DK2"))
  BY <1>7, <1>8, SameDivergence
<1>12. \A t : t \in ThresholdTriggers(H) <=> t \in ThresholdTriggers(history)
  BY <1>5, <1>6, <1>7, <1>9, <1>10, <1>11, ThresholdTriggersAre
<1>13. ThresholdTriggers(H) = ThresholdTriggers(history)
  <2>1. ThresholdTriggers(H) \subseteq Fired(H) /\ ThresholdTriggers(history) \subseteq Fired(history)
    BY DEF ThresholdTriggers
  <2>. QED BY <1>12
<1>. QED BY <1>3, <1>13

\* However many writers poll and backfill, a save that repeats the figures of
\* the view changes no threshold trigger while a series fits in one fetch.
THEOREM RepollNeutral == ASSUME FiniteMarket PROVE MarketSpec => RepollIsNeutral
<1>1. MarketInit => TableInv
  BY TableInit
<1>2. TableInv /\ [MarketNext]_marketVars => TableInv'
  BY TableStep
<1>3. TableInv /\ [MarketNext]_marketVars =>
        [Repeats /\ SeriesFit(history')
           => ThresholdTriggers(history') = ThresholdTriggers(history)]_marketVars
  BY RepollStep
<1>. QED BY <1>1, <1>2, <1>3, PTL DEF MarketSpec, RepollIsNeutral

-----------------------------------------------------------------------------
(* The scan of the code, row by row in the order of the query, keeps the   *)
(* newest row of each time.                                                *)

\* A set of rows that the order of the query lists without a tie.
OneSeries(rows) ==
  /\ IsFiniteSet(rows)
  /\ \A r \in rows : r.time \in Nat /\ r.at \in Nat
  /\ \A r, s \in rows : r.time = s.time /\ r.at = s.at => r = s

\* The list holds every row once, and in that order.
LEMMA ListedInOrder ==
  ASSUME NEW rows, OneSeries(rows)
  PROVE  /\ Cardinality(rows) \in Nat
         /\ \A k \in 1..Cardinality(rows) : Listed(rows)[k] \in rows
         /\ \A r \in rows : \E k \in 1..Cardinality(rows) : Listed(rows)[k] = r
         /\ \A j, k \in 1..Cardinality(rows) :
              Precedes(Listed(rows)[j], Listed(rows)[k]) <=> j < k
<1> DEFINE before(r) == {s \in rows : Precedes(s, r)}
<1>1. PICK n : n = Cardinality(rows)
  OBVIOUS
<1>2. n \in Nat /\ IsFiniteSet(rows)
  BY <1>1, FS_CardinalityType DEF OneSeries
<1>3. PICK rank : rank = [r \in rows |-> Cardinality(before(r))]
  OBVIOUS
<1>4. \A r \in rows : IsFiniteSet(before(r)) /\ Cardinality(before(r)) \in Nat
  BY <1>2, FS_Subset, FS_CardinalityType
<1>5. ASSUME NEW r \in rows PROVE rank[r] \in 0..(n - 1)
  <2>1. before(r) \subseteq rows /\ r \notin before(r)
    BY DEF OneSeries, Precedes
  <2>2. Cardinality(before(r)) <= n /\ Cardinality(before(r)) # n
    <3> HIDE DEF before
    <3>. QED BY <1>1, <1>2, <2>1, FS_Subset
  <2> HIDE DEF before
  <2>. QED BY <1>2, <1>3, <1>4, <2>2
<1>6. ASSUME NEW r \in rows, NEW s \in rows, Precedes(r, s) PROVE rank[r] < rank[s]
  <2>1. before(r) \subseteq before(s) /\ r \in before(s) /\ r \notin before(r)
    BY <1>6 DEF OneSeries, Precedes
  <2>2. /\ Cardinality(before(r)) <= Cardinality(before(s))
        /\ Cardinality(before(r)) # Cardinality(before(s))
    <3> HIDE DEF before
    <3>. QED BY <1>4, <2>1, FS_Subset
  <2> HIDE DEF before
  <2>. QED BY <1>3, <1>4, <2>2
<1>7. \A r, s \in rows : r = s \/ Precedes(r, s) \/ Precedes(s, r)
  BY DEF OneSeries, Precedes
<1>8. \A r, s \in rows : rank[r] = rank[s] => r = s
  <2> SUFFICES ASSUME NEW r \in rows, NEW s \in rows, rank[r] = rank[s], r # s PROVE FALSE
    OBVIOUS
  <2>1. rank[r] \in Int /\ rank[s] \in Int
    BY <1>5
  <2>2. rank[r] < rank[s] \/ rank[s] < rank[r]
    BY <1>6, <1>7
  <2>. QED BY <2>1, <2>2
<1>9. \A i \in 0..(n - 1) : \E r \in rows : rank[r] = i
  <2>1. rank \in Injection(rows, 0..(n - 1))
    <3>1. rank \in [rows -> 0..(n - 1)]
      <4> HIDE DEF before
      <4>. QED BY <1>3, <1>5
    <3> HIDE DEF before
    <3>. QED BY <1>8, <3>1 DEF Injection, IsInjective
  <2>2. IsFiniteSet(0..(n - 1)) /\ Cardinality(0..(n - 1)) = n
    BY <1>2, FS_Interval
  <2>3. rank \in Surjection(rows, 0..(n - 1))
    BY <1>1, <2>1, <2>2, FS_Injection
  <2>. QED BY <2>3 DEF Surjection
<1>10. PICK list : list = Listed(rows)
  OBVIOUS
<1>11. ASSUME NEW k \in 1..n PROVE list[k] \in rows /\ rank[list[k]] = k - 1
  <2>1. list[k] = CHOOSE r \in rows : Cardinality(before(r)) = k - 1
    BY <1>1, <1>10 DEF Listed
  <2>2. k - 1 \in 0..(n - 1)
    BY <1>2
  <2>3. PICK q \in rows : rank[q] = k - 1
    BY <1>9, <2>2
  <2>4. Cardinality(before(q)) = k - 1
    BY <1>3, <2>3
  <2>5. list[k] \in rows /\ Cardinality(before(list[k])) = k - 1
    <3> HIDE DEF before
    <3>. QED BY <2>1, <2>4
  <2> HIDE DEF before
  <2>. QED BY <1>3, <2>5
<1> HIDE DEF before
<1>12. ASSUME NEW r \in rows PROVE \E k \in 1..n : list[k] = r
  <2>1. PICK k : k = rank[r] + 1
    OBVIOUS
  <2>2. k \in 1..n /\ rank[r] = k - 1
    BY <1>2, <1>5, <2>1
  <2>. QED BY <1>8, <1>11, <2>2
<1>13. ASSUME NEW j \in 1..n, NEW k \in 1..n PROVE Precedes(list[j], list[k]) <=> j < k
  <2>1. PICK r, s : r = list[j] /\ s = list[k]
    OBVIOUS
  <2>2. r \in rows /\ s \in rows /\ rank[r] = j - 1 /\ rank[s] = k - 1
    BY <1>11, <2>1
  <2>3. ASSUME Precedes(r, s) PROVE j < k
    BY <1>2, <1>6, <2>2, <2>3
  <2>4. ASSUME j < k PROVE Precedes(r, s)
    <3>1. rank[s] > rank[r] /\ r # s
      BY <1>2, <2>2, <2>4
    <3>2. ASSUME Precedes(s, r) PROVE FALSE
      BY <1>2, <1>6, <2>2, <2>4, <3>2
    <3>. QED BY <1>7, <2>2, <3>1, <3>2
  <2>. QED BY <2>1, <2>3, <2>4
<1>. QED BY <1>1, <1>2, <1>10, <1>11, <1>12, <1>13

\* The rows the scan has kept after k rows.
KeptRows(rows, k) ==
  {Listed(rows)[i] : i \in {j \in 1..k : \A l \in 1..(j - 1) : Listed(rows)[l].time # Listed(rows)[j].time}}

\* What the scan computes step by step.
Scans(kept, rows) ==
  kept = [k \in 0..Cardinality(rows) |->
            IF k = 0 THEN {}
            ELSE IF \E s \in kept[k - 1] : s.time = Listed(rows)[k].time THEN kept[k - 1]
            ELSE kept[k - 1] \cup {Listed(rows)[k]}]

LEMMA ScanIs ==
  ASSUME NEW rows
  PROVE  ScanDedupe(rows) = (CHOOSE kept : Scans(kept, rows))[Cardinality(rows)]
BY DEF ScanDedupe, Scans

\* A set of numbers has a smallest one.
LEMMA SmallestNumber ==
  ASSUME NEW S \in SUBSET Nat, S # {}
  PROVE  \E i \in S : \A k \in S : i <= k
<1> DEFINE below == {0..x : x \in S}
           R == StrictSubsetOrdering(Int)
<1>1. below \subseteq FiniteSubsetsOf(Int) /\ below # {}
  <2>1. \A x \in S : IsFiniteSet(0..x) /\ 0..x \in SUBSET Int
    BY FS_Interval
  <2>. QED BY <2>1 DEF FiniteSubsetsOf
<1>2. IsWellFoundedOn(R, FiniteSubsetsOf(Int))
  BY FS_StrictSubsetOrderingWellFounded
<1>3. PICK a \in below : \A b \in below : <<b, a>> \notin R
  <2> HIDE DEF below, R
  <2>. QED BY <1>1, <1>2, WFMin
<1>4. PICK i \in S : a = 0..i
  OBVIOUS
<1>5. ASSUME NEW k \in S, k < i PROVE FALSE
  <2>1. 0..k \in below /\ 0..k \subseteq a /\ i \in a /\ i \notin 0..k
    BY <1>4, <1>5
  <2>2. <<0..k, a>> \in R
    BY <2>1, <1>4 DEF StrictSubsetOrdering
  <2>. QED BY <1>3, <2>1, <2>2
<1>. QED BY <1>5

\* There is one such function, and it holds the rows kept after each row.
LEMMA ScanKeeps ==
  ASSUME NEW rows, OneSeries(rows)
  PROVE  ScanDedupe(rows) = KeptRows(rows, Cardinality(rows))
<1>1. PICK n, list : n = Cardinality(rows) /\ list = Listed(rows)
  OBVIOUS
<1>2. n \in Nat
  BY <1>1, ListedInOrder
<1> DEFINE fresh(k) == {j \in 1..k : \A l \in 1..(j - 1) : list[l].time # list[j].time}
           G == [k \in 0..n |-> KeptRows(rows, k)]
<1>3. \A k : KeptRows(rows, k) = {list[i] : i \in fresh(k)}
  BY <1>1 DEF KeptRows
<1>4. KeptRows(rows, 0) = {}
  BY <1>3
<1>5. ASSUME NEW k \in 1..n
      PROVE  KeptRows(rows, k) =
               IF \E s \in KeptRows(rows, k - 1) : s.time = list[k].time
               THEN KeptRows(rows, k - 1)
               ELSE KeptRows(rows, k - 1) \cup {list[k]}
  <2>1. fresh(k) = fresh(k - 1) \cup (IF k \in fresh(k) THEN {k} ELSE {})
    BY <1>2
  <2>2. k \notin fresh(k) <=> \E s \in KeptRows(rows, k - 1) : s.time = list[k].time
    <3>1. ASSUME NEW s \in KeptRows(rows, k - 1), s.time = list[k].time PROVE k \notin fresh(k)
      <4>1. PICK j \in fresh(k - 1) : s = list[j]
        BY <1>3
      <4>. QED BY <1>2, <3>1, <4>1
    <3>2. ASSUME k \notin fresh(k)
          PROVE  \E s \in KeptRows(rows, k - 1) : s.time = list[k].time
      <4> DEFINE same == {l \in 1..(k - 1) : list[l].time = list[k].time}
      <4>1. same # {} /\ same \subseteq Nat
        BY <1>2, <3>2
      <4>2. PICK l \in same : \A m \in same : l <= m
        <5> HIDE DEF same
        <5>. QED BY <4>1, SmallestNumber
      <4>3. l \in fresh(k - 1)
        BY <1>2, <4>2
      <4>4. list[l] \in KeptRows(rows, k - 1)
        <5> HIDE DEF fresh
        <5>. QED BY <1>3, <4>3
      <4>. QED BY <4>2, <4>4
    <3>. QED BY <3>1, <3>2
  <2>3. KeptRows(rows, k) = {list[i] : i \in fresh(k)} /\ KeptRows(rows, k - 1) = {list[i] : i \in fresh(k - 1)}
    BY <1>3
  <2> HIDE DEF fresh
  <2>4. CASE k \in fresh(k)
    BY <2>1, <2>2, <2>3, <2>4
  <2>5. CASE k \notin fresh(k)
    BY <2>1, <2>2, <2>3, <2>5
  <2>. QED BY <2>4, <2>5
<1> HIDE DEF fresh
<1>6. Scans(G, rows)
  <2>1. ASSUME NEW k \in 0..n
        PROVE  KeptRows(rows, k) =
                 IF k = 0 THEN {}
                 ELSE IF \E s \in G[k - 1] : s.time = list[k].time THEN G[k - 1]
                 ELSE G[k - 1] \cup {list[k]}
    <3>1. CASE k = 0
      BY <1>4, <3>1
    <3>2. CASE k # 0
      <4>1. k \in 1..n /\ k - 1 \in 0..n
        BY <1>2, <3>2
      <4>2. G[k - 1] = KeptRows(rows, k - 1)
        BY <4>1
      <4> HIDE DEF G
      <4>. QED BY <1>5, <3>2, <4>1, <4>2
    <3>. QED BY <3>1, <3>2
  <2>2. G = [k \in 0..n |-> KeptRows(rows, k)]
    OBVIOUS
  <2> HIDE DEF G
  <2>. QED BY <1>1, <2>1, <2>2 DEF Scans
<1>7. PICK kept : kept = CHOOSE g : Scans(g, rows)
  OBVIOUS
<1>8. Scans(kept, rows)
  <2> HIDE DEF G
  <2>. QED BY <1>6, <1>7
<1>9. \A k \in 0..n : kept[k] = KeptRows(rows, k)
  <2> DEFINE bad == {k \in 0..n : kept[k] # KeptRows(rows, k)}
  <2>1. SUFFICES ASSUME bad # {} PROVE FALSE
    OBVIOUS
  <2>2. PICK k \in bad : \A j \in bad : k <= j
    <3>1. bad \subseteq Nat
      OBVIOUS
    <3> HIDE DEF bad
    <3>. QED BY <2>1, <3>1, SmallestNumber
  <2>3. kept[k] = IF k = 0 THEN {}
                  ELSE IF \E s \in kept[k - 1] : s.time = list[k].time THEN kept[k - 1]
                  ELSE kept[k - 1] \cup {list[k]}
    BY <1>1, <1>8 DEF Scans
  <2>4. k # 0
    BY <1>4, <2>2, <2>3
  <2>5. k \in 1..n /\ k - 1 \in 0..n /\ k - 1 \notin bad
    BY <1>2, <2>2, <2>4
  <2>6. kept[k - 1] = KeptRows(rows, k - 1)
    BY <2>5
  <2>7. kept[k] = KeptRows(rows, k)
    <3> HIDE DEF bad
    <3>. QED BY <1>5, <2>3, <2>4, <2>5, <2>6
  <2>. QED BY <2>2, <2>7
<1>. QED BY <1>1, <1>2, <1>7, <1>9, ScanIs

\* What the scan keeps is the newest row of each time.
LEMMA ScanIsDedupe ==
  ASSUME NEW rows, OneSeries(rows)
  PROVE  ScanDedupe(rows) = DedupeLatest(rows)
<1>1. PICK n, list : n = Cardinality(rows) /\ list = Listed(rows)
  OBVIOUS
<1>2. /\ n \in Nat
      /\ \A k \in 1..n : list[k] \in rows
      /\ \A r \in rows : \E k \in 1..n : list[k] = r
      /\ \A j, k \in 1..n : Precedes(list[j], list[k]) <=> j < k
  BY <1>1, ListedInOrder
<1>3. ScanDedupe(rows)
        = {list[i] : i \in {j \in 1..n : \A l \in 1..(j - 1) : list[l].time # list[j].time}}
  BY <1>1, ScanKeeps DEF KeptRows
<1>4. ASSUME NEW r \in ScanDedupe(rows) PROVE r \in DedupeLatest(rows)
  <2>1. PICK j \in 1..n : r = list[j] /\ \A l \in 1..(j - 1) : list[l].time # list[j].time
    BY <1>3
  <2>2. r \in rows
    BY <1>2, <2>1
  <2>3. ASSUME NEW s \in rows, s.time = r.time, s.at > r.at PROVE FALSE
    <3>1. PICK l \in 1..n : list[l] = s
      BY <1>2
    <3>2. l < j
      <4>1. Precedes(s, r)
        BY <2>3 DEF Precedes
      <4>. QED BY <1>2, <2>1, <3>1, <4>1
    <3>3. l \in 1..(j - 1)
      BY <3>1, <3>2
    <3>. QED BY <2>1, <2>3, <3>1, <3>3
  <2>4. \A s \in rows : s.time = r.time => s.at <= r.at
    BY <2>2, <2>3 DEF OneSeries
  <2>. QED BY <2>2, <2>4 DEF DedupeLatest
<1>5. ASSUME NEW r \in DedupeLatest(rows) PROVE r \in ScanDedupe(rows)
  <2>1. r \in rows /\ \A s \in rows : s.time = r.time => s.at <= r.at
    BY DEF DedupeLatest
  <2>2. PICK j \in 1..n : list[j] = r
    BY <1>2, <2>1
  <2>3. ASSUME NEW l \in 1..(j - 1), list[l].time = list[j].time PROVE FALSE
    <3>1. l \in 1..n /\ l < j
      BY <1>2
    <3>2. PICK s \in rows : s = list[l] /\ Precedes(s, r)
      BY <1>2, <2>2, <3>1
    <3>. QED BY <2>1, <2>2, <2>3, <3>2 DEF Precedes, OneSeries
  <2>. QED BY <1>3, <2>2, <2>3
<1>. QED BY <1>4, <1>5

-----------------------------------------------------------------------------
(* Triggers and the view.                                                  *)

\* Among rows stamped by now, a fresh row is the one of the view.
LEMMA FreshIsInView ==
  ASSUME TableInv, NEW k, NEW r \in RowsOf(k), Fresh(r, clock)
  PROVE  r \in View /\ r.zone = k[1] /\ r.time = k[2]
<1>1. r \in history /\ r.zone = k[1] /\ r.time = k[2]
  BY DEF RowsOf
<1>2. ASSUME NEW s \in history, s.zone = r.zone, s.time = r.time PROVE s.at <= r.at
  <2>1. s \in RowsOf(<<r.zone, r.time>>) /\ s.at <= clock
    BY <1>2 DEF RowsOf, TableInv, StampsArePast
  <2>2. ~(r.at < s.at)
    BY <2>1 DEF Fresh, Superseded
  <2>3. r.at \in Nat /\ s.at \in Nat
    BY <1>1, RowFacts DEF TableInv, TypeInv
  <2>. QED BY <2>2, <2>3
<1>. QED BY <1>1, <1>2 DEF View

\* The scan agrees with the set definition on what is read, and keeps rows of
\* the view: fetch_history cuts off no row newer than one it returns.
LEMMA DedupeIsView == TableInv => DedupeAgreesWithView
<1> SUFFICES ASSUME TableInv, NEW z \in Zones
             PROVE  LET read == fetch_history(history, z)
                    IN  /\ DedupeLatest(read) = ScanDedupe(read)
                        /\ DedupeLatest(read) \subseteq View
  BY DEF DedupeAgreesWithView
<1>1. history \subseteq Row /\ IsFiniteSet(history) /\ OneRowPerStamp(history)
  BY DEF TableInv, TypeInv, MarketTypeOK
<1>2. PICK read : read = fetch_history(history, z)
  OBVIOUS
<1>3. \A r \in read : r \in history /\ r.zone = z
  BY <1>2 DEF fetch_history
<1>4. OneSeries(read)
  <2>1. IsFiniteSet(read)
    BY <1>1, <1>3, FS_Subset
  <2>2. \A r \in read : r.time \in Nat /\ r.at \in Nat
    BY <1>1, <1>3, MarketAssumption DEF Row
  <2>. QED BY <1>1, <1>3, <2>1, <2>2 DEF OneSeries, OneRowPerStamp
<1>5. DedupeLatest(read) = ScanDedupe(read)
  BY <1>4, ScanIsDedupe
<1>6. ASSUME NEW r \in DedupeLatest(read) PROVE r \in View
  <2>1. r \in read /\ \A s \in read : s.time = r.time => s.at <= r.at
    BY DEF DedupeLatest
  <2>2. ASSUME NEW s \in history, s.zone = r.zone, s.time = r.time PROVE s.at <= r.at
    <3>1. r.at \in Nat /\ s.at \in Nat
      BY <1>1, <1>3, <2>1 DEF Row
    <3>2. ASSUME r.at < s.at PROVE s \in read
      BY <1>1, <1>2, <1>3, <2>1, <2>2, <3>2, FetchKeepsNewer
    <3>. QED BY <2>1, <2>2, <3>1, <3>2
  <2>. QED BY <1>3, <2>1, <2>2 DEF View
<1>. QED BY <1>2, <1>5, <1>6

\* What one evaluation reads is current: a cycle that began now and has read
\* everything.
LEMMA EngineCites ==
  ASSUME TableInv, NEW t \in Fired(history)
  PROVE  IF t.type = "zone_divergence"
         THEN \E r, s \in View : /\ r.zone = "DK1" /\ s.zone = "DK2"
                                 /\ r.time = t.time /\ s.time = t.time
                                 /\ t.value = r.value - s.value
         ELSE \E r \in View : r.zone = t.zone /\ r.time = t.time /\ r.value = t.value
<1>1. history \subseteq Row /\ IsFiniteSet(history)
  BY DEF TableInv, TypeInv, MarketTypeOK
<1>2. PICK read : read = [z \in Zones |-> fetch_history(history, z)]
  OBVIOUS
<1>3. PICK zones \in SUBSET Zones : t \in run_rule_engine(zones, read)
  BY <1>2 DEF Fired
<1>4. PICK s : s = [read |-> read, began |-> clock]
  OBVIOUS
<1>5. s.read = read /\ s.began = clock
  BY <1>4
<1>6. ReadsCurrent(s)
  <2> SUFFICES ASSUME NEW z \in Zones, NEW r \in read[z]
               PROVE  /\ r \in history /\ r.zone = z
                      /\ \A n \in RowsOf(<<z, r.time>>) : r.at < n.at => n \in read[z]
    BY <1>5 DEF ReadsCurrent
  <2>1. r \in fetch_history(history, z) /\ read[z] = fetch_history(history, z)
    BY <1>2
  <2>2. r \in history /\ r.zone = z
    BY <2>1 DEF fetch_history
  <2>3. ASSUME NEW n \in RowsOf(<<z, r.time>>), r.at < n.at PROVE n \in read[z]
    <3>1. n \in history /\ n.zone = z /\ n.time = r.time
      BY DEF RowsOf
    <3>. QED BY <1>1, <2>1, <2>3, <3>1, FetchKeepsNewer
  <2>. QED BY <2>2, <2>3
<1>7. FreshTrigger(t, clock)
  BY <1>1, <1>3, <1>5, <1>6, EngineFresh
<1>8. CASE t.type = "zone_divergence"
  <2>1. PICK r \in RowsOf(<<"DK1", t.time>>), q \in RowsOf(<<"DK2", t.time>>) :
          t.value = r.value - q.value /\ Fresh(r, clock) /\ Fresh(q, clock)
    BY <1>7, <1>8 DEF FreshTrigger
  <2>2. /\ r \in View /\ r.zone = "DK1" /\ r.time = t.time
        /\ q \in View /\ q.zone = "DK2" /\ q.time = t.time
    <3>1. PICK j, k : j = <<"DK1", t.time>> /\ k = <<"DK2", t.time>>
      OBVIOUS
    <3>2. r \in View /\ r.zone = j[1] /\ r.time = j[2]
      BY <2>1, <3>1, FreshIsInView
    <3>3. q \in View /\ q.zone = k[1] /\ q.time = k[2]
      BY <2>1, <3>1, FreshIsInView
    <3>. QED BY <3>1, <3>2, <3>3
  <2>. QED BY <1>8, <2>1, <2>2
<1>9. CASE t.type # "zone_divergence"
  <2>1. PICK r \in RowsOf(<<t.zone, t.time>>) : t.value = r.value /\ Fresh(r, clock)
    BY <1>7, <1>9 DEF FreshTrigger
  <2>2. r \in View /\ r.zone = t.zone /\ r.time = t.time
    <3>1. PICK k : k = <<t.zone, t.time>>
      OBVIOUS
    <3>2. r \in View /\ r.zone = k[1] /\ r.time = k[2]
      BY <2>1, <3>1, FreshIsInView
    <3>. QED BY <3>1, <3>2
  <2>. QED BY <1>9, <2>1, <2>2
<1>. QED BY <1>8, <1>9

\* Whatever is polled, backfilled or revised, the engine and the view agree on
\* the current figure, and no trigger fires on another one.
THEOREM TriggersCited == ASSUME FiniteMarket PROVE MarketSpec => []TriggersCiteTheView
<1>1. MarketInit => TableInv
  BY TableInit
<1>2. TableInv /\ [MarketNext]_marketVars => TableInv'
  BY TableStep
<1>3. TableInv => TriggersCiteTheView
  BY DedupeIsView, EngineCites DEF TriggersCiteTheView
<1>. QED BY <1>1, <1>2, <1>3, PTL DEF MarketSpec

=============================================================================
