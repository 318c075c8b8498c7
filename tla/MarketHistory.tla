---------------------------- MODULE MarketHistory ----------------------------
(***************************************************************************)
(* market_data_history (init-db/01-init.sql): the append-only table of     *)
(* every figure ever fetched, its writers, and the external publisher.     *)
(*                                                                         *)
(* A writer is a process that fetches a dataset and saves the batch it     *)
(* got: the ingestor's poll loop, and the historical backfill that the API *)
(* service or a script runs.  A fetch takes a snapshot of what Energinet   *)
(* publishes; the batch is saved later, in one transaction, under one      *)
(* fetched_at read from the clock when the save begins.                    *)
(*                                                                         *)
(* One (market, product) pair is modelled, with its zones.                 *)
(***************************************************************************)
EXTENDS Integers, Sequences, FiniteSets

CONSTANTS
  Zones,           \* bidding zones
  Times,           \* market time units
  Values,          \* figures Energinet may publish
  InitialFigures,  \* [Keys -> Seq(Values)]: what is published when the system starts
  Ingestors,       \* processes running the poll loop (services/ingestor)
  Backfills,       \* processes running a historical backfill (API service, script)
  PollWindow,      \* how many of the newest times one poll returns
  MaxFigures,      \* bound: figures published for one key
  MaxBatches       \* bound: batches saved

Keys == Zones \X Times
Writers == Ingestors \cup Backfills

ASSUME MarketAssumption ==
  /\ Times \subseteq Nat
  /\ Values \subseteq Int
  /\ InitialFigures \in [Keys -> Seq(Values)]
  /\ PollWindow \in Nat \ {0}
  /\ MaxFigures \in Nat
  /\ MaxBatches \in Nat

VARIABLES
  published,  \* external: the figures published so far for each key, oldest first
  history,    \* market_data_history
  clock,      \* the wall clock, read by each stamp
  batches,    \* batches saved so far (only for MaxBatches)
  writer      \* each writer's fetched batch: key -> index in published, 0 if absent

marketVars == <<published, history, clock, batches, writer>>

\* A row.  asOf is not in the table: it records which published figure the row
\* carries, so that properties can tell an older figure from a newer one.
Row == [zone : Zones, time : Times, value : Values, at : Nat \ {0}, asOf : Nat \ {0}]

EmptyBatch == [k \in Keys |-> 0]

MarketTypeOK ==
  /\ published \in [Keys -> Seq(Values)]
  /\ history \subseteq Row
  /\ clock \in Nat
  /\ batches \in Nat
  /\ writer \in [Writers -> [Keys -> Nat]]

MarketInit ==
  /\ published = InitialFigures
  /\ history = {}
  /\ clock = 0
  /\ batches = 0
  /\ writer = [w \in Writers |-> EmptyBatch]

-----------------------------------------------------------------------------

\* Mutant of Now: the clock is too coarse to tell two saves apart.
CoarseNow == clock

\* datetime.now(UTC): every reading is later than the ones before it.
Now == clock + 1

\* External: Energinet publishes the first figure of a key, or revises it.
Publish(k, v) ==
  /\ Len(published[k]) < MaxFigures
  /\ published[k] # <<>> => published[k][Len(published[k])] # v
  /\ published' = [published EXCEPT ![k] = Append(@, v)]
  /\ UNCHANGED <<history, clock, batches, writer>>

\* The newest PollWindow published times of a zone (sort DESC, limit).
InPollWindow(k) ==
  Cardinality({t \in Times : t > k[2] /\ published[<<k[1], t>>] # <<>>}) < PollWindow

\* Mutant of Snapshot: the index of the current figure is off by one.
SnapshotOffByOne(asked) ==
  [k \in Keys |-> IF k \in asked THEN Len(published[k]) - 1 ELSE 0]

\* What one request returns: the current figure of each published key it asks for.
Snapshot(asked) ==
  [k \in Keys |-> IF k \in asked THEN Len(published[k]) ELSE 0]

\* fetch_data returned records; the writer goes on to save them.  (A fetch that
\* fails, or returns no record, leaves nothing behind.)
Fetched(w, asked) ==
  /\ writer[w] = EmptyBatch
  /\ batches < MaxBatches
  /\ Snapshot(asked) # EmptyBatch
  /\ writer' = [writer EXCEPT ![w] = Snapshot(asked)]
  /\ UNCHANGED <<published, history, clock, batches>>

\* One dataset's turn in run_ingestion_cycle.
Poll(w) == Fetched(w, {k \in Keys : InPollWindow(k)})

\* One chunk [first, last] of backfill_dataset.
BackfillChunk(w, first, last) == Fetched(w, {k \in Keys : first <= k[2] /\ k[2] <= last})

\* The rows of a batch, all stamped with the fetched_at of the save.
SavedRows(batch, stamp) ==
  {[zone |-> k[1], time |-> k[2], value |-> published[k][batch[k]],
    at |-> stamp, asOf |-> batch[k]] : k \in {x \in Keys : batch[x] # 0}}

\* save_market_data commits: rows are only ever added.  Reading the clock and
\* committing are one step here; with concurrent writers a row may in truth
\* become visible a moment after a row with a later stamp.
Save(w) ==
  /\ writer[w] # EmptyBatch
  /\ clock' = Now
  /\ history' = history \cup SavedRows(writer[w], Now)
  /\ batches' = batches + 1
  /\ writer' = [writer EXCEPT ![w] = EmptyBatch]
  /\ UNCHANGED published

\* The insert fails and is rolled back, or the process dies before it.
SaveFails(w) ==
  /\ writer[w] # EmptyBatch
  /\ writer' = [writer EXCEPT ![w] = EmptyBatch]
  /\ UNCHANGED <<published, history, clock, batches>>

\* A scheduled cycle for which no dataset is due (_should_poll), or whose
\* request failed: nothing changes.
NothingPolled == UNCHANGED marketVars

MarketNext ==
  \/ \E k \in Keys, v \in Values : Publish(k, v)
  \/ \E w \in Ingestors : Poll(w)
  \/ \E w \in Backfills, first, last \in Times : BackfillChunk(w, first, last)
  \/ \E w \in Writers : Save(w) \/ SaveFails(w)
  \/ NothingPolled

MarketSpec == MarketInit /\ [][MarketNext]_marketVars

-----------------------------------------------------------------------------
(* Reading the table.                                                      *)

RowsOf(k) == {r \in history : r.zone = k[1] /\ r.time = k[2]}

\* The market_data view: the row with the highest fetched_at of each key.
ViewRows(k) == {r \in RowsOf(k) : \A s \in RowsOf(k) : s.at <= r.at}
=============================================================================
