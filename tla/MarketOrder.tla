----------------------------- MODULE MarketOrder -----------------------------
(***************************************************************************)
(* In which order figures reach the market_data view.                      *)
(*                                                                         *)
(* fetched_at is the moment a batch is saved, not the moment it was        *)
(* fetched (save_market_data reads the clock once, when the save begins).  *)
(* With an ingestor and a backfill side by side a batch can be overtaken:  *)
(* fetched first, saved last, so the view shows its older figures.  Two    *)
(* history variables beside MarketHistory record the moments of the        *)
(* fetches, which the code does not keep; they restrict no step.           *)
(***************************************************************************)
EXTENDS MarketHistory

VARIABLES
  inFlight,  \* history: the clock when each writer fetched the batch it holds
  taken      \* history: for each fetched_at, the clock when that batch was fetched

orderVars == <<published, history, clock, batches, writer, inFlight, taken>>

OrderInit ==
  /\ MarketInit
  /\ inFlight = [w \in Writers |-> 0]
  /\ taken = [stamp \in {} |-> 0]

\* Writer w fetches a batch now.
Departs(w) ==
  /\ inFlight' = [inFlight EXCEPT ![w] = clock]
  /\ UNCHANGED taken

\* Writer w's batch is stamped now.
Arrives(w) ==
  /\ taken' = [stamp \in DOMAIN taken \cup {Now} |->
                 IF stamp = Now THEN inFlight[w] ELSE taken[stamp]]
  /\ UNCHANGED inFlight

OrderNext ==
  \/ \E k \in Keys, v \in Values : Publish(k, v) /\ UNCHANGED <<inFlight, taken>>
  \/ \E w \in Ingestors : Poll(w) /\ Departs(w)
  \/ \E w \in Backfills, first, last \in Times : BackfillChunk(w, first, last) /\ Departs(w)
  \/ \E w \in Writers : Save(w) /\ Arrives(w)
  \/ \E w \in Writers : SaveFails(w) /\ UNCHANGED <<inFlight, taken>>
  \/ NothingPolled /\ UNCHANGED <<inFlight, taken>>

OrderSpec == OrderInit /\ [][OrderNext]_orderVars

-----------------------------------------------------------------------------

\* However many processes write, the view shows one figure of every key (01-init.sql:
\* DISTINCT ON, highest fetched_at first), and never one older than a figure that was
\* in the table when the shown one was fetched.  A newer figure it hides was saved
\* while the batch of the shown one was in flight: only by an overtaken batch does the
\* dashboard go back.
ViewKeepsUp ==
  \A k \in Keys : \A r \in ViewRows(k) :
    /\ \A s \in ViewRows(k) : s = r
    /\ \A s \in RowsOf(k) : s.at <= taken[r.at] => s.asOf <= r.asOf
=============================================================================
