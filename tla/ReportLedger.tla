---------------------------- MODULE ReportLedger ----------------------------
(***************************************************************************)
(* What the event_reports table promises (init-db/02-event-reports.sql,    *)
(* README section 5, "never silently rewrite"): an append-only ledger.  An *)
(* entry is published once under its identifier and stays as it is; a      *)
(* correction is a new entry that names an entry already in the ledger,    *)
(* about the same key.                                                     *)
(***************************************************************************)
CONSTANTS
  Ids,       \* event identifiers
  Subjects,  \* the (zone, time) keys a report can be about
  Contents,  \* what a report can say
  None       \* an entry that corrects nothing

VARIABLE ledger

Entries == [id : Ids, about : Subjects, says : Contents, corrects : Ids \cup {None}]

LedgerTypeOK == ledger \subseteq Entries

Init == ledger = {}

\* Entry e is appended, under an identifier that was not in use.
Append(e) ==
  /\ e \in Entries
  /\ \A o \in ledger : o.id # e.id
  /\ ledger' = ledger \cup {e}

\* An independent report.
Publish(e) == Append(e) /\ e.corrects = None

\* A correction of an entry o about the same key.
Correct(e, o) == Append(e) /\ e.corrects = o.id /\ e.about = o.about

Next ==
  \E e \in ledger' : \/ Publish(e)
                      \/ \E o \in ledger : Correct(e, o)

Spec == Init /\ [][Next]_ledger

-----------------------------------------------------------------------------

\* An identifier names one entry (the primary key).
IdsAreUnique == \A d, e \in ledger : d.id = e.id => d = e

\* Every correction resolves to an entry about the same key (the foreign key,
\* and README section 5: a correction references the original report).
CorrectionsResolve ==
  \A e \in ledger : e.corrects # None =>
    \E o \in ledger : o.id = e.corrects /\ o.about = e.about /\ o # e

LedgerInv == LedgerTypeOK /\ IdsAreUnique /\ CorrectionsResolve
=============================================================================
