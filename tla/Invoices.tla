------------------------------ MODULE Invoices ------------------------------
(***************************************************************************)
(* Receipts: InvoiceService.record and its best-effort wrapper safe_record *)
(* (src/app/services/invoice_service.py), run after the money has been     *)
(* committed.  Several sessions of one tenant record at once; the database *)
(* enforces UNIQUE(source_ref) and UNIQUE(invoice_no) per tenant           *)
(* (src/app/models/invoice.py).                                            *)
(***************************************************************************)
EXTENDS Integers, FiniteSets

CONSTANTS Sources,   \* the settled events: payment:<id>, sub:<id>, refund:...
          Recorders  \* the sessions that record receipts

VARIABLES invoices,  \* the committed rows: [src, no]
          rec,       \* [Recorders -> the call a session is making]
          answered   \* history: the sources whose call returned normally

inVars == <<invoices, rec, answered>>

Invoice == [src : Sources, no : Nat \ {0}]

RecordCall == [at : {"check", "number", "insert"}, src : Sources, no : Nat]
NotRecording == [at |-> "idle"]

InvoicesTypeOK ==
  /\ invoices \subseteq Invoice
  /\ rec \in [Recorders -> RecordCall \cup {NotRecording}]
  /\ answered \subseteq Sources

InvoicesInit ==
  /\ invoices = {}
  /\ rec = [r \in Recorders |-> NotRecording]
  /\ answered = {}

BySource(src) == {i \in invoices : i.src = src}

\* coalesce(max(invoice_no), 0) over the committed rows.
LastNo ==
  IF invoices = {} THEN 0
  ELSE CHOOSE n \in {i.no : i \in invoices} : \A i \in invoices : i.no <= n

RecordEnds(r) == rec' = [rec EXCEPT ![r] = NotRecording]

-----------------------------------------------------------------------------
\* A settlement hook calls safe_record after its commit; a retried settlement
\* calls it again for the same source.
SafeRecord(r, src) ==
  /\ rec[r] = NotRecording
  /\ rec' = [rec EXCEPT ![r] = [at |-> "check", src |-> src, no |-> 0]]
  /\ UNCHANGED <<invoices, answered>>

\* by_source finds the row: it is returned.
AlreadyRecorded(r) ==
  /\ rec[r].at = "check"
  /\ BySource(rec[r].src) # {}
  /\ answered' = answered \cup {rec[r].src}
  /\ RecordEnds(r)
  /\ UNCHANGED invoices

NotRecorded(r) ==
  /\ rec[r].at = "check"
  /\ BySource(rec[r].src) = {}
  /\ rec' = [rec EXCEPT ![r].at = "number"]
  /\ UNCHANGED <<invoices, answered>>

\* next_no = max(invoice_no) + 1.
TakeNumber(r) ==
  /\ rec[r].at = "number"
  /\ rec' = [rec EXCEPT ![r].at = "insert", ![r].no = LastNo + 1]
  /\ UNCHANGED <<invoices, answered>>

\* Mutant: only one of the two constraints is there.
Conflicts_SourceOnly(r) == \E i \in invoices : i.src = rec[r].src

\* The row breaks one of the two unique constraints.
Conflicts(r) ==
  \E i \in invoices : i.src = rec[r].src \/ i.no = rec[r].no

\* INSERT and COMMIT.
InsertRow(r) ==
  /\ rec[r].at = "insert"
  /\ ~ Conflicts(r)
  /\ invoices' = invoices \cup {[src |-> rec[r].src, no |-> rec[r].no]}
  /\ answered' = answered \cup {rec[r].src}
  /\ RecordEnds(r)

\* IntegrityError: rolled back; by_source is returned, or None when it was the
\* number that collided.
InsertFails(r) ==
  /\ rec[r].at = "insert"
  /\ Conflicts(r)
  /\ answered' = answered \cup {rec[r].src}
  /\ RecordEnds(r)
  /\ UNCHANGED invoices

\* Any other error, swallowed by safe_record, or the death of the process.
RecordFails(r) ==
  /\ rec[r] # NotRecording
  /\ RecordEnds(r)
  /\ UNCHANGED <<invoices, answered>>

RecordStep(r) ==
  \/ AlreadyRecorded(r) \/ NotRecorded(r) \/ TakeNumber(r)
  \/ InsertRow(r) \/ InsertFails(r)

InvoicesNext ==
  \E r \in Recorders :
     \/ \E src \in Sources : SafeRecord(r, src)
     \/ RecordStep(r)
     \/ RecordFails(r)

InvoicesSpec == InvoicesInit /\ [][InvoicesNext]_inVars

-----------------------------------------------------------------------------
\* One receipt per settled event, however often and by however many sessions it
\* is recorded.
OnePerSource ==
  \A i, j \in invoices : i.src = j.src => i = j

\* The numbers a tenant's customers see are 1, 2, 3, ...: no number is used
\* twice and none is skipped, though they are drawn from a plain maximum and
\* failed inserts and crashes come in between.
NumbersAreDense ==
  /\ \A i, j \in invoices : i.no = j.no => i = j
  /\ \A i \in invoices : \A n \in 1..i.no : \E j \in invoices : j.no = n

\* invoice_service.py:3: "record creates exactly one invoice per settled event":
\* a call that returns normally leaves a receipt for its source.
AnsweredMeansRecorded ==
  \A src \in answered : BySource(src) # {}
=============================================================================
