---------------------------- MODULE InvoicesProofs ----------------------------
(***************************************************************************)
(* Proofs about one client's invoices: first about IssuedInvoices, sending *)
(* them, for any number of invoices, requests and monitor runs, any        *)
(* deadlines and any number of faults; then about VatReturns, declaring    *)
(* and exporting them, for any lines, amounts and bodies of requests and   *)
(* any number of invoices and files.                                       *)
(***************************************************************************)
EXTENDS IssuedInvoices, VatReturns, FiniteSetTheorems, WellFoundedInduction, TLAPS

\* The invariant without the types.
Facts ==
  /\ AcceptedInThePast /\ BackedByKSeF /\ MarkersOK
  /\ OneRowPerNumber /\ UploadedIsAccepted /\ ExportedIsAccepted /\ OffIsTruthful

-----------------------------------------------------------------------------
(* Types *)

LEMMA NoMonitorType == NoMonitor \in Monitor /\ NoMonitor.pc = "idle"
<1>1. (CHOOSE i \in Invoices : TRUE) \in Invoices
  BY IssuedAssumption
<1> QED
  BY <1>1 DEF NoMonitor, Monitor, Tiers

\* What a statement makes of a row of invoices, ...
LEMMA RowUpdateType ==
  ASSUME TypeOK, NEW i \in Invoices
  PROVE  /\ \A s \in {"new", "sent", "rejected", "exported_jpk"} :
              [row[i] EXCEPT !.status = s] \in InvoiceRow
         /\ [row[i] EXCEPT !.number = TRUE] \in InvoiceRow
         /\ \A k \in Statutory : [row[i] EXCEPT !.marker = k] \in InvoiceRow
         /\ \A k \in Statutory : [copy[i] EXCEPT !.marker = k] \in CopyRow
<1>1. row[i] \in InvoiceRow /\ copy[i] \in CopyRow
  BY DEF TypeOK
<1> QED
  BY <1>1 DEF InvoiceRow, CopyRow, Markers, Statutory

\* ... of one of offline_invoices, ...
LEMMA OfflineUpdateType ==
  ASSUME TypeOK, NEW i \in Invoices
  PROVE  /\ [offline[i] EXCEPT !.state = "uploaded"] \in OfflineRow
         /\ \A t \in Tiers : [offline[i] EXCEPT !.flags = @ \cup {t}] \in OfflineRow
         /\ \A t \in Deadlines :
              [offline[i] EXCEPT !.state = "pending", !.deadline = t] \in OfflineRow
<1>1. offline[i] \in OfflineRow
  BY DEF TypeOK
<1>2. [offline[i] EXCEPT !.state = "uploaded"] \in OfflineRow
  BY <1>1 DEF OfflineRow
<1>3. \A t \in Tiers : [offline[i] EXCEPT !.flags = @ \cup {t}] \in OfflineRow
  BY <1>1 DEF OfflineRow
<1>4. \A t \in Deadlines : [offline[i] EXCEPT !.state = "pending", !.deadline = t] \in OfflineRow
  BY <1>1, IssuedAssumption DEF OfflineRow
<1> QED
  BY <1>2, <1>3, <1>4

\* ... and a step of a run of its variables.
LEMMA NextRowType ==
  ASSUME TypeOK, NEW m \in Monitors, NextRow(m)
  PROVE  /\ monitor' \in [Monitors -> Monitor]
         /\ monitor'[m].pc \in {"idle", "rows"}
         /\ \A n \in Monitors \ {m} : monitor'[n] = monitor[n]
<1> DEFINE left == monitor[m].todo \ {monitor[m].inv}
           next == [monitor[m] EXCEPT !.pc = "rows", !.todo = left]
<1>1. monitor[m] \in Monitor
  BY DEF TypeOK
<1>2. next \in Monitor /\ next.pc = "rows"
  BY <1>1 DEF Monitor
<1> QED
  BY <1>2, NoMonitorType DEF NextRow, Update, TypeOK

-----------------------------------------------------------------------------
(* Creation, sending, KSeF and retrieval *)

\* Steps that change neither a table nor what is known of KSeF.
LEMMA QuietStep ==
  ASSUME IInv, TypeOK', UNCHANGED <<now, platform, ksef, monitor, jpk>>,
         \A i \in Invoices : issuing[i] = "done" => issuing'[i] = "done",
         \A q \in Requests : request'[q] = "close" => request[q] = "close"
  PROVE  IInv'
<1>1. Facts'
  BY DEF IInv, Facts, AcceptedInThePast, BackedByKSeF, MarkersOK, OneRowPerNumber,
         UploadedIsAccepted, ExportedIsAccepted, OffIsTruthful, platform, ksef
<1> QED
  BY <1>1 DEF IInv, Facts

LEMMA QuietPreserves ==
  ASSUME IInv,
         \/ \E i \in Invoices : CreationBreaksOff(i)
         \/ \E q \in Requests : SelectInvoice(q) \/ MarkSentFails(q) \/ PollGivesUp(q)
                                \/ RequestCrashes(q)
  PROVE  IInv'
<1>1. TypeOK'
  BY DEF IInv, TypeOK, CreationBreaksOff, SelectInvoice, MarkSentFails, PollGivesUp,
         RequestCrashes, Fault, GoTo, platform, ksef
<1>2. /\ UNCHANGED <<now, platform, ksef, monitor, jpk>>
      /\ \A i \in Invoices : issuing[i] = "done" => issuing'[i] = "done"
      /\ \A q \in Requests : request'[q] = "close" => request[q] = "close"
  BY DEF IInv, TypeOK, CreationBreaksOff, SelectInvoice, MarkSentFails, PollGivesUp,
         RequestCrashes, Fault, GoTo
<1> QED
  BY <1>1, <1>2, QuietStep

LEMMA SubmissionPreserves ==
  ASSUME IInv, NEW q \in Requests, SendInvoice(q) \/ NotSent(q) \/ AnswerIsLost(q)
  PROVE  IInv'
<1>1. CASE SendInvoice(q)
  <2>1. TypeOK'
    BY <1>1 DEF IInv, TypeOK, SendInvoice, GoTo, platform, ksef
  <2>2. Facts'
    BY <1>1 DEF IInv, TypeOK, SendInvoice, GoTo, platform, ksef, Facts, AcceptedInThePast,
           BackedByKSeF, MarkersOK, OneRowPerNumber, UploadedIsAccepted, ExportedIsAccepted,
           OffIsTruthful
  <2> QED
    BY <2>1, <2>2 DEF IInv, Facts
<1>2. CASE NotSent(q)
  <2>1. TypeOK'
    BY <1>2 DEF IInv, TypeOK, NotSent, Fault, GoTo, platform, ksef
  <2> QED
    BY <1>2, <2>1, QuietStep DEF IInv, TypeOK, NotSent, Fault, GoTo, platform, ksef
<1>3. CASE AnswerIsLost(q)
  <2>1. TypeOK'
    BY <1>3 DEF IInv, TypeOK, AnswerIsLost, Fault, GoTo, platform, ksef
  <2>2. Facts'
    BY <1>3 DEF IInv, TypeOK, AnswerIsLost, Fault, GoTo, platform, ksef, Facts, AcceptedInThePast,
           BackedByKSeF, MarkersOK, OneRowPerNumber, UploadedIsAccepted, ExportedIsAccepted,
           OffIsTruthful
  <2> QED
    BY <2>1, <2>2 DEF IInv, Facts
<1> QED
  BY <1>1, <1>2, <1>3

\* Statements that give the status of an issued row another value.
LEMMA StatusStep ==
  ASSUME IInv, TypeOK', UNCHANGED <<now, copy, offline, ksef, monitor, jpk>>,
         NEW i \in Invoices, NEW s \in {"new", "sent", "rejected"},
         row' = [row EXCEPT ![i].status = s],
         \A j \in Invoices : issuing[j] = "done" => issuing'[j] = "done",
         \A q \in Requests : request'[q] = "close" => request[q] = "close"
  PROVE  IInv'
<1>1. \A j \in Invoices : /\ row'[j].number = row[j].number
                          /\ row'[j].marker = row[j].marker
                          /\ row'[j].status \in {row[j].status, s}
  BY DEF IInv, TypeOK, InvoiceRow
<1>2. Facts'
  BY <1>1 DEF IInv, Facts, AcceptedInThePast, BackedByKSeF, MarkersOK, OneRowPerNumber,
         UploadedIsAccepted, ExportedIsAccepted, OffIsTruthful, ksef
<1> QED
  BY <1>2 DEF IInv, Facts

LEMMA CreateInvoicePreserves ==
  ASSUME IInv, NEW i \in Invoices, CreateInvoice(i)
  PROVE  IInv'
<1>1. row' \in [Invoices -> InvoiceRow] /\ issuing' \in [Invoices -> {"idle", "offline", "done"}]
  BY RowUpdateType DEF IInv, TypeOK, CreateInvoice
<1>2. TypeOK'
  BY <1>1 DEF IInv, TypeOK, CreateInvoice, ksef
<1> QED
  BY <1>2, StatusStep DEF IInv, TypeOK, CreateInvoice

LEMMA StatusPreserves ==
  ASSUME IInv, NEW q \in Requests, MarkSent(q) \/ StoreRejection(q)
  PROVE  IInv'
<1> DEFINE i == InvoiceOf[q]
<1>1. PICK s \in {"sent", "rejected"} : row' = [row EXCEPT ![i].status = s]
  BY DEF MarkSent, StoreRejection
<1>2. i \in Invoices
  BY IssuedAssumption
<1>3. row' \in [Invoices -> InvoiceRow]
  BY <1>1, <1>2, RowUpdateType DEF IInv, TypeOK
<1>4. TypeOK'
  BY <1>3 DEF IInv, TypeOK, MarkSent, StoreRejection, GoTo, ksef
<1> QED
  BY <1>1, <1>2, <1>4, StatusStep, ZenonT(60) DEF IInv, TypeOK, MarkSent, StoreRejection, GoTo

\* The number a poll stores is that of an accepted invoice, and no other row
\* has it.
LEMMA StoreNumberPreserves ==
  ASSUME IInv, NEW q \in Requests, StoreNumber(q)
  PROVE  IInv'
<1> DEFINE i == InvoiceOf[q]
<1>1. i \in Invoices /\ accepted[i] # 0
  BY IssuedAssumption DEF StoreNumber, IInv, BackedByKSeF
<1>2. CASE NumberIsFree(i)
  <2>1. row' = [row EXCEPT ![i].number = TRUE] /\ ~copy[i].number
        /\ request' = [request EXCEPT ![q] = "close"]
        /\ UNCHANGED <<now, copy, offline, issuing, ksef, monitor, jpk, alerts, faults>>
    BY <1>2 DEF StoreNumber, GoTo, NumberIsFree
  <2>2. row' \in [Invoices -> InvoiceRow]
    BY <1>1, <2>1, RowUpdateType DEF IInv, TypeOK
  <2>3. TypeOK'
    BY <2>1, <2>2 DEF IInv, TypeOK, ksef
  <2>4. \A j \in Invoices : /\ row'[j].number => row[j].number \/ j = i
                            /\ row'[j].marker = row[j].marker
                            /\ row'[j].status = row[j].status
    BY <1>1, <2>1 DEF IInv, TypeOK, InvoiceRow
  <2>5. \A p \in Requests : request'[p] = "close" => request[p] = "close" \/ InvoiceOf[p] = i
    BY <2>1 DEF IInv, TypeOK
  <2> HIDE DEF i
  <2>6. Facts'
    BY <1>1, <2>1, <2>4, <2>5
       DEF IInv, Facts, AcceptedInThePast, BackedByKSeF, MarkersOK, OneRowPerNumber,
           UploadedIsAccepted, ExportedIsAccepted, OffIsTruthful, ksef
  <2> QED
    BY <2>3, <2>6 DEF IInv, Facts
<1>3. CASE ~NumberIsFree(i)
  <2>1. TypeOK'
    BY <1>3 DEF IInv, TypeOK, StoreNumber, GoTo, ksef
  <2> QED
    BY <1>3, <2>1, QuietStep DEF IInv, TypeOK, StoreNumber, GoTo, platform
<1> QED
  BY <1>2, <1>3

\* An offline row that is closed for an invoice KSeF has.
LEMMA ClosedRow ==
  ASSUME IInv, NEW i \in Invoices, accepted[i] # 0,
         offline' = [offline EXCEPT ![i].state = IF @ = "pending" THEN "uploaded" ELSE @]
  PROVE  /\ offline' \in [Invoices -> OfflineRow]
         /\ \A j \in Invoices :
              /\ offline'[j].deadline = offline[j].deadline
              /\ offline[j].state = "uploaded" => offline'[j].state = "uploaded"
              /\ offline'[j].state = "uploaded" => accepted[j] # 0
              /\ offline'[j].state # "none" => offline[j].state # "none"
<1>1. offline \in [Invoices -> OfflineRow]
  BY DEF IInv, TypeOK
<1>2. \A j \in Invoices \ {i} : offline'[j] = offline[j]
  BY <1>1
<1>3. offline'[i] = IF offline[i].state = "pending"
                    THEN [offline[i] EXCEPT !.state = "uploaded"] ELSE offline[i]
  BY <1>1 DEF OfflineRow
<1>4. offline' \in [Invoices -> OfflineRow]
  BY <1>1, <1>3, OfflineUpdateType, ZenonT(60) DEF IInv, OfflineRow
<1> QED
  BY <1>1, <1>2, <1>3, <1>4 DEF IInv, UploadedIsAccepted, OfflineRow

LEMMA CloseOfflinePreserves ==
  ASSUME IInv, NEW q \in Requests, CloseOffline(q)
  PROVE  IInv'
<1> DEFINE i == InvoiceOf[q]
<1>1. i \in Invoices /\ accepted[i] # 0
  BY IssuedAssumption DEF CloseOffline, IInv, BackedByKSeF
<1>2. offline' = [offline EXCEPT ![i].state = IF @ = "pending" THEN "uploaded" ELSE @]
  BY DEF CloseOffline
<1> HIDE DEF i
<1>3. /\ offline' \in [Invoices -> OfflineRow]
      /\ \A j \in Invoices :
           /\ offline'[j].deadline = offline[j].deadline
           /\ offline[j].state = "uploaded" => offline'[j].state = "uploaded"
           /\ offline'[j].state = "uploaded" => accepted[j] # 0
           /\ offline'[j].state # "none" => offline[j].state # "none"
  BY <1>1, <1>2, ClosedRow
<1>4. TypeOK'
  BY <1>3 DEF IInv, TypeOK, CloseOffline, GoTo, ksef
<1>5. \A p \in Requests : request'[p] = "close" => request[p] = "close"
  BY DEF IInv, TypeOK, CloseOffline, GoTo
<1>6. Facts'
  BY <1>3, <1>5, SMTT(30) DEF IInv, CloseOffline, Facts, AcceptedInThePast, BackedByKSeF, MarkersOK,
         OneRowPerNumber, UploadedIsAccepted, ExportedIsAccepted, OffIsTruthful, ksef
<1> QED
  BY <1>4, <1>6 DEF IInv, Facts

\* A deadline is given once, before any marker.
LEMMA InsertOfflinePreserves ==
  ASSUME IInv, NEW i \in Invoices, InsertOffline(i)
  PROVE  IInv'
<1>1. PICK t \in Deadlines :
        offline' = [offline EXCEPT ![i].state = "pending", ![i].deadline = t]
  BY DEF InsertOffline
<1>2. /\ \A j \in Invoices \ {i} : offline'[j] = offline[j]
      /\ offline'[i] = [offline[i] EXCEPT !.state = "pending", !.deadline = t]
      /\ offline' \in [Invoices -> OfflineRow]
  <2>1. offline \in [Invoices -> OfflineRow]
    BY DEF IInv, TypeOK
  <2>2. offline' = [offline EXCEPT ![i] = [offline[i] EXCEPT !.state = "pending", !.deadline = t]]
    BY <1>1, <2>1 DEF OfflineRow
  <2> QED
    BY <2>1, <2>2, OfflineUpdateType DEF IInv
<1>3. TypeOK'
  BY <1>2 DEF IInv, TypeOK, InsertOffline, ksef
<1>4. offline[i].state = "none" /\ offline'[i].state = "pending"
  <2>1. issuing[i] # "done" /\ offline[i] \in OfflineRow
    BY DEF InsertOffline, IInv, TypeOK
  <2> QED
    BY <1>2, <2>1 DEF IInv, MarkersOK, OfflineRow
<1>5. Facts'
  BY <1>2, <1>4 DEF IInv, TypeOK, InsertOffline, Facts, AcceptedInThePast, BackedByKSeF, MarkersOK,
         OneRowPerNumber, UploadedIsAccepted, ExportedIsAccepted, OffIsTruthful, Statutory, ksef
<1> QED
  BY <1>3, <1>5 DEF IInv, Facts

\* KSeF accepts an invoice.
LEMMA AcceptancePreserves ==
  ASSUME IInv, NEW i \in Invoices, accepted[i] = 0, accepted' = [accepted EXCEPT ![i] = now],
         UNCHANGED <<now, platform, issuing, request, monitor, jpk, alerts, faults>>,
         submission' \in [Requests -> {"none", "processing", "accepted", "refused"}],
         \A q \in Requests :
           submission'[q] = "accepted" => submission[q] = "accepted" \/ InvoiceOf[q] = i
  PROVE  IInv'
<1>1. accepted \in [Invoices -> Nat] /\ now \in Nat /\ now # 0
  BY DEF IInv, TypeOK, AcceptedInThePast
<1>2. /\ accepted' \in [Invoices -> Nat]
      /\ accepted'[i] = now
      /\ \A j \in Invoices \ {i} : accepted'[j] = accepted[j]
      /\ \A j \in Invoices : accepted[j] # 0 => accepted'[j] = accepted[j]
  BY <1>1
<1>3. TypeOK'
  BY <1>2 DEF IInv, TypeOK, platform
<1>4. AcceptedInThePast'
  BY <1>1, <1>2 DEF IInv, AcceptedInThePast
<1>5. BackedByKSeF'
  BY <1>1, <1>2 DEF IInv, BackedByKSeF, platform
<1>6. (MarkersOK /\ OneRowPerNumber /\ UploadedIsAccepted /\ ExportedIsAccepted)'
  BY <1>1, <1>2
     DEF IInv, MarkersOK, OneRowPerNumber, UploadedIsAccepted, ExportedIsAccepted, platform
<1>7. OffIsTruthful'
  BY <1>1, <1>2 DEF IInv, OffIsTruthful, platform
<1> QED
  BY <1>3, <1>4, <1>5, <1>6, <1>7 DEF IInv

LEMMA KSeFPreserves ==
  ASSUME IInv,
         \/ \E q \in Requests : Process(q)
         \/ \E i \in Invoices : UploadElsewhere(i)
  PROVE  IInv'
<1>1. ASSUME NEW q \in Requests, Process(q) PROVE IInv'
  <2>1. InvoiceOf[q] \in Invoices /\ submission \in [Requests -> {"none", "processing", "accepted", "refused"}]
    BY IssuedAssumption DEF IInv, TypeOK
  <2>2. CASE accepted' = accepted /\ submission' = [submission EXCEPT ![q] = "refused"]
    <3>1. TypeOK'
      BY <1>1, <2>1, <2>2 DEF IInv, TypeOK, Process, platform
    <3>2. Facts'
      BY <1>1, <2>1, <2>2
         DEF IInv, Process, Facts, AcceptedInThePast, BackedByKSeF, MarkersOK, OneRowPerNumber,
             UploadedIsAccepted, ExportedIsAccepted, OffIsTruthful, platform
    <3> QED
      BY <3>1, <3>2 DEF IInv, Facts
  <2>3. CASE /\ accepted[InvoiceOf[q]] = 0
             /\ accepted' = [accepted EXCEPT ![InvoiceOf[q]] = now]
             /\ submission' = [submission EXCEPT ![q] = "accepted"]
    BY <1>1, <2>1, <2>3, AcceptancePreserves DEF Process
  <2> QED
    BY <1>1, <2>2, <2>3 DEF Process
<1>2. ASSUME NEW i \in Invoices, UploadElsewhere(i) PROVE IInv'
  BY <1>2, AcceptancePreserves DEF UploadElsewhere, IInv, TypeOK
<1> QED
  BY <1>1, <1>2

LEMMA RetrieveInvoicePreserves ==
  ASSUME IInv, NEW i \in Invoices, RetrieveInvoice(i)
  PROVE  IInv'
<1>1. /\ copy' \in [Invoices -> CopyRow]
      /\ copy'[i] = [number |-> TRUE, marker |-> "NrKSeF"]
      /\ \A j \in Invoices \ {i} : copy'[j] = copy[j]
  BY DEF IInv, TypeOK, RetrieveInvoice, CopyRow, Markers
<1>2. TypeOK'
  BY <1>1 DEF IInv, TypeOK, RetrieveInvoice, ksef
<1>3. Facts'
  BY <1>1 DEF IInv, RetrieveInvoice, Facts, AcceptedInThePast, BackedByKSeF, MarkersOK,
         OneRowPerNumber, UploadedIsAccepted, ExportedIsAccepted, OffIsTruthful, Statutory, ksef
<1> QED
  BY <1>2, <1>3 DEF IInv, Facts

-----------------------------------------------------------------------------
(* The monitor *)

\* A step of a run that closes and marks nothing.
LEMMA WatchingStep ==
  ASSUME IInv, TypeOK', NEW m \in Monitors,
         UNCHANGED <<now, row, copy, issuing, request, ksef, jpk>>,
         \A i \in Invoices : /\ offline'[i].state = offline[i].state
                             /\ offline'[i].deadline = offline[i].deadline,
         \A n \in Monitors \ {m} : monitor'[n] = monitor[n],
         monitor'[m].pc = "mark" =>
           /\ accepted[monitor'[m].inv] # 0
           /\ monitor'[m].hit = "copy" => copy[monitor'[m].inv].number
  PROVE  IInv'
<1>1. Facts'
  BY DEF IInv, Facts, AcceptedInThePast, BackedByKSeF, MarkersOK, OneRowPerNumber,
         UploadedIsAccepted, ExportedIsAccepted, OffIsTruthful, ksef
<1> QED
  BY <1>1 DEF IInv, Facts

LEMMA SelectPendingPreserves ==
  ASSUME IInv, NEW m \in Monitors, SelectPending(m)
  PROVE  IInv'
<1> DEFINE pending == {i \in Invoices : offline[i].state = "pending"}
           flags == [i \in Invoices |-> offline[i].flags]
           run == [NoMonitor EXCEPT !.pc = "rows", !.todo = pending, !.seen = flags]
<1>1. flags \in [Invoices -> SUBSET Tiers]
  BY DEF IInv, TypeOK, OfflineRow
<1>2. run \in Monitor /\ run.pc = "rows"
  <2> HIDE DEF flags
  <2> QED
    BY <1>1, NoMonitorType DEF Monitor
<1>3. monitor' = [monitor EXCEPT ![m] = run]
  BY DEF SelectPending, Update
<1> HIDE DEF run
<1>4. TypeOK'
  BY <1>2, <1>3 DEF IInv, TypeOK, SelectPending, platform, ksef
<1> QED
  BY <1>2, <1>3, <1>4, WatchingStep DEF IInv, TypeOK, SelectPending, platform

\* A run marks only what it has found a KSeF number for.
LEMMA MatchInvoicePreserves ==
  ASSUME IInv, NEW m \in Monitors, MatchInvoice(m)
  PROVE  IInv'
<1>1. monitor[m] \in Monitor
  BY DEF IInv, TypeOK
<1>2. PICK i \in monitor[m].todo :
        IF Matches(i) = {}
        THEN Update(m, [monitor[m] EXCEPT !.pc = "ladder", !.inv = i])
        ELSE \E h \in Matches(i) :
               Update(m, [monitor[m] EXCEPT !.pc = "mark", !.inv = i, !.hit = h])
  BY DEF MatchInvoice
<1>3. i \in Invoices
  BY <1>1, <1>2 DEF Monitor
<1>4. CASE Update(m, [monitor[m] EXCEPT !.pc = "ladder", !.inv = i])
  <2>1. monitor' \in [Monitors -> Monitor] /\ monitor'[m].pc = "ladder"
        /\ \A n \in Monitors \ {m} : monitor'[n] = monitor[n]
    BY <1>1, <1>3, <1>4 DEF IInv, TypeOK, Update, Monitor
  <2>2. TypeOK'
    BY <2>1 DEF IInv, TypeOK, MatchInvoice, platform, ksef
  <2> QED
    BY <2>1, <2>2, WatchingStep DEF MatchInvoice, platform
<1>5. ASSUME NEW h \in Matches(i),
             Update(m, [monitor[m] EXCEPT !.pc = "mark", !.inv = i, !.hit = h])
      PROVE  IInv'
  <2>1. /\ h \in {"row", "copy"} /\ (h = "copy" => copy[i].number)
        /\ row[i].number \/ copy[i].number
    BY <1>5 DEF Matches
  <2>2. /\ monitor' \in [Monitors -> Monitor]
        /\ monitor'[m].inv = i /\ monitor'[m].hit = h
        /\ \A n \in Monitors \ {m} : monitor'[n] = monitor[n]
    BY <1>1, <1>3, <1>5, <2>1 DEF IInv, TypeOK, Update, Monitor
  <2>3. TypeOK'
    BY <2>2 DEF IInv, TypeOK, MatchInvoice, platform, ksef
  <2>4. accepted[i] # 0
    BY <1>3, <2>1 DEF IInv, BackedByKSeF
  <2> QED
    BY <2>1, <2>2, <2>3, <2>4, WatchingStep DEF MatchInvoice, platform
<1> QED
  BY <1>2, <1>4, <1>5

\* What MARK_UPLOADED_SQL does to the invoice of the run.
LEMMA MarkedRows ==
  ASSUME IInv, NEW m \in Monitors, MarkUploaded(m), NEW i, i = monitor[m].inv,
         offline[i].state = "pending"
  PROVE  /\ i \in Invoices /\ accepted[i] # 0
         /\ offline' = [offline EXCEPT ![i].state = "uploaded"]
         /\ \/ /\ row' = [row EXCEPT ![i] = [row[i] EXCEPT !.marker = MarkerNow(i)]]
               /\ copy' = copy
            \/ /\ copy' = [copy EXCEPT ![i] = [copy[i] EXCEPT !.marker = MarkerNow(i)]]
               /\ row' = row /\ copy[i].number
<1>1. i \in Invoices /\ monitor[m].hit \in {"row", "copy"}
  BY DEF IInv, TypeOK, Monitor
<1>2. accepted[i] # 0 /\ (monitor[m].hit = "copy" => copy[i].number)
  BY DEF MarkUploaded, IInv, BackedByKSeF, MarkersOK
<1> QED
  BY <1>1, <1>2 DEF MarkUploaded, IInv, TypeOK

LEMMA MarkUploadedPreserves ==
  ASSUME IInv, NEW m \in Monitors, MarkUploaded(m)
  PROVE  IInv'
<1> DEFINE i == monitor[m].inv
<1>1. /\ monitor' \in [Monitors -> Monitor]
      /\ monitor'[m].pc \in {"idle", "rows"}
      /\ \A n \in Monitors \ {m} : monitor'[n] = monitor[n]
  BY NextRowType DEF MarkUploaded, IInv
<1>2. CASE offline[i].state # "pending"
  <2>1. TypeOK'
    BY <1>1, <1>2 DEF IInv, TypeOK, MarkUploaded, platform, ksef
  <2> QED
    BY <1>1, <1>2, <2>1, WatchingStep DEF MarkUploaded, platform
<1>3. CASE offline[i].state = "pending"
  <2>1. /\ i \in Invoices /\ accepted[i] # 0
        /\ offline' = [offline EXCEPT ![i].state = "uploaded"]
        /\ \/ /\ row' = [row EXCEPT ![i] = [row[i] EXCEPT !.marker = MarkerNow(i)]]
              /\ copy' = copy
           \/ /\ copy' = [copy EXCEPT ![i] = [copy[i] EXCEPT !.marker = MarkerNow(i)]]
              /\ row' = row /\ copy[i].number
    BY <1>3, MarkedRows
  <2>2. offline[i].state = "pending" /\ UNCHANGED <<now, issuing, request, ksef, jpk, alerts, faults>>
    BY <1>3 DEF MarkUploaded
  <2>3. MarkerNow(i) \in Statutory /\ (MarkerNow(i) = "OFF" => ~(offline[i].deadline < now))
    BY DEF MarkerNow, Statutory
  <2> HIDE DEF i
  <2>4. /\ offline' \in [Invoices -> OfflineRow]
        /\ offline'[i].state = "uploaded"
        /\ \A j \in Invoices : offline'[j].deadline = offline[j].deadline
        /\ \A j \in Invoices \ {i} : offline'[j] = offline[j]
    <3>1. offline \in [Invoices -> OfflineRow]
      BY DEF IInv, TypeOK
    <3>2. offline' = [offline EXCEPT ![i] = [offline[i] EXCEPT !.state = "uploaded"]]
      BY <2>1, <3>1
    <3>3. [offline[i] EXCEPT !.state = "uploaded"] \in OfflineRow
      BY <2>1, OfflineUpdateType DEF IInv
    <3> QED
      BY <2>1, <3>1, <3>2, <3>3 DEF OfflineRow
  <2>5. /\ row' \in [Invoices -> InvoiceRow] /\ copy' \in [Invoices -> CopyRow]
        /\ \A j \in Invoices : /\ row'[j].number = row[j].number
                               /\ row'[j].status = row[j].status
                               /\ copy'[j].number = copy[j].number
                               /\ row'[j].marker # row[j].marker => j = i /\ row'[j].marker = MarkerNow(i)
                               /\ copy'[j].marker # copy[j].marker =>
                                    j = i /\ copy'[j].marker = MarkerNow(i) /\ copy[j].number
    <3>1. row \in [Invoices -> InvoiceRow] /\ copy \in [Invoices -> CopyRow]
      BY DEF IInv, TypeOK
    <3>2. [row[i] EXCEPT !.marker = MarkerNow(i)] \in InvoiceRow
          /\ [copy[i] EXCEPT !.marker = MarkerNow(i)] \in CopyRow
      BY <2>1, <2>3, RowUpdateType DEF IInv
    <3> QED
      BY <2>1, <3>1, <3>2, SMTT(30) DEF InvoiceRow, CopyRow
  <2>6. TypeOK'
    BY <1>1, <2>2, <2>4, <2>5 DEF IInv, TypeOK, ksef
  <2>7. AcceptedInThePast'
    BY <2>2 DEF IInv, AcceptedInThePast, ksef
  <2>8. BackedByKSeF'
    BY <1>1, <2>2, <2>5 DEF IInv, BackedByKSeF, ksef
  <2>9. MarkersOK'
    <3>1. \A j \in Invoices :
            /\ row'[j].marker \in Statutory => offline'[j].state = "uploaded"
            /\ copy'[j].marker \in Statutory => offline'[j].state = "uploaded" /\ copy'[j].number
            /\ offline'[j].state # "none" => issuing'[j] = "done"
      BY <2>2, <2>4, <2>5 DEF IInv, MarkersOK
    <3>2. \A n \in Monitors :
            monitor'[n].pc = "mark" /\ monitor'[n].hit = "copy" => copy'[monitor'[n].inv].number
      <4>1. \A n \in Monitors : monitor[n].inv \in Invoices
        BY DEF IInv, TypeOK, Monitor
      <4>2. \A n \in Monitors \ {m} :
              monitor[n].pc = "mark" /\ monitor[n].hit = "copy" => copy[monitor[n].inv].number
        BY DEF IInv, MarkersOK
      <4>3. \A j \in Invoices : copy'[j].number = copy[j].number
        BY <2>5
      <4> QED
        BY <1>1, <4>1, <4>2, <4>3
    <3> QED
      BY <3>1, <3>2 DEF MarkersOK
  <2>10. (OneRowPerNumber /\ UploadedIsAccepted /\ ExportedIsAccepted)'
    BY <2>1, <2>2, <2>4, <2>5
       DEF IInv, OneRowPerNumber, UploadedIsAccepted, ExportedIsAccepted, ksef
  <2>11. OffIsTruthful'
    <3>1. accepted[i] \in Nat /\ now \in Nat /\ offline[i].deadline \in Nat /\ accepted[i] <= now
      BY <2>1 DEF IInv, TypeOK, OfflineRow, AcceptedInThePast
    <3>2. accepted' = accepted
      BY <2>2 DEF ksef
    <3>3. MarkerNow(i) = "OFF" => accepted[i] <= offline[i].deadline
      BY <2>3, <3>1
    <3> QED
      BY <2>1, <2>4, <2>5, <3>2, <3>3 DEF IInv, OffIsTruthful
  <2> QED
    BY <2>6, <2>7, <2>8, <2>9, <2>10, <2>11 DEF IInv
<1> QED
  BY <1>2, <1>3

LEMMA ClimbLadderPreserves ==
  ASSUME IInv, NEW m \in Monitors, ClimbLadder(m)
  PROVE  IInv'
<1> DEFINE i == monitor[m].inv
<1>1. monitor[m] \in Monitor /\ i \in Invoices
  BY DEF IInv, TypeOK, Monitor
<1>2. CASE Owed(m, i)
  <2> DEFINE t == Urgency(i)
  <2>1. t \in Tiers
    BY <1>2 DEF Owed, Urgency, Tiers
  <2>2. /\ alerts' = [alerts EXCEPT ![i][t] = @ + 1]
        /\ Update(m, [monitor[m] EXCEPT !.pc = "flag", !.tier = t])
    BY <1>2 DEF ClimbLadder
  <2> HIDE DEF i, t
  <2>3. /\ monitor' \in [Monitors -> Monitor] /\ monitor'[m].pc = "flag"
        /\ \A n \in Monitors \ {m} : monitor'[n] = monitor[n]
    BY <1>1, <2>1, <2>2 DEF IInv, TypeOK, Update, Monitor
  <2>4. alerts' \in [Invoices -> [Tiers -> Nat]]
    BY <1>1, <2>1, <2>2 DEF IInv, TypeOK
  <2>5. TypeOK'
    BY <2>3, <2>4 DEF IInv, TypeOK, ClimbLadder, platform, ksef
  <2> QED
    BY <2>3, <2>5, WatchingStep DEF ClimbLadder, platform
<1>3. CASE ~Owed(m, i)
  <2>1. NextRow(m) /\ UNCHANGED alerts
    BY <1>3 DEF ClimbLadder
  <2>2. TypeOK'
    BY <2>1, NextRowType DEF IInv, TypeOK, ClimbLadder, platform, ksef
  <2> QED
    BY <2>1, <2>2, NextRowType, WatchingStep DEF ClimbLadder, platform, IInv
<1> QED
  BY <1>2, <1>3

LEMMA SetFlagPreserves ==
  ASSUME IInv, NEW m \in Monitors, SetFlag(m)
  PROVE  IInv'
<1> DEFINE i == monitor[m].inv
           t == monitor[m].tier
<1>1. i \in Invoices /\ t \in Tiers
  BY DEF IInv, TypeOK, Monitor
<1>2. offline' = [offline EXCEPT ![i].flags = @ \cup {t}]
  BY DEF SetFlag
<1> HIDE DEF i, t
<1>3. /\ offline' \in [Invoices -> OfflineRow]
      /\ \A j \in Invoices : /\ offline'[j].state = offline[j].state
                             /\ offline'[j].deadline = offline[j].deadline
  <2>1. offline \in [Invoices -> OfflineRow]
    BY DEF IInv, TypeOK
  <2>2. [offline[i] EXCEPT !.flags = @ \cup {t}] \in OfflineRow
    BY <1>1, OfflineUpdateType DEF IInv
  <2>3. offline' = [offline EXCEPT ![i] = [offline[i] EXCEPT !.flags = @ \cup {t}]]
    BY <1>2, <2>1
  <2> QED
    BY <2>1, <2>2, <2>3 DEF OfflineRow
<1>4. NextRow(m)
  BY DEF SetFlag
<1>5. TypeOK'
  BY <1>3, <1>4, NextRowType DEF IInv, TypeOK, SetFlag, ksef
<1> QED
  BY <1>3, <1>4, <1>5, NextRowType, WatchingStep DEF SetFlag, IInv

LEMMA MonitorFaultPreserves ==
  ASSUME IInv, NEW m \in Monitors, RowFails(m) \/ MonitorCrashes(m)
  PROVE  IInv'
<1>1. /\ monitor' \in [Monitors -> Monitor] /\ monitor'[m].pc \in {"idle", "rows"}
      /\ \A n \in Monitors \ {m} : monitor'[n] = monitor[n]
  BY NextRowType, NoMonitorType DEF IInv, TypeOK, RowFails, MonitorCrashes, Update
<1>2. TypeOK'
  BY <1>1 DEF IInv, TypeOK, RowFails, MonitorCrashes, Fault, platform, ksef
<1> QED
  BY <1>1, <1>2, WatchingStep DEF RowFails, MonitorCrashes, platform

-----------------------------------------------------------------------------
(* The JPK export, and time *)

\* A line of the file needs a number or a statutory marker, and KSeF has the
\* invoices that have one.
LEMMA SelectForJpkPreserves ==
  ASSUME IInv, SelectForJpk
  PROVE  IInv'
<1>1. \A i \in jpk' : i \in Invoices /\ (row[i].number \/ row[i].marker \in Statutory)
  BY DEF SelectForJpk, Reportable, Statutory
<1>2. \A i \in jpk' : accepted[i] # 0
  BY <1>1 DEF IInv, BackedByKSeF, MarkersOK, UploadedIsAccepted
<1>3. TypeOK'
  BY <1>1 DEF IInv, TypeOK, SelectForJpk, platform, ksef
<1>4. Facts'
  BY <1>2 DEF IInv, SelectForJpk, Facts, AcceptedInThePast, BackedByKSeF, MarkersOK,
         OneRowPerNumber, UploadedIsAccepted, ExportedIsAccepted, OffIsTruthful, platform, ksef
<1> QED
  BY <1>3, <1>4 DEF IInv, Facts

LEMMA MarkExportedPreserves ==
  ASSUME IInv, MarkExported
  PROVE  IInv'
<1>1. /\ row' \in [Invoices -> InvoiceRow]
      /\ \A i \in Invoices : /\ row'[i].number = row[i].number
                             /\ row'[i].marker = row[i].marker
                             /\ row'[i].status = row[i].status \/ i \in jpk
  <2>1. row \in [Invoices -> InvoiceRow]
    BY DEF IInv, TypeOK
  <2>2. \A i \in Invoices : [row[i] EXCEPT !.status = "exported_jpk"] \in InvoiceRow
    BY RowUpdateType DEF IInv
  <2> QED
    BY <2>1, <2>2 DEF MarkExported, InvoiceRow
<1>2. jpk' = {} /\ UNCHANGED <<now, copy, offline, issuing, request, ksef, monitor, alerts, faults>>
  BY DEF MarkExported
<1>3. TypeOK'
  BY <1>1, <1>2 DEF IInv, TypeOK, ksef
<1>4. Facts'
  BY <1>1, <1>2 DEF IInv, Facts, AcceptedInThePast, BackedByKSeF, MarkersOK, OneRowPerNumber,
         UploadedIsAccepted, ExportedIsAccepted, OffIsTruthful, ksef
<1> QED
  BY <1>3, <1>4 DEF IInv, Facts

LEMMA TickPreserves ==
  ASSUME IInv, Tick
  PROVE  IInv'
<1>1. now' = now + 1 /\ now \in Nat
  BY DEF IInv, TypeOK, Tick
<1>2. TypeOK'
  BY <1>1 DEF IInv, TypeOK, Tick, platform, ksef
<1>3. AcceptedInThePast'
  BY <1>1 DEF IInv, TypeOK, AcceptedInThePast, Tick, ksef
<1>4. Facts'
  BY <1>3 DEF IInv, Tick, Facts, BackedByKSeF, MarkersOK, OneRowPerNumber, UploadedIsAccepted,
              ExportedIsAccepted, OffIsTruthful, platform, ksef
<1> QED
  BY <1>2, <1>4 DEF IInv, Facts

-----------------------------------------------------------------------------
(* The inductive invariant *)

LEMMA InvariantInitially == Init => IInv
<1> SUFFICES ASSUME Init PROVE IInv
  OBVIOUS
<1>1. TypeOK
  BY NoMonitorType DEF Init, TypeOK, InvoiceRow, CopyRow, OfflineRow, Markers
<1>2. Facts
  BY NoMonitorType
     DEF Init, Facts, AcceptedInThePast, BackedByKSeF, MarkersOK, OneRowPerNumber,
         UploadedIsAccepted, ExportedIsAccepted, OffIsTruthful, Statutory
<1> QED
  BY <1>1, <1>2 DEF IInv, Facts

LEMMA InvariantPreserved == IInv /\ [Next]_vars => IInv'
<1> SUFFICES ASSUME IInv, [Next]_vars PROVE IInv'
  OBVIOUS
<1>1. ASSUME NEW q \in Requests, RequestStep(q) PROVE IInv'
  BY <1>1, QuietPreserves, SubmissionPreserves, StatusPreserves, StoreNumberPreserves,
     CloseOfflinePreserves DEF RequestStep
<1>2. ASSUME NEW m \in Monitors, MonitorStep(m) PROVE IInv'
  BY <1>2, SelectPendingPreserves, MatchInvoicePreserves, MarkUploadedPreserves,
     ClimbLadderPreserves, SetFlagPreserves DEF MonitorStep
<1>3. ASSUME FaultStep PROVE IInv'
  BY <1>3, QuietPreserves, SubmissionPreserves, MonitorFaultPreserves DEF FaultStep
<1>4. CASE UNCHANGED vars
  BY <1>4 DEF vars, platform, ksef, IInv, TypeOK, AcceptedInThePast, BackedByKSeF, MarkersOK,
              OneRowPerNumber, UploadedIsAccepted, ExportedIsAccepted, OffIsTruthful
<1> QED
  BY <1>1, <1>2, <1>3, <1>4, CreateInvoicePreserves, InsertOfflinePreserves, KSeFPreserves,
     RetrieveInvoicePreserves, SelectForJpkPreserves, MarkExportedPreserves, TickPreserves DEF Next

\* The invariant holds in every state of every behaviour.
THEOREM Invariance == Spec => []IInv
  BY InvariantInitially, InvariantPreserved, PTL DEF Spec

-----------------------------------------------------------------------------
(* Theorems *)

\* However requests, retrieval, monitor runs and faults interleave, an
\* offline row is closed only for an invoice KSeF has accepted
\* (ksef/send/route.ts:232).
THEOREM UploadsAreAccepted == Spec => []UploadedIsAccepted
<1>1. IInv => UploadedIsAccepted
  BY DEF IInv
<1> QED
  BY <1>1, Invariance, PTL

\* One row holds a KSeF number, whoever learns of it first.
THEOREM NumbersAreUnique == Spec => []OneRowPerNumber
<1>1. IInv => OneRowPerNumber
  BY DEF IInv
<1> QED
  BY <1>1, Invariance, PTL

\* The marker OFF is given only to what KSeF accepted before its deadline.
THEOREM OffMarkersAreTrue == Spec => []OffIsTruthful
<1>1. IInv => OffIsTruthful
  BY DEF IInv
<1> QED
  BY <1>1, Invariance, PTL

\* The export locks no invoice away from KSeF.
THEOREM ExportsAreAccepted == Spec => []ExportedIsAccepted
<1>1. IInv => ExportedIsAccepted
  BY DEF IInv
<1> QED
  BY <1>1, Invariance, PTL

-----------------------------------------------------------------------------
(* Markers are final *)

LEMMA MarkerStep ==
  ASSUME IInv, Next, NEW i \in Invoices
  PROVE  /\ row[i].marker \in Statutory => row'[i].marker = row[i].marker
         /\ copy[i].marker \in Statutory => copy'[i].marker = copy[i].marker
<1> DEFINE Goal == /\ row[i].marker \in Statutory => row'[i].marker = row[i].marker
                   /\ copy[i].marker \in Statutory => copy'[i].marker = copy[i].marker
<1>1. row' = row /\ copy' = copy => Goal
  OBVIOUS
<1>2. row \in [Invoices -> InvoiceRow] /\ copy \in [Invoices -> CopyRow]
  BY DEF IInv, TypeOK
<1>3. ASSUME NEW j, NEW s, row' = [row EXCEPT ![j].status = s], copy' = copy PROVE Goal
  BY <1>2, <1>3 DEF InvoiceRow
<1>4. ASSUME NEW m \in Monitors, MarkUploaded(m) PROVE Goal
  <2> DEFINE j == monitor[m].inv
  <2>1. CASE offline[j].state # "pending"
    BY <1>1, <1>4, <2>1 DEF MarkUploaded, platform
  <2>2. CASE offline[j].state = "pending"
    <3>1. row[j].marker \notin Statutory /\ copy[j].marker \notin Statutory
      BY <1>4, <2>2, MarkedRows DEF IInv, MarkersOK
    <3>2. (row'[i] = row[i] /\ copy'[i] = copy[i]) \/ i = j
      BY <1>2, <1>4, <2>2, MarkedRows
    <3> QED
      BY <3>1, <3>2
  <2> QED
    BY <2>1, <2>2
<1>5. ASSUME NEW j \in Invoices, RetrieveInvoice(j) PROVE Goal
  BY <1>2, <1>5 DEF RetrieveInvoice, IInv, MarkersOK
<1>6. ASSUME NEW q \in Requests, RequestStep(q) PROVE Goal
  <2>1. CASE StoreNumber(q)
    BY <1>2, <2>1 DEF StoreNumber, InvoiceRow
  <2>2. CASE MarkSent(q) \/ StoreRejection(q)
    BY <1>3, <2>2 DEF MarkSent, StoreRejection
  <2>3. CASE SelectInvoice(q) \/ SendInvoice(q) \/ CloseOffline(q) \/ PollGivesUp(q)
    BY <1>1, <2>3 DEF SelectInvoice, SendInvoice, CloseOffline, PollGivesUp, platform
  <2> QED
    BY <1>6, <2>1, <2>2, <2>3 DEF RequestStep
<1>7. ASSUME NEW m \in Monitors, MonitorStep(m) PROVE Goal
  BY <1>1, <1>4, <1>7
     DEF MonitorStep, SelectPending, MatchInvoice, ClimbLadder, SetFlag, platform
<1>8. ASSUME FaultStep PROVE Goal
  BY <1>1, <1>8 DEF FaultStep, CreationBreaksOff, NotSent, AnswerIsLost, MarkSentFails, RequestCrashes,
                    RowFails, MonitorCrashes, platform
<1>9. ASSUME NEW j \in Invoices, CreateInvoice(j) \/ InsertOffline(j) PROVE Goal
  BY <1>1, <1>3, <1>9 DEF CreateInvoice, InsertOffline
<1>10. ASSUME SelectForJpk \/ MarkExported PROVE Goal
  BY <1>1, <1>2, <1>10 DEF SelectForJpk, MarkExported, InvoiceRow, platform
<1>11. ASSUME Tick \/ (\E q \in Requests : Process(q)) \/ (\E j \in Invoices : UploadElsewhere(j))
       PROVE  Goal
  BY <1>1, <1>11 DEF Tick, Process, UploadElsewhere, platform
<1> QED
  BY <1>5, <1>6, <1>7, <1>8, <1>9, <1>10, <1>11 DEF Next

\* A run of the monitor never overwrites what another, or an earlier one, has
\* decided (the guard of MARK_UPLOADED_SQL).
THEOREM MarkersAreFinal == Spec => MarkerIsFinal
<1>1. IInv /\ [Next]_vars =>
        [\A i \in Invoices :
           /\ row[i].marker \in {"OFF", "BFK"} => row'[i].marker = row[i].marker
           /\ copy[i].marker \in {"OFF", "BFK"} => copy'[i].marker = copy[i].marker]_vars
  BY MarkerStep DEF Statutory
<1> QED
  BY <1>1, Invariance, PTL DEF Spec, MarkerIsFinal

-----------------------------------------------------------------------------
(* Alerts of one tier *)

\* The runs that have recorded the alert and not yet set its flag, and those
\* that may still record it, because they had not seen the flag.
Flagging(i, t) ==
  {m \in Monitors : monitor[m].pc = "flag" /\ monitor[m].inv = i /\ monitor[m].tier = t}

MayAlert(i, t) ==
  {m \in Monitors : /\ monitor[m].pc # "idle" /\ i \in monitor[m].todo
                    /\ ~(monitor[m].pc = "flag" /\ monitor[m].inv = i)
                    /\ t \notin monitor[m].seen[i]}

\* Until the flag is set, every alert is answered for by a run about to set it
\* or by a fault; from then on by a run that cannot alert any more.
TierOK(i, t) ==
  IF t \in offline[i].flags
  THEN alerts[i][t] + Cardinality(MayAlert(i, t)) <= Cardinality(Monitors) + faults
  ELSE alerts[i][t] <= Cardinality(Flagging(i, t)) + faults

LadderOK ==
  /\ \A m \in Monitors : monitor[m].pc = "ladder" => monitor[m].inv \in monitor[m].todo
  /\ \A i \in Invoices, t \in Tiers : TierOK(i, t)

\* What a step does to the alerts of one tier: nothing, with at most one run
\* lost to a fault, ...
TierKept(i, t) ==
  /\ alerts'[i][t] = alerts[i][t]
  /\ t \in offline'[i].flags <=> t \in offline[i].flags
  /\ t \in offline[i].flags => MayAlert(i, t)' \subseteq MayAlert(i, t)
  /\ \/ faults' \in {faults, faults + 1} /\ Flagging(i, t) \subseteq Flagging(i, t)'
     \/ faults' = faults + 1 /\ \E m \in Monitors : Flagging(i, t) \ {m} \subseteq Flagging(i, t)'

\* ... an alert, ...
TierAlerted(i, t) ==
  /\ alerts'[i][t] = alerts[i][t] + 1
  /\ t \in offline'[i].flags <=> t \in offline[i].flags
  /\ faults' = faults
  /\ \E m \in MayAlert(i, t) : /\ MayAlert(i, t)' \subseteq MayAlert(i, t) \ {m}
                               /\ m \notin Flagging(i, t)
                               /\ Flagging(i, t)' = Flagging(i, t) \cup {m}

\* ... or the setting of the flag.
TierFlagged(i, t) ==
  /\ alerts'[i][t] = alerts[i][t]
  /\ t \in offline'[i].flags
  /\ faults' = faults
  /\ MayAlert(i, t)' \subseteq MayAlert(i, t)

LEMMA RunsAreFinite ==
  ASSUME NEW S \in SUBSET Monitors
  PROVE  /\ IsFiniteSet(S) /\ Cardinality(S) \in Nat /\ Cardinality(Monitors) \in Nat
         /\ \A T \in SUBSET S : Cardinality(T) <= Cardinality(S)
<1>1. IsFiniteSet(Monitors)
  BY IssuedAssumption
<1>2. IsFiniteSet(S)
  BY <1>1, FS_Subset
<1> QED
  BY <1>1, <1>2, FS_Subset, FS_CardinalityType

\* A run that has alerted does not do so again.
LEMMA RunsAlertOnce ==
  ASSUME NEW i \in Invoices, NEW t \in Tiers
  PROVE  Cardinality(Flagging(i, t)) + Cardinality(MayAlert(i, t)) <= Cardinality(Monitors)
<1>1. /\ Flagging(i, t) \in SUBSET Monitors /\ MayAlert(i, t) \in SUBSET Monitors
      /\ Flagging(i, t) \cap MayAlert(i, t) = {}
      /\ Flagging(i, t) \cup MayAlert(i, t) \in SUBSET Monitors
  BY DEF Flagging, MayAlert
<1>2. /\ IsFiniteSet(Flagging(i, t)) /\ IsFiniteSet(MayAlert(i, t))
      /\ Cardinality(Flagging(i, t) \cup MayAlert(i, t)) <= Cardinality(Monitors)
      /\ Cardinality(Flagging(i, t)) \in Nat /\ Cardinality(MayAlert(i, t)) \in Nat
      /\ Cardinality(Monitors) \in Nat
  BY <1>1, RunsAreFinite
<1>3. Cardinality(Flagging(i, t) \cup MayAlert(i, t))
        = Cardinality(Flagging(i, t)) + Cardinality(MayAlert(i, t))
  <2>1. Cardinality(Flagging(i, t) \cap MayAlert(i, t)) = 0
    BY <1>1, FS_EmptySet
  <2>2. Cardinality(Flagging(i, t) \cup MayAlert(i, t))
          = Cardinality(Flagging(i, t)) + Cardinality(MayAlert(i, t))
              - Cardinality(Flagging(i, t) \cap MayAlert(i, t))
    BY <1>2, FS_Union
  <2> QED
    BY <1>2, <2>1, <2>2
<1> QED
  BY <1>2, <1>3

LEMMA TierPreserved ==
  ASSUME TypeOK, TypeOK', NEW i \in Invoices, NEW t \in Tiers, TierOK(i, t),
         TierKept(i, t) \/ TierAlerted(i, t) \/ TierFlagged(i, t)
  PROVE  TierOK(i, t)'
<1> DEFINE F == Flagging(i, t)
           A == MayAlert(i, t)
           F1 == Flagging(i, t)'
           A1 == MayAlert(i, t)'
<1>1. /\ alerts[i][t] \in Nat /\ alerts'[i][t] \in Nat /\ faults \in Nat /\ faults' \in Nat
  BY DEF TypeOK
<1>2. /\ F \in SUBSET Monitors /\ A \in SUBSET Monitors
      /\ F1 \in SUBSET Monitors /\ A1 \in SUBSET Monitors
  BY DEF Flagging, MayAlert
<1>3. /\ t \in offline[i].flags =>
           alerts[i][t] + Cardinality(A) <= Cardinality(Monitors) + faults
      /\ t \notin offline[i].flags => alerts[i][t] <= Cardinality(F) + faults
  BY DEF TierOK
<1> SUFFICES /\ t \in offline'[i].flags =>
                  alerts'[i][t] + Cardinality(A1) <= Cardinality(Monitors) + faults'
             /\ t \notin offline'[i].flags => alerts'[i][t] <= Cardinality(F1) + faults'
  BY DEF TierOK
<1> DEFINE Goal == /\ t \in offline'[i].flags =>
                        alerts'[i][t] + Cardinality(A1) <= Cardinality(Monitors) + faults'
                   /\ t \notin offline'[i].flags => alerts'[i][t] <= Cardinality(F1) + faults'
<1>4. Cardinality(F) + Cardinality(A) <= Cardinality(Monitors)
  BY RunsAlertOnce
<1>5. TierKept(i, t) =>
        /\ alerts'[i][t] = alerts[i][t] /\ (t \in offline'[i].flags <=> t \in offline[i].flags)
        /\ t \in offline[i].flags => A1 \subseteq A
        /\ \/ faults' \in {faults, faults + 1} /\ F \subseteq F1
           \/ faults' = faults + 1 /\ \E m \in Monitors : F \ {m} \subseteq F1
  BY DEF TierKept
<1>6. TierAlerted(i, t) =>
        /\ alerts'[i][t] = alerts[i][t] + 1 /\ faults' = faults
        /\ t \in offline'[i].flags <=> t \in offline[i].flags
        /\ \E m \in A : A1 \subseteq A \ {m} /\ m \notin F /\ F1 = F \cup {m}
  BY DEF TierAlerted
<1>7. TierFlagged(i, t) =>
        /\ alerts'[i][t] = alerts[i][t] /\ t \in offline'[i].flags /\ faults' = faults
        /\ A1 \subseteq A
  BY DEF TierFlagged
<1> HIDE DEF F, A, F1, A1
<1>8. /\ IsFiniteSet(F) /\ IsFiniteSet(A) /\ IsFiniteSet(F1) /\ IsFiniteSet(A1)
      /\ Cardinality(F) \in Nat /\ Cardinality(A) \in Nat /\ Cardinality(Monitors) \in Nat
      /\ Cardinality(F1) \in Nat /\ Cardinality(A1) \in Nat
  BY <1>2, RunsAreFinite
<1>9. A1 \subseteq A => Cardinality(A1) <= Cardinality(A)
  BY <1>2, RunsAreFinite
<1>10. CASE TierKept(i, t)
  <2>1. CASE faults' \in {faults, faults + 1} /\ F \subseteq F1
    <3>1. Cardinality(F) <= Cardinality(F1)
      BY <1>2, <2>1, RunsAreFinite
    <3> QED
      BY <1>1, <1>3, <1>5, <1>8, <1>9, <1>10, <2>1, <3>1
  <2>2. ASSUME faults' = faults + 1, NEW m \in Monitors, F \ {m} \subseteq F1
        PROVE  Goal
    <3>1. Cardinality(F \ {m}) <= Cardinality(F1)
      BY <1>2, <2>2, RunsAreFinite
    <3>2. Cardinality(F \ {m}) = IF m \in F THEN Cardinality(F) - 1 ELSE Cardinality(F)
      BY <1>8, FS_RemoveElement
    <3>3. Cardinality(F \ {m}) \in Nat
      BY <1>2, RunsAreFinite
    <3> QED
      BY <1>1, <1>3, <1>5, <1>8, <1>9, <1>10, <2>2, <3>1, <3>2, <3>3
  <2> QED
    BY <1>5, <1>10, <2>1, <2>2
<1>11. CASE TierAlerted(i, t)
  <2>1. PICK m \in A : A1 \subseteq A \ {m} /\ m \notin F /\ F1 = F \cup {m}
    BY <1>6, <1>11
  <2>2. Cardinality(F1) = Cardinality(F) + 1
    BY <1>8, <2>1, FS_AddElement
  <2>3. Cardinality(A \ {m}) = Cardinality(A) - 1
    BY <1>8, <2>1, FS_RemoveElement
  <2>4. Cardinality(A1) <= Cardinality(A \ {m})
    BY <1>2, <2>1, RunsAreFinite
  <2> QED
    BY <1>1, <1>3, <1>6, <1>8, <1>11, <2>2, <2>3, <2>4
<1>12. CASE TierFlagged(i, t)
  BY <1>1, <1>3, <1>4, <1>7, <1>8, <1>9, <1>12
<1> QED
  BY <1>10, <1>11, <1>12

\* A step that is not one of the monitor.
LEMMA OthersKeepTiers ==
  ASSUME TypeOK, NEW i \in Invoices, NEW t \in Tiers, UNCHANGED <<monitor, alerts>>,
         offline'[i].flags = offline[i].flags, faults' \in {faults, faults + 1}
  PROVE  TierKept(i, t)
<1>1. Flagging(i, t)' = Flagging(i, t) /\ MayAlert(i, t)' = MayAlert(i, t)
  BY DEF Flagging, MayAlert
<1> QED
  BY <1>1 DEF TierKept

\* A run that goes on to its next row, or ends.
LEMMA NextRowTiers ==
  ASSUME TypeOK, NEW m \in Monitors, monitor[m].pc # "idle", NextRow(m) \/ Update(m, NoMonitor),
         NEW i \in Invoices, NEW t \in Tiers
  PROVE  /\ MayAlert(i, t)' \subseteq MayAlert(i, t)
         /\ Flagging(i, t) \ {m} \subseteq Flagging(i, t)'
         /\ m \notin Flagging(i, t) => Flagging(i, t) \subseteq Flagging(i, t)'
         /\ monitor'[m].pc # "ladder"
         /\ \A n \in Monitors \ {m} : monitor'[n] = monitor[n]
<1> DEFINE left == monitor[m].todo \ {monitor[m].inv}
           next == [monitor[m] EXCEPT !.pc = "rows", !.todo = left]
<1>1. monitor[m] \in Monitor /\ monitor \in [Monitors -> Monitor]
  BY DEF TypeOK
<1>2. /\ next.pc = "rows" /\ next.seen = monitor[m].seen
      /\ next.todo = left /\ left \subseteq monitor[m].todo /\ monitor[m].inv \notin left
  BY <1>1 DEF Monitor
<1>3. monitor' = [monitor EXCEPT ![m] = NoMonitor] \/ monitor' = [monitor EXCEPT ![m] = next]
  <2>1. CASE left = {}
    BY <2>1 DEF NextRow, Update
  <2>2. CASE left # {}
    BY <2>2 DEF NextRow, Update
  <2> QED
    BY <2>1, <2>2
<1> HIDE DEF next, left
<1>4. \A n \in Monitors \ {m} : monitor'[n] = monitor[n]
  BY <1>1, <1>3
<1>5. /\ monitor'[m].pc \in {"idle", "rows"}
      /\ monitor'[m].pc = "rows" =>
           /\ monitor'[m].todo \subseteq monitor[m].todo /\ monitor[m].inv \notin monitor'[m].todo
           /\ monitor'[m].seen = monitor[m].seen
  BY <1>1, <1>2, <1>3, NoMonitorType
<1>6. Flagging(i, t) \ {m} \subseteq Flagging(i, t)'
  BY <1>4 DEF Flagging
<1>7. MayAlert(i, t)' \subseteq MayAlert(i, t)
  BY <1>4, <1>5 DEF MayAlert
<1> QED
  BY <1>4, <1>5, <1>6, <1>7

\* MatchInvoice sends the run to the ladder or to the update, on a row it had left to visit.
LEMMA MatchInvoiceMoves ==
  ASSUME IInv, NEW m \in Monitors, MatchInvoice(m)
  PROVE  /\ monitor[m].pc = "rows" /\ UNCHANGED offline
         /\ \A n \in Monitors \ {m} : monitor'[n] = monitor[n]
         /\ monitor'[m].pc \in {"ladder", "mark"}
         /\ monitor'[m].todo = monitor[m].todo /\ monitor'[m].seen = monitor[m].seen
         /\ monitor'[m].inv \in monitor[m].todo
<1>1. monitor[m] \in Monitor /\ monitor \in [Monitors -> Monitor]
  BY DEF IInv, TypeOK
<1>2. monitor[m].pc = "rows" /\ UNCHANGED offline
  BY DEF MatchInvoice, platform
<1>3. PICK i \in monitor[m].todo :
        \/ monitor' = [monitor EXCEPT ![m] = [monitor[m] EXCEPT !.pc = "ladder", !.inv = i]]
        \/ \E h \in {"row", "copy"} : monitor' =
             [monitor EXCEPT ![m] = [monitor[m] EXCEPT !.pc = "mark", !.inv = i, !.hit = h]]
  BY DEF MatchInvoice, Update, Matches
<1>4. CASE monitor' = [monitor EXCEPT ![m] = [monitor[m] EXCEPT !.pc = "ladder", !.inv = i]]
  <2> DEFINE run == [monitor[m] EXCEPT !.pc = "ladder", !.inv = i]
  <2>1. /\ run.pc = "ladder" /\ run.todo = monitor[m].todo
        /\ run.seen = monitor[m].seen /\ run.inv = i
    BY <1>1 DEF Monitor
  <2>2. monitor' = [monitor EXCEPT ![m] = run]
    BY <1>4
  <2> HIDE DEF run
  <2>3. monitor'[m] = run /\ \A n \in Monitors \ {m} : monitor'[n] = monitor[n]
    BY <1>1, <2>2
  <2> QED
    BY <1>2, <2>1, <2>3
<1>5. ASSUME NEW h \in {"row", "copy"}, monitor' =
               [monitor EXCEPT ![m] = [monitor[m] EXCEPT !.pc = "mark", !.inv = i, !.hit = h]]
      PROVE  /\ \A n \in Monitors \ {m} : monitor'[n] = monitor[n]
             /\ monitor'[m].pc = "mark" /\ monitor'[m].todo = monitor[m].todo
             /\ monitor'[m].seen = monitor[m].seen /\ monitor'[m].inv = i
  <2> DEFINE run == [monitor[m] EXCEPT !.pc = "mark", !.inv = i, !.hit = h]
  <2>1. /\ run.pc = "mark" /\ run.todo = monitor[m].todo
        /\ run.seen = monitor[m].seen /\ run.inv = i
    BY <1>1 DEF Monitor
  <2>2. monitor' = [monitor EXCEPT ![m] = run]
    BY <1>5
  <2> HIDE DEF run
  <2>3. monitor'[m] = run /\ \A n \in Monitors \ {m} : monitor'[n] = monitor[n]
    BY <1>1, <2>2
  <2> QED
    BY <2>1, <2>3
<1> QED
  BY <1>2, <1>3, <1>4, <1>5

LEMMA WatchingKeepsTiers ==
  ASSUME IInv, NEW m \in Monitors, SelectPending(m) \/ MatchInvoice(m) \/ MarkUploaded(m),
         NEW i \in Invoices, NEW t \in Tiers
  PROVE  TierKept(i, t)
<1>1. /\ monitor[m] \in Monitor /\ monitor \in [Monitors -> Monitor]
      /\ offline \in [Invoices -> OfflineRow]
  BY DEF IInv, TypeOK
<1>2. UNCHANGED <<alerts, faults>>
  BY DEF SelectPending, MatchInvoice, MarkUploaded
<1>3. CASE SelectPending(m)
  <2> DEFINE pending == {j \in Invoices : offline[j].state = "pending"}
             flags == [j \in Invoices |-> offline[j].flags]
             run == [NoMonitor EXCEPT !.pc = "rows", !.todo = pending, !.seen = flags]
  <2>1. /\ monitor' = [monitor EXCEPT ![m] = run]
        /\ monitor[m].pc = "idle" /\ UNCHANGED offline
    BY <1>3 DEF SelectPending, Update, platform
  <2>2. run.pc = "rows" /\ run.seen[i] = offline[i].flags
    BY NoMonitorType DEF Monitor
  <2> HIDE DEF run
  <2>a. \A n \in Monitors \ {m} : monitor'[n] = monitor[n]
    BY <1>1, <2>1
  <2>b. monitor'[m] = run
    BY <1>1, <2>1
  <2>3. /\ \A n \in Monitors \ {m} : monitor'[n] = monitor[n]
        /\ monitor'[m].pc = "rows" /\ monitor'[m].seen[i] = offline[i].flags
    BY <2>2, <2>a, <2>b
  <2>4. Flagging(i, t)' = Flagging(i, t)
    BY <2>1, <2>3 DEF Flagging
  <2>5. t \in offline[i].flags => MayAlert(i, t)' \subseteq MayAlert(i, t)
    BY <2>3 DEF MayAlert
  <2> QED
    BY <1>2, <2>1, <2>4, <2>5 DEF TierKept
<1>4. CASE MatchInvoice(m)
  <2>1. /\ monitor[m].pc = "rows" /\ UNCHANGED offline
        /\ \A n \in Monitors \ {m} : monitor'[n] = monitor[n]
        /\ monitor'[m].pc \in {"ladder", "mark"}
        /\ monitor'[m].todo = monitor[m].todo /\ monitor'[m].seen = monitor[m].seen
    BY <1>4, MatchInvoiceMoves
  <2>2. Flagging(i, t)' = Flagging(i, t) /\ MayAlert(i, t)' = MayAlert(i, t)
    BY <2>1 DEF Flagging, MayAlert
  <2> QED
    BY <1>2, <2>1, <2>2 DEF TierKept
<1>5. CASE MarkUploaded(m)
  <2>1. monitor[m].pc = "mark" /\ NextRow(m) /\ offline'[i].flags = offline[i].flags
    BY <1>1, <1>5 DEF MarkUploaded, OfflineRow, platform
  <2>2. m \notin Flagging(i, t)
    BY <2>1 DEF Flagging
  <2> QED
    BY <1>2, <2>1, <2>2, NextRowTiers DEF TierKept, IInv
<1> QED
  BY <1>3, <1>4, <1>5

LEMMA ClimbLadderTiers ==
  ASSUME IInv, LadderOK, NEW m \in Monitors, ClimbLadder(m), NEW i \in Invoices, NEW t \in Tiers
  PROVE  TierKept(i, t) \/ TierAlerted(i, t)
<1> DEFINE j == monitor[m].inv
           u == Urgency(j)
<1>1. /\ monitor[m] \in Monitor /\ monitor \in [Monitors -> Monitor]
      /\ alerts \in [Invoices -> [Tiers -> Nat]] /\ j \in Invoices
      /\ monitor[m].pc = "ladder" /\ j \in monitor[m].todo
      /\ UNCHANGED <<offline, faults>>
  BY DEF IInv, TypeOK, ClimbLadder, LadderOK, Monitor, platform
<1>2. CASE Owed(m, j)
  <2>1. u \in Tiers /\ u \notin monitor[m].seen[j]
    BY <1>2 DEF Owed, Urgency, Tiers
  <2>2. /\ alerts' = [alerts EXCEPT ![j][u] = @ + 1]
        /\ monitor' = [monitor EXCEPT ![m] = [monitor[m] EXCEPT !.pc = "flag", !.tier = u]]
    BY <1>2 DEF ClimbLadder, Update
  <2> HIDE DEF j, u
  <2>3. /\ \A n \in Monitors \ {m} : monitor'[n] = monitor[n]
        /\ monitor'[m].pc = "flag" /\ monitor'[m].inv = monitor[m].inv /\ monitor'[m].tier = u
        /\ monitor'[m].todo = monitor[m].todo /\ monitor'[m].seen = monitor[m].seen
    BY <1>1, <2>1, <2>2 DEF Monitor
  <2>4. monitor[m].inv = j
    BY DEF j
  <2>5. CASE i = j /\ t = u
    <3>1. alerts'[i][t] = alerts[i][t] + 1
      BY <1>1, <2>1, <2>2, <2>5
    <3>2. m \in MayAlert(i, t) /\ m \notin Flagging(i, t)
      BY <1>1, <2>1, <2>4, <2>5 DEF MayAlert, Flagging
    <3>3. MayAlert(i, t)' \subseteq MayAlert(i, t) \ {m}
      BY <2>3, <2>4, <2>5 DEF MayAlert
    <3>4. Flagging(i, t)' = Flagging(i, t) \cup {m}
      BY <2>3, <2>4, <2>5 DEF Flagging
    <3> QED
      BY <1>1, <3>1, <3>2, <3>3, <3>4 DEF TierAlerted
  <2>6. CASE ~(i = j /\ t = u)
    <3>1. alerts'[i][t] = alerts[i][t]
      BY <1>1, <2>1, <2>2, <2>6
    <3>2. MayAlert(i, t)' \subseteq MayAlert(i, t)
      BY <1>1, <2>3, <2>4 DEF MayAlert
    <3>3. Flagging(i, t) \subseteq Flagging(i, t)'
      BY <1>1, <2>3 DEF Flagging
    <3> QED
      BY <1>1, <3>1, <3>2, <3>3 DEF TierKept
  <2> QED
    BY <2>5, <2>6
<1>3. CASE ~Owed(m, j)
  <2>1. NextRow(m) /\ UNCHANGED alerts
    BY <1>3 DEF ClimbLadder
  <2>2. m \notin Flagging(i, t)
    BY <1>1 DEF Flagging
  <2> QED
    BY <1>1, <2>1, <2>2, NextRowTiers DEF TierKept, IInv
<1> QED
  BY <1>2, <1>3

LEMMA SetFlagTiers ==
  ASSUME IInv, NEW m \in Monitors, SetFlag(m), NEW i \in Invoices, NEW t \in Tiers
  PROVE  TierKept(i, t) \/ TierFlagged(i, t)
<1> DEFINE j == monitor[m].inv
           u == monitor[m].tier
<1>1. /\ monitor[m].pc = "flag" /\ NextRow(m) /\ UNCHANGED <<alerts, faults>>
      /\ offline \in [Invoices -> OfflineRow] /\ j \in Invoices
      /\ offline' = [offline EXCEPT ![j].flags = @ \cup {u}]
  BY DEF SetFlag, IInv, TypeOK, Monitor
<1>2. /\ MayAlert(i, t)' \subseteq MayAlert(i, t)
      /\ m \notin Flagging(i, t) => Flagging(i, t) \subseteq Flagging(i, t)'
  BY <1>1, NextRowTiers DEF IInv
<1>3. CASE i = j /\ t = u
  <2>1. t \in offline'[i].flags
    BY <1>1, <1>3 DEF OfflineRow
  <2> QED
    BY <1>1, <1>2, <2>1 DEF TierFlagged
<1>4. CASE ~(i = j /\ t = u)
  <2>1. m \notin Flagging(i, t)
    BY <1>4 DEF Flagging
  <2>2. t \in offline'[i].flags <=> t \in offline[i].flags
    BY <1>1, <1>4 DEF OfflineRow
  <2> QED
    BY <1>1, <1>2, <2>1, <2>2 DEF TierKept
<1> QED
  BY <1>3, <1>4

LEMMA MonitorFaultTiers ==
  ASSUME IInv, NEW m \in Monitors, RowFails(m) \/ MonitorCrashes(m),
         NEW i \in Invoices, NEW t \in Tiers
  PROVE  TierKept(i, t)
<1>1. /\ monitor[m].pc # "idle" /\ (NextRow(m) \/ Update(m, NoMonitor))
      /\ UNCHANGED <<offline, alerts>> /\ faults' = faults + 1
  BY DEF RowFails, MonitorCrashes, Fault, platform
<1> QED
  BY <1>1, NextRowTiers DEF TierKept, IInv

LEMMA TierStep ==
  ASSUME IInv, LadderOK, Next, NEW i \in Invoices, NEW t \in Tiers
  PROVE  TierKept(i, t) \/ TierAlerted(i, t) \/ TierFlagged(i, t)
<1>1. offline \in [Invoices -> OfflineRow] /\ TypeOK
  BY DEF IInv, TypeOK
<1>2. ASSUME NEW m \in Monitors, MonitorStep(m)
      PROVE  TierKept(i, t) \/ TierAlerted(i, t) \/ TierFlagged(i, t)
  BY <1>2, WatchingKeepsTiers, ClimbLadderTiers, SetFlagTiers DEF MonitorStep
<1>3. ASSUME NEW m \in Monitors, RowFails(m) \/ MonitorCrashes(m) PROVE TierKept(i, t)
  BY <1>3, MonitorFaultTiers
<1>4. ASSUME UNCHANGED <<monitor, alerts, offline>>, faults' \in {faults, faults + 1}
      PROVE  TierKept(i, t)
  BY <1>1, <1>4, OthersKeepTiers
<1>5. ASSUME NEW q \in Requests, RequestStep(q) PROVE TierKept(i, t)
  <2>1. CASE CloseOffline(q)
    <3>1. offline'[i].flags = offline[i].flags /\ UNCHANGED <<monitor, alerts, faults>>
      BY <1>1, <2>1 DEF CloseOffline, OfflineRow
    <3> QED
      BY <1>1, <3>1, OthersKeepTiers
  <2>2. CASE ~CloseOffline(q)
    BY <1>4, <1>5, <2>2
       DEF RequestStep, SelectInvoice, SendInvoice, MarkSent, StoreNumber, StoreRejection,
           PollGivesUp, platform
  <2> QED
    BY <2>1, <2>2
<1>6. ASSUME NEW j \in Invoices, InsertOffline(j) PROVE TierKept(i, t)
  <2>1. PICK d \in Deadlines : offline' = [offline EXCEPT ![j].state = "pending", ![j].deadline = d]
    BY <1>6 DEF InsertOffline
  <2>2. offline'[i].flags = offline[i].flags
    BY <1>1, <2>1 DEF OfflineRow
  <2> QED
    BY <1>1, <1>6, <2>2, OthersKeepTiers DEF InsertOffline
<1>7. ASSUME NEW j \in Invoices,
             CreateInvoice(j) \/ UploadElsewhere(j) \/ RetrieveInvoice(j) \/ CreationBreaksOff(j)
      PROVE  TierKept(i, t)
  BY <1>4, <1>7 DEF CreateInvoice, UploadElsewhere, RetrieveInvoice, CreationBreaksOff, Fault, platform
<1>8. ASSUME NEW q \in Requests,
             Process(q) \/ NotSent(q) \/ AnswerIsLost(q) \/ MarkSentFails(q) \/ RequestCrashes(q)
      PROVE  TierKept(i, t)
  BY <1>4, <1>8 DEF Process, NotSent, AnswerIsLost, MarkSentFails, RequestCrashes, Fault, platform
<1>9. ASSUME SelectForJpk \/ MarkExported \/ Tick PROVE TierKept(i, t)
  BY <1>4, <1>9 DEF SelectForJpk, MarkExported, Tick, platform
<1> QED
  BY <1>2, <1>3, <1>5, <1>6, <1>7, <1>8, <1>9 DEF Next, FaultStep

LEMMA LaddersPreserved ==
  ASSUME IInv, Next, NEW m \in Monitors,
         monitor[m].pc = "ladder" => monitor[m].inv \in monitor[m].todo,
         monitor'[m].pc = "ladder"
  PROVE  monitor'[m].inv \in monitor'[m].todo
<1>1. monitor \in [Monitors -> Monitor] /\ TypeOK
  BY DEF IInv, TypeOK
<1>2. CASE monitor'[m] = monitor[m]
  BY <1>2
<1>3. ASSUME NEW n \in Monitors, NextRow(n) \/ Update(n, NoMonitor) PROVE monitor'[m] = monitor[m]
  BY <1>1, <1>3, NextRowType, NoMonitorType DEF Update
<1>4. ASSUME NEW n \in Monitors, SelectPending(n) PROVE monitor'[m] = monitor[m]
  <2> DEFINE pending == {i \in Invoices : offline[i].state = "pending"}
             flags == [i \in Invoices |-> offline[i].flags]
             run == [NoMonitor EXCEPT !.pc = "rows", !.todo = pending, !.seen = flags]
  <2>1. monitor' = [monitor EXCEPT ![n] = run]
    BY <1>4 DEF SelectPending, Update
  <2>2. run.pc = "rows"
    BY NoMonitorType DEF Monitor
  <2> HIDE DEF run
  <2>3. m = n => monitor'[m] = run
    BY <1>1, <2>1
  <2>4. m # n
    BY <2>2, <2>3
  <2> QED
    BY <1>1, <2>1, <2>4
<1>5. ASSUME NEW n \in Monitors, MatchInvoice(n)
      PROVE  monitor'[m] = monitor[m] \/ monitor'[m].inv \in monitor'[m].todo
  BY <1>5, MatchInvoiceMoves
<1>6. ASSUME NEW n \in Monitors, ClimbLadder(n) PROVE monitor'[m] = monitor[m]
  <2>1. CASE Owed(n, monitor[n].inv)
    <3>1. monitor' = [monitor EXCEPT ![n] =
                        [monitor[n] EXCEPT !.pc = "flag", !.tier = Urgency(monitor[n].inv)]]
      BY <1>6, <2>1 DEF ClimbLadder, Update
    <3>2. [monitor[n] EXCEPT !.pc = "flag", !.tier = Urgency(monitor[n].inv)].pc = "flag"
      BY <1>1 DEF Monitor
    <3> QED
      BY <1>1, <3>1, <3>2
  <2>2. CASE ~Owed(n, monitor[n].inv)
    BY <1>3, <1>6, <2>2 DEF ClimbLadder
  <2> QED
    BY <2>1, <2>2
<1>7. ASSUME NEW n \in Monitors, MonitorStep(n) \/ RowFails(n) \/ MonitorCrashes(n)
      PROVE  monitor'[m] = monitor[m] \/ monitor'[m].inv \in monitor'[m].todo
  BY <1>3, <1>4, <1>5, <1>6, <1>7 DEF MonitorStep, MarkUploaded, SetFlag, RowFails, MonitorCrashes
<1>8. UNCHANGED monitor \/ \E n \in Monitors : MonitorStep(n) \/ RowFails(n) \/ MonitorCrashes(n)
  <2>1. ASSUME NEW q \in Requests, RequestStep(q) PROVE UNCHANGED monitor
    BY <2>1 DEF RequestStep, SelectInvoice, SendInvoice, MarkSent, StoreNumber, StoreRejection,
                CloseOffline, PollGivesUp
  <2>2. ASSUME NEW i \in Invoices, CreateInvoice(i) \/ InsertOffline(i) \/ UploadElsewhere(i)
                                   \/ RetrieveInvoice(i) \/ CreationBreaksOff(i)
        PROVE  UNCHANGED monitor
    BY <2>2 DEF CreateInvoice, InsertOffline, UploadElsewhere, RetrieveInvoice, CreationBreaksOff
  <2>3. ASSUME NEW q \in Requests, Process(q) \/ NotSent(q) \/ AnswerIsLost(q) \/ MarkSentFails(q)
                                   \/ RequestCrashes(q)
        PROVE  UNCHANGED monitor
    BY <2>3 DEF Process, NotSent, AnswerIsLost, MarkSentFails, RequestCrashes
  <2>4. ASSUME SelectForJpk \/ MarkExported \/ Tick PROVE UNCHANGED monitor
    BY <2>4 DEF SelectForJpk, MarkExported, Tick
  <2> QED
    BY <2>1, <2>2, <2>3, <2>4 DEF Next, FaultStep
<1> QED
  BY <1>2, <1>7, <1>8

\* Overlapping runs and faults repeat an alert, nothing else does: the flags
\* make every run alert once, however often it comes back
\* (offline24-monitor.ts:19).
THEOREM TiersAlertOnce == Spec => []AlertedOncePerTier
<1>1. Init => LadderOK
  <2>1. ASSUME Init, NEW i \in Invoices, NEW t \in Tiers PROVE TierOK(i, t)
    <3>1. /\ offline[i].flags = {} /\ alerts[i][t] = 0 /\ faults = 0
          /\ Flagging(i, t) \in SUBSET Monitors
      BY <2>1 DEF Init, Flagging
    <3>2. Cardinality(Flagging(i, t)) \in Nat
      BY <3>1, RunsAreFinite
    <3> QED
      BY <3>1, <3>2 DEF TierOK
  <2> QED
    BY <2>1, NoMonitorType DEF LadderOK, Init
<1>2. IInv /\ LadderOK /\ [Next]_vars => LadderOK'
  <2>1. CASE UNCHANGED vars
    BY <2>1 DEF vars, platform, LadderOK, TierOK, Flagging, MayAlert
  <2>2. ASSUME IInv, LadderOK, Next PROVE LadderOK'
    <3>1. TypeOK /\ TypeOK'
      BY <2>2, InvariantPreserved DEF IInv
    <3>2. ASSUME NEW i \in Invoices, NEW t \in Tiers PROVE TierOK(i, t)'
      <4>1. TierOK(i, t)
        BY <2>2 DEF LadderOK
      <4> QED
        BY <2>2, <3>1, <4>1, TierStep, TierPreserved
    <3>3. \A m \in Monitors : monitor'[m].pc = "ladder" => monitor'[m].inv \in monitor'[m].todo
      BY <2>2, LaddersPreserved DEF LadderOK
    <3> QED
      BY <3>2, <3>3 DEF LadderOK
  <2> QED
    BY <2>1, <2>2
<1>3. IInv /\ LadderOK => AlertedOncePerTier
  <2>1. ASSUME IInv, LadderOK, NEW i \in Invoices, NEW t \in Tiers
        PROVE  alerts[i][t] <= Cardinality(Monitors) + faults
    <3>1. alerts[i][t] \in Nat /\ faults \in Nat /\ TierOK(i, t)
      BY <2>1 DEF IInv, TypeOK, LadderOK
    <3>2. /\ Flagging(i, t) \in SUBSET Monitors /\ MayAlert(i, t) \in SUBSET Monitors
      BY DEF Flagging, MayAlert
    <3>3. /\ Cardinality(Flagging(i, t)) \in Nat /\ Cardinality(MayAlert(i, t)) \in Nat
          /\ Cardinality(Monitors) \in Nat
      BY <3>2, RunsAreFinite
    <3> QED
      BY <3>1, <3>3, RunsAlertOnce DEF TierOK
  <2> QED
    BY <2>1 DEF AlertedOncePerTier
<1> QED
  BY <1>1, <1>2, <1>3, Invariance, PTL DEF Spec


-----------------------------------------------------------------------------
(* Sums.  Induction over the elements of a finite set is WFMin: a          *)
(* counterexample would have a smallest one.                               *)

\* h is the fold that SumFunctionOnSet() takes of f on the subsets of S.
Least(s) == CHOOSE x \in s : TRUE
IsFold(f, S, h) == h = [s \in SUBSET S |-> IF s = {} THEN 0 ELSE f[Least(s)] + h[s \ {Least(s)}]]
FoldOf(f, S) == CHOOSE h : IsFold(f, S, h)

LEMMA SmallerFirst ==
  ASSUME NEW S, IsFiniteSet(S), NEW G,
         \A T \in SUBSET S : (\A U \in SUBSET T : U # T => U \in G) => T \in G
  PROVE  \A T \in SUBSET S : T \in G
<1> DEFINE Bad == {T \in SUBSET S : T \notin G}
<1>1. SUFFICES ASSUME Bad # {} PROVE FALSE
  OBVIOUS
<1>2. IsWellFoundedOn(StrictSubsetOrdering(S), SUBSET S)
  BY FS_StrictSubsetOrderingWellFounded, FS_FiniteSubsetsOfFinite
<1>3. PICK T \in Bad : \A U \in Bad : <<U, T>> \notin StrictSubsetOrdering(S)
  <2>1. Bad \subseteq SUBSET S /\ Bad # {}
    BY <1>1
  <2> HIDE DEF Bad
  <2> QED BY <1>2, <2>1, WFMin
<1>4. \A U \in SUBSET T : U # T => U \in G
  BY <1>3 DEF StrictSubsetOrdering
<1> QED BY <1>3, <1>4

LEMMA OneByOne ==
  ASSUME NEW S, IsFiniteSet(S), NEW G, {} \in G,
         \A T \in SUBSET S : \A x \in S \ T : T \in G => T \cup {x} \in G
  PROVE  S \in G
<1>1. ASSUME NEW T \in SUBSET S, \A U \in SUBSET T : U # T => U \in G
      PROVE  T \in G
  <2>1. CASE T = {}
    BY <2>1
  <2>2. CASE T # {}
    <3>1. PICK x \in T : TRUE
      BY <2>2
    <3>2. T \ {x} \in G /\ T \ {x} \in SUBSET S /\ x \in S \ (T \ {x})
      BY <1>1, <3>1
    <3>3. (T \ {x}) \cup {x} = T
      BY <3>1
    <3> QED BY <3>2, <3>3
  <2> QED BY <2>1, <2>2
<1> QED BY <1>1, SmallerFirst

LEMMA LeastIn ==
  ASSUME NEW s, s # {}
  PROVE  Least(s) \in s
BY DEF Least

LEMMA FoldEmpty ==
  ASSUME NEW f, NEW S, NEW h, IsFold(f, S, h)
  PROVE  h[{}] = 0
<1>1. {} \in SUBSET S
  OBVIOUS
<1> QED BY <1>1 DEF IsFold

LEMMA FoldNext ==
  ASSUME NEW f, NEW S, NEW h, IsFold(f, S, h)
  PROVE  \A s \in SUBSET S : s # {} => h[s] = f[Least(s)] + h[s \ {Least(s)}]
BY DEF IsFold

\* A fold looks only at the subset it is taken of.
LEMMA FoldsAgree ==
  ASSUME NEW f, NEW g, NEW S, NEW T, NEW h, NEW k, IsFold(f, S, h), IsFold(g, T, k),
         NEW U \in SUBSET S, U \in SUBSET T, IsFiniteSet(U), \A x \in U : f[x] = g[x]
  PROVE  h[U] = k[U]
<1> DEFINE G == {s \in SUBSET U : h[s] = k[s]}
<1>1. ASSUME NEW s \in SUBSET U, \A r \in SUBSET s : r # s => r \in G
      PROVE  s \in G
  <2>1. CASE s = {}
    BY <2>1, FoldEmpty
  <2>2. CASE s # {}
    <3>1. PICK c : c = Least(s)
      OBVIOUS
    <3>2. c \in s
      BY <2>2, <3>1, LeastIn
    <3>3. s \ {c} \in G
      BY <1>1, <3>2
    <3>4. s \in SUBSET S /\ s \in SUBSET T
      OBVIOUS
    <3>5. h[s] = f[Least(s)] + h[s \ {Least(s)}] /\ k[s] = g[Least(s)] + k[s \ {Least(s)}]
      BY <2>2, <3>4, FoldNext
    <3>6. f[c] = g[c]
      BY <3>2
    <3> QED BY <3>1, <3>3, <3>5, <3>6
  <2> QED BY <2>1, <2>2
<1> HIDE DEF G
<1>2. U \in G
  BY <1>1, SmallerFirst
<1> QED BY <1>2 DEF G

\* The recursive definition of the fold has a solution: on T, from those on the
\* smaller sets.
LEMMA FoldExists ==
  ASSUME NEW f, NEW S, IsFiniteSet(S)
  PROVE  IsFold(f, S, FoldOf(f, S))
<1> DEFINE G == {T \in SUBSET S : IsFold(f, T, FoldOf(f, T))}
           V(u) == FoldOf(f, u)[u]
<1>1. ASSUME NEW T \in SUBSET S, \A U \in SUBSET T : U # T => U \in G
      PROVE  T \in G
  <2> DEFINE h == [s \in SUBSET T |-> IF s = {} THEN 0 ELSE f[Least(s)] + V(s \ {Least(s)})]
  <2>1. ASSUME NEW s \in SUBSET T, s # {}
        PROVE  h[s \ {Least(s)}] = V(s \ {Least(s)})
    <3>1. PICK u : u = s \ {Least(s)}
      OBVIOUS
    <3>2. Least(s) \in s
      BY <2>1, LeastIn
    <3>3. u \in SUBSET T /\ u # T /\ u \in SUBSET S
      BY <3>1, <3>2
    <3>4. IsFold(f, u, FoldOf(f, u))
      BY <1>1, <3>3
    <3>5. CASE u = {}
      <4>1. FoldOf(f, u)[u] = 0
        BY <3>4, <3>5, FoldEmpty
      <4> QED BY <3>1, <3>3, <3>5, <4>1
    <3>6. CASE u # {}
      <4>1. PICK w : w = u \ {Least(u)}
        OBVIOUS
      <4>2. Least(u) \in u
        BY <3>6, LeastIn
      <4>3. w \in SUBSET T /\ w # T /\ w \in SUBSET u /\ w \in SUBSET w
        BY <3>3, <4>1, <4>2
      <4>4. IsFold(f, w, FoldOf(f, w)) /\ w \in SUBSET S
        BY <1>1, <4>3
      <4>5. IsFiniteSet(w)
        BY <4>4, FS_Subset
      <4>6. FoldOf(f, u)[w] = FoldOf(f, w)[w]
        BY <3>4, <4>3, <4>4, <4>5, FoldsAgree
      <4>7. FoldOf(f, u)[u] = f[Least(u)] + FoldOf(f, u)[w]
        <5>1. u \in SUBSET u
          OBVIOUS
        <5> QED BY <3>4, <3>6, <4>1, <5>1, FoldNext
      <4>8. h[u] = f[Least(u)] + V(w)
        BY <3>3, <3>6, <4>1
      <4> QED BY <3>1, <4>6, <4>7, <4>8
    <3> QED BY <3>5, <3>6
  <2>2. h = [s \in SUBSET T |-> IF s = {} THEN 0 ELSE f[Least(s)] + h[s \ {Least(s)}]]
    <3>1. \A s \in SUBSET T : (IF s = {} THEN 0 ELSE f[Least(s)] + h[s \ {Least(s)}])
                             = (IF s = {} THEN 0 ELSE f[Least(s)] + V(s \ {Least(s)}))
      BY <2>1
    <3> HIDE DEF V
    <3> QED BY <3>1
  <2> HIDE DEF h
  <2>3. IsFold(f, T, h)
    BY <2>2 DEF IsFold
  <2>4. IsFold(f, T, FoldOf(f, T))
    BY <2>3 DEF FoldOf
  <2> QED BY <2>4
<1> HIDE DEF G
<1>2. S \in G
  BY <1>1, SmallerFirst
<1> QED BY <1>2 DEF G

LEMMA SumIsFold ==
  ASSUME NEW f
  PROVE  SumFunction(f) = FoldOf(f, DOMAIN f)[DOMAIN f]
BY DEF SumFunction, SumFunctionOnSet, FoldFunctionOnSet, MapThenFoldSet, FoldOf, IsFold, Least

LEMMA FoldInt ==
  ASSUME NEW f, NEW S, IsFiniteSet(S), \A x \in S : f[x] \in Int, NEW h, IsFold(f, S, h)
  PROVE  \A T \in SUBSET S : h[T] \in Int
<1> DEFINE G == {s \in SUBSET S : h[s] \in Int}
<1>1. ASSUME NEW s \in SUBSET S, \A r \in SUBSET s : r # s => r \in G
      PROVE  s \in G
  <2>1. CASE s = {}
    BY <2>1, FoldEmpty
  <2>2. CASE s # {}
    <3>1. PICK c : c = Least(s)
      OBVIOUS
    <3>2. c \in s
      BY <2>2, <3>1, LeastIn
    <3>3. h[s \ {c}] \in Int /\ f[c] \in Int
      BY <1>1, <3>2
    <3>4. h[s] = f[c] + h[s \ {c}]
      BY <2>2, <3>1 DEF IsFold
    <3> QED BY <3>3, <3>4
  <2> QED BY <2>1, <2>2
<1> HIDE DEF G
<1>2. \A T \in SUBSET S : T \in G
  BY <1>1, SmallerFirst
<1> QED BY <1>2 DEF G

\* The terms may be taken in any order.
LEMMA FoldAny ==
  ASSUME NEW f, NEW S, IsFiniteSet(S), \A x \in S : f[x] \in Int, NEW h, IsFold(f, S, h)
  PROVE  \A T \in SUBSET S : \A x \in T : h[T] = f[x] + h[T \ {x}]
<1> DEFINE G == {s \in SUBSET S : \A x \in s : h[s] = f[x] + h[s \ {x}]}
<1>1. ASSUME NEW s \in SUBSET S, \A r \in SUBSET s : r # s => r \in G
      PROVE  s \in G
  <2>1. SUFFICES ASSUME NEW x \in s PROVE h[s] = f[x] + h[s \ {x}]
    OBVIOUS
  <2>2. PICK c : c = Least(s)
    OBVIOUS
  <2>3. c \in s
    BY <2>2, LeastIn
  <2>4. h[s] = f[c] + h[s \ {c}]
    BY <2>2, FoldNext
  <2>5. CASE x # c
    <3>1. PICK both : both = s \ {x, c}
      OBVIOUS
    <3>2. both = (s \ {c}) \ {x} /\ both = (s \ {x}) \ {c}
      BY <3>1
    <3>3. s \ {c} \in G /\ s \ {x} \in G
      BY <1>1, <2>3
    <3>4. h[s \ {c}] = f[x] + h[both]
      BY <2>5, <3>2, <3>3
    <3>5. h[s \ {x}] = f[c] + h[both]
      BY <2>3, <2>5, <3>2, <3>3
    <3>6. f[x] \in Int /\ f[c] \in Int /\ both \in SUBSET S
      BY <2>3, <3>1
    <3>7. h[both] \in Int
      BY <3>6, FoldInt
    <3> HIDE DEF G
    <3> QED BY <2>4, <3>4, <3>5, <3>6, <3>7
  <2> QED BY <2>4, <2>5
<1> HIDE DEF G
<1>2. \A T \in SUBSET S : T \in G
  BY <1>1, SmallerFirst
<1> QED BY <1>2 DEF G

-----------------------------------------------------------------------------
(* Sums of integer functions on a finite set                               *)

SumOn(f, T) == SumFunction([x \in T |-> f[x]])

\* The four facts that all others follow from.
LEMMA SumEmpty ==
  ASSUME NEW f, DOMAIN f = {}
  PROVE  SumFunction(f) = 0
<1>1. IsFold(f, {}, FoldOf(f, {}))
  BY FoldExists, FS_EmptySet
<1> QED BY <1>1, FoldEmpty, SumIsFold

LEMMA SumInt ==
  ASSUME NEW S, IsFiniteSet(S), NEW f \in [S -> Int]
  PROVE  SumFunction(f) \in Int
<1>1. IsFold(f, S, FoldOf(f, S)) /\ S \in SUBSET S /\ DOMAIN f = S
  BY FoldExists
<1>2. \A x \in S : f[x] \in Int
  OBVIOUS
<1> QED BY <1>1, <1>2, FoldInt, SumIsFold

LEMMA SumRemove ==
  ASSUME NEW S, IsFiniteSet(S), NEW f \in [S -> Int], NEW x \in S
  PROVE  SumFunction(f) = f[x] + SumOn(f, S \ {x})
<1>1. PICK T : T = S \ {x}
  OBVIOUS
<1>2. PICK g : g = [y \in T |-> f[y]]
  OBVIOUS
<1>3. IsFold(f, S, FoldOf(f, S)) /\ S \in SUBSET S /\ T \in SUBSET S /\ DOMAIN f = S
  BY <1>1, FoldExists
<1>4. IsFiniteSet(T)
  BY <1>3, FS_Subset
<1>5. IsFold(g, T, FoldOf(g, T)) /\ DOMAIN g = T /\ T \in SUBSET T
  BY <1>2, <1>4, FoldExists
<1>6. \A y \in T : f[y] = g[y]
  BY <1>2
<1>7. FoldOf(f, S)[T] = FoldOf(g, T)[T]
  BY <1>3, <1>4, <1>5, <1>6, FoldsAgree
<1>8. \A y \in S : f[y] \in Int
  OBVIOUS
<1>9. FoldOf(f, S)[S] = f[x] + FoldOf(f, S)[T]
  BY <1>1, <1>3, <1>8, FoldAny
<1>10. SumOn(f, S \ {x}) = SumFunction(g)
  BY <1>1, <1>2 DEF SumOn
<1> QED BY <1>3, <1>5, <1>7, <1>9, <1>10, SumIsFold

LEMMA SumWhole ==
  ASSUME NEW S, NEW f \in [S -> Int]
  PROVE  SumOn(f, S) = SumFunction(f)
<1>1. [x \in S |-> f[x]] = f
  OBVIOUS
<1> QED BY <1>1 DEF SumOn

LEMMA SumOnEmpty ==
  ASSUME NEW f
  PROVE  SumOn(f, {}) = 0
<1>1. DOMAIN [x \in {} |-> f[x]] = {}
  OBVIOUS
<1> QED BY <1>1, SumEmpty DEF SumOn

LEMMA SumOnInt ==
  ASSUME NEW S, IsFiniteSet(S), NEW f \in [S -> Int], NEW T \in SUBSET S
  PROVE  SumOn(f, T) \in Int
<1>1. [x \in T |-> f[x]] \in [T -> Int] /\ IsFiniteSet(T)
  BY FS_Subset
<1> QED BY <1>1, SumInt DEF SumOn

LEMMA SumOnAdd ==
  ASSUME NEW S, IsFiniteSet(S), NEW f \in [S -> Int], NEW T \in SUBSET S, NEW x \in S \ T
  PROVE  SumOn(f, T \cup {x}) = SumOn(f, T) + f[x]
<1>1. PICK U : U = T \cup {x}
  OBVIOUS
<1>2. PICK g : g = [y \in U |-> f[y]]
  OBVIOUS
<1>3. g \in [U -> Int] /\ g[x] = f[x] /\ x \in U /\ U \in SUBSET S
  BY <1>1, <1>2
<1>4. IsFiniteSet(U)
  BY <1>3, FS_Subset
<1>5. SumFunction(g) = g[x] + SumOn(g, U \ {x})
  BY <1>3, <1>4, SumRemove
<1>6. SumOn(g, U \ {x}) = SumOn(f, T)
  <2>1. U \ {x} = T
    BY <1>1
  <2>2. [y \in T |-> g[y]] = [y \in T |-> f[y]]
    BY <1>1, <1>2
  <2> QED BY <2>1, <2>2 DEF SumOn
<1>7. SumOn(f, T) \in Int /\ f[x] \in Int
  BY SumOnInt
<1> QED BY <1>1, <1>2, <1>3, <1>5, <1>6, <1>7 DEF SumOn

\* Term by term.
LEMMA SumPlus ==
  ASSUME NEW S, IsFiniteSet(S), NEW f \in [S -> Int], NEW g \in [S -> Int]
  PROVE  SumFunction([x \in S |-> f[x] + g[x]]) = SumFunction(f) + SumFunction(g)
<1>1. PICK h : h = [x \in S |-> f[x] + g[x]]
  OBVIOUS
<1>2. h \in [S -> Int]
  BY <1>1
<1> DEFINE G == {T \in SUBSET S : SumOn(h, T) = SumOn(f, T) + SumOn(g, T)}
<1>3. {} \in G
  BY SumOnEmpty
<1>4. ASSUME NEW T \in SUBSET S, NEW x \in S \ T, T \in G
      PROVE  T \cup {x} \in G
  <2>1. /\ SumOn(h, T \cup {x}) = SumOn(h, T) + h[x]
        /\ SumOn(f, T \cup {x}) = SumOn(f, T) + f[x]
        /\ SumOn(g, T \cup {x}) = SumOn(g, T) + g[x]
    BY <1>2, SumOnAdd
  <2>2. SumOn(f, T) \in Int /\ SumOn(g, T) \in Int /\ f[x] \in Int /\ g[x] \in Int
    BY SumOnInt
  <2>3. h[x] = f[x] + g[x] /\ SumOn(h, T) = SumOn(f, T) + SumOn(g, T)
    BY <1>1, <1>4
  <2>4. SumOn(h, T \cup {x}) = SumOn(f, T \cup {x}) + SumOn(g, T \cup {x})
    BY <2>1, <2>2, <2>3
  <2> QED BY <2>4
<1> HIDE DEF G
<1>5. S \in G
  BY <1>3, <1>4, OneByOne
<1> QED BY <1>1, <1>2, <1>5, SumWhole DEF G

\* Terms that are zero may be left out.
LEMMA SumNonzero ==
  ASSUME NEW S, IsFiniteSet(S), NEW f \in [S -> Int], NEW U \in SUBSET S, \A x \in S \ U : f[x] = 0
  PROVE  SumFunction(f) = SumOn(f, U)
<1> DEFINE G == {T \in SUBSET S : SumOn(f, T) = SumOn(f, T \cap U)}
<1>1. {} \in G
  <2>1. {} \cap U = {}
    OBVIOUS
  <2> QED BY <2>1
<1>2. ASSUME NEW T \in SUBSET S, NEW x \in S \ T, T \in G
      PROVE  T \cup {x} \in G
  <2>1. SumOn(f, T \cup {x}) = SumOn(f, T) + f[x]
    BY SumOnAdd
  <2>2. CASE x \in U
    <3>1. PICK V : V = T \cap U
      OBVIOUS
    <3>2. (T \cup {x}) \cap U = V \cup {x} /\ V \in SUBSET S /\ x \in S \ V
      BY <2>2, <3>1
    <3>3. SumOn(f, V \cup {x}) = SumOn(f, V) + f[x]
      BY <3>2, SumOnAdd
    <3>4. SumOn(f, T) = SumOn(f, V)
      BY <1>2, <3>1
    <3> QED BY <2>1, <3>2, <3>3, <3>4
  <2>3. CASE x \notin U
    <3>1. (T \cup {x}) \cap U = T \cap U
      BY <2>3
    <3>2. SumOn(f, T) \in Int /\ f[x] = 0
      BY <2>3, SumOnInt
    <3>3. SumOn(f, T \cup {x}) = SumOn(f, T)
      BY <2>1, <3>2
    <3> QED BY <1>2, <3>1, <3>3
  <2> QED BY <2>2, <2>3
<1> HIDE DEF G
<1>3. S \in G
  BY <1>1, <1>2, OneByOne
<1>4. S \cap U = U
  OBVIOUS
<1> QED BY <1>3, <1>4, SumWhole DEF G

\* Terms grouped by a key.
LEMMA SumGrouped ==
  ASSUME NEW S, IsFiniteSet(S), NEW f \in [S -> Int], NEW K, IsFiniteSet(K), NEW c \in [S -> K]
  PROVE  SumFunction(f) = SumFunction([k \in K |-> SumOn(f, {x \in S : c[x] = k})])
<1> DEFINE Of(T, k) == {y \in T : c[y] = k}
           Groups(T) == [k \in K |-> SumOn(f, Of(T, k))]
           G == {T \in SUBSET S : SumOn(f, T) = SumFunction(Groups(T))}
<1>1. \A T \in SUBSET S : Groups(T) \in [K -> Int]
  BY SumOnInt
<1>2. {} \in G
  <2>1. \A k \in K : Groups({})[k] = 0
    <3>1. \A k \in K : Of({}, k) = {}
      OBVIOUS
    <3> QED BY <3>1, SumOnEmpty
  <2>2. SumFunction(Groups({})) = SumOn(Groups({}), {})
    <3>1. PICK gr : gr = Groups({})
      OBVIOUS
    <3>2. gr \in [K -> Int] /\ {} \in SUBSET K /\ \A k \in K \ {} : gr[k] = 0
      BY <1>1, <2>1, <3>1
    <3> HIDE DEF Groups
    <3> QED BY <3>1, <3>2, SumNonzero
  <2> QED BY <2>2, SumOnEmpty
<1>3. ASSUME NEW T \in SUBSET S, NEW x \in S \ T, T \in G
      PROVE  T \cup {x} \in G
  <2>1. PICK old : old = Groups(T)
    OBVIOUS
  <2>2. PICK new : new = Groups(T \cup {x})
    OBVIOUS
  <2>3. old \in [K -> Int] /\ new \in [K -> Int] /\ c[x] \in K
    BY <1>1, <2>1, <2>2
  <2>4. \A k \in K \ {c[x]} : new[k] = old[k]
    <3>1. \A k \in K \ {c[x]} : Of(T \cup {x}, k) = Of(T, k)
      OBVIOUS
    <3> HIDE DEF Of
    <3> QED BY <2>1, <2>2, <3>1
  <2>5. new[c[x]] = old[c[x]] + f[x]
    <3>1. Of(T \cup {x}, c[x]) = Of(T, c[x]) \cup {x} /\ Of(T, c[x]) \in SUBSET S /\ x \in S \ Of(T, c[x])
      OBVIOUS
    <3> HIDE DEF Of
    <3>2. SumOn(f, Of(T, c[x]) \cup {x}) = SumOn(f, Of(T, c[x])) + f[x]
      BY <3>1, SumOnAdd
    <3> QED BY <2>1, <2>2, <2>3, <3>1, <3>2
  <2>6. SumOn(new, K \ {c[x]}) = SumOn(old, K \ {c[x]})
    <3>1. [k \in K \ {c[x]} |-> new[k]] = [k \in K \ {c[x]} |-> old[k]]
      BY <2>4
    <3> QED BY <3>1 DEF SumOn
  <2>7. /\ SumFunction(new) = new[c[x]] + SumOn(new, K \ {c[x]})
        /\ SumFunction(old) = old[c[x]] + SumOn(old, K \ {c[x]})
    BY <2>3, SumRemove
  <2>8. SumOn(old, K \ {c[x]}) \in Int /\ old[c[x]] \in Int /\ f[x] \in Int
    BY <2>3, SumOnInt
  <2>9. SumOn(f, T) = SumFunction(old)
    BY <1>3, <2>1
  <2>10. SumFunction(new) = SumOn(f, T) + f[x]
    BY <2>5, <2>6, <2>7, <2>8, <2>9
  <2>11. SumOn(f, T \cup {x}) = SumOn(f, T) + f[x]
    BY SumOnAdd
  <2> HIDE DEF Groups
  <2> QED BY <2>2, <2>10, <2>11
<1> HIDE DEF G
<1>4. S \in G
  BY <1>2, <1>3, OneByOne
<1> QED BY <1>4, SumWhole DEF G

LEMMA SumZero ==
  ASSUME NEW S, IsFiniteSet(S), NEW f \in [S -> Int], \A x \in S : f[x] = 0
  PROVE  SumFunction(f) = 0
<1>1. {} \in SUBSET S
  OBVIOUS
<1>2. SumFunction(f) = SumOn(f, {})
  BY <1>1, SumNonzero
<1> QED BY <1>2, SumOnEmpty

LEMMA SumOnly ==
  ASSUME NEW S, IsFiniteSet(S), NEW f \in [S -> Int], NEW x \in S, \A y \in S \ {x} : f[y] = 0
  PROVE  SumFunction(f) = f[x]
<1>1. {} \in SUBSET S /\ {x} \in SUBSET S /\ x \in S \ {} /\ {} \cup {x} = {x}
  OBVIOUS
<1>2. SumFunction(f) = SumOn(f, {x})
  BY <1>1, SumNonzero
<1>3. SumOn(f, {} \cup {x}) = SumOn(f, {}) + f[x]
  BY <1>1, SumOnAdd
<1> QED BY <1>1, <1>2, <1>3, SumOnEmpty

LEMMA SumMinus ==
  ASSUME NEW S, IsFiniteSet(S), NEW f \in [S -> Int], NEW g \in [S -> Int]
  PROVE  SumFunction([x \in S |-> f[x] - g[x]]) = SumFunction(f) - SumFunction(g)
<1>1. PICK h : h = [x \in S |-> f[x] - g[x]]
  OBVIOUS
<1>2. h \in [S -> Int]
  BY <1>1
<1>3. [x \in S |-> h[x] + g[x]] = f
  <2>1. \A x \in S : h[x] + g[x] = f[x]
    BY <1>1
  <2> QED BY <2>1
<1>4. SumFunction(f) = SumFunction(h) + SumFunction(g)
  BY <1>2, <1>3, SumPlus
<1>5. SumFunction(h) \in Int /\ SumFunction(g) \in Int
  BY <1>2, SumInt
<1> QED BY <1>1, <1>4, <1>5

LEMMA SumParts ==
  ASSUME NEW S, IsFiniteSet(S), NEW f \in [S -> Int], NEW T \in SUBSET S
  PROVE  SumFunction(f) = SumOn(f, T) + SumOn(f, S \ T)
<1>1. PICK g : g = [x \in S |-> IF x \in T THEN f[x] ELSE 0]
  OBVIOUS
<1>2. PICK h : h = [x \in S |-> IF x \in T THEN 0 ELSE f[x]]
  OBVIOUS
<1>3. g \in [S -> Int] /\ h \in [S -> Int]
  BY <1>1, <1>2
<1>4. [x \in S |-> g[x] + h[x]] = f
  <2>1. \A x \in S : g[x] + h[x] = f[x]
    BY <1>1, <1>2
  <2> QED BY <2>1
<1>5. SumFunction(f) = SumFunction(g) + SumFunction(h)
  BY <1>3, <1>4, SumPlus
<1>6. SumFunction(g) = SumOn(f, T)
  <2>1. \A x \in S \ T : g[x] = 0
    BY <1>1
  <2>2. [x \in T |-> g[x]] = [x \in T |-> f[x]]
    BY <1>1
  <2>3. SumFunction(g) = SumOn(g, T)
    BY <1>3, <2>1, SumNonzero
  <2> QED BY <2>2, <2>3 DEF SumOn
<1>7. SumFunction(h) = SumOn(f, S \ T)
  <2>1. \A x \in S \ (S \ T) : h[x] = 0
    BY <1>2
  <2>2. [x \in S \ T |-> h[x]] = [x \in S \ T |-> f[x]]
    BY <1>2
  <2>3. SumFunction(h) = SumOn(h, S \ T)
    BY <1>3, <2>1, SumNonzero
  <2> QED BY <2>2, <2>3 DEF SumOn
<1> QED BY <1>5, <1>6, <1>7

\* Terms replaced on a part of the set.
LEMMA SumReplaced ==
  ASSUME NEW S, IsFiniteSet(S), NEW f \in [S -> Int], NEW T \in SUBSET S, NEW g \in [T -> Int]
  PROVE  SumFunction([x \in S |-> IF x \in T THEN g[x] ELSE f[x]])
           = SumFunction(f) + SumFunction([x \in T |-> g[x] - f[x]])
<1>1. PICK h : h = [x \in S |-> IF x \in T THEN g[x] ELSE f[x]]
  OBVIOUS
<1>2. PICK e : e = [x \in T |-> f[x]]
  OBVIOUS
<1>3. h \in [S -> Int] /\ e \in [T -> Int] /\ IsFiniteSet(T) /\ IsFiniteSet(S \ T)
  <2>1. S \ T \in SUBSET S
    OBVIOUS
  <2> QED BY <1>1, <1>2, <2>1, FS_Subset
<1>4. SumFunction(h) = SumFunction(g) + SumOn(f, S \ T)
  <2>1. [x \in T |-> h[x]] = g
    BY <1>1
  <2>2. [x \in S \ T |-> h[x]] = [x \in S \ T |-> f[x]]
    BY <1>1
  <2>3. SumFunction(h) = SumOn(h, T) + SumOn(h, S \ T)
    BY <1>3, SumParts
  <2> QED BY <2>1, <2>2, <2>3 DEF SumOn
<1>5. SumFunction(f) = SumFunction(e) + SumOn(f, S \ T)
  BY <1>2, SumParts, ZenonT(60) DEF SumOn
<1>6. SumFunction([x \in T |-> g[x] - f[x]]) = SumFunction(g) - SumFunction(e)
  <2>1. [x \in T |-> g[x] - f[x]] = [x \in T |-> g[x] - e[x]]
    BY <1>2
  <2>2. SumFunction([x \in T |-> g[x] - e[x]]) = SumFunction(g) - SumFunction(e)
    BY <1>3, SumMinus
  <2> QED BY <2>1, <2>2
<1>7. SumFunction(g) \in Int /\ SumFunction(e) \in Int /\ SumOn(f, S \ T) \in Int
  <2>1. S \ T \in SUBSET S
    OBVIOUS
  <2> QED BY <1>3, <2>1, SumInt, SumOnInt
<1> QED BY <1>1, <1>4, <1>5, <1>6, <1>7

\* Terms taken over new names; several may share one if they are zero.
LEMMA SumRenamed ==
  ASSUME NEW S, IsFiniteSet(S), NEW f \in [S -> Int], NEW K, IsFiniteSet(K), NEW g \in [K -> Int],
         NEW c \in [S -> K],
         \A k \in K : \/ \E x \in S : {y \in S : c[y] = k} = {x} /\ f[x] = g[k]
                      \/ g[k] = 0 /\ \A y \in S : c[y] = k => f[y] = 0
  PROVE  SumFunction(f) = SumFunction(g)
<1>1. ASSUME NEW k \in K
      PROVE  SumOn(f, {x \in S : c[x] = k}) = g[k]
  <2>1. PICK T : T = {x \in S : c[x] = k}
    OBVIOUS
  <2>2. T \in SUBSET S /\ IsFiniteSet(T)
    <3>1. T \in SUBSET S
      BY <2>1
    <3> QED BY <3>1, FS_Subset
  <2>3. PICK h : h = [x \in T |-> f[x]]
    OBVIOUS
  <2>4. h \in [T -> Int]
    BY <2>2, <2>3
  <2>5. CASE \E x \in S : T = {x} /\ f[x] = g[k]
    <3>1. PICK x \in S : T = {x} /\ f[x] = g[k]
      BY <2>5
    <3>2. x \in T /\ \A y \in T \ {x} : h[y] = 0
      BY <3>1
    <3>3. SumFunction(h) = h[x]
      BY <2>2, <2>4, <3>2, SumOnly
    <3> QED BY <2>1, <2>3, <3>1, <3>2, <3>3 DEF SumOn
  <2>6. CASE g[k] = 0 /\ \A y \in T : f[y] = 0
    <3>1. \A y \in T : h[y] = 0
      BY <2>3, <2>6
    <3>2. SumFunction(h) = 0
      BY <2>2, <2>4, <3>1, SumZero
    <3> QED BY <2>1, <2>3, <2>6, <3>2 DEF SumOn
  <2> QED BY <2>1, <2>5, <2>6
<1>2. [k \in K |-> SumOn(f, {x \in S : c[x] = k})] = g
  BY <1>1
<1>3. SumFunction(f) = SumFunction([k \in K |-> SumOn(f, {x \in S : c[x] = k})])
  BY SumGrouped
<1> QED BY <1>2, <1>3

-----------------------------------------------------------------------------
(* Amounts, and the arithmetic of module Documents                         *)

Amount == [net : Int, vat : Int]

LEMMA AmountsIs ==
  ASSUME NEW n, NEW v
  PROVE  Amounts(n, v).net = n /\ Amounts(n, v).vat = v
BY DEF Amounts

LEMMA AmountsType ==
  ASSUME NEW n \in Int, NEW v \in Int
  PROVE  Amounts(n, v) \in Amount
BY DEF Amounts, Amount

LEMMA AmountParts ==
  ASSUME NEW a \in Amount
  PROVE  a.net \in Int /\ a.vat \in Int /\ a = Amounts(a.net, a.vat)
BY DEF Amounts, Amount

LEMMA AmountsEqual ==
  ASSUME NEW a \in Amount, NEW b \in Amount, a.net = b.net, a.vat = b.vat
  PROVE  a = b
BY DEF Amount

LEMMA ZeroType == Zero \in Amount /\ Zero.net = 0 /\ Zero.vat = 0
BY DEF Zero, Amounts, Amount

LEMMA PlusIs ==
  ASSUME NEW a \in Amount, NEW b \in Amount
  PROVE  Plus(a, b) \in Amount /\ Plus(a, b).net = a.net + b.net /\ Plus(a, b).vat = a.vat + b.vat
BY DEF Plus, Amounts, Amount

LEMMA LessIs ==
  ASSUME NEW a \in Amount, NEW b \in Amount
  PROVE  Less(a, b) \in Amount /\ Less(a, b).net = a.net - b.net /\ Less(a, b).vat = a.vat - b.vat
BY DEF Less, Amounts, Amount

\* The two sums a total consists of.
LEMMA TotalIs ==
  ASSUME NEW S, IsFiniteSet(S), NEW a \in [S -> Amount]
  PROVE  /\ [x \in S |-> a[x].net] \in [S -> Int] /\ [x \in S |-> a[x].vat] \in [S -> Int]
         /\ Total(a) \in Amount
         /\ Total(a).net = SumFunction([x \in S |-> a[x].net])
         /\ Total(a).vat = SumFunction([x \in S |-> a[x].vat])
<1>1. \A x \in S : a[x].net \in Int /\ a[x].vat \in Int
  BY AmountParts
<1>2. [x \in S |-> a[x].net] \in [S -> Int] /\ [x \in S |-> a[x].vat] \in [S -> Int]
  BY <1>1
<1>3. SumFunction([x \in S |-> a[x].net]) \in Int /\ SumFunction([x \in S |-> a[x].vat]) \in Int
  BY <1>2, SumInt
<1>4. DOMAIN a = S
  OBVIOUS
<1>5. Total(a) = Amounts(SumFunction([x \in S |-> a[x].net]), SumFunction([x \in S |-> a[x].vat]))
  BY <1>4 DEF Total
<1> QED BY <1>2, <1>3, <1>5, AmountsIs, AmountsType

LEMMA TotalPlus ==
  ASSUME NEW S, IsFiniteSet(S), NEW a \in [S -> Amount], NEW b \in [S -> Amount]
  PROVE  Total([x \in S |-> Plus(a[x], b[x])]) = Plus(Total(a), Total(b))
<1>1. PICK s : s = [x \in S |-> Plus(a[x], b[x])]
  OBVIOUS
<1>2. /\ s \in [S -> Amount]
      /\ \A x \in S : s[x].net = a[x].net + b[x].net /\ s[x].vat = a[x].vat + b[x].vat
  BY <1>1, PlusIs
<1>3. PICK an : an = [x \in S |-> a[x].net]
  OBVIOUS
<1>4. PICK bn : bn = [x \in S |-> b[x].net]
  OBVIOUS
<1>5. PICK av : av = [x \in S |-> a[x].vat]
  OBVIOUS
<1>6. PICK bv : bv = [x \in S |-> b[x].vat]
  OBVIOUS
<1>7. an \in [S -> Int] /\ bn \in [S -> Int] /\ av \in [S -> Int] /\ bv \in [S -> Int]
  BY <1>3, <1>4, <1>5, <1>6, TotalIs
<1>8. [x \in S |-> s[x].net] = [x \in S |-> an[x] + bn[x]]
  BY <1>2, <1>3, <1>4
<1>9. [x \in S |-> s[x].vat] = [x \in S |-> av[x] + bv[x]]
  BY <1>2, <1>5, <1>6
<1>10. /\ SumFunction([x \in S |-> an[x] + bn[x]]) = SumFunction(an) + SumFunction(bn)
       /\ SumFunction([x \in S |-> av[x] + bv[x]]) = SumFunction(av) + SumFunction(bv)
  BY <1>7, SumPlus
<1>11. Total(s) \in Amount /\ Total(a) \in Amount /\ Total(b) \in Amount
  BY <1>2, TotalIs
<1>12. Total(s).net = Total(a).net + Total(b).net
  <2>1. Total(s).net = SumFunction([x \in S |-> s[x].net])
    BY <1>2, TotalIs
  <2>2. Total(a).net = SumFunction(an) /\ Total(b).net = SumFunction(bn)
    BY <1>3, <1>4, TotalIs, ZenonT(60)
  <2> QED BY <2>1, <2>2, <1>8, <1>10
<1>13. Total(s).vat = Total(a).vat + Total(b).vat
  <2>1. Total(s).vat = SumFunction([x \in S |-> s[x].vat])
    BY <1>2, TotalIs
  <2>2. Total(a).vat = SumFunction(av) /\ Total(b).vat = SumFunction(bv)
    BY <1>5, <1>6, TotalIs
  <2> QED BY <2>1, <2>2, <1>9, <1>10
<1>14. Total(s) = Plus(Total(a), Total(b))
  BY <1>11, <1>12, <1>13, PlusIs, AmountsEqual
<1> QED BY <1>1, <1>14

LEMMA TotalNonzero ==
  ASSUME NEW S, IsFiniteSet(S), NEW a \in [S -> Amount], NEW U \in SUBSET S, \A x \in S \ U : a[x] = Zero
  PROVE  Total(a) = Total([x \in U |-> a[x]])
<1>1. PICK b : b = [x \in U |-> a[x]]
  OBVIOUS
<1>2. b \in [U -> Amount] /\ IsFiniteSet(U)
  BY <1>1, FS_Subset
<1>3. PICK an : an = [x \in S |-> a[x].net]
  OBVIOUS
<1>4. PICK av : av = [x \in S |-> a[x].vat]
  OBVIOUS
<1>5. an \in [S -> Int] /\ av \in [S -> Int]
  BY <1>3, <1>4, TotalIs
<1>6. \A x \in S \ U : an[x] = 0 /\ av[x] = 0
  BY <1>3, <1>4, ZeroType
<1>7. SumFunction(an) = SumOn(an, U) /\ SumFunction(av) = SumOn(av, U)
  BY <1>5, <1>6, SumNonzero
<1>8. [x \in U |-> an[x]] = [x \in U |-> b[x].net] /\ [x \in U |-> av[x]] = [x \in U |-> b[x].vat]
  BY <1>1, <1>3, <1>4
<1>9. Total(a).net = Total(b).net
  <2>1. Total(a).net = SumFunction(an) /\ Total(b).net = SumFunction([x \in U |-> b[x].net])
    BY <1>2, <1>3, TotalIs, ZenonT(60)
  <2> QED BY <2>1, <1>7, <1>8 DEF SumOn
<1>10. Total(a).vat = Total(b).vat
  <2>1. Total(a).vat = SumFunction(av) /\ Total(b).vat = SumFunction([x \in U |-> b[x].vat])
    BY <1>2, <1>4, TotalIs, ZenonT(60)
  <2> QED BY <2>1, <1>7, <1>8 DEF SumOn
<1>11. Total(a) \in Amount /\ Total(b) \in Amount
  BY <1>2, TotalIs
<1> QED BY <1>1, <1>9, <1>10, <1>11, AmountsEqual

LEMMA TotalOnly ==
  ASSUME NEW S, IsFiniteSet(S), NEW a \in [S -> Amount], NEW x \in S, \A y \in S \ {x} : a[y] = Zero
  PROVE  Total(a) = a[x]
<1>1. PICK an : an = [y \in S |-> a[y].net]
  OBVIOUS
<1>2. PICK av : av = [y \in S |-> a[y].vat]
  OBVIOUS
<1>3. an \in [S -> Int] /\ av \in [S -> Int] /\ Total(a) \in Amount
  BY <1>1, <1>2, TotalIs
<1>4. \A y \in S \ {x} : an[y] = 0 /\ av[y] = 0
  BY <1>1, <1>2, ZeroType
<1>5. SumFunction(an) = an[x] /\ SumFunction(av) = av[x]
  BY <1>3, <1>4, SumOnly
<1>6. Total(a).net = SumFunction(an) /\ Total(a).vat = SumFunction(av)
  BY <1>1, <1>2, TotalIs
<1>7. Total(a).net = a[x].net /\ Total(a).vat = a[x].vat /\ a[x] \in Amount
  BY <1>1, <1>2, <1>5, <1>6
<1> QED BY <1>3, <1>7, AmountsEqual

LEMMA TotalZero ==
  ASSUME NEW S, IsFiniteSet(S), NEW a \in [S -> Amount], \A x \in S : a[x] = Zero
  PROVE  Total(a) = Zero
<1>1. PICK an : an = [y \in S |-> a[y].net]
  OBVIOUS
<1>2. PICK av : av = [y \in S |-> a[y].vat]
  OBVIOUS
<1>3. an \in [S -> Int] /\ av \in [S -> Int] /\ Total(a) \in Amount
  BY <1>1, <1>2, TotalIs
<1>4. \A y \in S : an[y] = 0 /\ av[y] = 0
  BY <1>1, <1>2, ZeroType
<1>5. SumFunction(an) = 0 /\ SumFunction(av) = 0
  BY <1>3, <1>4, SumZero
<1>6. Total(a).net = SumFunction(an) /\ Total(a).vat = SumFunction(av)
  BY <1>1, <1>2, TotalIs
<1> QED BY <1>3, <1>5, <1>6, ZeroType, AmountsEqual

LEMMA TotalParts ==
  ASSUME NEW S, IsFiniteSet(S), NEW a \in [S -> Amount], NEW T \in SUBSET S
  PROVE  Total(a) = Plus(Total([x \in T |-> a[x]]), Total([x \in S \ T |-> a[x]]))
<1>1. PICK b : b = [x \in S |-> IF x \in T THEN a[x] ELSE Zero]
  OBVIOUS
<1>2. PICK d : d = [x \in S |-> IF x \in T THEN Zero ELSE a[x]]
  OBVIOUS
<1>3. b \in [S -> Amount] /\ d \in [S -> Amount]
  BY <1>1, <1>2, ZeroType
<1>4. [x \in S |-> Plus(b[x], d[x])] = a
  <2>1. ASSUME NEW x \in S
        PROVE  Plus(b[x], d[x]) = a[x]
    <3>1. /\ Plus(b[x], d[x]) \in Amount /\ a[x] \in Amount
          /\ Plus(b[x], d[x]).net = b[x].net + d[x].net
          /\ Plus(b[x], d[x]).vat = b[x].vat + d[x].vat
          /\ a[x].net \in Int /\ a[x].vat \in Int
      BY <1>3, PlusIs, AmountParts
    <3>2. b[x].net + d[x].net = a[x].net /\ b[x].vat + d[x].vat = a[x].vat
      BY <1>1, <1>2, <3>1, ZeroType
    <3> QED BY <3>1, <3>2, AmountsEqual
  <2> QED BY <2>1
<1>5. Total(a) = Plus(Total(b), Total(d))
  BY <1>3, <1>4, TotalPlus
<1>6. Total(b) = Total([x \in T |-> a[x]])
  <2>1. [x \in T |-> b[x]] = [x \in T |-> a[x]]
    BY <1>1
  <2>2. \A x \in S \ T : b[x] = Zero
    BY <1>1
  <2>3. Total(b) = Total([x \in T |-> b[x]])
    BY <1>3, <2>2, TotalNonzero
  <2> QED BY <2>1, <2>3
<1>7. Total(d) = Total([x \in S \ T |-> a[x]])
  <2>1. [x \in S \ T |-> d[x]] = [x \in S \ T |-> a[x]]
    BY <1>2
  <2>2. (\A x \in S \ (S \ T) : d[x] = Zero) /\ S \ T \in SUBSET S
    BY <1>2
  <2>3. Total(d) = Total([x \in S \ T |-> d[x]])
    BY <1>3, <2>2, TotalNonzero
  <2> QED BY <2>1, <2>3
<1> QED BY <1>5, <1>6, <1>7

LEMMA TotalReplaced ==
  ASSUME NEW S, IsFiniteSet(S), NEW a \in [S -> Amount], NEW T \in SUBSET S, NEW b \in [T -> Amount]
  PROVE  Total([x \in S |-> IF x \in T THEN b[x] ELSE a[x]])
           = Plus(Total(a), Total([x \in T |-> Less(b[x], a[x])]))
<1>1. PICK d : d = [x \in S |-> IF x \in T THEN Less(b[x], a[x]) ELSE Zero]
  OBVIOUS
<1>2. PICK e : e = [x \in S |-> IF x \in T THEN b[x] ELSE a[x]]
  OBVIOUS
<1>3. d \in [S -> Amount] /\ e \in [S -> Amount]
  BY <1>1, <1>2, ZeroType, LessIs
<1>4. [x \in S |-> Plus(a[x], d[x])] = e
  <2>1. ASSUME NEW x \in S
        PROVE  Plus(a[x], d[x]) = e[x]
    <3>1. /\ Plus(a[x], d[x]) \in Amount /\ a[x] \in Amount /\ e[x] \in Amount
          /\ Plus(a[x], d[x]).net = a[x].net + d[x].net
          /\ Plus(a[x], d[x]).vat = a[x].vat + d[x].vat
          /\ a[x].net \in Int /\ a[x].vat \in Int
      BY <1>3, PlusIs, AmountParts
    <3>2. CASE x \in T
      <4>1. b[x] \in Amount /\ b[x].net \in Int /\ b[x].vat \in Int
        BY <3>2, AmountParts
      <4>2. d[x].net = b[x].net - a[x].net /\ d[x].vat = b[x].vat - a[x].vat
        BY <1>1, <3>1, <3>2, <4>1, LessIs
      <4>3. e[x] = b[x]
        BY <1>2, <3>2
      <4> QED BY <3>1, <4>1, <4>2, <4>3, AmountsEqual
    <3>3. CASE x \notin T
      <4>1. d[x] = Zero /\ e[x] = a[x]
        BY <1>1, <1>2, <3>3
      <4> QED BY <3>1, <4>1, ZeroType, AmountsEqual
    <3> QED BY <3>2, <3>3
  <2> QED BY <1>2, <2>1
<1>5. Total(e) = Plus(Total(a), Total(d))
  BY <1>3, <1>4, TotalPlus
<1>6. Total(d) = Total([x \in T |-> Less(b[x], a[x])])
  <2>1. [x \in T |-> d[x]] = [x \in T |-> Less(b[x], a[x])]
    BY <1>1
  <2>2. \A x \in S \ T : d[x] = Zero
    BY <1>1
  <2>3. Total(d) = Total([x \in T |-> d[x]])
    BY <1>3, <2>2, TotalNonzero
  <2> QED BY <2>1, <2>3
<1> QED BY <1>2, <1>5, <1>6

LEMMA TotalMinus ==
  ASSUME NEW S, IsFiniteSet(S), NEW a \in [S -> Amount], NEW b \in [S -> Amount]
  PROVE  Total([x \in S |-> Less(a[x], b[x])]) = Less(Total(a), Total(b))
<1>1. PICK d : d = [x \in S |-> Less(a[x], b[x])]
  OBVIOUS
<1>2. d \in [S -> Amount]
  BY <1>1, LessIs
<1>3. [x \in S |-> Plus(b[x], d[x])] = a
  <2>1. ASSUME NEW x \in S
        PROVE  Plus(b[x], d[x]) = a[x]
    <3>1. /\ Plus(b[x], d[x]) \in Amount /\ a[x] \in Amount
          /\ Plus(b[x], d[x]).net = b[x].net + d[x].net
          /\ Plus(b[x], d[x]).vat = b[x].vat + d[x].vat
          /\ a[x].net \in Int /\ a[x].vat \in Int /\ b[x].net \in Int /\ b[x].vat \in Int
      BY <1>2, PlusIs, AmountParts
    <3>2. d[x].net = a[x].net - b[x].net /\ d[x].vat = a[x].vat - b[x].vat
      BY <1>1, LessIs
    <3> QED BY <3>1, <3>2, AmountsEqual
  <2> QED BY <2>1
<1>4. Total(a) = Plus(Total(b), Total(d))
  BY <1>2, <1>3, TotalPlus
<1>5. Total(a) \in Amount /\ Total(b) \in Amount /\ Total(d) \in Amount
  BY <1>2, TotalIs
<1>6. Total(d) = Less(Total(a), Total(b))
  <2>1. /\ Total(a).net = Total(b).net + Total(d).net /\ Total(a).vat = Total(b).vat + Total(d).vat
        /\ Total(b).net \in Int /\ Total(d).net \in Int /\ Total(b).vat \in Int /\ Total(d).vat \in Int
    BY <1>4, <1>5, PlusIs, AmountParts
  <2>2. /\ Less(Total(a), Total(b)) \in Amount
        /\ Less(Total(a), Total(b)).net = Total(a).net - Total(b).net
        /\ Less(Total(a), Total(b)).vat = Total(a).vat - Total(b).vat
    BY <1>5, LessIs
  <2> QED BY <1>5, <2>1, <2>2, AmountsEqual
<1> QED BY <1>1, <1>6

LEMMA TotalGrouped ==
  ASSUME NEW S, IsFiniteSet(S), NEW a \in [S -> Amount], NEW K, IsFiniteSet(K), NEW c \in [S -> K]
  PROVE  Total(a) = Total([k \in K |-> Total([x \in {y \in S : c[y] = k} |-> a[x]])])
<1> DEFINE Here(k) == {y \in S : c[y] = k}
           g == [k \in K |-> Total([x \in Here(k) |-> a[x]])]
<1>1. PICK an : an = [x \in S |-> a[x].net]
  OBVIOUS
<1>2. PICK av : av = [x \in S |-> a[x].vat]
  OBVIOUS
<1>3. an \in [S -> Int] /\ av \in [S -> Int] /\ Total(a) \in Amount
  BY <1>1, <1>2, TotalIs
<1>4. ASSUME NEW k \in K
      PROVE  g[k] \in Amount /\ g[k].net = SumOn(an, Here(k)) /\ g[k].vat = SumOn(av, Here(k))
  <2>1. PICK T : T = Here(k)
    OBVIOUS
  <2>2. T \in SUBSET S
    BY <2>1
  <2>3. IsFiniteSet(T)
    BY <2>2, FS_Subset
  <2>4. PICK b : b = [x \in T |-> a[x]]
    OBVIOUS
  <2>5. b \in [T -> Amount]
    BY <2>2, <2>4
  <2>6. [x \in T |-> b[x].net] = [x \in T |-> an[x]] /\ [x \in T |-> b[x].vat] = [x \in T |-> av[x]]
    BY <1>1, <1>2, <2>2, <2>4
  <2>7. g[k] = Total(b)
    BY <2>1, <2>4
  <2> HIDE DEF g
  <2>8. Total(b) \in Amount /\ Total(b).net = SumOn(an, T) /\ Total(b).vat = SumOn(av, T)
    BY <2>3, <2>5, <2>6, TotalIs DEF SumOn
  <2> QED BY <2>1, <2>7, <2>8
<1>5. g \in [K -> Amount]
  <2>1. \A k \in K : g[k] \in Amount
    BY <1>4
  <2>2. g = [k \in K |-> g[k]]
    OBVIOUS
  <2> HIDE DEF g
  <2> QED BY <2>1, <2>2
<1> HIDE DEF g
<1>6. [k \in K |-> g[k].net] = [k \in K |-> SumOn(an, Here(k))] /\ [k \in K |-> g[k].vat] = [k \in K |-> SumOn(av, Here(k))]
  BY <1>4
<1>7. /\ SumFunction(an) = SumFunction([k \in K |-> SumOn(an, Here(k))])
      /\ SumFunction(av) = SumFunction([k \in K |-> SumOn(av, Here(k))])
  BY <1>3, SumGrouped
<1>8. Total(g) \in Amount /\ Total(g).net = SumFunction([k \in K |-> g[k].net]) /\ Total(g).vat = SumFunction([k \in K |-> g[k].vat])
  BY <1>5, TotalIs
<1>9. Total(a).net = SumFunction(an) /\ Total(a).vat = SumFunction(av)
  BY <1>1, <1>2, TotalIs, ZenonT(60)
<1>10. Total(a) = Total(g)
  BY <1>3, <1>6, <1>7, <1>8, <1>9, AmountsEqual, ZenonT(60)
<1> QED BY <1>10 DEF g

LEMMA TotalRenamed ==
  ASSUME NEW S, IsFiniteSet(S), NEW a \in [S -> Amount], NEW K, IsFiniteSet(K), NEW b \in [K -> Amount],
         NEW c \in [S -> K],
         \A k \in K : \/ \E x \in S : {y \in S : c[y] = k} = {x} /\ a[x] = b[k]
                      \/ b[k] = Zero /\ \A y \in S : c[y] = k => a[y] = Zero
  PROVE  Total(a) = Total(b)
<1>1. PICK an : an = [x \in S |-> a[x].net]
  OBVIOUS
<1>2. PICK av : av = [x \in S |-> a[x].vat]
  OBVIOUS
<1>3. PICK bn : bn = [x \in K |-> b[x].net]
  OBVIOUS
<1>4. PICK bv : bv = [x \in K |-> b[x].vat]
  OBVIOUS
<1>5. an \in [S -> Int] /\ av \in [S -> Int] /\ bn \in [K -> Int] /\ bv \in [K -> Int]
  BY <1>1, <1>2, <1>3, <1>4, TotalIs
<1>6. \A k \in K : \/ \E x \in S : {y \in S : c[y] = k} = {x} /\ an[x] = bn[k]
                   \/ bn[k] = 0 /\ \A y \in S : c[y] = k => an[y] = 0
  BY <1>1, <1>3, ZeroType
<1>7. \A k \in K : \/ \E x \in S : {y \in S : c[y] = k} = {x} /\ av[x] = bv[k]
                   \/ bv[k] = 0 /\ \A y \in S : c[y] = k => av[y] = 0
  BY <1>2, <1>4, ZeroType
<1>8. SumFunction(an) = SumFunction(bn)
  BY <1>5, <1>6, SumRenamed
<1>9. SumFunction(av) = SumFunction(bv)
  BY <1>5, <1>7, SumRenamed
<1>10. /\ Total(a) \in Amount /\ Total(b) \in Amount
       /\ Total(a).net = SumFunction(an) /\ Total(a).vat = SumFunction(av)
       /\ Total(b).net = SumFunction(bn) /\ Total(b).vat = SumFunction(bv)
  BY <1>1, <1>2, <1>3, <1>4, TotalIs, SMTT(30)
<1> QED BY <1>8, <1>9, <1>10, AmountsEqual

\* Rounding to whole units: at most a half away.
LEMMA Rounding ==
  ASSUME NEW n \in Int
  PROVE  /\ Rounded(n, 10) \in Int /\ Rounded(n, 100) \in Int
         /\ 100 * Rounded(n, 100) - n \in -50..50
BY DEF Rounded

LEMMA RoundingZero == Rounded(0, 100) = 0
BY DEF Rounded

LEMMA PercentType ==
  ASSUME NEW rate \in Rates
  PROVE  Percent[rate] \in {0, 5, 8, 23}
BY RatesAssumption DEF Percent, VatRateCode, TaxedRates

LEMMA RatesFinite == IsFiniteSet(Rates) /\ "23" \in Rates
<1>1. IsFiniteSet({}) /\ VatRateCode = ((((((({} \cup {"23"}) \cup {"8"}) \cup {"5"}) \cup {"0"}) \cup {"0-wdt"})
                                          \cup {"0-export"}) \cup {"zw"})
  BY FS_EmptySet DEF VatRateCode
<1>2. IsFiniteSet(VatRateCode)
  BY <1>1, FS_AddElement
<1> QED BY <1>2, RatesAssumption, FS_Subset

\* VAT inside a margin: nothing in a loss, and a profit stays one.
LEMMA SplitMarginIs ==
  ASSUME NEW gross \in Int, NEW rate \in Rates
  PROVE  /\ SplitMargin(gross, rate) \in Amount
         /\ SplitMargin(gross, rate).net < 0 <=> gross < 0
<1>1. CASE gross < 0
  BY <1>1, AmountsIs, AmountsType DEF SplitMargin
<1>2. CASE gross >= 0
  <2>1. PICK base : base = Rounded(100 * gross, 100 + Percent[rate])
    OBVIOUS
  <2>2. base \in Int /\ base >= 0
    <3>1. CASE Percent[rate] = 0
      BY <1>2, <2>1, <3>1 DEF Rounded
    <3>2. CASE Percent[rate] = 5
      BY <1>2, <2>1, <3>2 DEF Rounded
    <3>3. CASE Percent[rate] = 8
      BY <1>2, <2>1, <3>3 DEF Rounded
    <3>4. CASE Percent[rate] = 23
      BY <1>2, <2>1, <3>4 DEF Rounded
    <3> QED BY <3>1, <3>2, <3>3, <3>4, PercentType
  <2>3. SplitMargin(gross, rate) = Amounts(base, gross - base)
    BY <1>2, <2>1 DEF SplitMargin
  <2> QED BY <1>2, <2>2, <2>3, AmountsIs, AmountsType
<1> QED BY <1>1, <1>2

-----------------------------------------------------------------------------
(* The lines of an invoice                                                 *)

LineAmount(line) == Amounts(NetOf(line), VatOf(line))
LineAmounts(lines) == [i \in DOMAIN lines |-> LineAmount(lines[i])]
LinesTotal(lines) == Total(LineAmounts(lines))

LEMMA LineTypes ==
  ASSUME NEW line \in Line
  PROVE  /\ NetOf(line) \in Int /\ VatOf(line) \in Int /\ line.rate \in Rates
         /\ LineAmount(line) \in Amount
<1>1. line.price \in Int /\ line.qty \in Int /\ line.rate \in Rates
  BY DEF Line
<1>2. line.price * line.qty \in Int
  BY <1>1
<1>3. NetOf(line) \in Int
  BY <1>2, Rounding DEF NetOf
<1>4. NetOf(line) * Percent[line.rate] \in Int
  BY <1>1, <1>3, PercentType
<1>5. VatOf(line) \in Int
  BY <1>4, Rounding DEF VatOf
<1> QED BY <1>1, <1>3, <1>5, AmountsType DEF LineAmount

LEMMA LinesTypes ==
  ASSUME NEW lines \in Seq(Line)
  PROVE  /\ IsFiniteSet(DOMAIN lines)
         /\ LineAmounts(lines) \in [DOMAIN lines -> Amount]
         /\ \A i \in DOMAIN lines : lines[i] \in Line
         /\ RatesOf(lines) \subseteq Rates
         /\ LinesTotal(lines) \in Amount
<1>1. DOMAIN lines = 1..Len(lines) /\ Len(lines) \in Nat
  OBVIOUS
<1>2. IsFiniteSet(DOMAIN lines)
  BY <1>1, FS_Interval
<1>3. \A i \in DOMAIN lines : lines[i] \in Line
  OBVIOUS
<1>4. LineAmounts(lines) \in [DOMAIN lines -> Amount]
  BY <1>3, LineTypes DEF LineAmounts
<1>5. RatesOf(lines) \subseteq Rates
  BY <1>3, LineTypes DEF RatesOf
<1> QED BY <1>2, <1>3, <1>4, <1>5, TotalIs DEF LinesTotal

\* The amount at a rate is the total of the lines at it.
LEMMA AtRateIs ==
  ASSUME NEW lines \in Seq(Line), NEW rate
  PROVE  /\ AtRate(lines, rate) = Total([i \in {j \in DOMAIN lines : lines[j].rate = rate} |-> LineAmounts(lines)[i]])
         /\ AtRate(lines, rate) \in Amount
<1>1. PICK here : here = {j \in DOMAIN lines : lines[j].rate = rate}
  OBVIOUS
<1>2. here \in SUBSET (DOMAIN lines)
  BY <1>1
<1>3. IsFiniteSet(here)
  BY <1>2, LinesTypes, FS_Subset
<1>4. PICK a : a = [i \in here |-> LineAmounts(lines)[i]]
  OBVIOUS
<1>5. a \in [here -> Amount]
  BY <1>2, <1>4, LinesTypes
<1>6. \A i \in here : a[i].net = NetOf(lines[i]) /\ a[i].vat = VatOf(lines[i])
  BY <1>2, <1>4, AmountsIs DEF LineAmounts, LineAmount
<1>7. /\ [i \in here |-> a[i].net] = [i \in here |-> NetOf(lines[i])]
      /\ [i \in here |-> a[i].vat] = [i \in here |-> VatOf(lines[i])]
  BY <1>6
<1>8. DOMAIN a = here
  BY <1>4
<1>9. Total(a) = Amounts(SumFunction([i \in here |-> NetOf(lines[i])]), SumFunction([i \in here |-> VatOf(lines[i])]))
  BY <1>7, <1>8 DEF Total
<1>10. AtRate(lines, rate) = Total(a)
  BY <1>1, <1>9 DEF AtRate
<1>11. Total(a) \in Amount
  BY <1>3, <1>5, TotalIs
<1> QED BY <1>1, <1>4, <1>10, <1>11

\* Together the rates have the lines' total.
LEMMA RatesAddUp ==
  ASSUME NEW lines \in Seq(Line), NEW K, IsFiniteSet(K), RatesOf(lines) \subseteq K
  PROVE  Total([rate \in K |-> AtRate(lines, rate)]) = LinesTotal(lines)
<1>1. PICK S : S = DOMAIN lines
  OBVIOUS
<1>2. PICK a : a = LineAmounts(lines)
  OBVIOUS
<1>3. PICK c : c = [i \in S |-> lines[i].rate]
  OBVIOUS
<1>4. IsFiniteSet(S) /\ a \in [S -> Amount] /\ c \in [S -> K]
  BY <1>1, <1>2, <1>3, LinesTypes DEF RatesOf
<1>5. Total(a) = Total([k \in K |-> Total([x \in {y \in S : c[y] = k} |-> a[x]])])
  BY <1>4, TotalGrouped
<1>6. ASSUME NEW k \in K
      PROVE  Total([x \in {y \in S : c[y] = k} |-> a[x]]) = AtRate(lines, k)
  <2>1. {y \in S : c[y] = k} = {j \in DOMAIN lines : lines[j].rate = k}
    BY <1>1, <1>3
  <2> QED BY <1>2, <2>1, AtRateIs
<1>7. [k \in K |-> Total([x \in {y \in S : c[y] = k} |-> a[x]])] = [rate \in K |-> AtRate(lines, rate)]
  BY <1>6
<1> QED BY <1>2, <1>5, <1>7 DEF LinesTotal

LEMMA GrossIs ==
  ASSUME NEW lines \in Seq(Line)
  PROVE  GrossTotal(lines) = LinesTotal(lines).net + LinesTotal(lines).vat
<1>1. PICK S : S = DOMAIN lines
  OBVIOUS
<1>2. PICK a : a = LineAmounts(lines)
  OBVIOUS
<1>3. IsFiniteSet(S) /\ a \in [S -> Amount]
  BY <1>1, <1>2, LinesTypes
<1>4. PICK an : an = [x \in S |-> a[x].net]
  OBVIOUS
<1>5. PICK av : av = [x \in S |-> a[x].vat]
  OBVIOUS
<1>6. an \in [S -> Int] /\ av \in [S -> Int] /\ Total(a).net = SumFunction(an) /\ Total(a).vat = SumFunction(av)
  BY <1>3, <1>4, <1>5, TotalIs
<1>7. \A x \in S : an[x] + av[x] = GrossOf(lines[x])
  BY <1>1, <1>2, <1>4, <1>5, AmountsIs DEF LineAmounts, LineAmount, GrossOf
<1>8. [x \in S |-> an[x] + av[x]] = [x \in S |-> GrossOf(lines[x])]
  BY <1>7
<1>9. IsFiniteSet(S) /\ an \in [S -> Int] /\ av \in [S -> Int]
  BY <1>3, <1>6
<1>10. SumFunction([x \in S |-> an[x] + av[x]]) = SumFunction(an) + SumFunction(av)
  BY <1>9, SumPlus
<1> QED BY <1>1, <1>2, <1>6, <1>8, <1>10 DEF GrossTotal, LinesTotal

LEMMA NoLines == <<>> \in Seq(Line) /\ LinesTotal(<<>>) = Zero /\ \A rate : AtRate(<<>>, rate) = Zero
<1>1. <<>> \in Seq(Line) /\ DOMAIN <<>> = {}
  OBVIOUS
<1>2. LineAmounts(<<>>) \in [{} -> Amount] /\ IsFiniteSet({})
  BY <1>1, LinesTypes
<1>3. LinesTotal(<<>>) = Zero
  <2>1. \A x \in {} : LineAmounts(<<>>)[x] = Zero
    OBVIOUS
  <2> QED BY <1>2, <2>1, TotalZero DEF LinesTotal
<1>4. ASSUME NEW rate
      PROVE  AtRate(<<>>, rate) = Zero
  <2>1. {j \in DOMAIN <<>> : <<>>[j].rate = rate} = {}
    BY <1>1
  <2>2. PICK a : a = [i \in {} |-> LineAmounts(<<>>)[i]]
    OBVIOUS
  <2>3. a \in [{} -> Amount] /\ \A x \in {} : a[x] = Zero
    BY <2>2
  <2>4. Total(a) = Zero
    BY <1>2, <2>3, TotalZero
  <2> QED BY <1>1, <2>1, <2>2, <2>4, AtRateIs
<1> QED BY <1>1, <1>3, <1>4

\* What a document reports, summed by rate, is what its lines say, less what the
\* corrected ones say; and its gross amount, summed by line, is net with tax.
LEMMA ReportedIs ==
  ASSUME NEW lines \in Seq(Line), NEW corrected \in Seq(Line)
  PROVE  LET r == ReportedTotals(lines, corrected)
         IN /\ Amounts(r.net, r.vat) = Less(LinesTotal(lines), LinesTotal(corrected))
            /\ r.net \in Int /\ r.vat \in Int /\ r.gross = r.net + r.vat
            /\ r.net = LinesTotal(lines).net - LinesTotal(corrected).net
            /\ r.vat = LinesTotal(lines).vat - LinesTotal(corrected).vat
<1>1. PICK K : K = RatesOf(lines) \cup RatesOf(corrected)
  OBVIOUS
<1>2. K \in SUBSET Rates
  BY <1>1, LinesTypes
<1>3. IsFiniteSet(K)
  BY <1>2, RatesFinite, FS_Subset
<1>4. PICK a : a = [rate \in K |-> AtRate(lines, rate)]
  OBVIOUS
<1>5. PICK b : b = [rate \in K |-> AtRate(corrected, rate)]
  OBVIOUS
<1>6. a \in [K -> Amount] /\ b \in [K -> Amount]
  BY <1>4, <1>5, AtRateIs
<1>7. VatGroups(lines, corrected) = [rate \in K |-> Less(a[rate], b[rate])]
  BY <1>1, <1>4, <1>5 DEF VatGroups
<1>8. Total(VatGroups(lines, corrected)) = Less(Total(a), Total(b))
  BY <1>3, <1>6, <1>7, TotalMinus
<1>9. Total(a) = LinesTotal(lines) /\ Total(b) = LinesTotal(corrected)
  BY <1>1, <1>3, <1>4, <1>5, RatesAddUp
<1>10. PICK d : d = Less(LinesTotal(lines), LinesTotal(corrected))
  OBVIOUS
<1>11. /\ d \in Amount /\ d.net \in Int /\ d.vat \in Int /\ d = Amounts(d.net, d.vat)
       /\ d.net = LinesTotal(lines).net - LinesTotal(corrected).net
       /\ d.vat = LinesTotal(lines).vat - LinesTotal(corrected).vat
  BY <1>10, LinesTypes, LessIs, AmountParts
<1>12. ReportedTotals(lines, corrected) = [net |-> d.net, vat |-> d.vat, gross |-> GrossTotal(lines) - GrossTotal(corrected)]
  BY <1>8, <1>9, <1>10 DEF ReportedTotals
<1>13. GrossTotal(lines) - GrossTotal(corrected) = d.net + d.vat
  <2>1. /\ LinesTotal(lines).net \in Int /\ LinesTotal(lines).vat \in Int
        /\ LinesTotal(corrected).net \in Int /\ LinesTotal(corrected).vat \in Int
    BY LinesTypes, AmountParts
  <2>2. /\ GrossTotal(lines) = LinesTotal(lines).net + LinesTotal(lines).vat
        /\ GrossTotal(corrected) = LinesTotal(corrected).net + LinesTotal(corrected).vat
    BY GrossIs
  <2> QED BY <1>11, <2>1, <2>2, SMTT(30)
<1> QED BY <1>10, <1>11, <1>12, <1>13

-----------------------------------------------------------------------------
(* The rows of a file.  The books are typed and a correction's corrected   *)
(* invoice is among them.                                                  *)

PatchValues(key) == {Given(body, key, None) : body \in Patches} \cup {None}
MarginColumns ==
    [gross : Int \cup {None}, taxable : Int \cup {None}, rate : Rates \cup PatchValues("rate"),
     method : {"individual", "sum"} \cup PatchValues("method")]
BookEntry ==
    [direction : {"sales", "purchase"}, xml : {"VAT", "VAT-margin", "KOR", None}, lines : Seq(Line),
     net : Int, vat : Int, gross : Int, corrects : Nat \cup {None},
     procedure : Procedures \cup PatchValues("procedure"), margin : MarginColumns,
     docType : PatchValues("docType"), category : Categories \cup {None},
     marker : {None, "NrKSeF"}, numbered : BOOLEAN,
     status : {"new", "sent", "rejected", "exported_jpk"}]

Books(books) ==
    /\ books \in Seq(BookEntry)
    /\ \A i \in DOMAIN books : books[i].corrects # None => books[i].corrects \in DOMAIN books

LEMMA EntryTypes ==
  ASSUME NEW inv \in BookEntry
  PROVE  /\ inv.lines \in Seq(Line) /\ inv.net \in Int /\ inv.vat \in Int /\ inv.gross \in Int
         /\ inv.margin.gross \in Int \cup {None} /\ inv.margin.taxable \in Int \cup {None}
         /\ inv.direction \in {"sales", "purchase"}
BY DEF BookEntry, MarginColumns

LEMMA BooksTypes ==
  ASSUME NEW books, Books(books)
  PROVE  /\ IsFiniteSet(DOMAIN books) /\ DOMAIN books \subseteq Nat
         /\ \A i \in DOMAIN books : books[i] \in BookEntry /\ CorrectedLines(books, i) \in Seq(Line)
<1>1. DOMAIN books = 1..Len(books) /\ Len(books) \in Nat /\ \A i \in DOMAIN books : books[i] \in BookEntry
  BY DEF Books
<1>2. IsFiniteSet(DOMAIN books) /\ DOMAIN books \subseteq Nat
  BY <1>1, FS_Interval
<1>3. ASSUME NEW i \in DOMAIN books
      PROVE  CorrectedLines(books, i) \in Seq(Line)
  <2>1. CASE books[i].corrects = None
    BY <2>1, NoLines DEF CorrectedLines
  <2>2. CASE books[i].corrects # None
    <3>1. books[books[i].corrects] \in BookEntry
      BY <1>1, <2>2 DEF Books
    <3> QED BY <2>2, <3>1, EntryTypes DEF CorrectedLines
  <2> QED BY <2>1, <2>2
<1> QED BY <1>1, <1>2, <1>3

\* What is entered of an invoice, over all rates.
LEMMA ContributionIs ==
  ASSUME NEW books, Books(books), NEW i \in DOMAIN books
  PROVE  /\ \A rate : Contribution(books, i, rate) \in Amount
         /\ Total([rate \in Rates |-> Contribution(books, i, rate)])
              = IF books[i].lines = <<>> THEN Amounts(books[i].net, books[i].vat)
                ELSE Less(LinesTotal(books[i].lines), LinesTotal(CorrectedLines(books, i)))
<1>1. books[i] \in BookEntry /\ CorrectedLines(books, i) \in Seq(Line)
  BY BooksTypes
<1>2. books[i].lines \in Seq(Line) /\ books[i].net \in Int /\ books[i].vat \in Int
  BY <1>1, EntryTypes
<1>3. Amounts(books[i].net, books[i].vat) \in Amount
  BY <1>2, AmountsType
<1>4. CASE books[i].lines = <<>>
  <2>1. \A rate : Contribution(books, i, rate) = IF rate = "23" THEN Amounts(books[i].net, books[i].vat) ELSE Zero
    BY <1>4 DEF Contribution, Sold23
  <2>2. PICK a : a = [rate \in Rates |-> Contribution(books, i, rate)]
    OBVIOUS
  <2>3. /\ a \in [Rates -> Amount] /\ "23" \in Rates /\ a["23"] = Amounts(books[i].net, books[i].vat)
        /\ \A rate \in Rates \ {"23"} : a[rate] = Zero
    BY <1>3, <2>1, <2>2, ZeroType, RatesFinite
  <2>4. Total(a) = a["23"]
    BY <2>3, RatesFinite, TotalOnly
  <2>5. ASSUME NEW rate
        PROVE  Contribution(books, i, rate) \in Amount
    <3>1. CASE rate = "23"
      BY <1>3, <2>1, <3>1
    <3>2. CASE rate # "23"
      BY <2>1, <3>2, ZeroType
    <3> QED BY <3>1, <3>2
  <2>6. Total([rate \in Rates |-> Contribution(books, i, rate)]) = Amounts(books[i].net, books[i].vat)
    BY <2>2, <2>3, <2>4
  <2> QED BY <1>4, <2>5, <2>6
<1>5. CASE books[i].lines # <<>>
  <2>1. PICK corrected : corrected = CorrectedLines(books, i)
    OBVIOUS
  <2>2. PICK lines : lines = books[i].lines
    OBVIOUS
  <2>3. lines \in Seq(Line) /\ corrected \in Seq(Line)
    BY <1>1, <1>2, <2>1, <2>2
  <2>4. \A rate : Contribution(books, i, rate) = Less(AtRate(lines, rate), AtRate(corrected, rate))
    BY <1>5, <2>1, <2>2 DEF Contribution
  <2>5. PICK a : a = [rate \in Rates |-> AtRate(lines, rate)]
    OBVIOUS
  <2>6. PICK b : b = [rate \in Rates |-> AtRate(corrected, rate)]
    OBVIOUS
  <2>7. a \in [Rates -> Amount] /\ b \in [Rates -> Amount]
    BY <2>3, <2>5, <2>6, AtRateIs
  <2>8. [rate \in Rates |-> Contribution(books, i, rate)] = [rate \in Rates |-> Less(a[rate], b[rate])]
    BY <2>4, <2>5, <2>6
  <2>9. Total([rate \in Rates |-> Less(a[rate], b[rate])]) = Less(Total(a), Total(b))
    BY <2>7, RatesFinite, TotalMinus
  <2>10. Total(a) = LinesTotal(lines) /\ Total(b) = LinesTotal(corrected)
    BY <2>3, <2>5, <2>6, RatesFinite, LinesTypes, RatesAddUp
  <2>11. ASSUME NEW rate
         PROVE  Contribution(books, i, rate) \in Amount
    <3>1. AtRate(lines, rate) \in Amount /\ AtRate(corrected, rate) \in Amount
      BY <2>3, AtRateIs
    <3>2. Less(AtRate(lines, rate), AtRate(corrected, rate)) \in Amount
      BY <3>1, LessIs
    <3> QED BY <2>4, <3>2
  <2>12. Total([rate \in Rates |-> Contribution(books, i, rate)]) = Less(LinesTotal(lines), LinesTotal(corrected))
    BY <2>8, <2>9, <2>10
  <2> QED BY <1>5, <2>1, <2>2, <2>11, <2>12
<1> QED BY <1>4, <1>5

\* An amount at one rate only: a loss if the total is one.
LEMMA AtOneRate ==
  ASSUME NEW s \in [Rates -> Amount], NEW only, NEW taxable \in Int,
         \A rate \in Rates : s[rate] = IF only = rate THEN SplitMargin(taxable, rate) ELSE Zero
  PROVE  /\ Total(s).net < 0 => taxable < 0
         /\ taxable < 0 /\ ~(Total(s).net < 0) => \A rate \in Rates : s[rate] = Zero
<1>1. CASE only \in Rates
  <2>1. s[only] = SplitMargin(taxable, only) /\ \A rate \in Rates \ {only} : s[rate] = Zero
    BY <1>1
  <2>2. Total(s) = s[only]
    BY <1>1, <2>1, RatesFinite, TotalOnly
  <2> QED BY <1>1, <2>1, <2>2, SplitMarginIs
<1>2. CASE only \notin Rates
  <2>1. \A rate \in Rates : s[rate] = Zero
    BY <1>2
  <2>2. Total(s) = Zero
    BY <2>1, RatesFinite, TotalZero
  <2> QED BY <2>1, <2>2, ZeroType
<1> QED BY <1>1, <1>2

Margined(books, i) == i \in Sales(books) /\ IsMargin(books[i])

\* A file is only generated when the margins are complete.
LEMMA MarginComplete ==
  ASSUME NEW books, Books(books), CanGenerate(books), NEW i \in DOMAIN books, Margined(books, i)
  PROVE  books[i].margin.taxable \in Int
<1>1. books[i] \in BookEntry /\ books[i].direction = "sales"
  BY BooksTypes DEF Margined, Sales
<1>2. books[i].margin \in MarginColumns
  BY <1>1 DEF BookEntry
<1>3. "taxable" \in DOMAIN books[i].margin /\ books[i].margin["taxable"] = books[i].margin.taxable
  BY <1>2 DEF MarginColumns
<1>4. ~Problem(books[i])
  BY DEF CanGenerate
<1>5. books[i].margin["taxable"] # None
  BY <1>1, <1>3, <1>4 DEF Problem, Margined
<1> QED BY <1>1, <1>3, <1>5, EntryTypes

LEMMA MarginIs ==
  ASSUME NEW inv, inv.margin.taxable \in Int
  PROVE  LET s == [rate \in Rates |-> MarginAmounts(inv, rate)]
         IN /\ s \in [Rates -> Amount]
            /\ Total(s).net < 0 => inv.margin.taxable < 0
            /\ inv.margin.taxable < 0 /\ ~(Total(s).net < 0) => \A rate \in Rates : s[rate] = Zero
<1>1. PICK s : s = [rate \in Rates |-> MarginAmounts(inv, rate)]
  OBVIOUS
<1>2. CASE inv.margin.method = "individual"
  <2>1. \A rate \in Rates : s[rate] = IF inv.margin.rate = rate THEN SplitMargin(inv.margin.taxable, rate) ELSE Zero
    BY <1>1, <1>2 DEF MarginAmounts
  <2>2. s \in [Rates -> Amount]
    BY <1>1, <2>1, SplitMarginIs, ZeroType
  <2>3. PICK only : only = inv.margin.rate
    OBVIOUS
  <2>4. PICK taxable : taxable = inv.margin.taxable
    OBVIOUS
  <2>5. taxable \in Int /\ \A rate \in Rates : s[rate] = IF only = rate THEN SplitMargin(taxable, rate) ELSE Zero
    BY <2>1, <2>3, <2>4
  <2>6. /\ Total(s).net < 0 => taxable < 0
        /\ taxable < 0 /\ ~(Total(s).net < 0) => \A rate \in Rates : s[rate] = Zero
    BY <2>2, <2>5, AtOneRate
  <2> QED BY <1>1, <2>2, <2>4, <2>6
<1>3. CASE inv.margin.method # "individual"
  <2>1. \A rate \in Rates : s[rate] = Zero
    BY <1>1, <1>3 DEF MarginAmounts
  <2>2. s \in [Rates -> Amount]
    BY <1>1, <2>1, ZeroType
  <2>3. Total(s) = Zero
    BY <2>1, <2>2, RatesFinite, TotalZero
  <2> QED BY <1>1, <2>1, <2>2, <2>3, ZeroType
<1> QED BY <1>2, <1>3

LEMMA RowIs ==
  ASSUME NEW books, Books(books), CanGenerate(books), NEW i \in Sales(books)
  PROVE  RowAmounts(books, i) \in [Rates -> Amount]
<1>1. i \in DOMAIN books
  BY DEF Sales
<1>2. CASE IsMargin(books[i])
  <2>1. books[i].margin.taxable \in Int
    BY <1>1, <1>2, MarginComplete DEF Margined
  <2>2. [rate \in Rates |-> MarginAmounts(books[i], rate)] \in [Rates -> Amount]
    BY <2>1, MarginIs
  <2> QED BY <1>2, <2>2 DEF RowAmounts
<1>3. CASE ~IsMargin(books[i])
  BY <1>1, <1>3, ContributionIs DEF RowAmounts
<1> QED BY <1>2, <1>3

LEMMA SummedIs ==
  ASSUME NEW books, Books(books), CanGenerate(books), NEW key
  PROVE  SummedMargin(books, key) \in Int
<1>1. PICK S : S = {i \in BySum(books) : <<books[i].procedure, books[i].margin.rate>> = key}
  OBVIOUS
<1>2. S \in SUBSET (DOMAIN books)
  BY <1>1 DEF BySum, Sales
<1>3. IsFiniteSet(S)
  BY <1>2, BooksTypes, FS_Subset
<1>4. PICK f : f = [i \in S |-> books[i].margin.taxable]
  OBVIOUS
<1>5. f \in [S -> Int]
  <2>1. \A i \in S : i \in DOMAIN books /\ Margined(books, i)
    BY <1>1, <1>2 DEF BySum, Margined
  <2> QED BY <1>4, <2>1, MarginComplete
<1>6. SumFunction(f) \in Int
  BY <1>3, <1>5, SumInt
<1> QED BY <1>1, <1>4, <1>6 DEF SummedMargin

LEMMA WewIs ==
  ASSUME NEW books, Books(books), CanGenerate(books), NEW key
  PROVE  LET s == [rate \in Rates |-> WewAmounts(books, key, rate)]
         IN /\ s \in [Rates -> Amount]
            /\ Total(s).net < 0 => SummedMargin(books, key) < 0
            /\ SummedMargin(books, key) < 0 /\ ~(Total(s).net < 0) => \A rate \in Rates : s[rate] = Zero
<1>1. PICK s : s = [rate \in Rates |-> WewAmounts(books, key, rate)]
  OBVIOUS
<1>2. PICK only : only = key[2]
  OBVIOUS
<1>3. PICK taxable : taxable = SummedMargin(books, key)
  OBVIOUS
<1>4. taxable \in Int /\ \A rate \in Rates : s[rate] = IF only = rate THEN SplitMargin(taxable, rate) ELSE Zero
  BY <1>1, <1>2, <1>3, SummedIs DEF WewAmounts
<1>5. s \in [Rates -> Amount]
  BY <1>1, <1>4, SplitMarginIs, ZeroType
<1>6. /\ Total(s).net < 0 => taxable < 0
      /\ taxable < 0 /\ ~(Total(s).net < 0) => \A rate \in Rates : s[rate] = Zero
  BY <1>4, <1>5, AtOneRate
<1> QED BY <1>1, <1>3, <1>5, <1>6

LEMMA KeysFinite ==
  ASSUME NEW books, Books(books)
  PROVE  IsFiniteSet(WewKeys(books)) /\ IsFiniteSet(Sales(books)) /\ IsFiniteSet(Counted(books))
<1>1. Sales(books) \in SUBSET (DOMAIN books) /\ Counted(books) \in SUBSET (DOMAIN books) /\ BySum(books) \in SUBSET (DOMAIN books)
  BY DEF Sales, Counted, BySum
<1>2. IsFiniteSet(Sales(books)) /\ IsFiniteSet(Counted(books)) /\ IsFiniteSet(BySum(books))
  BY <1>1, BooksTypes, FS_Subset
<1>3. PICK S : S = BySum(books)
  OBVIOUS
<1>4. PICK c : c = [i \in S |-> <<books[i].procedure, books[i].margin.rate>>]
  OBVIOUS
<1>5. PICK K : K = WewKeys(books)
  OBVIOUS
<1>6. c \in [S -> K] /\ \A k \in K : \E i \in S : c[i] = k
  BY <1>3, <1>4, <1>5 DEF WewKeys
<1>7. c \in Surjection(S, K)
  BY <1>6 DEF Surjection
<1>8. IsFiniteSet(K)
  BY <1>2, <1>3, <1>7, FS_Surjection
<1> QED BY <1>2, <1>5, <1>8

\* Taking the lines out and the margin in replaces the one by the other.
LEMMA SumUpIs ==
  ASSUME NEW books, Books(books), CanGenerate(books), NEW rate \in Rates,
         NEW margins \in [CountedMargins(books) -> Amount], NEW keys \in SUBSET WewKeys(books)
  PROVE  LET a == [i \in Counted(books) |-> IF i \in CountedMargins(books) THEN margins[i] ELSE Contribution(books, i, rate)]
             w == [key \in keys |-> WewAmounts(books, key, rate)]
         IN /\ a \in [Counted(books) -> Amount] /\ w \in [keys -> Amount] /\ IsFiniteSet(keys)
            /\ SumUp(books, rate, margins, keys) = Plus(Total(a), Total(w))
<1>1. PICK S : S = Counted(books)
  OBVIOUS
<1>2. PICK T : T = CountedMargins(books)
  OBVIOUS
<1>3. PICK b : b = [i \in S |-> Contribution(books, i, rate)]
  OBVIOUS
<1>4. PICK w : w = [key \in keys |-> WewAmounts(books, key, rate)]
  OBVIOUS
<1>5. PICK a : a = [i \in S |-> IF i \in T THEN margins[i] ELSE b[i]]
  OBVIOUS
<1>6. IsFiniteSet(S) /\ IsFiniteSet(keys) /\ T \in SUBSET S /\ \A i \in S : i \in DOMAIN books
  <2>1. IsFiniteSet(WewKeys(books)) /\ IsFiniteSet(Counted(books))
    BY KeysFinite
  <2>2. IsFiniteSet(keys)
    BY <2>1, FS_Subset
  <2> QED BY <1>1, <1>2, <2>1, <2>2 DEF CountedMargins, Counted, Sales
<1>7. b \in [S -> Amount] /\ w \in [keys -> Amount]
  BY <1>3, <1>4, <1>6, ContributionIs, WewIs
<1>8. PICK d : d = [i \in T |-> Less(margins[i], b[i])]
  OBVIOUS
<1>9. a \in [S -> Amount] /\ d \in [T -> Amount] /\ IsFiniteSet(T)
  <2>1. a \in [S -> Amount]
    BY <1>2, <1>5, <1>7
  <2>2. d \in [T -> Amount]
    <3>1. \A i \in T : margins[i] \in Amount /\ b[i] \in Amount
      BY <1>2, <1>6, <1>7
    <3> QED BY <1>8, <3>1, LessIs
  <2> QED BY <1>6, <2>1, <2>2, FS_Subset
<1>10. Total(a) = Plus(Total(b), Total(d))
  BY <1>2, <1>5, <1>6, <1>7, <1>8, TotalReplaced
<1>11. [i \in CountedMargins(books) |-> MarginChange(books, i, rate, margins[i])] = d
  BY <1>2, <1>3, <1>6, <1>8 DEF MarginChange
<1>12. SumUp(books, rate, margins, keys) = Plus(Total(b), Plus(Total(d), Total(w)))
  BY <1>1, <1>3, <1>4, <1>11 DEF SumUp
<1>13. Total(b) \in Amount /\ Total(d) \in Amount /\ Total(w) \in Amount
  BY <1>6, <1>7, <1>9, TotalIs
<1>14. Plus(Total(b), Plus(Total(d), Total(w))) = Plus(Plus(Total(b), Total(d)), Total(w))
  <2>1. ASSUME NEW p \in Amount, NEW q \in Amount, NEW r \in Amount
        PROVE  Plus(p, Plus(q, r)) = Plus(Plus(p, q), r)
    <3>1. /\ p.net \in Int /\ q.net \in Int /\ r.net \in Int
          /\ p.vat \in Int /\ q.vat \in Int /\ r.vat \in Int
      BY AmountParts
    <3>2. /\ Plus(q, r) \in Amount /\ Plus(q, r).net = q.net + r.net /\ Plus(q, r).vat = q.vat + r.vat
          /\ Plus(p, q) \in Amount /\ Plus(p, q).net = p.net + q.net /\ Plus(p, q).vat = p.vat + q.vat
      BY PlusIs
    <3>3. /\ Plus(p, Plus(q, r)) \in Amount /\ Plus(Plus(p, q), r) \in Amount
          /\ Plus(p, Plus(q, r)).net = p.net + Plus(q, r).net /\ Plus(p, Plus(q, r)).vat = p.vat + Plus(q, r).vat
          /\ Plus(Plus(p, q), r).net = Plus(p, q).net + r.net /\ Plus(Plus(p, q), r).vat = Plus(p, q).vat + r.vat
      BY <3>2, PlusIs
    <3>4. /\ Plus(p, Plus(q, r)).net = Plus(Plus(p, q), r).net
          /\ Plus(p, Plus(q, r)).vat = Plus(Plus(p, q), r).vat
      BY <3>1, <3>2, <3>3
    <3> QED BY <3>3, <3>4, AmountsEqual
  <2> QED BY <1>13, <2>1
<1>15. a = [i \in Counted(books) |-> IF i \in CountedMargins(books) THEN margins[i] ELSE Contribution(books, i, rate)]
  BY <1>1, <1>2, <1>3, <1>5
<1> QED BY <1>1, <1>4, <1>6, <1>7, <1>9, <1>10, <1>12, <1>14, <1>15

-----------------------------------------------------------------------------
(* The sums of a file are those of its rows                                *)

SaleRow(books, i) == Row(i, books[i].procedure, i \in Counted(books), RowAmounts(books, i))
WewRow(books, key) == Row(None, key[1], TRUE, [rate \in Rates |-> WewAmounts(books, key, rate)])
WewSums(books, key) == [rate \in Rates |-> WewAmounts(books, key, rate)]
ProcedureOf(key) == key[1]
PurchaseRow(books, i) == [of |-> i, field |-> MapVatColumns(books[i].category), sums |-> Amounts(books[i].net, books[i].vat)]

SaleRows(books, C) == {SaleRow(books, i) : i \in C}
WewRows(books, keys) == {WewRow(books, key) : key \in keys}

\* The amounts at one rate: of rows, of invoices, of summed margins.
RowsAt(R, rate) == [r \in R |-> r.sums[rate]]
SalesAt(books, C, rate) == [i \in C |-> RowAmounts(books, i)[rate]]
WewAt(books, keys, rate) == [key \in keys |-> WewAmounts(books, key, rate)]

LEMMA FileIs ==
  ASSUME NEW books
  PROVE  LET file == JpkV7M(books)
         IN /\ file.sales = SaleRows(books, Sales(books))
            /\ file.wew = WewRows(books, WewKeys(books))
            /\ file.purchases = {PurchaseRow(books, i) : i \in Purchases(books)}
            /\ file.PodatekNalezny = VatTotal(SalesTotals(books))
            /\ file.PodatekNaliczony = VatDeducted(PurchaseTotals(books))
            /\ file.declaration = Declaration(books)
BY DEF JpkV7M, SaleRow, SaleRows, WewRow, WewRows, PurchaseRow

LEMMA SaleRowIs ==
  ASSUME NEW books, NEW i
  PROVE  /\ SaleRow(books, i).of = i /\ SaleRow(books, i).procedure = books[i].procedure
         /\ SaleRow(books, i).counts = (i \in Counted(books)) /\ SaleRow(books, i).sums = RowAmounts(books, i)
BY DEF SaleRow, Row

LEMMA WewRowIs ==
  ASSUME NEW books, NEW key
  PROVE  /\ WewRow(books, key).of = None /\ WewRow(books, key).procedure = ProcedureOf(key)
         /\ WewRow(books, key).counts = TRUE
         /\ WewRow(books, key).sums = WewSums(books, key)
BY DEF WewRow, Row, WewSums, ProcedureOf

LEMMA PurchaseRowIs ==
  ASSUME NEW books, NEW i
  PROVE  /\ PurchaseRow(books, i).of = i /\ PurchaseRow(books, i).field = MapVatColumns(books[i].category)
         /\ PurchaseRow(books, i).sums = Amounts(books[i].net, books[i].vat)
BY DEF PurchaseRow

LEMMA RangeFinite ==
  ASSUME NEW S, IsFiniteSet(S), NEW K, NEW c \in [S -> K], \A k \in K : \E x \in S : c[x] = k
  PROVE  IsFiniteSet(K)
<1>1. c \in Surjection(S, K)
  BY DEF Surjection
<1> QED BY <1>1, FS_Surjection

\* Each invoice has a row of its own.
LEMMA SaleRowsTotal ==
  ASSUME NEW books, Books(books), CanGenerate(books), NEW C \in SUBSET Sales(books), NEW rate \in Rates
  PROVE  LET R == SaleRows(books, C)
         IN /\ IsFiniteSet(R) /\ SalesAt(books, C, rate) \in [C -> Amount] /\ RowsAt(R, rate) \in [R -> Amount]
            /\ Total(RowsAt(R, rate)) = Total(SalesAt(books, C, rate))
<1>1. PICK R : R = SaleRows(books, C)
  OBVIOUS
<1>2. PICK a : a = SalesAt(books, C, rate)
  OBVIOUS
<1>3. PICK b : b = RowsAt(R, rate)
  OBVIOUS
<1>4. PICK c : c = [i \in C |-> SaleRow(books, i)]
  OBVIOUS
<1>5. c \in [C -> R] /\ \A r \in R : \E i \in C : c[i] = r
  BY <1>1, <1>4 DEF SaleRows
<1>6. IsFiniteSet(C) /\ IsFiniteSet(R)
  <2>1. IsFiniteSet(C)
    BY KeysFinite, FS_Subset
  <2> QED BY <1>5, <2>1, RangeFinite
<1>7. a \in [C -> Amount]
  BY <1>2, RowIs DEF SalesAt
<1>8. \A i \in C : b[c[i]] = a[i] /\ c[i].of = i
  BY <1>2, <1>3, <1>4, <1>5, SaleRowIs DEF SalesAt, RowsAt
<1>9. b \in [R -> Amount]
  <2>1. ASSUME NEW r \in R
        PROVE  b[r] \in Amount
    <3>1. PICK i \in C : c[i] = r
      BY <1>5
    <3> QED BY <1>7, <1>8, <3>1
  <2> QED BY <1>3, <2>1 DEF RowsAt
<1>10. ASSUME NEW r \in R
       PROVE  \E i \in C : {y \in C : c[y] = r} = {i} /\ a[i] = b[r]
  <2>1. PICK i \in C : c[i] = r
    BY <1>5
  <2>2. {y \in C : c[y] = r} = {i}
    BY <1>8, <2>1
  <2> QED BY <1>8, <2>1, <2>2
<1>11. Total(a) = Total(b)
  BY <1>5, <1>6, <1>7, <1>9, <1>10, TotalRenamed
<1> QED BY <1>1, <1>2, <1>3, <1>6, <1>7, <1>9, <1>11

\* So has each procedure and rate, except that rows without amounts may coincide.
LEMMA WewRowsTotal ==
  ASSUME NEW books, Books(books), CanGenerate(books), NEW keys \in SUBSET WewKeys(books), NEW rate \in Rates
  PROVE  LET R == WewRows(books, keys)
         IN /\ IsFiniteSet(R) /\ WewAt(books, keys, rate) \in [keys -> Amount] /\ RowsAt(R, rate) \in [R -> Amount]
            /\ Total(RowsAt(R, rate)) = Total(WewAt(books, keys, rate))
<1>1. PICK R : R = WewRows(books, keys)
  OBVIOUS
<1>2. PICK a : a = WewAt(books, keys, rate)
  OBVIOUS
<1>3. PICK b : b = RowsAt(R, rate)
  OBVIOUS
<1>4. PICK c : c = [key \in keys |-> WewRow(books, key)]
  OBVIOUS
<1>5. c \in [keys -> R] /\ \A r \in R : \E key \in keys : c[key] = r
  BY <1>1, <1>4 DEF WewRows
<1>6. IsFiniteSet(keys) /\ IsFiniteSet(R)
  <2>1. IsFiniteSet(keys)
    BY KeysFinite, FS_Subset
  <2> QED BY <1>5, <2>1, RangeFinite
<1>7. a \in [keys -> Amount]
  BY <1>2, WewIs DEF WewAt
<1>8. \A key \in keys : c[key].procedure = ProcedureOf(key) /\ c[key].sums = WewSums(books, key)
  BY <1>4, WewRowIs
<1>9. ASSUME NEW key \in keys
      PROVE  b[c[key]] = a[key]
  <2>1. WewSums(books, key)[rate] = a[key]
    BY <1>2 DEF WewSums, WewAt
  <2> QED BY <1>3, <1>5, <1>8, <2>1 DEF RowsAt
<1>10. b \in [R -> Amount]
  <2>1. ASSUME NEW r \in R
        PROVE  b[r] \in Amount
    <3>1. PICK key \in keys : c[key] = r
      BY <1>5
    <3> QED BY <1>7, <1>9, <3>1
  <2> QED BY <1>3, <2>1 DEF RowsAt
<1>11. ASSUME NEW r \in R
       PROVE  \/ \E key \in keys : {y \in keys : c[y] = r} = {key} /\ a[key] = b[r]
              \/ b[r] = Zero /\ \A y \in keys : c[y] = r => a[y] = Zero
  <2>1. PICK key \in keys : c[key] = r
    BY <1>5
  <2>2. CASE {y \in keys : c[y] = r} = {key}
    BY <1>9, <2>1, <2>2
  <2>3. CASE \E other \in keys : other # key /\ c[other] = r
    <3>1. PICK other \in keys : other # key /\ c[other] = r
      BY <2>3
    <3>2. \A k \in keys : \E p, q : k = <<p, q>>
      BY DEF WewKeys
    <3>3. key[1] = other[1] /\ key[2] # other[2]
      <4>1. key[1] = other[1]
        BY <1>8, <2>1, <3>1 DEF ProcedureOf
      <4>2. PICK p, q : key = <<p, q>>
        BY <3>2
      <4>3. PICK p2, q2 : other = <<p2, q2>>
        BY <3>2
      <4> QED BY <3>1, <4>1, <4>2, <4>3
    <3>4. a[key] = a[other]
      BY <1>9, <2>1, <3>1
    <3>5. a[key] = Zero
      <4>1. a[key] = WewAmounts(books, key, rate) /\ a[other] = WewAmounts(books, other, rate)
        BY <1>2 DEF WewAt
      <4>2. key[2] # rate \/ other[2] # rate
        BY <3>3
      <4> QED BY <3>4, <4>1, <4>2 DEF WewAmounts
    <3>6. b[r] = Zero
      BY <1>9, <2>1, <3>5
    <3> QED BY <1>9, <3>6
  <2> QED BY <2>1, <2>2, <2>3
<1>12. Total(a) = Total(b)
  BY <1>5, <1>6, <1>7, <1>10, <1>11, TotalRenamed
<1> QED BY <1>1, <1>2, <1>3, <1>6, <1>7, <1>10, <1>12

LEMMA RowsTotal ==
  ASSUME NEW books, Books(books), CanGenerate(books), NEW rate \in Rates,
         NEW C \in SUBSET Sales(books), NEW keys \in SUBSET WewKeys(books)
  PROVE  Total(RowsAt(SaleRows(books, C) \cup WewRows(books, keys), rate))
           = Plus(Total(SalesAt(books, C, rate)), Total(WewAt(books, keys, rate)))
<1>1. PICK R : R = SaleRows(books, C)
  OBVIOUS
<1>2. PICK W : W = WewRows(books, keys)
  OBVIOUS
<1>3. PICK b : b = RowsAt(R \cup W, rate)
  OBVIOUS
<1>4. /\ IsFiniteSet(R) /\ RowsAt(R, rate) \in [R -> Amount]
      /\ Total(RowsAt(R, rate)) = Total(SalesAt(books, C, rate))
  BY <1>1, SaleRowsTotal
<1>5. /\ IsFiniteSet(W) /\ RowsAt(W, rate) \in [W -> Amount]
      /\ Total(RowsAt(W, rate)) = Total(WewAt(books, keys, rate))
  BY <1>2, WewRowsTotal
<1>6. R \cap W = {}
  <2>1. \A r \in R : r.of # None
    <3>1. \A i \in C : i \in Nat
      BY BooksTypes DEF Sales
    <3> QED BY <1>1, <3>1, SaleRowIs, RatesAssumption DEF SaleRows
  <2>2. \A r \in W : r.of = None
    BY <1>2, WewRowIs DEF WewRows
  <2> QED BY <2>1, <2>2
<1>7. (R \cup W) \ R = W
  BY <1>6
<1>8. [r \in R |-> b[r]] = RowsAt(R, rate) /\ [r \in W |-> b[r]] = RowsAt(W, rate)
  BY <1>3 DEF RowsAt
<1>9. b \in [R \cup W -> Amount]
  <2>1. \A r \in R : r.sums[rate] \in Amount
    BY <1>4 DEF RowsAt
  <2>2. \A r \in W : r.sums[rate] \in Amount
    BY <1>5 DEF RowsAt
  <2> QED BY <1>3, <2>1, <2>2 DEF RowsAt
<1>10. IsFiniteSet(R \cup W)
  BY <1>4, <1>5, FS_Union
<1>11. Total(b) = Plus(Total([r \in R |-> b[r]]), Total([r \in (R \cup W) \ R |-> b[r]]))
  <2>1. R \in SUBSET (R \cup W)
    OBVIOUS
  <2> QED BY <1>9, <1>10, <2>1, TotalParts
<1> QED BY <1>1, <1>2, <1>3, <1>4, <1>5, <1>7, <1>8, <1>11

CountedRows(books) == {r \in JpkV7M(books).sales \cup JpkV7M(books).wew : r.counts}

LEMMA CountedRowsAre ==
  ASSUME NEW books
  PROVE  CountedRows(books) = SaleRows(books, Counted(books)) \cup WewRows(books, WewKeys(books))
<1>1. CountedRows(books) = {r \in SaleRows(books, Sales(books)) \cup WewRows(books, WewKeys(books)) : r.counts}
  BY FileIs DEF CountedRows
<1>2. \A i \in Sales(books) : SaleRow(books, i).counts <=> i \in Counted(books)
  BY SaleRowIs, ZenonT(60)
<1>3. \A key \in WewKeys(books) : WewRow(books, key).counts
  BY WewRowIs
<1>4. Counted(books) \subseteq Sales(books)
  BY DEF Counted
<1> QED BY <1>1, <1>2, <1>3, <1>4 DEF SaleRows, WewRows

\* The running sums of the register.
LEMMA SalesTotalsAre ==
  ASSUME NEW books, Books(books), CanGenerate(books), NEW rate \in Rates
  PROVE  /\ SalesTotals(books)[rate] = Total(RowsAt(CountedRows(books), rate))
         /\ SalesTotals(books)[rate] \in Amount
<1>1. PICK S : S = Counted(books)
  OBVIOUS
<1>2. PICK T : T = CountedMargins(books)
  OBVIOUS
<1>3. PICK m : m = [i \in T |-> MarginAmounts(books[i], rate)]
  OBVIOUS
<1>4. T \subseteq S /\ S \subseteq Sales(books) /\ \A i \in S : i \in DOMAIN books /\ (i \in T <=> IsMargin(books[i]))
  BY <1>1, <1>2 DEF CountedMargins, Counted, Sales
<1>5. \A i \in S : RowAmounts(books, i)[rate] = IF i \in T THEN m[i] ELSE Contribution(books, i, rate)
  BY <1>3, <1>4 DEF RowAmounts
<1>6. m \in [T -> Amount]
  <2>1. ASSUME NEW i \in T
        PROVE  m[i] \in Amount
    <3>1. RowAmounts(books, i) \in [Rates -> Amount]
      BY <1>4, RowIs
    <3> QED BY <1>4, <1>5, <3>1
  <2> QED BY <1>3, <2>1
<1>7. PICK a : a = SalesAt(books, S, rate)
  OBVIOUS
<1>8. a = [i \in S |-> IF i \in T THEN m[i] ELSE Contribution(books, i, rate)]
  BY <1>5, <1>7 DEF SalesAt
<1>9. PICK w : w = WewAt(books, WewKeys(books), rate)
  OBVIOUS
<1>10. /\ a \in [S -> Amount] /\ w \in [WewKeys(books) -> Amount] /\ IsFiniteSet(WewKeys(books))
       /\ SumUp(books, rate, m, WewKeys(books)) = Plus(Total(a), Total(w))
  <2>1. WewKeys(books) \in SUBSET WewKeys(books) /\ m \in [CountedMargins(books) -> Amount]
    BY <1>2, <1>6
  <2> QED BY <1>1, <1>2, <1>8, <1>9, <2>1, SumUpIs DEF WewAt
<1>11. SalesTotals(books)[rate] = Plus(Total(a), Total(w))
  BY <1>2, <1>3, <1>10 DEF SalesTotals
<1>12. Total(RowsAt(CountedRows(books), rate)) = Plus(Total(a), Total(w))
  <2>1. Total(RowsAt(SaleRows(books, S) \cup WewRows(books, WewKeys(books)), rate)) = Plus(Total(a), Total(w))
    <3>1. S \in SUBSET Sales(books) /\ WewKeys(books) \in SUBSET WewKeys(books)
      BY <1>4
    <3> QED BY <1>7, <1>9, <3>1, RowsTotal
  <2> QED BY <1>1, <2>1, CountedRowsAre
<1>13. Plus(Total(a), Total(w)) \in Amount
  <2>1. Total(a) \in Amount /\ Total(w) \in Amount
    BY <1>1, <1>10, KeysFinite, TotalIs
  <2> QED BY <2>1, PlusIs
<1> QED BY <1>11, <1>12, <1>13

GainRows(books) == {r \in CountedRows(books) : ~Loss(r)}

\* The running sums of the declaration: a loss is left out, and a row that is
\* none has no negative margin in it.
LEMMA DeclaredAre ==
  ASSUME NEW books, Books(books), CanGenerate(books), NEW rate \in Rates
  PROVE  /\ Declared(books)[rate] = Total(RowsAt(GainRows(books), rate))
         /\ Declared(books)[rate] \in Amount
<1>1. PICK S : S = Counted(books)
  OBVIOUS
<1>2. PICK T : T = CountedMargins(books)
  OBVIOUS
<1>3. PICK m : m = [i \in T |-> IF books[i].margin.taxable < 0 THEN Zero ELSE MarginAmounts(books[i], rate)]
  OBVIOUS
<1>4. PICK D : D = {key \in WewKeys(books) : SummedMargin(books, key) >= 0}
  OBVIOUS
<1>5. Declared(books)[rate] = SumUp(books, rate, m, D)
  BY <1>2, <1>3, <1>4 DEF Declared
<1>6. T \subseteq S /\ S \subseteq Sales(books) /\ \A i \in S : i \in DOMAIN books /\ (i \in T <=> IsMargin(books[i]))
  BY <1>1, <1>2 DEF CountedMargins, Counted, Sales
<1>7. \A i \in T : books[i].margin.taxable \in Int
  BY <1>6, MarginComplete DEF Margined
<1>8. m \in [T -> Amount]
  <2>1. ASSUME NEW i \in T
        PROVE  MarginAmounts(books[i], rate) \in Amount
    <3>1. [s \in Rates |-> MarginAmounts(books[i], s)] \in [Rates -> Amount]
      BY <1>7, MarginIs
    <3> QED BY <3>1
  <2> QED BY <1>3, <2>1, ZeroType
<1>9. PICK a : a = [i \in S |-> IF i \in T THEN m[i] ELSE Contribution(books, i, rate)]
  OBVIOUS
<1>10. PICK w : w = [key \in D |-> WewAmounts(books, key, rate)]
  OBVIOUS
<1>11. /\ a \in [S -> Amount] /\ w \in [D -> Amount] /\ IsFiniteSet(D)
       /\ SumUp(books, rate, m, D) = Plus(Total(a), Total(w))
  <2>1. D \in SUBSET WewKeys(books) /\ m \in [CountedMargins(books) -> Amount]
    BY <1>2, <1>4, <1>8
  <2> QED BY <1>1, <1>2, <1>9, <1>10, <2>1, SumUpIs
<1>12. PICK C : C = {i \in S : ~Loss(SaleRow(books, i))}
  OBVIOUS
<1>13. PICK K : K = {key \in WewKeys(books) : ~Loss(WewRow(books, key))}
  OBVIOUS
<1>14. GainRows(books) = SaleRows(books, C) \cup WewRows(books, K)
  BY <1>1, <1>12, <1>13, CountedRowsAre DEF GainRows, SaleRows, WewRows
<1>15. Total(RowsAt(GainRows(books), rate))
         = Plus(Total(SalesAt(books, C, rate)), Total(WewAt(books, K, rate)))
  <2>1. C \in SUBSET Sales(books) /\ K \in SUBSET WewKeys(books)
    BY <1>6, <1>12, <1>13
  <2> QED BY <1>14, <2>1, RowsTotal
<1>16. Total(a) = Total(SalesAt(books, C, rate))
  <2>1. ASSUME NEW i \in S, i \notin T
        PROVE  i \in C /\ a[i] = RowAmounts(books, i)[rate]
    <3>1. ~IsMargin(books[i])
      BY <1>6, <2>1
    <3>2. i \in C
      BY <1>12, <2>1, <3>1, SaleRowIs DEF Loss, IsMargin
    <3> QED BY <1>9, <2>1, <3>1, <3>2 DEF RowAmounts
  <2>2. ASSUME NEW i \in T
        PROVE  IF i \in C THEN a[i] = RowAmounts(books, i)[rate] ELSE a[i] = Zero
    <3>1. PICK t : t = books[i].margin.taxable
      OBVIOUS
    <3>2. PICK s : s = [q \in Rates |-> MarginAmounts(books[i], q)]
      OBVIOUS
    <3>3. t \in Int /\ IsMargin(books[i]) /\ i \in S
      BY <1>6, <1>7, <3>1
    <3>4. RowAmounts(books, i) = s /\ s[rate] = MarginAmounts(books[i], rate)
      BY <3>2, <3>3 DEF RowAmounts
    <3>5. /\ Total(s).net < 0 => t < 0
          /\ t < 0 /\ ~(Total(s).net < 0) => \A q \in Rates : s[q] = Zero
      BY <3>1, <3>2, <3>3, MarginIs
    <3>6. i \in C <=> ~(Total(s).net < 0)
      BY <1>12, <3>3, <3>4, SaleRowIs DEF Loss, IsMargin
    <3>7. a[i] = IF t < 0 THEN Zero ELSE s[rate]
      BY <1>3, <1>9, <3>1, <3>3, <3>4
    <3> QED BY <3>4, <3>5, <3>6, <3>7
  <2>3. C \in SUBSET S /\ \A i \in S \ C : a[i] = Zero
    BY <1>12, <2>1, <2>2
  <2>4. [i \in C |-> a[i]] = SalesAt(books, C, rate)
    BY <2>1, <2>2, <2>3 DEF SalesAt
  <2>5. IsFiniteSet(S)
    BY <1>1, KeysFinite
  <2>6. Total(a) = Total([i \in C |-> a[i]])
    BY <1>11, <2>3, <2>5, TotalNonzero
  <2> QED BY <2>4, <2>6
<1>17. Total(w) = Total(WewAt(books, K, rate))
  <2>1. PICK v : v = WewAt(books, K, rate)
    OBVIOUS
  <2>2. ASSUME NEW key \in WewKeys(books)
        PROVE  /\ key \in D => key \in K
               /\ key \in K \ D => WewAmounts(books, key, rate) = Zero
    <3>1. PICK t : t = SummedMargin(books, key)
      OBVIOUS
    <3>2. PICK s : s = [q \in Rates |-> WewAmounts(books, key, q)]
      OBVIOUS
    <3>3. /\ t \in Int
          /\ Total(s).net < 0 => t < 0
          /\ t < 0 /\ ~(Total(s).net < 0) => \A q \in Rates : s[q] = Zero
      BY <3>1, <3>2, SummedIs, WewIs
    <3>4. key[1] # None
      BY DEF WewKeys, BySum, IsMargin
    <3>5. key \in K <=> ~(Total(s).net < 0)
      BY <1>13, <3>2, <3>4, WewRowIs, ZenonT(60) DEF Loss, WewSums, ProcedureOf
    <3>6. key \in D <=> ~(t < 0)
      BY <1>4, <3>1, <3>3
    <3> QED BY <3>2, <3>3, <3>5, <3>6
  <2>3. D \in SUBSET K /\ K \in SUBSET WewKeys(books)
    BY <1>4, <1>13, <2>2
  <2>4. \A key \in K \ D : v[key] = Zero
    BY <2>1, <2>2, <2>3 DEF WewAt
  <2>5. IsFiniteSet(K) /\ v \in [K -> Amount]
    <3>1. IsFiniteSet(K)
      BY <2>3, KeysFinite, FS_Subset
    <3> QED BY <2>1, <3>1, WewIs DEF WewAt
  <2>6. [key \in D |-> v[key]] = w
    BY <1>10, <2>1, <2>3 DEF WewAt
  <2>7. Total(v) = Total([key \in D |-> v[key]])
    BY <2>3, <2>4, <2>5, TotalNonzero
  <2> QED BY <2>1, <2>6, <2>7
<1>18. Plus(Total(a), Total(w)) \in Amount
  <2>1. Total(a) \in Amount /\ Total(w) \in Amount
    BY <1>1, <1>11, KeysFinite, TotalIs
  <2> QED BY <2>1, PlusIs
<1> QED BY <1>5, <1>11, <1>15, <1>16, <1>17, <1>18

PurchaseRows(books) == {PurchaseRow(books, i) : i \in Purchases(books)}
SumsOf(R) == [r \in R |-> r.sums]
InField(R, field) == {r \in R : r.field = field}

\* Every purchase is in one field: the other has none.
LEMMA PurchasesAre ==
  ASSUME NEW books, Books(books)
  PROVE  LET R == PurchaseRows(books)
             totals == PurchaseTotals(books)
         IN /\ IsFiniteSet(R) /\ SumsOf(R) \in [R -> Amount]
            /\ InField(R, "K_42") = R /\ InField(R, "K_40") = {}
            /\ totals \in [PurchaseFields -> Amount]
            /\ totals["K_42"] = Total(SumsOf(R)) /\ totals["K_40"] = Zero
<1>1. PICK P : P = Purchases(books)
  OBVIOUS
<1>2. PICK R : R = PurchaseRows(books)
  OBVIOUS
<1>3. PICK a : a = [i \in P |-> Amounts(books[i].net, books[i].vat)]
  OBVIOUS
<1>4. PICK c : c = [i \in P |-> PurchaseRow(books, i)]
  OBVIOUS
<1>5. c \in [P -> R] /\ \A r \in R : \E i \in P : c[i] = r
  BY <1>1, <1>2, <1>4 DEF PurchaseRows
<1>6. P \in SUBSET (DOMAIN books)
  BY <1>1 DEF Purchases
<1>7. IsFiniteSet(P) /\ IsFiniteSet(R)
  <2>1. IsFiniteSet(P)
    BY <1>6, BooksTypes, FS_Subset
  <2> QED BY <1>5, <2>1, RangeFinite
<1>8. a \in [P -> Amount]
  <2>1. ASSUME NEW i \in P
        PROVE  Amounts(books[i].net, books[i].vat) \in Amount
    BY <1>6, BooksTypes, EntryTypes, AmountsType
  <2> QED BY <1>3, <2>1
<1>9. PICK b : b = SumsOf(R)
  OBVIOUS
<1>10. \A i \in P : b[c[i]] = a[i] /\ c[i].of = i /\ c[i].field = "K_42"
  BY <1>3, <1>4, <1>5, <1>9, PurchaseRowIs DEF SumsOf, MapVatColumns
<1>11. b \in [R -> Amount]
  <2>1. ASSUME NEW r \in R
        PROVE  b[r] \in Amount
    <3>1. PICK i \in P : c[i] = r
      BY <1>5
    <3> QED BY <1>8, <1>10, <3>1
  <2> QED BY <1>9, <2>1 DEF SumsOf
<1>12. ASSUME NEW r \in R
       PROVE  \E i \in P : {y \in P : c[y] = r} = {i} /\ a[i] = b[r]
  <2>1. PICK i \in P : c[i] = r
    BY <1>5
  <2>2. {y \in P : c[y] = r} = {i}
    BY <1>10, <2>1
  <2> QED BY <1>10, <2>1, <2>2
<1>13. Total(a) = Total(b)
  BY <1>5, <1>7, <1>8, <1>11, <1>12, TotalRenamed
<1>14. InField(R, "K_42") = R /\ InField(R, "K_40") = {}
  BY <1>5, <1>10 DEF InField
<1>15. PICK totals : totals = PurchaseTotals(books)
  OBVIOUS
<1>16. totals = [field \in PurchaseFields |-> Total([i \in {j \in P : MapVatColumns(books[j].category) = field} |->
                                                        Amounts(books[i].net, books[i].vat)])]
  BY <1>1, <1>15 DEF PurchaseTotals
<1>17. totals["K_42"] = Total(a)
  <2>1. {j \in P : MapVatColumns(books[j].category) = "K_42"} = P
    BY DEF MapVatColumns
  <2> QED BY <1>3, <1>16, <2>1 DEF PurchaseFields
<1>18. totals["K_40"] = Zero
  <2>1. {j \in P : MapVatColumns(books[j].category) = "K_40"} = {}
    BY DEF MapVatColumns
  <2>2. PICK none : none = [i \in {} |-> Amounts(books[i].net, books[i].vat)]
    OBVIOUS
  <2>3. none \in [{} -> Amount] /\ \A x \in {} : none[x] = Zero
    BY <2>2
  <2>4. Total(none) = Zero
    BY <2>3, FS_EmptySet, TotalZero
  <2> QED BY <1>16, <2>1, <2>2, <2>4 DEF PurchaseFields
<1>19. totals \in [PurchaseFields -> Amount]
  <2>1. Total(a) \in Amount
    BY <1>7, <1>8, TotalIs
  <2>2. totals["K_42"] \in Amount /\ totals["K_40"] \in Amount
    BY <1>17, <1>18, <2>1, ZeroType
  <2>3. \A field \in PurchaseFields : totals[field] \in Amount
    BY <2>2 DEF PurchaseFields
  <2>4. totals = [field \in PurchaseFields |-> totals[field]]
    BY <1>16
  <2> QED BY <2>3, <2>4
<1> QED BY <1>2, <1>7, <1>9, <1>11, <1>13, <1>14, <1>15, <1>17, <1>18, <1>19

LEMMA DeductedIs ==
  ASSUME NEW t \in [PurchaseFields -> Amount], t["K_40"].vat = 0
  PROVE  VatDeducted(t) = t["K_42"].vat /\ VatDeducted(t) \in Int
<1>1. PICK v : v = [field \in PurchaseFields |-> t[field].vat]
  OBVIOUS
<1>2. v \in [PurchaseFields -> Int]
  BY <1>1, AmountParts
<1>3. IsFiniteSet(PurchaseFields)
  <2>1. PurchaseFields = ({} \cup {"K_40"}) \cup {"K_42"}
    BY DEF PurchaseFields
  <2> QED BY <2>1, FS_EmptySet, FS_AddElement
<1>4. "K_42" \in PurchaseFields /\ \A field \in PurchaseFields \ {"K_42"} : v[field] = 0
  BY <1>1 DEF PurchaseFields
<1>5. SumFunction(v) = v["K_42"]
  BY <1>2, <1>3, <1>4, SumOnly
<1> QED BY <1>1, <1>2, <1>4, <1>5 DEF VatDeducted

LEMMA InZlotyIs ==
  ASSUME NEW a \in Amount
  PROVE  /\ InZloty(a) \in Amount
         /\ Nearest(InZloty(a).net, a.net) /\ Nearest(InZloty(a).vat, a.vat)
         /\ a.vat = 0 => InZloty(a).vat = 0
<1>1. a.net \in Int /\ a.vat \in Int
  BY AmountParts
<1>2. Rounded(a.net, 100) \in Int /\ Rounded(a.vat, 100) \in Int
  BY <1>1, Rounding
<1>3. InZloty(a) \in Amount /\ InZloty(a).net = Rounded(a.net, 100) /\ InZloty(a).vat = Rounded(a.vat, 100)
  BY <1>2, AmountsIs, AmountsType DEF InZloty
<1> QED BY <1>1, <1>3, Rounding, RoundingZero, SMTT(30) DEF Nearest

LEMMA VatTotalIs ==
  ASSUME NEW a \in [Rates -> Amount]
  PROVE  VatTotal(a) \in Int
<1>1. [rate \in Rates |-> a[rate].vat] \in [Rates -> Int]
  BY AmountParts
<1> QED BY <1>1, RatesFinite, SumInt DEF VatTotal

\* Whatever the books are, a file made of them adds up.
LEMMA GeneratedAddsUp ==
  ASSUME NEW books, Books(books), CanGenerate(books)
  PROVE  AddsUp(JpkV7M(books))
<1>1. PICK file : file = JpkV7M(books)
  OBVIOUS
<1>2. PICK counted : counted = CountedRows(books)
  OBVIOUS
<1>3. PICK R : R = PurchaseRows(books)
  OBVIOUS
<1>4. PICK totals : totals = PurchaseTotals(books)
  OBVIOUS
<1>5. PICK sold : sold = [rate \in Rates |-> InZloty(Declared(books)[rate])]
  OBVIOUS
<1>6. PICK bought : bought = [field \in PurchaseFields |-> InZloty(totals[field])]
  OBVIOUS
<1>7. PICK due : due = VatTotal(sold)
  OBVIOUS
<1>8. PICK deduct : deduct = VatDeducted(bought)
  OBVIOUS
<1>9. PICK p : p = Declaration(books)
  OBVIOUS
<1>10. p = [sold |-> sold, bought |-> bought, P_38 |-> due, P_48 |-> deduct,
            P_51 |-> IF due > deduct THEN due - deduct ELSE 0,
            P_53 |-> IF deduct > due THEN deduct - due ELSE 0]
  BY <1>4, <1>5, <1>6, <1>7, <1>8, <1>9 DEF Declaration
<1>11. /\ file.purchases = R /\ file.declaration = p
       /\ file.PodatekNalezny = VatTotal(SalesTotals(books)) /\ file.PodatekNaliczony = VatDeducted(totals)
  BY <1>1, <1>3, <1>4, <1>9, FileIs DEF PurchaseRows
<1>12. /\ IsFiniteSet(R) /\ SumsOf(R) \in [R -> Amount] /\ InField(R, "K_42") = R /\ InField(R, "K_40") = {}
       /\ totals \in [PurchaseFields -> Amount] /\ totals["K_42"] = Total(SumsOf(R)) /\ totals["K_40"] = Zero
  BY <1>3, <1>4, PurchasesAre
<1>13. sold \in [Rates -> Amount] /\ bought \in [PurchaseFields -> Amount]
  BY <1>5, <1>6, <1>12, DeclaredAre, InZlotyIs
<1>14. due \in Int
  BY <1>7, <1>13, VatTotalIs
<1>15. deduct \in Int /\ deduct = bought["K_42"].vat
  <2>1. bought["K_40"].vat = 0
    <3>1. bought["K_40"] = InZloty(Zero)
      BY <1>6, <1>12 DEF PurchaseFields
    <3> QED BY <3>1, ZeroType, InZlotyIs
  <2> QED BY <1>8, <1>13, <2>1, DeductedIs
<1>16. file.PodatekNaliczony = totals["K_42"].vat
  BY <1>11, <1>12, ZeroType, DeductedIs
<1>17. file.PodatekNalezny = SumFunction([rate \in Rates |-> Total(RowsAt(counted, rate)).vat])
  <2>1. [rate \in Rates |-> SalesTotals(books)[rate].vat] = [rate \in Rates |-> Total(RowsAt(counted, rate)).vat]
    BY <1>2, SalesTotalsAre
  <2> QED BY <1>11, <2>1 DEF VatTotal
<1>18. file.PodatekNaliczony = SumFunction([r \in R |-> r.sums.vat])
  <2>1. PICK b : b = SumsOf(R)
    OBVIOUS
  <2>2. b \in [R -> Amount] /\ totals["K_42"].vat = Total(b).vat
    BY <1>12, <2>1
  <2>3. Total(b).vat = SumFunction([r \in R |-> b[r].vat])
    <3>1. IsFiniteSet(R)
      BY <1>12
    <3> QED BY <2>2, <3>1, TotalIs
  <2>4. [r \in R |-> b[r].vat] = [r \in R |-> r.sums.vat]
    BY <2>1 DEF SumsOf
  <2> QED BY <1>16, <2>2, <2>3, <2>4
<1>19. ASSUME NEW rate \in Rates
       PROVE  /\ Nearest(p.sold[rate].net, Total(RowsAt(GainRows(books), rate)).net)
              /\ Nearest(p.sold[rate].vat, Total(RowsAt(GainRows(books), rate)).vat)
  <2>1. Declared(books)[rate] \in Amount /\ Declared(books)[rate] = Total(RowsAt(GainRows(books), rate))
    BY DeclaredAre
  <2>2. p.sold[rate] = InZloty(Declared(books)[rate])
    BY <1>5, <1>10
  <2> QED BY <2>1, <2>2, InZlotyIs
<1>20. Nearest(p.P_48, file.PodatekNaliczony)
  <2>1. bought["K_42"] = InZloty(totals["K_42"]) /\ totals["K_42"] \in Amount
    BY <1>6, <1>12 DEF PurchaseFields
  <2>2. Nearest(bought["K_42"].vat, totals["K_42"].vat)
    BY <2>1, InZlotyIs
  <2> QED BY <1>10, <1>15, <1>16, <2>2
<1>21. ASSUME NEW field \in PurchaseFields
       PROVE  Nearest(p.bought[field].vat, Total(SumsOf(InField(R, field))).vat)
  <2>1. totals[field] \in Amount /\ p.bought[field] = InZloty(totals[field])
    BY <1>6, <1>10, <1>12
  <2>2. Total(SumsOf(InField(R, field))) = totals[field]
    <3>1. CASE field = "K_42"
      BY <1>12, <3>1
    <3>2. CASE field = "K_40"
      <4>1. SumsOf({}) \in [{} -> Amount] /\ \A x \in {} : SumsOf({})[x] = Zero
        BY DEF SumsOf
      <4>2. Total(SumsOf({})) = Zero
        BY <4>1, FS_EmptySet, TotalZero
      <4> QED BY <1>12, <3>2, <4>2
    <3> QED BY <3>1, <3>2 DEF PurchaseFields
  <2> QED BY <2>1, <2>2, InZlotyIs
<1>22. p.P_51 - p.P_53 = p.P_38 - p.P_48 /\ (p.P_51 = 0 \/ p.P_53 = 0)
  BY <1>10, <1>14, <1>15
<1>23. counted = {r \in file.sales \cup file.wew : r.counts}
  BY <1>1, <1>2 DEF CountedRows
<1>24. GainRows(books) = {r \in counted : ~Loss(r)}
  BY <1>2 DEF GainRows
<1>25. AddsUp(file)
  BY <1>11, <1>17, <1>18, <1>19, <1>20, <1>21, <1>22, <1>23, <1>24 DEF AddsUp, RowsAt, SumsOf, InField
<1> QED BY <1>1, <1>25

-----------------------------------------------------------------------------
(* The rows of a file against the books it was made of                     *)

\* An invoice with lines is booked at what its document reports, and only a
\* correction corrects, an earlier invoice.
BookedRight(books) ==
    \A i \in DOMAIN books :
        /\ books[i].xml \in {"VAT", "KOR"} =>
              /\ Amounts(books[i].net, books[i].vat) = Less(LinesTotal(books[i].lines), LinesTotal(CorrectedLines(books, i)))
              /\ books[i].gross = books[i].net + books[i].vat
        /\ books[i].xml # "KOR" => books[i].corrects = None
        /\ books[i].xml = "KOR" => books[i].corrects \in 1..(i - 1)
        /\ books[i].xml = None => books[i].lines = <<>>

RowsSay(books, file) ==
    /\ \A r \in file.sales :
          /\ r.of \in DOMAIN books
          /\ r.procedure = None /\ books[r.of].xml # "VAT-margin" =>
                Total(r.sums) = Amounts(books[r.of].net, books[r.of].vat)
    /\ \A r \in file.purchases :
          r.of \in DOMAIN books /\ r.sums = Amounts(books[r.of].net, books[r.of].vat)

LEMMA GeneratedMatches ==
  ASSUME NEW books, Books(books), BookedRight(books), CanGenerate(books)
  PROVE  RowsSay(books, JpkV7M(books))
<1>1. PICK file : file = JpkV7M(books)
  OBVIOUS
<1>2. file.sales = SaleRows(books, Sales(books)) /\ file.purchases = PurchaseRows(books)
  BY <1>1, FileIs DEF PurchaseRows
<1>3. ASSUME NEW r \in file.sales
      PROVE  /\ r.of \in DOMAIN books
             /\ r.procedure = None /\ books[r.of].xml # "VAT-margin" =>
                   Total(r.sums) = Amounts(books[r.of].net, books[r.of].vat)
  <2>1. PICK i \in Sales(books) : r = SaleRow(books, i)
    BY <1>2 DEF SaleRows
  <2>2. i \in DOMAIN books /\ r.of = i /\ r.procedure = books[i].procedure /\ r.sums = RowAmounts(books, i)
    BY <2>1, SaleRowIs DEF Sales
  <2>3. ASSUME books[i].procedure = None, books[i].xml # "VAT-margin"
        PROVE  Total(r.sums) = Amounts(books[i].net, books[i].vat)
    <3>1. r.sums = [rate \in Rates |-> Contribution(books, i, rate)]
      BY <2>2, <2>3 DEF RowAmounts, IsMargin
    <3>2. Total(r.sums) = IF books[i].lines = <<>> THEN Amounts(books[i].net, books[i].vat)
                          ELSE Less(LinesTotal(books[i].lines), LinesTotal(CorrectedLines(books, i)))
      BY <2>2, <3>1, ContributionIs
    <3>3. books[i].xml \in {"VAT", "KOR", None}
      BY <2>2, <2>3, BooksTypes DEF BookEntry
    <3> QED BY <2>2, <3>2, <3>3 DEF BookedRight
  <2> QED BY <2>2, <2>3
<1>4. ASSUME NEW r \in file.purchases
      PROVE  r.of \in DOMAIN books /\ r.sums = Amounts(books[r.of].net, books[r.of].vat)
  <2>1. PICK i \in Purchases(books) : r = PurchaseRow(books, i)
    BY <1>2 DEF PurchaseRows
  <2> QED BY <2>1, PurchaseRowIs DEF Purchases
<1>5. RowsSay(books, file)
  BY <1>3, <1>4 DEF RowsSay
<1> QED BY <1>1, <1>5

-----------------------------------------------------------------------------
(* What an update of a row leaves alone                                    *)

SameBooking(old, new) ==
    /\ new.xml = old.xml /\ new.lines = old.lines /\ new.corrects = old.corrects
    /\ new.net = old.net /\ new.vat = old.vat /\ new.gross = old.gross

BookingsKept(old, new) ==
    /\ DOMAIN old \subseteq DOMAIN new
    /\ \A i \in DOMAIN old : SameBooking(old[i], new[i])

LEMMA RowsStillSay ==
  ASSUME NEW old, NEW new, BookingsKept(old, new), NEW file, RowsSay(old, file)
  PROVE  RowsSay(new, file)
BY DEF BookingsKept, SameBooking, RowsSay

LEMMA BooksUpdated ==
  ASSUME NEW old, Books(old), BookedRight(old), NEW new \in Seq(BookEntry), DOMAIN new = DOMAIN old,
         BookingsKept(old, new)
  PROVE  Books(new) /\ BookedRight(new)
<1>1. Books(new)
  BY DEF Books, BookingsKept, SameBooking
<1>2. ASSUME NEW i \in DOMAIN new
      PROVE  CorrectedLines(new, i) = CorrectedLines(old, i)
  BY DEF CorrectedLines, Books, BookingsKept, SameBooking
<1>3. BookedRight(new)
  <2>1. \A i \in DOMAIN old : SameBooking(old[i], new[i])
    BY DEF BookingsKept
  <2> QED BY <1>2, <2>1 DEF BookedRight, SameBooking
<1> QED BY <1>1, <1>3

LEMMA EntryUpdated ==
  ASSUME NEW old, Books(old), BookedRight(old), NEW i \in DOMAIN old,
         NEW e \in BookEntry, SameBooking(old[i], e), NEW new, new = [old EXCEPT ![i] = e]
  PROVE  Books(new) /\ BookedRight(new) /\ BookingsKept(old, new) /\ DOMAIN new = DOMAIN old
<1>1. old \in Seq(BookEntry) /\ DOMAIN new = DOMAIN old
  BY DEF Books
<1>2. new \in Seq(BookEntry)
  BY <1>1
<1>3. \A j \in DOMAIN old : new[j] = IF j = i THEN e ELSE old[j]
  BY <1>1
<1>4. BookingsKept(old, new)
  BY <1>1, <1>3 DEF BookingsKept, SameBooking
<1> QED BY <1>1, <1>2, <1>4, BooksUpdated

LEMMA BooksExtended ==
  ASSUME NEW old, Books(old), BookedRight(old), NEW e \in BookEntry, NEW new, new = Append(old, e),
         e.corrects # None => e.corrects \in DOMAIN old,
         e.xml \in {"VAT", "KOR"} =>
            /\ e.gross = e.net + e.vat
            /\ Amounts(e.net, e.vat) = Less(LinesTotal(e.lines),
                                            LinesTotal(IF e.corrects = None THEN <<>> ELSE old[e.corrects].lines)),
         e.xml # "KOR" => e.corrects = None, e.xml = "KOR" => e.corrects \in DOMAIN old,
         e.xml = None => e.lines = <<>>
  PROVE  Books(new) /\ BookedRight(new) /\ BookingsKept(old, new)
<1>1. PICK n \in Nat : n = Len(old)
  BY DEF Books
<1>2. old \in Seq(BookEntry) /\ DOMAIN old = 1..n
  BY <1>1 DEF Books
<1>3. /\ new \in Seq(BookEntry) /\ DOMAIN new = 1..(n + 1)
      /\ new[n + 1] = e /\ \A j \in 1..n : new[j] = old[j]
  BY <1>1, <1>2
<1>4. BookingsKept(old, new)
  BY <1>2, <1>3 DEF BookingsKept, SameBooking
<1>5. Books(new)
  <2>1. ASSUME NEW j \in DOMAIN new, new[j].corrects # None
        PROVE  new[j].corrects \in DOMAIN new
    <3>1. CASE j = n + 1
      BY <1>2, <1>3, <2>1, <3>1
    <3>2. CASE j \in 1..n
      BY <1>2, <1>3, <2>1, <3>2 DEF Books
    <3> QED BY <1>3, <3>1, <3>2
  <2> QED BY <1>3, <2>1 DEF Books
<1>6. ASSUME NEW j \in 1..n
      PROVE  CorrectedLines(new, j) = CorrectedLines(old, j)
  BY <1>2, <1>3 DEF CorrectedLines, Books
<1>7. CorrectedLines(new, n + 1) = IF e.corrects = None THEN <<>> ELSE old[e.corrects].lines
  BY <1>2, <1>3 DEF CorrectedLines
<1>8. BookedRight(new)
  <2>1. SUFFICES ASSUME NEW j \in DOMAIN new
                 PROVE  /\ new[j].xml \in {"VAT", "KOR"} =>
                              /\ Amounts(new[j].net, new[j].vat) = Less(LinesTotal(new[j].lines), LinesTotal(CorrectedLines(new, j)))
                              /\ new[j].gross = new[j].net + new[j].vat
                        /\ new[j].xml # "KOR" => new[j].corrects = None
                        /\ new[j].xml = "KOR" => new[j].corrects \in 1..(j - 1)
                        /\ new[j].xml = None => new[j].lines = <<>>
    BY DEF BookedRight
  <2>2. CASE j = n + 1
    BY <1>2, <1>3, <1>7, <2>2
  <2>3. CASE j \in 1..n
    BY <1>2, <1>3, <1>6, <2>3 DEF BookedRight
  <2> QED BY <1>3, <2>2, <2>3
<1> QED BY <1>4, <1>5, <1>8

-----------------------------------------------------------------------------
(* The inductive invariant                                                 *)

\* A patch under way is of an invoice that exists.
EditsOK == edits \subseteq [of : Ids, body : Patches, step : {"marks", "margin"}]

\* A generation is a record of these fields, which an update of one keeps.
GenerationsOK == \A g \in generations : g = [by |-> g.by, step |-> g.step, ids |-> g.ids, file |-> g.file]

\* Every file agrees with the books as they are now, and with itself.
FilesOK == \A file \in Files : RowsSay(invoices, file) /\ AddsUp(file)

LedgerOK == ledger # None => \A i \in DOMAIN ledger : i \in Ids /\ EntryMatches(i)

\* BookedRight is what files generated later need; the rest is what there is.
ReturnsInv == Books(invoices) /\ BookedRight(invoices) /\ EditsOK /\ GenerationsOK /\ FilesOK /\ LedgerOK

LEMMA ReturnsInitInv == ReturnsInit => ReturnsInv
<1> SUFFICES ASSUME ReturnsInit PROVE ReturnsInv
  OBVIOUS
<1> USE DEF ReturnsInit
<1>1. Books(invoices) /\ BookedRight(invoices)
  BY DEF Books, BookedRight
<1>2. EditsOK /\ GenerationsOK /\ LedgerOK
  BY DEF EditsOK, GenerationsOK, LedgerOK
<1>3. FilesOK
  BY DEF FilesOK, Files
<1> QED BY <1>1, <1>2, <1>3 DEF ReturnsInv

LEMMA LedgerKept ==
  ASSUME LedgerOK, BookingsKept(invoices, invoices'), UNCHANGED ledger
  PROVE  LedgerOK'
<1>1. ASSUME ledger # None, NEW i \in DOMAIN ledger
      PROVE  (i \in Ids)' /\ EntryMatches(i)'
  <2>1. i \in Ids /\ EntryMatches(i)
    BY <1>1 DEF LedgerOK
  <2>2. i \in DOMAIN invoices' /\ SameBooking(invoices[i], invoices'[i])
    BY <2>1 DEF BookingsKept, Ids
  <2>3. BookedOf(i)' = BookedOf(i) /\ invoices'[i].lines = invoices[i].lines
    BY <2>2 DEF BookedOf, SameBooking
  <2>4. EntryMatches(i)'
    BY <2>1, <2>3 DEF EntryMatches
  <2> QED BY <2>2, <2>4 DEF Ids
<1>2. ledger' = ledger
  OBVIOUS
<1> QED BY <1>1, <1>2 DEF LedgerOK

\* The last four conjuncts survive a change of the books that keeps the bookings.
LEMMA OthersKept ==
  ASSUME ReturnsInv, BookingsKept(invoices, invoices'), UNCHANGED <<generations, preparation, ledger>>
  PROVE  GenerationsOK' /\ FilesOK' /\ LedgerOK'
<1>1. GenerationsOK'
  BY DEF ReturnsInv, GenerationsOK
<1>2. FilesOK'
  <2>1. Files' = Files
    BY DEF Files
  <2>2. ASSUME NEW file \in Files
        PROVE  RowsSay(invoices, file)' /\ AddsUp(file)
    <3>1. RowsSay(invoices, file) /\ AddsUp(file)
      BY DEF ReturnsInv, FilesOK
    <3>2. RowsSay(invoices', file)
      BY <3>1, RowsStillSay
    <3> QED BY <3>1, <3>2
  <2>3. \A file \in Files' : RowsSay(invoices', file) /\ AddsUp(file)
    BY <2>1, <2>2
  <2> QED BY <2>3 DEF FilesOK
<1>3. LedgerOK'
  BY LedgerKept DEF ReturnsInv
<1> QED BY <1>1, <1>2, <1>3

LEMMA EditsKept ==
  ASSUME EditsOK, BookingsKept(invoices, invoices'), UNCHANGED edits
  PROVE  EditsOK'
BY DEF EditsOK, BookingsKept, Ids

-----------------------------------------------------------------------------
(* Every step preserves it                                                 *)

LEMMA BooksChange ==
  ASSUME ReturnsInv, Books(invoices'), BookedRight(invoices'), BookingsKept(invoices, invoices'), EditsOK',
         UNCHANGED <<generations, preparation, ledger>>
  PROVE  ReturnsInv' /\ BookingsKept(invoices, invoices')
<1>1. (Books(invoices) /\ BookedRight(invoices))'
  OBVIOUS
<1> QED BY <1>1, OthersKept DEF ReturnsInv

LEMMA NoMarginIs == NoMargin \in MarginColumns
BY DEF NoMargin, MarginColumns, PatchValues

LEMMA Appended ==
  ASSUME ReturnsInv, NEW e \in BookEntry, Append1(e),
         e.corrects # None => e.corrects \in Ids,
         e.xml \in {"VAT", "KOR"} =>
            /\ e.gross = e.net + e.vat
            /\ Amounts(e.net, e.vat) = Less(LinesTotal(e.lines),
                                            LinesTotal(IF e.corrects = None THEN <<>> ELSE invoices[e.corrects].lines)),
         e.xml # "KOR" => e.corrects = None, e.xml = "KOR" => e.corrects \in Ids,
         e.xml = None => e.lines = <<>>
  PROVE  ReturnsInv' /\ BookingsKept(invoices, invoices')
<1>1. PICK new : new = invoices'
  OBVIOUS
<1>2. new = Append(invoices, e) /\ UNCHANGED <<generations, preparation, edits, ledger>>
  BY <1>1 DEF Append1
<1>3. Books(invoices) /\ BookedRight(invoices) /\ EditsOK
  BY DEF ReturnsInv
<1>4. Books(new) /\ BookedRight(new) /\ BookingsKept(invoices, new)
  BY <1>2, <1>3, BooksExtended DEF Ids
<1>5. EditsOK'
  BY <1>1, <1>2, <1>3, <1>4, EditsKept
<1> QED BY <1>1, <1>2, <1>4, <1>5, BooksChange

LEMMA IssueInv ==
  ASSUME ReturnsInv, NEW lines \in LineLists, Issue(lines)
  PROVE  ReturnsInv' /\ BookingsKept(invoices, invoices')
<1>1. PICK totals : totals = ReportedTotals(lines, <<>>)
  OBVIOUS
<1>2. lines \in Seq(Line) /\ <<>> \in Seq(Line)
  BY ReturnsAssumption, NoLines
<1>3. /\ totals.net \in Int /\ totals.vat \in Int /\ totals.gross = totals.net + totals.vat
      /\ Amounts(totals.net, totals.vat) = Less(LinesTotal(lines), LinesTotal(<<>>))
  BY <1>1, <1>2, ReportedIs
<1>4. PICK e : e = Invoice("VAT", lines, totals, None, None, NoMargin)
  OBVIOUS
<1>5. /\ e.xml = "VAT" /\ e.lines = lines /\ e.corrects = None
      /\ e.net = totals.net /\ e.vat = totals.vat /\ e.gross = totals.gross
  BY <1>4 DEF Invoice
<1>6. e \in BookEntry
  BY <1>2, <1>3, <1>4, NoMarginIs DEF Invoice, BookEntry, PatchValues
<1>7. Append1(e)
  BY <1>1, <1>4 DEF Issue
<1>8. "VAT" # None
  BY ReturnsAssumption
<1> QED BY <1>3, <1>5, <1>6, <1>7, <1>8, Appended

LEMMA IssueMarginInv ==
  ASSUME ReturnsInv, NEW lines \in LineLists, NEW procedure \in Procedures, NEW margin \in Margins,
         IssueMargin(lines, procedure, margin)
  PROVE  ReturnsInv' /\ BookingsKept(invoices, invoices')
<1>1. PICK totals : totals = [net |-> 0, vat |-> 0, gross |-> margin.gross]
  OBVIOUS
<1>2. lines \in Seq(Line) /\ margin.gross \in Int /\ margin \in MarginColumns
  BY ReturnsAssumption DEF MarginColumns
<1>3. PICK e : e = Invoice("VAT-margin", lines, totals, None, procedure, margin)
  OBVIOUS
<1>4. e.xml = "VAT-margin" /\ e.corrects = None
  BY <1>3 DEF Invoice
<1>5. e \in BookEntry
  BY <1>1, <1>2, <1>3 DEF Invoice, BookEntry, PatchValues
<1>6. Append1(e)
  BY <1>1, <1>3 DEF IssueMargin
<1>7. "VAT-margin" # None
  BY ReturnsAssumption
<1> QED BY <1>4, <1>5, <1>6, <1>7, Appended

LEMMA CorrectInv ==
  ASSUME ReturnsInv, NEW i \in Ids, NEW lines \in LineLists, Correct(i, lines)
  PROVE  ReturnsInv' /\ BookingsKept(invoices, invoices')
<1>1. PICK totals : totals = ReportedTotals(lines, invoices[i].lines)
  OBVIOUS
<1>2. lines \in Seq(Line) /\ invoices[i].lines \in Seq(Line) /\ i \in Nat
  <2>1. Books(invoices) /\ i \in DOMAIN invoices
    BY DEF ReturnsInv, Ids
  <2>2. invoices[i] \in BookEntry /\ i \in Nat
    BY <2>1, BooksTypes
  <2> QED BY <2>2, EntryTypes, ReturnsAssumption
<1>3. /\ totals.net \in Int /\ totals.vat \in Int /\ totals.gross = totals.net + totals.vat
      /\ Amounts(totals.net, totals.vat) = Less(LinesTotal(lines), LinesTotal(invoices[i].lines))
  BY <1>1, <1>2, ReportedIs
<1>4. PICK e : e = Invoice("KOR", lines, totals, i, None, NoMargin)
  OBVIOUS
<1>5. /\ e.xml = "KOR" /\ e.lines = lines /\ e.corrects = i
      /\ e.net = totals.net /\ e.vat = totals.vat /\ e.gross = totals.gross
  BY <1>4 DEF Invoice
<1>6. e \in BookEntry
  BY <1>2, <1>3, <1>4, NoMarginIs DEF Invoice, BookEntry, PatchValues
<1>7. Append1(e)
  BY <1>1, <1>4 DEF Correct
<1>8. "KOR" # None /\ i # None
  BY <1>2, RatesAssumption, ReturnsAssumption
<1> QED BY <1>3, <1>5, <1>6, <1>7, <1>8, Appended

LEMMA CopyInv ==
  ASSUME ReturnsInv, NEW c \in Copies, Copy(c)
  PROVE  ReturnsInv' /\ BookingsKept(invoices, invoices')
<1>1. PICK totals : totals = [net |-> c.net, vat |-> c.vat, gross |-> c.net + c.vat]
  OBVIOUS
<1>2. c.net \in Int /\ c.vat \in Int /\ c.direction \in {"sales", "purchase"} /\ <<>> \in Seq(Line)
  BY ReturnsAssumption, NoLines
<1>3. PICK plain : plain = Invoice(None, <<>>, totals, None, None, NoMargin)
  OBVIOUS
<1>4. plain \in BookEntry /\ plain.xml = None /\ plain.corrects = None /\ plain.lines = <<>>
  <2>1. plain \in BookEntry
    BY <1>1, <1>2, <1>3, NoMarginIs DEF Invoice, BookEntry, PatchValues
  <2> QED BY <1>3, <2>1 DEF Invoice
<1>5. PICK e : e = [plain EXCEPT !.direction = c.direction, !.numbered = TRUE, !.marker = "NrKSeF"]
  OBVIOUS
<1>6. e \in BookEntry /\ e.xml = None /\ e.corrects = None /\ e.lines = <<>>
  BY <1>2, <1>4, <1>5 DEF BookEntry
<1>7. Append1(e)
  BY <1>1, <1>3, <1>5 DEF Copy
<1>8. None \notin {"VAT", "VAT-margin", "KOR"}
  BY ReturnsAssumption
<1> QED BY <1>6, <1>7, <1>8, Appended

\* One column of one row.
LEMMA Updated ==
  ASSUME ReturnsInv, NEW i \in Ids, NEW e \in BookEntry, SameBooking(invoices[i], e),
         invoices' = [invoices EXCEPT ![i] = e], UNCHANGED <<generations, preparation, ledger>>,
         edits' = edits \/ edits' \subseteq [of : Ids, body : Patches, step : {"marks", "margin"}]
  PROVE  ReturnsInv' /\ BookingsKept(invoices, invoices')
<1>1. PICK new : new = invoices'
  OBVIOUS
<1>2. Books(invoices) /\ BookedRight(invoices) /\ EditsOK /\ i \in DOMAIN invoices
  BY DEF ReturnsInv, Ids
<1>3. Books(new) /\ BookedRight(new) /\ BookingsKept(invoices, new) /\ DOMAIN new = DOMAIN invoices
  BY <1>1, <1>2, EntryUpdated
<1>4. EditsOK'
  BY <1>1, <1>2, <1>3 DEF EditsOK, Ids
<1> QED BY <1>1, <1>3, <1>4, BooksChange

LEMMA KsefAnswersInv ==
  ASSUME ReturnsInv, NEW i \in Ids, KsefAnswers(i)
  PROVE  ReturnsInv' /\ BookingsKept(invoices, invoices')
<1>1. PICK inv : inv = invoices[i]
  OBVIOUS
<1>2. inv \in BookEntry /\ UNCHANGED <<generations, preparation, edits, ledger>>
  BY <1>1, BooksTypes DEF ReturnsInv, Ids, KsefAnswers
<1>3. CASE invoices' = [invoices EXCEPT ![i].numbered = TRUE, ![i].status = "sent"]
  <2>1. PICK e : e = [inv EXCEPT !.numbered = TRUE, !.status = "sent"]
    OBVIOUS
  <2>2. e \in BookEntry /\ SameBooking(inv, e)
    BY <1>2, <2>1 DEF BookEntry, SameBooking
  <2>3. invoices' = [invoices EXCEPT ![i] = e]
    BY <1>1, <1>3, <2>1
  <2> QED BY <1>1, <1>2, <2>2, <2>3, Updated
<1>4. CASE invoices' = [invoices EXCEPT ![i].status = "rejected"]
  <2>1. PICK e : e = [inv EXCEPT !.status = "rejected"]
    OBVIOUS
  <2>2. e \in BookEntry /\ SameBooking(inv, e)
    BY <1>2, <2>1 DEF BookEntry, SameBooking
  <2>3. invoices' = [invoices EXCEPT ![i] = e]
    BY <1>1, <1>4, <2>1
  <2> QED BY <1>1, <1>2, <2>2, <2>3, Updated
<1> QED BY <1>3, <1>4 DEF KsefAnswers

LEMMA ClassifyInv ==
  ASSUME ReturnsInv, NEW i \in Ids, NEW answer \in Answers, Classify(i, answer)
  PROVE  ReturnsInv' /\ BookingsKept(invoices, invoices')
<1>1. PICK inv : inv = invoices[i]
  OBVIOUS
<1>2. inv \in BookEntry /\ UNCHANGED <<generations, preparation, edits, ledger>>
  BY <1>1, BooksTypes DEF ReturnsInv, Ids, Classify
<1>3. PICK e : e = [inv EXCEPT !.category = IF answer = None THEN @ ELSE answer]
  OBVIOUS
<1>4. e \in BookEntry /\ SameBooking(inv, e)
  BY <1>2, <1>3 DEF BookEntry, SameBooking, Answers
<1>5. invoices' = [invoices EXCEPT ![i] = e]
  BY <1>1, <1>3 DEF Classify
<1> QED BY <1>1, <1>2, <1>4, <1>5, Updated

\* What a body gives is a value that the columns may have.
LEMMA GivenIs ==
  ASSUME NEW body \in Patches, NEW key, NEW old
  PROVE  Given(body, key, old) = old \/ Given(body, key, old) = Given(body, key, None)
BY DEF Given

LEMMA BeginPatchInv ==
  ASSUME ReturnsInv, NEW i \in Ids, NEW body \in Patches, BeginPatch(i, body)
  PROVE  ReturnsInv' /\ BookingsKept(invoices, invoices')
<1>1. UNCHANGED <<invoices, generations, preparation, ledger>>
  BY DEF BeginPatch
<1>2. EditsOK'
  <2>1. edits' = edits \cup {[of |-> i, body |-> body, step |-> "marks"]} /\ Ids' = Ids
    BY <1>1 DEF BeginPatch, Ids
  <2> QED BY <2>1 DEF ReturnsInv, EditsOK
<1>3. Books(invoices') /\ BookedRight(invoices') /\ BookingsKept(invoices, invoices')
  BY <1>1 DEF ReturnsInv, BookingsKept, SameBooking
<1> QED BY <1>1, <1>2, <1>3, BooksChange

LEMMA PatchMarksInv ==
  ASSUME ReturnsInv, NEW edit \in edits, PatchMarks(edit)
  PROVE  ReturnsInv' /\ BookingsKept(invoices, invoices')
<1>1. PICK next : next = [edit EXCEPT !.step = "margin"]
  OBVIOUS
<1>2. edit.of \in Ids /\ edit.body \in Patches /\ next \in [of : Ids, body : Patches, step : {"marks", "margin"}]
  BY <1>1 DEF ReturnsInv, EditsOK
<1>3. /\ edits' = (edits \ {edit}) \cup {next} /\ UNCHANGED <<generations, preparation, ledger>>
      /\ IF DOMAIN edit.body \cap MarkKeys = {} THEN UNCHANGED invoices
         ELSE invoices' = [invoices EXCEPT ![edit.of].procedure = Given(edit.body, "procedure", None),
                                           ![edit.of].docType = Given(edit.body, "docType", None)]
  BY <1>1 DEF PatchMarks
<1>4. edits' \subseteq [of : Ids, body : Patches, step : {"marks", "margin"}]
  BY <1>2, <1>3 DEF ReturnsInv, EditsOK
<1>5. CASE UNCHANGED invoices
  <2>1. EditsOK'
    BY <1>4, <1>5 DEF EditsOK, Ids
  <2>2. Books(invoices') /\ BookedRight(invoices') /\ BookingsKept(invoices, invoices')
    BY <1>5 DEF ReturnsInv, BookingsKept, SameBooking
  <2> QED BY <1>3, <2>1, <2>2, BooksChange
<1>6. CASE invoices' = [invoices EXCEPT ![edit.of].procedure = Given(edit.body, "procedure", None),
                                        ![edit.of].docType = Given(edit.body, "docType", None)]
  <2>1. PICK i : i = edit.of
    OBVIOUS
  <2>2. PICK inv : inv = invoices[i]
    OBVIOUS
  <2>3. PICK p : p = Given(edit.body, "procedure", None)
    OBVIOUS
  <2>4. PICK d : d = Given(edit.body, "docType", None)
    OBVIOUS
  <2>5. inv \in BookEntry /\ i \in Ids
    BY <1>2, <2>1, <2>2, BooksTypes DEF ReturnsInv, Ids
  <2>6. PICK e : e = [inv EXCEPT !.procedure = p, !.docType = d]
    OBVIOUS
  <2>7. e \in BookEntry /\ SameBooking(inv, e)
    <3>1. p \in PatchValues("procedure") /\ d \in PatchValues("docType")
      BY <1>2, <2>3, <2>4 DEF PatchValues
    <3> QED BY <2>5, <2>6, <3>1 DEF BookEntry, SameBooking
  <2>8. invoices' = [invoices EXCEPT ![i] = e]
    BY <1>6, <2>1, <2>2, <2>3, <2>4, <2>6
  <2> QED BY <1>3, <1>4, <2>2, <2>5, <2>7, <2>8, Updated
<1> QED BY <1>3, <1>5, <1>6

LEMMA PatchMarginInv ==
  ASSUME ReturnsInv, NEW edit \in edits, PatchMargin(edit)
  PROVE  ReturnsInv' /\ BookingsKept(invoices, invoices')
<1>1. PICK i : i = edit.of
  OBVIOUS
<1>2. PICK body : body = edit.body
  OBVIOUS
<1>3. PICK inv : inv = invoices[i]
  OBVIOUS
<1>4. i \in Ids /\ body \in Patches /\ inv \in BookEntry
  <2>1. i \in Ids /\ body \in Patches
    BY <1>1, <1>2 DEF ReturnsInv, EditsOK
  <2> QED BY <1>3, <2>1, BooksTypes DEF ReturnsInv, Ids
<1>5. PICK old : old = inv.margin
  OBVIOUS
<1>6. PICK margin : margin = [gross  |-> Given(body, "gross", old.gross), taxable |-> Given(body, "taxable", old.taxable),
                              rate   |-> Given(body, "rate", old.rate),   method  |-> Given(body, "method", old.method)]
  OBVIOUS
<1>7. old \in MarginColumns
  BY <1>4, <1>5 DEF BookEntry
<1>8. margin \in MarginColumns
  <2>1. \A key \in {"gross", "taxable"} : Given(body, key, None) \in Int \cup {None}
    BY <1>4, ReturnsAssumption
  <2>2. Given(body, "gross", old.gross) \in Int \cup {None} /\ Given(body, "taxable", old.taxable) \in Int \cup {None}
    BY <1>4, <1>7, <2>1, GivenIs DEF MarginColumns
  <2>3. Given(body, "rate", old.rate) \in Rates \cup PatchValues("rate")
    BY <1>4, <1>7, GivenIs DEF MarginColumns, PatchValues
  <2>4. Given(body, "method", old.method) \in {"individual", "sum"} \cup PatchValues("method")
    BY <1>4, <1>7, GivenIs DEF MarginColumns, PatchValues
  <2> QED BY <1>6, <2>2, <2>3, <2>4 DEF MarginColumns
<1>9. PICK e : e = [inv EXCEPT !.margin = margin]
  OBVIOUS
<1>10. e \in BookEntry /\ SameBooking(inv, e)
  BY <1>4, <1>8, <1>9 DEF BookEntry, SameBooking
<1>11. /\ invoices' = [invoices EXCEPT ![i] = e]
       /\ edits' = edits \ {edit} /\ UNCHANGED <<generations, preparation, ledger>>
  BY <1>1, <1>2, <1>3, <1>5, <1>6, <1>9 DEF PatchMargin
<1>12. edits' \subseteq [of : Ids, body : Patches, step : {"marks", "margin"}]
  BY <1>11 DEF ReturnsInv, EditsOK
<1> QED BY <1>3, <1>4, <1>10, <1>11, <1>12, Updated

\* The steps that leave the books alone.
LEMMA BooksAlone ==
  ASSUME ReturnsInv, UNCHANGED invoices
  PROVE  /\ (Books(invoices) /\ BookedRight(invoices))' /\ BookingsKept(invoices, invoices')
         /\ UNCHANGED edits => EditsOK'
         /\ UNCHANGED ledger => LedgerOK'
         /\ \A file \in Files : RowsSay(invoices', file) /\ AddsUp(file)
<1>1. (Books(invoices) /\ BookedRight(invoices))' /\ BookingsKept(invoices, invoices')
  BY DEF ReturnsInv, BookingsKept, SameBooking
<1>2. UNCHANGED edits => EditsOK'
  BY DEF ReturnsInv, EditsOK, Ids
<1>3. UNCHANGED ledger => LedgerOK'
  BY <1>1, LedgerKept DEF ReturnsInv
<1>4. \A file \in Files : RowsSay(invoices', file) /\ AddsUp(file)
  BY DEF ReturnsInv, FilesOK
<1> QED BY <1>1, <1>2, <1>3, <1>4

LEMMA ClientInv ==
  ASSUME ReturnsInv, PatchClient \/ EraseContact
  PROVE  ReturnsInv' /\ BookingsKept(invoices, invoices')
<1>1. UNCHANGED <<invoices, generations, preparation, edits, ledger>>
  BY DEF PatchClient, EraseContact
<1>2. (Books(invoices) /\ BookedRight(invoices))' /\ BookingsKept(invoices, invoices') /\ EditsOK'
  BY <1>1, BooksAlone
<1> QED BY <1>1, <1>2, BooksChange

LEMMA GeneratedInv ==
  ASSUME ReturnsInv, NEW by, Generated(by)
  PROVE  ReturnsInv' /\ BookingsKept(invoices, invoices')
<1>1. PICK file : file = JpkV7M(invoices)
  OBVIOUS
<1>2. PICK new : new = [by |-> by, step |-> "store", ids |-> Ids, file |-> file]
  OBVIOUS
<1>3. /\ CanGenerate(invoices) /\ generations' = generations \cup {new}
      /\ UNCHANGED <<invoices, preparation, edits, ledger>>
  BY <1>1, <1>2 DEF Generated
<1>4. (Books(invoices) /\ BookedRight(invoices))' /\ BookingsKept(invoices, invoices') /\ EditsOK' /\ LedgerOK'
  BY <1>3, BooksAlone
<1>5. RowsSay(invoices', file) /\ AddsUp(file)
  BY <1>1, <1>3, GeneratedAddsUp, GeneratedMatches DEF ReturnsInv
<1>6. GenerationsOK'
  BY <1>2, <1>3 DEF ReturnsInv, GenerationsOK
<1>7. FilesOK'
  <2>1. Files' \subseteq Files \cup {file}
    BY <1>2, <1>3 DEF Files
  <2>2. \A f \in Files' : RowsSay(invoices', f) /\ AddsUp(f)
    BY <1>3, <1>5, <2>1, BooksAlone
  <2> QED BY <2>2 DEF FilesOK
<1> QED BY <1>4, <1>6, <1>7 DEF ReturnsInv

\* A file moves from one place to another, or is gone.
LEMMA FilesMoved ==
  ASSUME ReturnsInv, UNCHANGED <<invoices, edits, ledger>>, Files' \subseteq Files, GenerationsOK'
  PROVE  ReturnsInv' /\ BookingsKept(invoices, invoices')
<1>1. (Books(invoices) /\ BookedRight(invoices))' /\ BookingsKept(invoices, invoices') /\ EditsOK' /\ LedgerOK'
  BY BooksAlone
<1>2. \A f \in Files' : RowsSay(invoices', f) /\ AddsUp(f)
  BY BooksAlone
<1>3. FilesOK'
  BY <1>2 DEF FilesOK
<1> QED BY <1>1, <1>3 DEF ReturnsInv

LEMMA StoreByRouteInv ==
  ASSUME ReturnsInv, NEW g \in generations, StoreByRoute(g)
  PROVE  ReturnsInv' /\ BookingsKept(invoices, invoices')
<1>1. PICK next : next = [g EXCEPT !.step = "mark"]
  OBVIOUS
<1>2. /\ generations' = (generations \ {g}) \cup {next} /\ UNCHANGED <<invoices, edits, ledger>>
      /\ preparation' \in {g.file, preparation}
  BY <1>1 DEF StoreByRoute, Saved
<1>3. next.file = g.file /\ next = [by |-> next.by, step |-> next.step, ids |-> next.ids, file |-> next.file]
  <2>1. g = [by |-> g.by, step |-> g.step, ids |-> g.ids, file |-> g.file]
    BY DEF ReturnsInv, GenerationsOK
  <2>2. next = [by |-> g.by, step |-> "mark", ids |-> g.ids, file |-> g.file]
    BY <1>1, <2>1
  <2> QED BY <2>2
<1>4. GenerationsOK'
  BY <1>2, <1>3 DEF ReturnsInv, GenerationsOK
<1>5. Files' \subseteq Files
  BY <1>2, <1>3 DEF Files
<1> QED BY <1>2, <1>4, <1>5, FilesMoved

LEMMA StoreByJobInv ==
  ASSUME ReturnsInv, NEW g \in generations, StoreByJob(g)
  PROVE  ReturnsInv' /\ BookingsKept(invoices, invoices')
<1>1. /\ generations' = generations \ {g} /\ UNCHANGED <<invoices, edits, ledger>>
      /\ preparation' \in {g.file, preparation}
  BY DEF StoreByJob, Saved
<1>2. GenerationsOK' /\ Files' \subseteq Files
  BY <1>1 DEF ReturnsInv, GenerationsOK, Files
<1> QED BY <1>1, <1>2, FilesMoved

LEMMA CrashInv ==
  ASSUME ReturnsInv, NEW g \in generations, Crash(g)
  PROVE  ReturnsInv' /\ BookingsKept(invoices, invoices')
<1>1. generations' = generations \ {g} /\ UNCHANGED <<invoices, preparation, edits, ledger>>
  BY DEF Crash
<1>2. GenerationsOK' /\ Files' \subseteq Files
  BY <1>1 DEF ReturnsInv, GenerationsOK, Files
<1> QED BY <1>1, <1>2, FilesMoved

LEMMA MarkInv ==
  ASSUME ReturnsInv, NEW g \in generations, Mark(g)
  PROVE  ReturnsInv' /\ BookingsKept(invoices, invoices')
<1>1. PICK new : new = invoices'
  OBVIOUS
<1>2. /\ new = [i \in Ids |-> IF i \in g.ids /\ invoices[i].status # "rejected"
                              THEN [invoices[i] EXCEPT !.status = "exported_jpk"] ELSE invoices[i]]
      /\ generations' = generations \ {g} /\ UNCHANGED <<preparation, edits, ledger>>
  BY <1>1 DEF Mark
<1>3. ASSUME NEW i \in Ids
      PROVE  new[i] \in BookEntry /\ SameBooking(invoices[i], new[i])
  <2>1. PICK inv : inv = invoices[i]
    OBVIOUS
  <2>2. inv \in BookEntry
    BY <2>1, BooksTypes DEF ReturnsInv, Ids
  <2>3. PICK e : e = [inv EXCEPT !.status = "exported_jpk"]
    OBVIOUS
  <2>4. e \in BookEntry /\ SameBooking(inv, e) /\ SameBooking(inv, inv)
    BY <2>2, <2>3 DEF BookEntry, SameBooking
  <2>5. new[i] \in {e, inv}
    BY <1>2, <2>1, <2>3
  <2> QED BY <2>1, <2>2, <2>4, <2>5
<1>4. DOMAIN new = Ids /\ DOMAIN new = DOMAIN invoices
  BY <1>2 DEF Ids
<1>5. new \in Seq(BookEntry) /\ BookingsKept(invoices, new)
  <2>1. DOMAIN invoices = 1..Len(invoices) /\ Len(invoices) \in Nat
    BY DEF ReturnsInv, Books
  <2>2. new \in [1..Len(invoices) -> BookEntry]
    BY <1>2, <1>3, <1>4, <2>1
  <2>3. new \in Seq(BookEntry)
    BY <2>1, <2>2
  <2> QED BY <1>3, <1>4, <2>3 DEF BookingsKept, Ids
<1>6. Books(new) /\ BookedRight(new)
  BY <1>4, <1>5, BooksUpdated DEF ReturnsInv
<1>7. GenerationsOK' /\ Files' \subseteq Files
  BY <1>2 DEF ReturnsInv, GenerationsOK, Files
<1>8. EditsOK'
  BY <1>1, <1>2, <1>5, EditsKept DEF ReturnsInv
<1>9. FilesOK'
  <2>1. ASSUME NEW f \in Files'
        PROVE  RowsSay(new, f) /\ AddsUp(f)
    <3>1. RowsSay(invoices, f) /\ AddsUp(f)
      BY <1>7 DEF ReturnsInv, FilesOK
    <3> QED BY <1>5, <3>1, RowsStillSay
  <2> QED BY <1>1, <2>1 DEF FilesOK
<1>10. LedgerOK'
  BY <1>1, <1>2, <1>5, LedgerKept DEF ReturnsInv
<1>11. (Books(invoices) /\ BookedRight(invoices))'
  BY <1>1, <1>6
<1> QED BY <1>1, <1>5, <1>7, <1>8, <1>9, <1>10, <1>11 DEF ReturnsInv

LEMMA OptimaRatesAre == None \notin VatRateCode /\ OptimaRates \subseteq VatRateCode
BY RatesAssumption DEF OptimaRates, VatRateCode

LEMMA ExportInv ==
  ASSUME ReturnsInv, NEW system \in {"optima", "symfonia", "insert", "csv"}, NEW ids \in SUBSET Ids, Export(system, ids)
  PROVE  ReturnsInv' /\ BookingsKept(invoices, invoices')
<1>1. UNCHANGED <<invoices, generations, preparation, edits>>
  BY DEF Export
<1>2. (Books(invoices) /\ BookedRight(invoices))' /\ BookingsKept(invoices, invoices') /\ EditsOK'
  BY <1>1, BooksAlone
<1>3. GenerationsOK' /\ Files' \subseteq Files
  BY <1>1 DEF ReturnsInv, GenerationsOK, Files
<1>4. FilesOK'
  BY <1>1, <1>3, BooksAlone DEF FilesOK
<1>5. ASSUME NEW i \in ids
      PROVE  i \in DOMAIN ledger' /\ i \in Ids /\ EntryMatches(i)'
  <2>1. PICK inv : inv = invoices[i]
    OBVIOUS
  <2>2. PICK entry : entry = ledger'[i]
    OBVIOUS
  <2>3. i \in DOMAIN ledger' /\ i \in Ids
    BY DEF Export
  <2>4. PICK booked : booked = Amounts(inv.net, inv.vat)
    OBVIOUS
  <2>5. CASE system # "optima"
    <3>1. entry = [r \in {None} |-> booked]
      BY <2>1, <2>2, <2>4, <2>5 DEF Export, SymfoniaEntry, InsertEntry, CsvEntry
    <3>2. \E rate \in OptimaRates \cup {None} : entry = [r \in {rate} |-> booked]
      BY <3>1
    <3> QED BY <1>1, <2>1, <2>2, <2>3, <2>4, <3>2 DEF EntryMatches, BookedOf
  <2>6. CASE system = "optima" /\ inv.lines = <<>>
    <3>1. CanExport(inv) /\ entry = OptimaEntry(inv)
      BY <2>1, <2>2, <2>6 DEF Export
    <3>2. \E rate \in OptimaRates : rate \in RatesFitting(inv)
      BY <2>6, <3>1 DEF CanExport, RatesFitting, OptimaRates
    <3>3. PICK rate : rate = CHOOSE r \in OptimaRates : r \in RatesFitting(inv)
      OBVIOUS
    <3>4. rate \in OptimaRates
      BY <3>2, <3>3
    <3>5. entry = [r \in {rate} |-> booked]
      BY <2>4, <2>6, <3>1, <3>3 DEF OptimaEntry
    <3>6. \E q \in OptimaRates \cup {None} : entry = [r \in {q} |-> booked]
      BY <3>4, <3>5
    <3> QED BY <1>1, <2>1, <2>2, <2>3, <2>4, <3>6 DEF EntryMatches, BookedOf
  <2>7. CASE system = "optima" /\ inv.lines # <<>>
    <3>1. CanExport(inv) /\ entry = OptimaEntry(inv)
      BY <2>1, <2>2, <2>7 DEF Export
    <3>2. DOMAIN entry = RatesOf(inv.lines) /\ RatesOf(inv.lines) \subseteq VatRateCode
      BY <2>7, <3>1, OptimaRatesAre DEF OptimaEntry, CanExport, VatRateCode
    <3>3. DOMAIN entry # {None}
      BY <3>2, OptimaRatesAre
    <3> QED BY <1>1, <2>1, <2>2, <2>3, <2>7, <3>3 DEF EntryMatches
  <2> QED BY <2>5, <2>6, <2>7
<1>6. LedgerOK'
  BY <1>1, <1>5 DEF LedgerOK, Export, Ids
<1> QED BY <1>2, <1>3, <1>4, <1>6 DEF ReturnsInv

LEMMA ReturnsStep ==
  ASSUME ReturnsInv, [ReturnsNext]_returnsVars
  PROVE  ReturnsInv' /\ BookingsKept(invoices, invoices')
<1>1. CASE \E lines \in LineLists : Issue(lines)
  BY <1>1, IssueInv
<1>2. CASE \E lines \in LineLists, procedure \in Procedures, margin \in Margins :
              IssueMargin(lines, procedure, margin)
  BY <1>2, IssueMarginInv
<1>3. CASE \E i \in Ids, lines \in LineLists : Correct(i, lines)
  BY <1>3, CorrectInv
<1>4. CASE \E c \in Copies : Copy(c)
  BY <1>4, CopyInv
<1>5. CASE \E i \in Ids : KsefAnswers(i)
  BY <1>5, KsefAnswersInv
<1>6. CASE \E i \in Ids, answer \in Answers : Classify(i, answer)
  BY <1>6, ClassifyInv
<1>7. CASE \E i \in Ids, body \in Patches : BeginPatch(i, body)
  BY <1>7, BeginPatchInv
<1>8. CASE \E edit \in edits : PatchMarks(edit) \/ PatchMargin(edit)
  BY <1>8, PatchMarksInv, PatchMarginInv
<1>9. CASE Generate \/ Prepare
  BY <1>9, GeneratedInv DEF Generate, Prepare
<1>10. CASE \E g \in generations : StoreByRoute(g) \/ StoreByJob(g) \/ Mark(g) \/ Crash(g)
  BY <1>10, StoreByRouteInv, StoreByJobInv, MarkInv, CrashInv
<1>11. CASE PatchClient \/ EraseContact
  BY <1>11, ClientInv
<1>12. CASE \E ids \in SUBSET Ids : ExportOptima(ids) \/ \E system \in Systems : Export(system, ids)
  <2>1. PICK ids \in SUBSET Ids : ExportOptima(ids) \/ \E system \in Systems : Export(system, ids)
    BY <1>12
  <2>2. CASE ExportOptima(ids)
    BY <2>2, ExportInv DEF ExportOptima
  <2>3. CASE \E system \in Systems : Export(system, ids)
    <3>1. PICK system \in Systems : Export(system, ids)
      BY <2>3
    <3>2. system \in {"optima", "symfonia", "insert", "csv"}
      BY <3>1, ReturnsAssumption
    <3> QED BY <3>1, <3>2, ExportInv
  <2> QED BY <2>1, <2>2, <2>3
<1>13. CASE UNCHANGED returnsVars
  <2>1. UNCHANGED <<invoices, generations, preparation, edits, ledger>>
    BY <1>13 DEF returnsVars
  <2>2. (Books(invoices) /\ BookedRight(invoices))' /\ BookingsKept(invoices, invoices') /\ EditsOK'
    BY <2>1, BooksAlone
  <2> QED BY <2>1, <2>2, BooksChange
<1> QED BY <1>1, <1>2, <1>3, <1>4, <1>5, <1>6, <1>7, <1>8, <1>9, <1>10, <1>11, <1>12, <1>13 DEF ReturnsNext

\* Whatever is issued, corrected, copied, marked, generated, stored, exported or
\* interrupted: the books stay as they were booked, and every file and ledger
\* entry agrees with them.
THEOREM ReturnsInvariant == ReturnsSpec => []ReturnsInv
<1>1. ReturnsInv /\ [ReturnsNext]_returnsVars => ReturnsInv'
  BY ReturnsStep
<1> QED BY <1>1, ReturnsInitInv, PTL DEF ReturnsSpec

\* Every row of a generated file, stored or on its way, and every entry of a
\* ledger file carries the net and tax its invoice was booked with, though the
\* generator computes it from two documents' lines, rate by rate
\* (jpk-generator.ts:200-224), and the invoice may be marked meanwhile.
THEOREM RowsSayWhatWasBooked == ReturnsSpec => []RowsMatchBooks
<1>1. ReturnsInv => RowsMatchBooks
  <2> SUFFICES ASSUME ReturnsInv PROVE RowsMatchBooks
    OBVIOUS
  <2>1. ASSUME NEW file \in Files
        PROVE  FileMatches(file)
    <3>1. RowsSay(invoices, file)
      BY DEF ReturnsInv, FilesOK
    <3> QED BY <3>1 DEF RowsSay, FileMatches, BookedOf
  <2>2. ledger # None => \A i \in DOMAIN ledger : EntryMatches(i)
    BY DEF ReturnsInv, LedgerOK
  <2> QED BY <2>1, <2>2 DEF RowsMatchBooks
<1> QED BY <1>1, ReturnsInvariant, PTL

\* The control sums and the declared amounts of a file are those of its rows,
\* though the generator takes them from totals it keeps apart from the rows
\* (jpk-generator.ts:284-307, 338-350).
THEOREM FilesAddUp == ReturnsSpec => []FileAddsUp
<1>1. ReturnsInv => FileAddsUp
  BY DEF ReturnsInv, FilesOK, FileAddsUp
<1> QED BY <1>1, ReturnsInvariant, PTL

\* No step removes an invoice or changes its lines, its amounts or what it
\* corrects: patches (jpk-markers/route.ts), exports and answers of KSeF touch
\* other columns.
THEOREM BookingsNeverChange == ReturnsSpec => [][BookingsKept(invoices, invoices')]_returnsVars
<1>1. ReturnsInv /\ [ReturnsNext]_returnsVars => [BookingsKept(invoices, invoices')]_returnsVars
  BY ReturnsStep
<1> QED BY <1>1, ReturnsInvariant, PTL DEF ReturnsSpec

-----------------------------------------------------------------------------
(* The history of a correction                                             *)

Closed(X) == \A k \in X : invoices[k].corrects # None => invoices[k].corrects \in X
Reached(i) == {j \in Ids : \A X \in SUBSET Ids : i \in X /\ Closed(X) => j \in X}
Before(i) == IF invoices[i].corrects = None THEN {} ELSE Reached(invoices[i].corrects)

LEMMA ReachedIs ==
  ASSUME Books(invoices), NEW i \in Ids
  PROVE  Reached(i) = {i} \cup Before(i)
<1>1. \A k \in Ids : invoices[k].corrects # None => invoices[k].corrects \in Ids
  BY DEF Books, Ids
<1>2. \A k \in Ids : k \in Reached(k)
  BY DEF Reached
<1>3. CASE invoices[i].corrects = None
  <2>1. {i} \in SUBSET Ids /\ Closed({i})
    BY <1>3 DEF Closed
  <2> QED BY <1>2, <1>3, <2>1 DEF Reached, Before
<1>4. CASE invoices[i].corrects # None
  <2>1. PICK c \in Ids : c = invoices[i].corrects
    BY <1>1, <1>4
  <2>2. Reached(c) \subseteq Reached(i)
    BY <1>4, <2>1 DEF Reached, Closed
  <2>3. PICK X : X = {i} \cup Reached(c)
    OBVIOUS
  <2>4. X \in SUBSET Ids /\ i \in X
    BY <2>3 DEF Reached
  <2>5. ASSUME NEW k \in X, invoices[k].corrects # None
        PROVE  invoices[k].corrects \in X
    <3>1. CASE k = i
      BY <1>2, <2>1, <2>3, <3>1
    <3>2. CASE k \in Reached(c)
      <4>1. k \in Ids /\ invoices[k].corrects \in Ids
        BY <1>1, <2>4, <2>5
      <4>2. ASSUME NEW Y \in SUBSET Ids, c \in Y, Closed(Y)
            PROVE  invoices[k].corrects \in Y
        BY <2>5, <3>2, <4>2 DEF Reached, Closed
      <4> QED BY <2>3, <4>1, <4>2 DEF Reached
    <3> QED BY <2>3, <3>1, <3>2
  <2>6. Reached(i) \subseteq X
    BY <2>4, <2>5 DEF Reached, Closed
  <2> QED BY <1>2, <1>4, <2>1, <2>2, <2>3, <2>6 DEF Before
<1> QED BY <1>3, <1>4

\* The recursive definition of History has a solution, Reached.
LEMMA HistoryIs ==
  ASSUME Books(invoices)
  PROVE  \A i \in Ids : History[i] = {i} \cup (IF invoices[i].corrects = None THEN {}
                                               ELSE History[invoices[i].corrects])
<1> DEFINE Solves(h) == h = [i \in Ids |-> {i} \cup (IF invoices[i].corrects = None THEN {}
                                                     ELSE h[invoices[i].corrects])]
           r == [i \in Ids |-> Reached(i)]
<1>1. ASSUME NEW i \in Ids
      PROVE  Reached(i) = {i} \cup (IF invoices[i].corrects = None THEN {} ELSE r[invoices[i].corrects])
  <2>1. Reached(i) = {i} \cup Before(i)
    BY ReachedIs
  <2>2. invoices[i].corrects # None => invoices[i].corrects \in Ids
    BY DEF Books, Ids
  <2>3. invoices[i].corrects # None => r[invoices[i].corrects] = Reached(invoices[i].corrects)
    BY <2>2
  <2> QED BY <2>1, <2>3 DEF Before
<1>2. Solves(r)
  BY <1>1
<1>3. History = CHOOSE h : Solves(h)
  BY DEF History
<1> HIDE DEF r
<1>4. Solves(History)
  BY <1>2, <1>3
<1> QED BY <1>4

LEMMA LeastNumber ==
  ASSUME NEW S, S \subseteq Nat, S # {}
  PROVE  \E i \in S : \A j \in S : ~(j < i)
<1>1. PICK i \in S : \A j \in S : <<j, i>> \notin OpToRel(<, Nat)
  BY NatLessThanWellFounded, WFMin
<1> QED BY <1>1 DEF OpToRel

LEMMA HistoryBelow ==
  ASSUME Books(invoices), BookedRight(invoices)
  PROVE  \A i \in Ids : History[i] \in SUBSET (1..i)
<1> DEFINE Bad == {i \in Ids : History[i] \notin SUBSET (1..i)}
<1>1. SUFFICES ASSUME Bad # {} PROVE FALSE
  OBVIOUS
<1>2. Ids \subseteq Nat /\ \A i \in Ids : i \in 1..i
  BY DEF Ids, Books
<1>3. PICK i \in Bad : \A j \in Bad : ~(j < i)
  BY <1>1, <1>2, LeastNumber
<1>4. History[i] = {i} \cup (IF invoices[i].corrects = None THEN {} ELSE History[invoices[i].corrects])
  BY <1>3, HistoryIs
<1>5. CASE invoices[i].corrects = None
  BY <1>2, <1>3, <1>4, <1>5
<1>6. CASE invoices[i].corrects # None
  <2>1. PICK c : c = invoices[i].corrects
    OBVIOUS
  <2>2. c \in Ids /\ c \in 1..(i - 1)
    BY <1>3, <1>6, <2>1 DEF Books, BookedRight, Ids
  <2>3. History[c] \in SUBSET (1..c)
    BY <1>2, <1>3, <2>2
  <2> QED BY <1>2, <1>3, <1>4, <1>6, <2>1, <2>2, <2>3
<1> QED BY <1>5, <1>6

LEMMA SumOnNext ==
  ASSUME NEW S, IsFiniteSet(S), NEW f \in [S -> Int], NEW T \in SUBSET S, NEW x \in S \ T, NEW U, U = T \cup {x}
  PROVE  SumOn(f, U) = SumOn(f, T) + f[x]
<1>1. SumOn(f, T \cup {x}) = SumOn(f, T) + f[x]
  BY SumOnAdd
<1> QED BY <1>1

\* Amounts that are the difference between two values telescope.
LEMMA HistorySum ==
  ASSUME Books(invoices), BookedRight(invoices), NEW f \in [Ids -> Int], NEW v \in [Ids -> Int],
         \A i \in Ids : invoices[i].xml \in {"VAT", "KOR"} =>
            f[i] = v[i] - (IF invoices[i].corrects = None THEN 0 ELSE v[invoices[i].corrects])
  PROVE  \A i \in Ids : (\E j \in History[i] : invoices[j].xml = "VAT") =>
            invoices[i].xml \in {"VAT", "KOR"} /\ SumOn(f, History[i]) = v[i]
<1> DEFINE Says(i) == (\E j \in History[i] : invoices[j].xml = "VAT") =>
                         invoices[i].xml \in {"VAT", "KOR"} /\ SumOn(f, History[i]) = v[i]
           Bad == {i \in Ids : ~Says(i)}
<1>1. SUFFICES ASSUME Bad # {} PROVE FALSE
  OBVIOUS
<1>2. Ids \subseteq Nat /\ IsFiniteSet(Ids)
  BY BooksTypes DEF Ids
<1>3. PICK i \in Bad : \A j \in Bad : ~(j < i)
  <2>1. Bad \subseteq Nat
    BY <1>2
  <2> HIDE DEF Bad
  <2> QED BY <1>1, <2>1, LeastNumber
<1>4. i \in Ids /\ ~Says(i)
  BY <1>3
<1>5. PICK j \in History[i] : invoices[j].xml = "VAT"
  BY <1>4
<1>6. History[i] = {i} \cup (IF invoices[i].corrects = None THEN {} ELSE History[invoices[i].corrects])
  BY <1>4, HistoryIs
<1>7. f[i] \in Int /\ v[i] \in Int
  BY <1>4
<1>8. CASE invoices[i].corrects = None
  <2>1. History[i] = {i} /\ invoices[i].xml = "VAT"
    BY <1>5, <1>6, <1>8
  <2>2. f[i] = v[i]
    BY <1>4, <1>7, <1>8, <2>1
  <2>3. i \in Ids \ {} /\ {} \in SUBSET Ids
    BY <1>4
  <2>4. {i} = {} \cup {i} /\ SumOn(f, {}) = 0
    BY SumOnEmpty
  <2>5. SumOn(f, {i}) = SumOn(f, {}) + f[i]
    <3>1. PICK S, T, U : S = Ids /\ T = {} /\ U = {i}
      OBVIOUS
    <3>2. IsFiniteSet(S) /\ f \in [S -> Int] /\ T \in SUBSET S /\ i \in S \ T /\ U = T \cup {i}
      BY <1>2, <2>3, <3>1
    <3>3. SumOn(f, U) = SumOn(f, T) + f[i]
      BY <3>2, SumOnNext
    <3> QED BY <3>1, <3>3
  <2>6. SumOn(f, {i}) = f[i]
    BY <1>7, <2>4, <2>5
  <2> QED BY <1>4, <2>1, <2>2, <2>6
<1>9. CASE invoices[i].corrects # None
  <2>1. PICK c : c = invoices[i].corrects
    OBVIOUS
  <2>2. c \in Ids /\ c \in 1..(i - 1) /\ invoices[i].xml = "KOR"
    BY <1>4, <1>9, <2>1 DEF Books, BookedRight, Ids
  <2>3. History[i] = {i} \cup History[c]
    BY <1>6, <1>9, <2>1
  <2>4. j \in History[c]
    BY <1>5, <2>2, <2>3
  <2>5. Says(c)
    <3>1. c < i
      BY <1>2, <1>4, <2>2
    <3>2. c \notin Bad
      BY <1>3, <3>1
    <3> QED BY <2>2, <3>2
  <2>6. SumOn(f, History[c]) = v[c]
    BY <1>5, <2>4, <2>5
  <2>7. f[i] = v[i] - v[c] /\ v[c] \in Int
    BY <1>4, <1>9, <2>1, <2>2
  <2>8. History[c] \in SUBSET (1..c) /\ History[i] \in SUBSET (1..i)
    BY <1>4, <2>2, HistoryBelow
  <2>9. History[c] \in SUBSET Ids /\ i \in Ids \ History[c]
    <3>1. Ids = 1..Len(invoices) /\ Len(invoices) \in Nat
      BY DEF Ids, Books
    <3>2. i \notin 1..c /\ 1..c \subseteq Ids
      BY <1>4, <2>2, <3>1
    <3> QED BY <1>4, <2>8, <3>2
  <2>10. History[i] = History[c] \cup {i}
    BY <2>3
  <2>11. SumOn(f, History[i]) = SumOn(f, History[c]) + f[i]
    <3>1. PICK S, T, U : S = Ids /\ T = History[c] /\ U = History[i]
      OBVIOUS
    <3>2. IsFiniteSet(S) /\ f \in [S -> Int] /\ T \in SUBSET S /\ i \in S \ T /\ U = T \cup {i}
      BY <1>2, <2>9, <2>10, <3>1
    <3>3. SumOn(f, U) = SumOn(f, T) + f[i]
      BY <3>2, SumOnNext
    <3> QED BY <3>1, <3>3
  <2>12. SumOn(f, History[i]) = v[i]
    <3>1. SumOn(f, History[i]) = v[c] + f[i]
      BY <2>6, <2>11
    <3> QED BY <1>7, <2>7, <3>1
  <2> QED BY <1>4, <2>2, <2>12
<1> QED BY <1>8, <1>9

LEMMA BookedAmount ==
  ASSUME Books(invoices), BookedRight(invoices), NEW i \in Ids, invoices[i].xml \in {"VAT", "KOR"}
  PROVE  LET t(k) == LinesTotal(invoices[k].lines)
             c == invoices[i].corrects
         IN /\ invoices[i].net = t(i).net - (IF c = None THEN 0 ELSE t(c).net)
            /\ invoices[i].vat = t(i).vat - (IF c = None THEN 0 ELSE t(c).vat)
            /\ invoices[i].gross = invoices[i].net + invoices[i].vat
<1>1. PICK a : a = LinesTotal(invoices[i].lines)
  OBVIOUS
<1>2. PICK b : b = LinesTotal(CorrectedLines(invoices, i))
  OBVIOUS
<1>3. PICK n \in Int, w \in Int : n = invoices[i].net /\ w = invoices[i].vat
  BY BooksTypes, EntryTypes DEF Ids
<1>4. Amounts(n, w) = Less(a, b) /\ invoices[i].gross = n + w
  BY <1>1, <1>2, <1>3 DEF BookedRight, Ids
<1>5. a \in Amount /\ b \in Amount
  BY <1>1, <1>2, BooksTypes, EntryTypes, LinesTypes DEF Ids
<1>6. n = a.net - b.net /\ w = a.vat - b.vat
  BY <1>4, <1>5, LessIs, AmountsIs
<1>7. CASE invoices[i].corrects = None
  <2>1. b = Zero
    BY <1>2, <1>7, NoLines DEF CorrectedLines
  <2>2. b.net = 0 /\ b.vat = 0
    BY <2>1, ZeroType
  <2>3. a.net \in Int /\ a.vat \in Int
    BY <1>5, AmountParts
  <2> QED BY <1>1, <1>3, <1>4, <1>6, <1>7, <2>2, <2>3
<1>8. CASE invoices[i].corrects # None
  <2>1. b = LinesTotal(invoices[invoices[i].corrects].lines)
    BY <1>2, <1>8 DEF CorrectedLines
  <2> QED BY <1>1, <1>3, <1>4, <1>6, <1>8, <2>1
<1> QED BY <1>7, <1>8

\* An ordinary invoice and the corrections that lead to one of its corrections
\* have booked, together, the value of the last lines: each correction books the
\* difference to the lines it corrects (ksef-invoice-builder.ts:168-186, 415-432).
THEOREM CorrectedInvoicesAddUp == ReturnsSpec => []CorrectionsAddUp
<1>1. ReturnsInv => CorrectionsAddUp
  <2> SUFFICES ASSUME ReturnsInv PROVE CorrectionsAddUp
    OBVIOUS
  <2>1. Books(invoices) /\ BookedRight(invoices)
    BY DEF ReturnsInv
  <2>2. PICK nets, vats, grosses : /\ nets = [j \in Ids |-> invoices[j].net]
                                   /\ vats = [j \in Ids |-> invoices[j].vat]
                                   /\ grosses = [j \in Ids |-> invoices[j].gross]
    OBVIOUS
  <2>3. PICK p, q, r : /\ p = [j \in Ids |-> LinesTotal(invoices[j].lines).net]
                       /\ q = [j \in Ids |-> LinesTotal(invoices[j].lines).vat]
                       /\ r = [j \in Ids |-> LinesTotal(invoices[j].lines).net + LinesTotal(invoices[j].lines).vat]
    OBVIOUS
  <2>4. \A j \in Ids : invoices[j].net \in Int /\ invoices[j].vat \in Int /\ invoices[j].gross \in Int
    BY <2>1, BooksTypes, EntryTypes DEF Ids
  <2>5. nets \in [Ids -> Int] /\ vats \in [Ids -> Int] /\ grosses \in [Ids -> Int]
    BY <2>2, <2>4
  <2>6. ASSUME NEW j \in Ids
        PROVE  /\ invoices[j].lines \in Seq(Line)
               /\ LinesTotal(invoices[j].lines).net \in Int /\ LinesTotal(invoices[j].lines).vat \in Int
    BY <2>1, BooksTypes, EntryTypes, LinesTypes, AmountParts DEF Ids
  <2>7. p \in [Ids -> Int] /\ q \in [Ids -> Int] /\ r \in [Ids -> Int]
    BY <2>3, <2>6
  <2>8. ASSUME NEW j \in Ids, invoices[j].xml \in {"VAT", "KOR"}
        PROVE  LET c == invoices[j].corrects
               IN /\ nets[j] = p[j] - (IF c = None THEN 0 ELSE p[c])
                  /\ vats[j] = q[j] - (IF c = None THEN 0 ELSE q[c])
                  /\ grosses[j] = r[j] - (IF c = None THEN 0 ELSE r[c])
                  /\ grosses[j] = nets[j] + vats[j]
    <3>1. invoices[j].corrects # None => invoices[j].corrects \in Ids
      BY <2>1 DEF Books, Ids
    <3>2. /\ nets[j] = p[j] - (IF invoices[j].corrects = None THEN 0 ELSE p[invoices[j].corrects])
          /\ vats[j] = q[j] - (IF invoices[j].corrects = None THEN 0 ELSE q[invoices[j].corrects])
          /\ grosses[j] = nets[j] + vats[j]
      BY <2>1, <2>2, <2>3, <2>8, <3>1, BookedAmount
    <3>3. \A k \in Ids : r[k] = p[k] + q[k]
      BY <2>3
    <3>4. \A k \in Ids : p[k] \in Int /\ q[k] \in Int /\ r[k] \in Int
      BY <2>7
    <3>5. CASE invoices[j].corrects = None
      BY <3>2, <3>3, <3>4, <3>5
    <3>6. CASE invoices[j].corrects # None
      <4>1. PICK c \in Ids : c = invoices[j].corrects
        BY <3>1, <3>6
      <4>2. nets[j] = p[j] - p[c] /\ vats[j] = q[j] - q[c] /\ grosses[j] = nets[j] + vats[j]
        BY <3>2, <3>6, <4>1
      <4>3. grosses[j] = r[j] - r[c]
        BY <3>3, <3>4, <4>2
      <4> QED BY <3>6, <4>1, <4>2, <4>3
    <3> QED BY <3>5, <3>6
  <2>9. ASSUME NEW i \in Ids, \E j \in History[i] : invoices[j].xml = "VAT"
        PROVE  LET final == ReportedTotals(invoices[i].lines, <<>>) IN
               /\ SumFunction([j \in History[i] |-> invoices[j].net]) = final.net
               /\ SumFunction([j \in History[i] |-> invoices[j].vat]) = final.vat
               /\ SumFunction([j \in History[i] |-> invoices[j].gross]) = final.gross
               /\ invoices[i].gross = invoices[i].net + invoices[i].vat
    <3>1. PICK H : H = History[i]
      OBVIOUS
    <3>2. PICK final : final = ReportedTotals(invoices[i].lines, <<>>)
      OBVIOUS
    <3>3. H \in SUBSET Ids
      <4>1. Ids = 1..Len(invoices) /\ Len(invoices) \in Nat
        BY <2>1 DEF Ids, Books
      <4>2. H \in SUBSET (1..i)
        BY <2>1, <3>1, HistoryBelow
      <4> QED BY <4>1, <4>2
    <3>4. invoices[i].xml \in {"VAT", "KOR"} /\ SumOn(nets, H) = p[i]
      <4>1. \A j \in Ids : invoices[j].xml \in {"VAT", "KOR"} =>
               nets[j] = p[j] - (IF invoices[j].corrects = None THEN 0 ELSE p[invoices[j].corrects])
        BY <2>8
      <4> QED BY <2>1, <2>5, <2>7, <2>9, <3>1, <4>1, HistorySum
    <3>5. SumOn(vats, H) = q[i]
      <4>1. \A j \in Ids : invoices[j].xml \in {"VAT", "KOR"} =>
               vats[j] = q[j] - (IF invoices[j].corrects = None THEN 0 ELSE q[invoices[j].corrects])
        BY <2>8
      <4> QED BY <2>1, <2>5, <2>7, <2>9, <3>1, <4>1, HistorySum
    <3>6. SumOn(grosses, H) = r[i]
      <4>1. \A j \in Ids : invoices[j].xml \in {"VAT", "KOR"} =>
               grosses[j] = r[j] - (IF invoices[j].corrects = None THEN 0 ELSE r[invoices[j].corrects])
        BY <2>8
      <4> QED BY <2>1, <2>5, <2>7, <2>9, <3>1, <4>1, HistorySum
    <3>7. /\ SumOn(nets, H) = SumFunction([j \in H |-> invoices[j].net])
          /\ SumOn(vats, H) = SumFunction([j \in H |-> invoices[j].vat])
          /\ SumOn(grosses, H) = SumFunction([j \in H |-> invoices[j].gross])
      <4>1. /\ [j \in H |-> nets[j]] = [j \in H |-> invoices[j].net]
            /\ [j \in H |-> vats[j]] = [j \in H |-> invoices[j].vat]
            /\ [j \in H |-> grosses[j]] = [j \in H |-> invoices[j].gross]
        BY <2>2, <3>3
      <4> QED BY <4>1 DEF SumOn
    <3>8. final.net = p[i] /\ final.vat = q[i] /\ final.gross = r[i]
      <4>1. PICK a \in Amount : a = LinesTotal(invoices[i].lines)
        BY <2>6, LinesTypes
      <4>2. /\ final.gross = final.net + final.vat
            /\ final.net = a.net - LinesTotal(<<>>).net /\ final.vat = a.vat - LinesTotal(<<>>).vat
        BY <2>6, <3>2, <4>1, NoLines, ReportedIs
      <4>3. LinesTotal(<<>>).net = 0 /\ LinesTotal(<<>>).vat = 0
        BY NoLines, ZeroType
      <4>4. a.net \in Int /\ a.vat \in Int
        BY <4>1, AmountParts
      <4>5. p[i] = a.net /\ q[i] = a.vat /\ r[i] = a.net + a.vat
        BY <2>3, <4>1
      <4> QED BY <4>2, <4>3, <4>4, <4>5
    <3>9. invoices[i].gross = invoices[i].net + invoices[i].vat
      BY <2>1, <3>4 DEF BookedRight, Ids
    <3> QED BY <3>1, <3>2, <3>4, <3>5, <3>6, <3>7, <3>8, <3>9
  <2> QED BY <2>9 DEF CorrectionsAddUp
<1> QED BY <1>1, ReturnsInvariant, PTL
=============================================================================
