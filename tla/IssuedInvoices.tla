--------------------------- MODULE IssuedInvoices ---------------------------
(***************************************************************************)
(* The life of the sales invoices a firm issues in the portal: created by  *)
(* app/api/invoices/create, sent to KSeF by app/api/ksef/send, inserted a  *)
(* second time by the invoice-retrieval job when that finds them first,    *)
(* watched by the offline24-monitor job and exported by                    *)
(* app/api/jpk/generate.  The parts share the tables invoices and          *)
(* offline_invoices and nothing else; each database statement and each     *)
(* call to KSeF is an action.                                              *)
(*                                                                         *)
(* A send request is modelled for one invoice: the route treats the        *)
(* invoices of a request one after the other.  Times are natural numbers.  *)
(***************************************************************************)
EXTENDS Integers, FiniteSets

CONSTANTS
  Invoices,     \* invoices, each with its own number and issuer
  Requests,     \* POST /api/ksef/send
  InvoiceOf,    \* the invoice a request is about
  Monitors,     \* runs of offline24-monitor that may overlap
  Deadlines,    \* upload deadlines, from next_business_day() of the issue date
  Near, Far,    \* the urgency ladder: less than 1 h, less than 4 h
  MaxClock,     \* bound: the clock stops here
  MaxFaults     \* bound: faults in a behaviour

ASSUME IssuedAssumption ==
  /\ Invoices # {}
  /\ InvoiceOf \in [Requests -> Invoices]
  /\ Deadlines \subseteq Nat
  /\ {Near, Far, MaxClock, MaxFaults} \subseteq Nat
  /\ Near <= Far
  /\ IsFiniteSet(Monitors)

VARIABLES
  now,
  row,         \* the invoice as it was issued, in the table invoices
  copy,        \* the row invoice-retrieval inserted for the same KSeF number
  offline,     \* its row in offline_invoices
  issuing,     \* where the request that creates an invoice is
  request,     \* where each send request is
  submission,  \* KSeF: what became of the submission of a request
  accepted,    \* KSeF: when it accepted an invoice, 0 before
  monitor,     \* the variables of each monitor run
  jpk,         \* invoices read by the JPK generation that is under way
  alerts,      \* alerts recorded for an offline invoice, by tier
  faults

platform == <<row, copy, offline>>
ksef == <<submission, accepted>>
vars == <<now, row, copy, offline, issuing, request, submission, accepted,
          monitor, jpk, alerts, faults>>

Tiers == {"overdue", "urgent_1h", "urgent_4h"}
Markers == {"none", "NrKSeF", "OFF", "BFK"}

InvoiceRow == [status : {"none", "new", "sent", "rejected", "exported_jpk"},
               number : BOOLEAN,       \* ksef_number is set
               marker : Markers]       \* jpk_marker

CopyRow == [number : BOOLEAN, marker : Markers]

OfflineRow == [state    : {"none", "pending", "uploaded"},
               deadline : Nat,
               flags    : SUBSET Tiers]   \* alert_sent_...

Monitor == [pc   : {"idle", "rows", "mark", "ladder", "flag"},
            todo : SUBSET Invoices,
            seen : [Invoices -> SUBSET Tiers],   \* the flags as first read
            inv  : Invoices,
            tier : Tiers,
            hit  : {"row", "copy"}]              \* the row the match returned

NoMonitor == [pc |-> "idle", todo |-> {}, seen |-> [i \in Invoices |-> {}],
              inv |-> CHOOSE i \in Invoices : TRUE, tier |-> "overdue", hit |-> "row"]

TypeOK ==
  /\ now \in Nat
  /\ row \in [Invoices -> InvoiceRow]
  /\ copy \in [Invoices -> CopyRow]
  /\ offline \in [Invoices -> OfflineRow]
  /\ issuing \in [Invoices -> {"idle", "offline", "done"}]
  /\ request \in [Requests -> {"idle", "send", "sent", "poll", "close", "done"}]
  /\ submission \in [Requests -> {"none", "processing", "accepted", "refused"}]
  /\ accepted \in [Invoices -> Nat]
  /\ monitor \in [Monitors -> Monitor]
  /\ jpk \subseteq Invoices
  /\ alerts \in [Invoices -> [Tiers -> Nat]]
  /\ faults \in Nat

Init ==
  /\ now = 1
  /\ row = [i \in Invoices |-> [status |-> "none", number |-> FALSE, marker |-> "none"]]
  /\ copy = [i \in Invoices |-> [number |-> FALSE, marker |-> "none"]]
  /\ offline = [i \in Invoices |-> [state |-> "none", deadline |-> 0, flags |-> {}]]
  /\ issuing = [i \in Invoices |-> "idle"]
  /\ request = [q \in Requests |-> "idle"]
  /\ submission = [q \in Requests |-> "none"]
  /\ accepted = [i \in Invoices |-> 0]
  /\ monitor = [m \in Monitors |-> NoMonitor]
  /\ jpk = {}
  /\ alerts = [i \in Invoices |-> [t \in Tiers |-> 0]]
  /\ faults = 0

Fault == faults < MaxFaults /\ faults' = faults + 1

-----------------------------------------------------------------------------
(* POST /api/invoices/create *)

\* INSERT INTO invoices; an offline mode makes a second statement follow.
CreateInvoice(i) ==
  /\ issuing[i] = "idle"
  /\ row' = [row EXCEPT ![i].status = "new"]
  /\ \E step \in {"offline", "done"} : issuing' = [issuing EXCEPT ![i] = step]
  /\ UNCHANGED <<now, copy, offline, request, ksef, monitor, jpk, alerts, faults>>

InsertOffline(i) ==
  /\ issuing[i] = "offline"
  /\ issuing' = [issuing EXCEPT ![i] = "done"]
  /\ \E t \in Deadlines :
       offline' = [offline EXCEPT ![i].state = "pending", ![i].deadline = t]
  /\ UNCHANGED <<now, row, copy, request, ksef, monitor, jpk, alerts, faults>>

\* The request ends between its two statements, or the second one fails.
CreationBreaksOff(i) ==
  /\ Fault
  /\ issuing[i] = "offline"
  /\ issuing' = [issuing EXCEPT ![i] = "done"]
  /\ UNCHANGED <<now, platform, request, ksef, monitor, jpk, alerts>>

-----------------------------------------------------------------------------
(* POST /api/ksef/send *)

GoTo(q, place) == request' = [request EXCEPT ![q] = place]

Eligible(i) ==
  /\ row[i].status \notin {"none", "sent", "exported_jpk"}
  /\ ~row[i].number

\* The SELECT; what is not eligible is answered with an error.
SelectInvoice(q) ==
  /\ request[q] = "idle"
  /\ GoTo(q, IF Eligible(InvoiceOf[q]) THEN "send" ELSE "done")
  /\ UNCHANGED <<now, platform, issuing, ksef, monitor, jpk, alerts, faults>>

\* sendInvoice(): KSeF takes the invoice for processing.
SendInvoice(q) ==
  /\ request[q] = "send"
  /\ submission' = [submission EXCEPT ![q] = "processing"]
  /\ GoTo(q, "sent")
  /\ UNCHANGED <<now, platform, issuing, accepted, monitor, jpk, alerts, faults>>

\* No session, no encryption by the sidecar, or an error answer of KSeF.
NotSent(q) ==
  /\ Fault
  /\ request[q] = "send"
  /\ GoTo(q, "done")
  /\ UNCHANGED <<now, platform, issuing, ksef, monitor, jpk, alerts>>

\* KSeF has the invoice, and the request does not know.
AnswerIsLost(q) ==
  /\ Fault
  /\ request[q] = "send"
  /\ submission' = [submission EXCEPT ![q] = "processing"]
  /\ GoTo(q, "done")
  /\ UNCHANGED <<now, platform, issuing, accepted, monitor, jpk, alerts>>

\* Mutant: the offline row is closed when the invoice has been sent.
MarkSentAndClosed(q) ==
  /\ request[q] = "sent"
  /\ row' = [row EXCEPT ![InvoiceOf[q]].status = "sent"]
  /\ offline' = [offline EXCEPT ![InvoiceOf[q]].state = IF @ = "pending" THEN "uploaded" ELSE @]
  /\ GoTo(q, "poll")
  /\ UNCHANGED <<now, copy, issuing, ksef, monitor, jpk, alerts, faults>>

MarkSent(q) ==
  /\ request[q] = "sent"
  /\ row' = [row EXCEPT ![InvoiceOf[q]].status = "sent"]
  /\ GoTo(q, "poll")
  /\ UNCHANGED <<now, copy, offline, issuing, ksef, monitor, jpk, alerts, faults>>

MarkSentFails(q) ==
  /\ Fault
  /\ request[q] = "sent"
  /\ GoTo(q, "done")
  /\ UNCHANGED <<now, platform, issuing, ksef, monitor, jpk, alerts>>

\* UNIQUE (firm_id, client_nip, ksef_number).
NumberIsFree(i) == ~copy[i].number

\* pollAndStoreUpo(): an accepted invoice gets its number.  If another row
\* holds it the statement fails, and with it the request.
StoreNumber(q) ==
  LET i == InvoiceOf[q]
  IN  /\ request[q] = "poll"
      /\ submission[q] = "accepted"
      /\ IF NumberIsFree(i)
         THEN row' = [row EXCEPT ![i].number = TRUE] /\ GoTo(q, "close")
         ELSE UNCHANGED row /\ GoTo(q, "done")
      /\ UNCHANGED <<now, copy, offline, issuing, ksef, monitor, jpk, alerts, faults>>

\* A status of 400 or above, 440 (duplicate) among them, rejects the row.
StoreRejection(q) ==
  /\ request[q] = "poll"
  /\ submission[q] = "refused"
  /\ row' = [row EXCEPT ![InvoiceOf[q]].status = "rejected"]
  /\ GoTo(q, "done")
  /\ UNCHANGED <<now, copy, offline, issuing, ksef, monitor, jpk, alerts, faults>>

CloseOffline(q) ==
  LET i == InvoiceOf[q]
  IN  /\ request[q] = "close"
      /\ offline' = [offline EXCEPT ![i].state = IF @ = "pending" THEN "uploaded" ELSE @]
      /\ GoTo(q, "done")
      /\ UNCHANGED <<now, row, copy, issuing, ksef, monitor, jpk, alerts, faults>>

\* Ten polls without a final status, or a poll that fails.
PollGivesUp(q) ==
  /\ request[q] = "poll"
  /\ GoTo(q, "done")
  /\ UNCHANGED <<now, platform, issuing, ksef, monitor, jpk, alerts, faults>>

\* The portal is restarted, or its database statement fails.
RequestCrashes(q) ==
  /\ Fault
  /\ request[q] \in {"send", "sent", "poll", "close"}
  /\ GoTo(q, "done")
  /\ UNCHANGED <<now, platform, issuing, ksef, monitor, jpk, alerts>>

-----------------------------------------------------------------------------
(* KSeF (external) *)

\* An invoice is accepted once; the same one again is a duplicate.
Process(q) ==
  LET i == InvoiceOf[q]
  IN  /\ submission[q] = "processing"
      /\ \/ /\ accepted[i] = 0
            /\ accepted' = [accepted EXCEPT ![i] = now]
            /\ submission' = [submission EXCEPT ![q] = "accepted"]
         \/ /\ submission' = [submission EXCEPT ![q] = "refused"]
            /\ UNCHANGED accepted
      /\ UNCHANGED <<now, platform, issuing, request, monitor, jpk, alerts, faults>>

\* An offline invoice that the firm uploads with another program.
UploadElsewhere(i) ==
  /\ offline[i].state = "pending"
  /\ accepted[i] = 0
  /\ accepted' = [accepted EXCEPT ![i] = now]
  /\ UNCHANGED <<now, platform, issuing, request, submission, monitor, jpk, alerts, faults>>

-----------------------------------------------------------------------------
(* invoice-retrieval: COMMIT_SALES_SQL, ON CONFLICT DO NOTHING *)

RetrieveInvoice(i) ==
  /\ accepted[i] # 0
  /\ ~row[i].number /\ ~copy[i].number
  /\ copy' = [copy EXCEPT ![i] = [number |-> TRUE, marker |-> "NrKSeF"]]
  /\ UNCHANGED <<now, row, offline, issuing, request, ksef, monitor, jpk, alerts, faults>>

-----------------------------------------------------------------------------
(* offline24-monitor *)

Update(m, record) == monitor' = [monitor EXCEPT ![m] = record]

\* The next row, or the end of the run.
NextRow(m) ==
  LET left == monitor[m].todo \ {monitor[m].inv}
  IN  Update(m, IF left = {} THEN NoMonitor
                ELSE [monitor[m] EXCEPT !.pc = "rows", !.todo = left])

\* The SELECT of the rows that are not uploaded, with their flags.
SelectPending(m) ==
  LET pending == {i \in Invoices : offline[i].state = "pending"}
  IN  /\ monitor[m].pc = "idle"
      /\ pending # {}
      /\ Update(m, [NoMonitor EXCEPT !.pc = "rows", !.todo = pending,
                                     !.seen = [i \in Invoices |-> offline[i].flags]])
      /\ UNCHANGED <<now, platform, issuing, request, ksef, jpk, alerts, faults>>

\* Mutant: only the issued row is looked up, not the one retrieval inserted.
MatchesIssuedOnly(i) == {h \in {"row"} : row[i].number}

\* The rows of the client with this invoice number and a KSeF number.
Matches(i) ==
  {h \in {"row", "copy"} : IF h = "row" THEN row[i].number ELSE copy[i].number}

MatchInvoice(m) ==
  /\ monitor[m].pc = "rows"
  /\ \E i \in monitor[m].todo :
       IF Matches(i) = {}
       THEN Update(m, [monitor[m] EXCEPT !.pc = "ladder", !.inv = i])
       ELSE \E h \in Matches(i) :
              Update(m, [monitor[m] EXCEPT !.pc = "mark", !.inv = i, !.hit = h])
  /\ UNCHANGED <<now, platform, issuing, request, ksef, jpk, alerts, faults>>

\* Mutant: the comparison is the wrong way round.
MarkerNowSwapped(i) == IF offline[i].deadline < now THEN "OFF" ELSE "BFK"

MarkerNow(i) == IF offline[i].deadline < now THEN "BFK" ELSE "OFF"

MarkUploaded(m) ==
  LET i == monitor[m].inv
      h == monitor[m].hit
  IN  /\ monitor[m].pc = "mark"
      /\ IF offline[i].state = "pending"
         THEN /\ offline' = [offline EXCEPT ![i].state = "uploaded"]
              /\ row' = IF h = "row" THEN [row EXCEPT ![i].marker = MarkerNow(i)] ELSE row
              /\ copy' = IF h = "copy" THEN [copy EXCEPT ![i].marker = MarkerNow(i)] ELSE copy
         ELSE UNCHANGED platform
      /\ NextRow(m)
      /\ UNCHANGED <<now, issuing, request, ksef, jpk, alerts, faults>>

Urgency(i) ==
  LET left == offline[i].deadline - now
  IN  CASE left <= 0   -> "overdue"
        [] left < Near -> "urgent_1h"
        [] left < Far  -> "urgent_4h"
        [] OTHER       -> "ok"

\* Mutant: the flags are not looked at.
OwedAlways(m, i) == Urgency(i) # "ok"

\* The flags are those of the SELECT at the beginning of the run.
Owed(m, i) == Urgency(i) # "ok" /\ Urgency(i) \notin monitor[m].seen[i]

\* An alert is recorded, then its flag is set.
ClimbLadder(m) ==
  LET i == monitor[m].inv
  IN  /\ monitor[m].pc = "ladder"
      /\ IF Owed(m, i)
         THEN /\ alerts' = [alerts EXCEPT ![i][Urgency(i)] = @ + 1]
              /\ Update(m, [monitor[m] EXCEPT !.pc = "flag", !.tier = Urgency(i)])
         ELSE UNCHANGED alerts /\ NextRow(m)
      /\ UNCHANGED <<now, platform, issuing, request, ksef, jpk, faults>>

SetFlag(m) ==
  LET i == monitor[m].inv
  IN  /\ monitor[m].pc = "flag"
      /\ offline' = [offline EXCEPT ![i].flags = @ \cup {monitor[m].tier}]
      /\ NextRow(m)
      /\ UNCHANGED <<now, row, copy, issuing, request, ksef, jpk, alerts, faults>>

\* Mutant: the flag is set although no alert was recorded.
RowFailsButFlagged(m) ==
  LET i == monitor[m].inv
  IN  /\ Fault
      /\ monitor[m].pc \in {"mark", "ladder", "flag"}
      /\ offline' = IF monitor[m].pc = "ladder" /\ Owed(m, i)
                    THEN [offline EXCEPT ![i].flags = @ \cup {Urgency(i)}] ELSE offline
      /\ NextRow(m)
      /\ UNCHANGED <<now, row, copy, issuing, request, ksef, jpk, alerts>>

\* A statement fails, or the alert cannot be recorded: the flag stays unset
\* and the run goes on with the next row.
RowFails(m) ==
  /\ Fault
  /\ monitor[m].pc \in {"mark", "ladder", "flag"}
  /\ NextRow(m)
  /\ UNCHANGED <<now, platform, issuing, request, ksef, jpk, alerts>>

\* The worker dies or the run is aborted.
MonitorCrashes(m) ==
  /\ Fault
  /\ monitor[m].pc # "idle"
  /\ Update(m, NoMonitor)
  /\ UNCHANGED <<now, platform, issuing, request, ksef, jpk, alerts>>

-----------------------------------------------------------------------------
(* POST /api/jpk/generate *)

\* Mutant: an invoice with neither number nor marker gets into the file.
ReportableAlways(i) == TRUE

\* ksefReference(): every line of the file needs a KSeF number or a marker.
Reportable(i) == row[i].number \/ row[i].marker \in {"OFF", "BFK"}

\* The SELECT of the period's invoices; the file is refused as a whole when
\* one of them cannot be reported.
SelectForJpk ==
  LET issued == {i \in Invoices : row[i].status # "none"}
  IN  /\ jpk = {}
      /\ issued # {}
      /\ \A i \in issued : Reportable(i)
      /\ jpk' = issued
      /\ UNCHANGED <<now, platform, issuing, request, ksef, monitor, alerts, faults>>

MarkExported ==
  /\ jpk # {}
  /\ row' = [i \in Invoices |->
               IF i \in jpk /\ row[i].status # "rejected"
               THEN [row[i] EXCEPT !.status = "exported_jpk"] ELSE row[i]]
  /\ jpk' = {}
  /\ UNCHANGED <<now, copy, offline, issuing, request, ksef, monitor, alerts, faults>>

-----------------------------------------------------------------------------
(* Specification *)

Tick ==
  /\ now < MaxClock
  /\ now' = now + 1
  /\ UNCHANGED <<platform, issuing, request, ksef, monitor, jpk, alerts, faults>>

MonitorStep(m) ==
  \/ SelectPending(m) \/ MatchInvoice(m) \/ MarkUploaded(m) \/ ClimbLadder(m) \/ SetFlag(m)

RequestStep(q) ==
  \/ SelectInvoice(q) \/ SendInvoice(q) \/ MarkSent(q)
  \/ StoreNumber(q) \/ StoreRejection(q) \/ CloseOffline(q) \/ PollGivesUp(q)

FaultStep ==
  \/ \E i \in Invoices : CreationBreaksOff(i)
  \/ \E q \in Requests : NotSent(q) \/ AnswerIsLost(q) \/ MarkSentFails(q) \/ RequestCrashes(q)
  \/ \E m \in Monitors : RowFails(m) \/ MonitorCrashes(m)

Next ==
  \/ \E i \in Invoices : CreateInvoice(i) \/ InsertOffline(i)
  \/ \E q \in Requests : RequestStep(q) \/ Process(q)
  \/ \E i \in Invoices : UploadElsewhere(i) \/ RetrieveInvoice(i)
  \/ \E m \in Monitors : MonitorStep(m)
  \/ SelectForJpk \/ MarkExported
  \/ FaultStep
  \/ Tick

Spec == Init /\ [][Next]_vars

\* The jobs run again and again (JobRunner), and time passes.  Users and
\* KSeF owe nothing.
FairSpec ==
  /\ Spec
  /\ \A m \in Monitors : WF_vars(MonitorStep(m))
  /\ \A i \in Invoices : WF_vars(RetrieveInvoice(i))
  /\ WF_vars(Tick)

-----------------------------------------------------------------------------
(* Safety *)

\* The statutory clock stops only for an invoice KSeF really has: sending is
\* not enough, and neither polls that give up, crashes nor duplicates close
\* an offline row too early (ksef/send/route.ts:232).
UploadedIsAccepted ==
  \A i \in Invoices : offline[i].state = "uploaded" => accepted[i] # 0

\* A KSeF number is held by one row, whether the poll or invoice-retrieval
\* comes first (db/migrations/2026-09-21-invoices-unique-per-client.sql).
OneRowPerNumber == \A i \in Invoices : ~(row[i].number /\ copy[i].number)

\* The marker OFF goes into a filed report only for an invoice that KSeF got
\* before its deadline.
OffIsTruthful ==
  \A i \in Invoices :
    row[i].marker = "OFF" \/ copy[i].marker = "OFF" =>
      accepted[i] # 0 /\ accepted[i] <= offline[i].deadline

\* The marker of an offline invoice is decided once: a run that overlaps with
\* an older one, or comes back to an invoice after its deadline, does not turn
\* OFF into BFK (the guard of MARK_UPLOADED_SQL, offline24-monitor.ts:43).
MarkerIsFinal ==
  [][\A i \in Invoices :
       /\ row[i].marker \in {"OFF", "BFK"} => row'[i].marker = row[i].marker
       /\ copy[i].marker \in {"OFF", "BFK"} => copy'[i].marker = copy[i].marker]_vars

\* No invoice is locked away from KSeF by the JPK export: what is marked
\* exported, and can no longer be sent, has been accepted.
ExportedIsAccepted ==
  \A i \in Invoices : row[i].status = "exported_jpk" => accepted[i] # 0

\* "Unresolved invoices alert once per urgency tier" (offline24-monitor.ts:19):
\* repetitions come only from runs that overlap and from faults, each of which
\* costs one at most.
AlertedOncePerTier ==
  \A i \in Invoices : \A t \in Tiers : alerts[i][t] <= Cardinality(Monitors) + faults

-----------------------------------------------------------------------------
(* The inductive invariant behind them *)

Statutory == {"OFF", "BFK"}

\* What the portal believes of KSeF is so: a number, a closed row, a file under
\* way and every process that is about to write one of them have an acceptance
\* behind them.
BackedByKSeF ==
  /\ \A i \in Invoices : row[i].number \/ copy[i].number => accepted[i] # 0
  /\ \A q \in Requests :
       submission[q] = "accepted" \/ request[q] = "close" => accepted[InvoiceOf[q]] # 0
  /\ \A m \in Monitors : monitor[m].pc = "mark" => accepted[monitor[m].inv] # 0
  /\ \A i \in jpk : accepted[i] # 0

\* Which row carries a statutory marker, and when.
MarkersOK ==
  /\ \A i \in Invoices :
       /\ row[i].marker \in Statutory => offline[i].state = "uploaded"
       /\ copy[i].marker \in Statutory => offline[i].state = "uploaded" /\ copy[i].number
       /\ offline[i].state # "none" => issuing[i] = "done"
  /\ \A m \in Monitors :
       monitor[m].pc = "mark" /\ monitor[m].hit = "copy" => copy[monitor[m].inv].number

AcceptedInThePast == now # 0 /\ \A i \in Invoices : accepted[i] <= now

IInv ==
  /\ TypeOK
  /\ AcceptedInThePast
  /\ BackedByKSeF
  /\ MarkersOK
  /\ OneRowPerNumber
  /\ UploadedIsAccepted
  /\ ExportedIsAccepted
  /\ OffIsTruthful

-----------------------------------------------------------------------------
(* Liveness *)

\* An offline invoice that stays behind its deadline is announced, also when
\* alerts could not be recorded or the monitor crashed.
OverdueIsAnnounced ==
  \A i \in Invoices :
    offline[i].state = "pending" /\ offline[i].deadline <= now
      ~> alerts[i]["overdue"] > 0 \/ offline[i].state = "uploaded"

\* The clock does stop in the end for every invoice KSeF has, although the
\* request that sent it gave up, crashed or lost the number to the retrieval.
AcceptedIsClosed ==
  \A i \in Invoices :
    offline[i].state = "pending" /\ accepted[i] # 0 ~> offline[i].state = "uploaded"

=============================================================================
