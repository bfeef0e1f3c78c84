---------------------------- MODULE Notifications ----------------------------
(***************************************************************************)
(* Bodies that go through a list, write to people and note that they did:  *)
(* the client warnings of the offline24 ladder, the receivables and daily  *)
(* digests, the monthly JPK preparation and the health check with its      *)
(* alert; and the mail transport they share, which probes SMTP once in     *)
(* the life of a node process (lib/mail-transport.ts).                     *)
(*                                                                         *)
(* A slot p of Slots executes a body; its record names the step it is at.  *)
(* A body is a job of the worker, abandoned when its time is up or its     *)
(* lease is lost (JobRunner), or a request to the portal, abandoned when   *)
(* the caller leaves; it learns of that where it looks at its signal.  An  *)
(* abandoned body and the next one may overlap, and so may a request.      *)
(* Bounds: MaxFaults times a statement or a mail fails, a body is          *)
(* abandoned or a process dies; MaxTime ticks.                             *)
(***************************************************************************)
EXTENDS Naturals, Sequences

CONSTANTS Slots, Hosts, HostOf,
          Worker,                      \* the process that runs the jobs
          Kinds,                       \* bodies a slot may execute
          Invoices, Deadline,          \* offline invoices
          OneHour, FourHours,
          None, MaxFaults, MaxTime

Tiers == {"4h", "1h", "overdue"}

ASSUME NotificationsAssumption ==
    /\ HostOf \in [Slots -> Hosts] /\ Worker \in Hosts
    /\ Kinds \in [Slots -> SUBSET {"offline24", "receivables", "digest", "jpk", "health"}]
    /\ Deadline \in [Invoices -> Nat]
    /\ {OneHour, FourHours, MaxFaults, MaxTime} \subseteq Nat /\ OneHour <= FourHours
    /\ None \notin Nat \cup Tiers

VARIABLES row,       \* uploaded_to_ksef and the client_notified_* flags
          prepared,  \* the period has its row in jpk_preparations
          audited,   \* and a successful jpk_vat_preparation in audit_log
          probe,     \* smtpProbe of each process
          body, now, faults,
          sent,      \* history: what reached whom
          excused,   \* history: warnings that may be repeated
          repeated   \* history: warnings that were repeated without excuse
tables == <<row, prepared, audited>>
history == <<sent, excused, repeated>>
vars == <<tables, probe, body, now, faults, history>>

Free == [at |-> "free"]

Init == /\ row = [i \in Invoices |-> [uploaded |-> FALSE, notified |-> {}]]
        /\ prepared = FALSE /\ audited = FALSE
        /\ probe \in {[h \in Hosts |-> "unknown"],  \* smtp
                      [h \in Hosts |-> "none"],     \* resend
                      [h \in Hosts |-> "off"]}      \* no transport, or incomplete settings
        /\ body = [p \in Slots |-> Free] /\ now = 0 /\ faults = 0
        /\ sent = [warnings |-> {}, preparation |-> FALSE]
        /\ excused = {} /\ repeated = {}

Fault == faults < MaxFaults /\ faults' = faults + 1

-----------------------------------------------------------------------------
(* What the bodies do for one item of their list.  A guarded step follows  *)
(* abortIfNeeded() without an await in between.                            *)

Step(do, guarded) == [do |-> do, guarded |-> guarded]

notifyOffline24 == <<Step("mail", TRUE), Step("flag", TRUE)>>
notifyReceivables == <<Step("mail", TRUE)>>
dailyDigest == <<Step("mail", FALSE)>>

\* Mutant: the evidence is written before the mail.
jpkPreparationAuditFirst ==
    <<Step("read", TRUE), Step("upsert", TRUE), Step("audit", FALSE), Step("mail", TRUE)>>

jpkPreparation ==
    <<Step("read", TRUE), Step("upsert", TRUE), Step("mail", TRUE), Step("audit", FALSE)>>

raiseAlert == <<Step("record", FALSE), Step("mail", FALSE), Step("mark", FALSE)>>
healthCheck == <<Step("sample", FALSE)>> \o raiseAlert

Steps(kind) ==
    CASE kind = "offline24" -> notifyOffline24
      [] kind = "receivables" -> notifyReceivables
      [] kind = "digest" -> dailyDigest
      [] kind = "jpk" -> jpkPreparation
      [] kind = "health" -> healthCheck

\* offlineUrgency() and tierFor(): the tier that applies, unless it was sent.
Urgency(left) ==
    IF left = 0 THEN "overdue" ELSE IF left < OneHour THEN "1h" ELSE IF left < FourHours THEN "4h" ELSE None
Left(i) == IF now < Deadline[i] THEN Deadline[i] - now ELSE 0

\* Mutant: the flags are not looked at.
TierForAgain(i, notified) == Urgency(Left(i))

TierFor(i, notified) == IF Urgency(Left(i)) \in notified THEN None ELSE Urgency(Left(i))

-----------------------------------------------------------------------------
(* A body                                                                  *)

Abandonable == {"offline24", "receivables", "jpk"}

Goto(p, record) == body' = [body EXCEPT ![p] = record]
Stop(p) == Goto(p, Free)
Runs(p, kind) == body[p] # Free /\ body[p].kind = kind
Current(p) == Steps(body[p].kind)[body[p].step]
InFlight(p, do) == body[p].at = "flight" /\ Current(p).do = do

\* A warning that went out and is not flagged yet, and one that is on two lists.
Unflagged(p) ==
    IF Runs(p, "offline24") /\ body[p].step = 2 THEN {<<body[p].item, body[p].holds>>} ELSE {}
Overlapping(p, i) == \E q \in Slots \ {p} :
    Runs(q, "offline24") /\ (body[q].item = i \/ \E entry \in body[q].todo : entry.item = i)

\* Mutant: only invoices nobody was warned of are selected.
EntriesUnannounced(kind) ==
    IF kind = "offline24"
    THEN {[item |-> i, notified |-> {}] : i \in {j \in Invoices : ~row[j].uploaded /\ row[j].notified = {}}}
    ELSE {[item |-> kind]}

\* The SELECT of the list.
Entries(kind) ==
    IF kind = "offline24"
    THEN {[item |-> i, notified |-> row[i].notified] :
            i \in {j \in Invoices : ~row[j].uploaded /\ row[j].notified # Tiers}}
    ELSE {[item |-> kind]}

\* assertMailTransportConfigured()
Configured(h) == probe[h] # "off"

Begin(p, kind, shadow) ==
    /\ body[p] = Free /\ kind \in Kinds[p] /\ Entries(kind) # {}
    /\ Goto(p, [kind |-> kind, shadow |-> shadow, aborted |-> FALSE, todo |-> Entries(kind),
                at |-> "loop", step |-> 0, item |-> None, holds |-> None])
    /\ excused' = excused \cup UNION {Unflagged(q) : q \in Slots}
    /\ UNCHANGED <<tables, probe, now, faults, sent, repeated>>

\* A job of the worker, which may run in shadow mode ...
RunJob(p, kind, shadow) == HostOf[p] = Worker /\ Begin(p, kind, shadow)

\* ... and the requests to the portal that do the same for a caller with the
\* secret; two of them are refused where no mail could be sent.
PostOffline24(p) == HostOf[p] # Worker /\ Configured(HostOf[p]) /\ Begin(p, "offline24", FALSE)
PostReceivables(p) == HostOf[p] # Worker /\ Configured(HostOf[p]) /\ Begin(p, "receivables", FALSE)
PostDigest(p) == HostOf[p] # Worker /\ Begin(p, "digest", FALSE)

\* The next item, or the end.
Proceed(p, todo) ==
    Goto(p, IF todo = {} THEN Free
            ELSE [body[p] EXCEPT !.at = "loop", !.step = 0, !.item = None, !.holds = None, !.todo = todo])

\* No tier applies, or in shadow mode the mail is only counted.
Skips(p, tier) == \/ Runs(p, "offline24") /\ tier = None
                  \/ body[p].shadow /\ body[p].kind \in {"offline24", "receivables"}

\* abortIfNeeded() at the head of the loop, then the next entry.
NextItem(p) ==
    /\ body[p].at = "loop"
    /\ IF body[p].aborted THEN Stop(p)
       ELSE \E entry \in body[p].todo :
              LET rest == body[p].todo \ {entry}
                  tier == IF Runs(p, "offline24") THEN TierFor(entry.item, entry.notified) ELSE None
              IN IF Skips(p, tier) THEN Proceed(p, rest)
                 ELSE Goto(p, [body[p] EXCEPT !.at = "flight", !.step = 1, !.item = entry.item,
                                              !.holds = tier, !.todo = rest])
    /\ UNCHANGED <<tables, probe, now, faults, history>>

\* The step is done; the next one begins at once, or after a check.
Advance(p) ==
    LET next == body[p].step + 1  steps == Steps(body[p].kind) IN
    IF Len(steps) < next THEN Proceed(p, body[p].todo)
    ELSE Goto(p, [body[p] EXCEPT !.step = next,
                                 !.at = IF steps[next].guarded THEN "check" ELSE "flight"])

\* abortIfNeeded(), and the call it guards begins.
Issue(p) ==
    /\ body[p].at = "check"
    /\ IF body[p].aborted
       THEN Stop(p) /\ excused' = excused \cup Unflagged(p)
       ELSE Goto(p, [body[p] EXCEPT !.at = "flight"]) /\ UNCHANGED excused
    /\ UNCHANGED <<tables, probe, now, faults, sent, repeated>>

\* A statement takes effect.
Effect(p) ==
    LET do == Current(p).do  b == body[p] IN
    /\ b.at = "flight" /\ do # "mail"
    /\ row' = IF do = "flag" THEN [row EXCEPT ![b.item].notified = @ \cup {b.holds}] ELSE row
    /\ prepared' = (prepared \/ do = "upsert") /\ audited' = (audited \/ do = "audit")

\* A preparation in shadow mode stops at what it has read; a health check raises
\* its alert unless all is well or nothing may be written.
Perform(p) ==
    /\ Effect(p)
    /\ CASE Current(p).do = "read" ->
              IF body[p].shadow THEN Proceed(p, body[p].todo) ELSE Advance(p)
         [] Current(p).do = "sample" ->
              Proceed(p, body[p].todo) \/ (~body[p].shadow /\ Advance(p))
         [] OTHER -> Advance(p)
    /\ UNCHANGED <<probe, now, faults, history>>

-----------------------------------------------------------------------------
(* Mail                                                                    *)

\* checkMailTransportOperationally(): a SELECT, then perhaps a test mail.  The
\* promise is kept for the life of the process, also when it was rejected.
Probe(p) == LET h == HostOf[p] IN
    /\ InFlight(p, "mail") /\ probe[h] = "unknown"
    /\ \/ probe' = [probe EXCEPT ![h] = "ok"] /\ UNCHANGED faults
       \/ probe' = [probe EXCEPT ![h] = "failed"] /\ Fault
    /\ UNCHANGED <<tables, body, now, history>>

\* A warning goes out; one the body will not flag, or another body has on its
\* list, may go out again.
WarningSent(p, answered) == LET warning == <<body[p].item, body[p].holds>> IN
    /\ Runs(p, "offline24")
    /\ sent' = [sent EXCEPT !.warnings = @ \cup {warning}]
    /\ excused' = IF answered /\ ~Overlapping(p, body[p].item) THEN excused ELSE excused \cup {warning}
    /\ repeated' = IF warning \in sent.warnings \ excused
                   THEN repeated \cup {warning} ELSE repeated

PreparationSent(p) == /\ Runs(p, "jpk") /\ sent' = [sent EXCEPT !.preparation = TRUE]
                      /\ UNCHANGED <<excused, repeated>>

\* The other mails repeat what can be read again: nothing is recorded of them.
ReceivablesDigestSent(p) == Runs(p, "receivables") /\ UNCHANGED history
DailyDigestSent(p) == Runs(p, "digest") /\ UNCHANGED history
AlertSent(p) == Runs(p, "health") /\ UNCHANGED history

Sent(p, answered) ==
    \/ WarningSent(p, answered) \/ PreparationSent(p)
    \/ ReceivablesDigestSent(p) \/ DailyDigestSent(p) \/ AlertSent(p)

Deliver(p) ==
    /\ InFlight(p, "mail") /\ probe[HostOf[p]] \in {"ok", "none"}
    /\ Sent(p, TRUE)
    /\ Advance(p)
    /\ UNCHANGED <<tables, probe, now, faults>>

-----------------------------------------------------------------------------
(* Failures                                                                *)

\* What a body does about a step that failed: it notes the item and goes on,
\* unless it was abandoned; a health check that cannot write its samples ends.
GiveUp(p) == IF body[p].aborted \/ Current(p).do = "sample" THEN Stop(p) ELSE Proceed(p, body[p].todo)

\* A mail is refused, or by a transport that was found unusable.
MailFails(p) ==
    /\ InFlight(p, "mail")
    /\ \/ probe[HostOf[p]] \in {"failed", "off"} /\ UNCHANGED faults
       \/ probe[HostOf[p]] \in {"ok", "none"} /\ Fault
    /\ GiveUp(p)
    /\ UNCHANGED <<tables, probe, now, history>>

\* A mail is delivered, but the answer is lost or comes too late.
AnswerLost(p) ==
    /\ InFlight(p, "mail") /\ probe[HostOf[p]] \in {"ok", "none"} /\ Fault
    /\ Sent(p, FALSE)
    /\ GiveUp(p)
    /\ UNCHANGED <<tables, probe, now>>

\* A statement fails, or its answer is lost.
StatementFails(p) ==
    /\ body[p].at = "flight" /\ Current(p).do # "mail" /\ Fault
    /\ Effect(p) \/ UNCHANGED tables
    /\ GiveUp(p)
    /\ excused' = excused \cup Unflagged(p)
    /\ UNCHANGED <<probe, now, sent, repeated>>

Abandon(p) == /\ body[p] # Free /\ body[p].kind \in Abandonable /\ ~body[p].aborted
              /\ Fault /\ Goto(p, [body[p] EXCEPT !.aborted = TRUE])
              /\ UNCHANGED <<tables, probe, now, history>>

\* A process dies and starts again: its bodies and its probe are gone.
Crash(h) ==
    /\ Fault
    /\ body' = [p \in Slots |-> IF HostOf[p] = h THEN Free ELSE body[p]]
    /\ probe' = [probe EXCEPT ![h] = IF @ \in {"none", "off"} THEN @ ELSE "unknown"]
    /\ excused' = excused \cup UNION {Unflagged(p) : p \in {q \in Slots : HostOf[q] = h}}
    /\ UNCHANGED <<tables, now, sent, repeated>>

-----------------------------------------------------------------------------
(* Other parts of the platform                                             *)

Upload(i) == /\ ~row[i].uploaded /\ row' = [row EXCEPT ![i].uploaded = TRUE]
             /\ UNCHANGED <<prepared, audited, probe, body, now, faults, history>>
Tick == /\ now < MaxTime /\ now' = now + 1
        /\ UNCHANGED <<tables, probe, body, faults, history>>

Run(p) == NextItem(p) \/ Issue(p) \/ Perform(p) \/ Probe(p) \/ Deliver(p) \/ MailFails(p)

Next == \/ \E p \in Slots : \/ \E kind \in Kinds[p], shadow \in BOOLEAN : RunJob(p, kind, shadow)
                            \/ PostOffline24(p) \/ PostReceivables(p) \/ PostDigest(p)
                            \/ Run(p) \/ AnswerLost(p) \/ StatementFails(p) \/ Abandon(p)
        \/ \E h \in Hosts : Crash(h)
        \/ \E i \in Invoices : Upload(i)
        \/ Tick

Spec == Init /\ [][Next]_vars

\* A body of the worker goes on once it has begun, and the worker begins the
\* warnings again and again (EveryOccurrenceSettles of JobRunner); that other
\* bodies take a slot of the model in between is a bound of the model.
FairSpec == Spec /\ \A p \in Slots :
    HostOf[p] = Worker => WF_vars(Run(p)) /\ SF_vars(RunJob(p, "offline24", FALSE))

-----------------------------------------------------------------------------
(* Properties                                                              *)

\* Types of the state; a body stands in front of a statement its kind has.
TypeOK ==
    /\ \A i \in Invoices : row[i].notified \subseteq Tiers
    /\ {prepared, audited} \subseteq BOOLEAN
    /\ probe \in [Hosts -> {"unknown", "ok", "failed", "none", "off"}]
    /\ \A p \in Slots : body[p] # Free =>
          /\ body[p].at \in {"loop", "check", "flight"}
          /\ body[p].step \in 0 .. Len(Steps(body[p].kind))
    /\ faults \in 0 .. MaxFaults /\ now \in 0 .. MaxTime

\* "callers never mark a legal deadline warning as delivered when no email was
\* actually sent" (email.ts:101-102): a flag stands for a mail, and a success
\* in the audit log for a stored preparation that went to the accountant.
RecordedIsSent ==
    /\ \A i \in Invoices, t \in Tiers : t \in row[i].notified => <<i, t>> \in sent.warnings
    /\ audited => prepared /\ sent.preparation

\* A client is warned twice of one tier only if the flag of the first warning,
\* or the answer to it, was lost with a fault, or two bodies had read the row
\* before it was set (offline24.ts:65-67).
RepeatsAreExcused == repeated = {}

\* An invoice that is overdue and not uploaded is announced to the client,
\* whatever fails for a while - unless the process has no mail transport, or
\* found it unusable when it first used it (mail-transport.ts:140-153).
EveryOverdueIsWarned == \A i \in Invoices :
    Left(i) = 0 /\ ~row[i].uploaded
      ~> row[i].uploaded \/ "overdue" \in row[i].notified \/ probe[Worker] \in {"failed", "off"}

=============================================================================
