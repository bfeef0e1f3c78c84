--------------------------- MODULE DocumentIntake ---------------------------
(***************************************************************************)
(* Documents on their way to becoming invoices: a scan (app/api/ocr), an   *)
(* attachment of an e-mail (app/api/email/sync) or a client's upload       *)
(* (app/api/upload/[token]) enters ocr_queue; a user approves it, which    *)
(* books an invoice, or rejects it (app/api/ocr-queue/[id]).  Requests run *)
(* concurrently and share the tables ocr_queue, invoices and, through      *)
(* ClientCap, clients and firms.                                           *)
(*                                                                         *)
(* A request of the model is served once; a retry or a double click is     *)
(* another request.  An entry of the queue is named by the request that    *)
(* inserted it and its document.                                           *)
(***************************************************************************)
EXTENDS ClientCap

CONSTANTS
  Documents,
  NipOf,       \* the tax number the extraction finds in a document
  Backlog,     \* documents in the queue before the first request of Callers
  Messages,    \* e-mails in the mailbox
  Attached,    \* the PDF and image attachments of an e-mail
  MaxFaults    \* bound: failing statements and crashes in a behaviour

ASSUME IntakeAssumption ==
  /\ NipOf \in [Documents -> Nips]
  /\ Backlog \subseteq Documents
  /\ Attached \in [Messages -> SUBSET Documents]
  /\ Documents # {} /\ Messages # {}
  /\ \A m, n \in Messages : m # n => Attached[m] \cap Attached[n] = {}
  /\ MaxFaults \in Nat

VARIABLES
  status,      \* ocr_queue.ocr_status, "none" before the row is inserted
  booked,      \* invoices inserted for an entry
  spilled,     \* of those, the ones whose entry was never marked completed
  seen,        \* e-mails with the flag \Seen
  req,         \* where each request is
  faults

queueVars == <<status, booked, spilled>>
vars == <<capVars, status, booked, spilled, seen, req, faults>>

Entries == (Callers \union {None}) \X Documents

Statuses == {"none", "queued", "processing", "completed", "failed", "manual_review"}

Request ==
  [pc     : {"idle", "refuse", "connect", "client", "complete", "release", "enqueue",
             "next", "attach", "done", "crashed"},
   op     : {"approve", "scan", "upload", "mail", "add"},
   entry  : Entries,               \* approve: the entry that is claimed
   doc    : Documents,             \* the document that is taken in
   todo   : SUBSET Messages,       \* mail: e-mails of the search not handled yet
   left   : SUBSET Documents,      \* mail: attachments of the current e-mail
   msg    : Messages,
   failed : BOOLEAN]               \* mail: messageFailed

\* The variables of a request that has not begun; those of one that has ended
\* are forgotten.
Blank == [pc |-> "idle", op |-> "add", entry |-> CHOOSE e \in Entries : TRUE,
          doc |-> CHOOSE d \in Documents : TRUE, todo |-> {}, left |-> {},
          msg |-> CHOOSE m \in Messages : TRUE, failed |-> FALSE]

TypeOK ==
  /\ CapTypeOK
  /\ status \in [Entries -> Statuses]
  /\ booked \in [Entries -> Nat]
  /\ spilled \in [Entries -> Nat]
  /\ seen \subseteq Messages
  /\ req \in [Callers -> Request]
  /\ faults \in 0..MaxFaults

Init ==
  /\ CapInit
  /\ status = [e \in Entries |-> IF e[1] = None /\ e[2] \in Backlog
                                   THEN "manual_review" ELSE "none"]
  /\ booked = [e \in Entries |-> 0]
  /\ spilled = [e \in Entries |-> 0]
  /\ seen = {}
  /\ req = [r \in Callers |-> Blank]
  /\ faults = 0

Goto(r, pc) == req' = [req EXCEPT ![r].pc = pc]

Ended(pc) == [Blank EXCEPT !.pc = pc]

End(r, pc) == req' = [req EXCEPT ![r] = Ended(pc)]

Fault == faults < MaxFaults /\ faults' = faults + 1

\* Nothing but req and the caller's transaction changes.
Elsewhere == UNCHANGED <<clients, maxClients, lockedBy, free, queueVars, seen>>

\* A scan and a sync keep a connection of their own while they wait for
\* createClientWithinPlan(), which takes another one.
HasConnection(r) == req[r].pc = "client" /\ req[r].op \in {"scan", "mail"}

\* Mutant: release() ends the try block instead of the finally.
ReleaseAfterSuccess(r) ==
  free' = IF HasConnection(r) /\ call[r].pc = "ok" THEN free + 1 ELSE free

\* finally { client.release(); }
Release(r) == free' = IF HasConnection(r) THEN free + 1 ELSE free

Served(r) == req[r].pc \notin {"idle", "done", "crashed"}

\* The approval r works on the entry e.
Holds(r, e) == req[r].entry = e /\ req[r].op = "approve"
               /\ req[r].pc \in {"refuse", "client", "complete", "release"}

\* An approval has inserted the invoice of e and not marked e yet.
Booking(e) == \E r \in Callers : Holds(r, e) /\ req[r].pc = "complete"

-----------------------------------------------------------------------------
(* PATCH /api/ocr-queue/[id] *)

\* Mutant: the WHERE clause names the terminal states only.
ClaimableInProcess == Statuses \ {"none", "completed", "failed"}

Claimable == Statuses \ {"none", "completed", "failed", "processing"}

\* The claim is one UPDATE ... WHERE ocr_status NOT IN (...) RETURNING id: the
\* request that flips the row goes on, any other answers 409.  The reviewer's
\* amounts are then valid or not.
Approve(r, e, n, valid) ==
  /\ req[r].pc = "idle"
  /\ MayQuery
  /\ status[e] \in Claimable
  /\ status' = [status EXCEPT ![e] = "processing"]
  /\ req' = [req EXCEPT ![r].pc = IF valid THEN "client" ELSE "refuse",
                        ![r].op = "approve", ![r].entry = e]
  /\ call' = [call EXCEPT ![r] = IF valid THEN Begun(n) ELSE @]
  /\ UNCHANGED <<clients, maxClients, lockedBy, free, booked, spilled, seen, faults>>

RefuseAmounts(r) ==
  /\ req[r].pc = "refuse"
  /\ MayQuery
  /\ status' = [status EXCEPT ![req[r].entry] = "manual_review"]
  /\ End(r, "done")
  /\ UNCHANGED <<capVars, booked, spilled, seen, faults>>

\* This UPDATE is outside the try: if it fails nothing releases the claim.
RefuseAmountsFails(r) ==
  /\ req[r].pc = "refuse"
  /\ MayQuery
  /\ End(r, "done")
  /\ Fault
  /\ UNCHANGED <<capVars, queueVars, seen>>

BookInvoice(r) ==
  /\ req[r].pc = "client" /\ req[r].op = "approve"
  /\ call[r].pc = "ok"
  /\ MayQuery
  /\ booked' = [booked EXCEPT ![req[r].entry] = @ + 1]
  /\ call' = [call EXCEPT ![r] = NoCall]
  /\ Goto(r, "complete")
  /\ UNCHANGED <<clients, maxClients, lockedBy, free, status, spilled, seen, faults>>

CompleteEntry(r) ==
  /\ req[r].pc = "complete"
  /\ MayQuery
  /\ status' = [status EXCEPT ![req[r].entry] = "completed"]
  /\ End(r, "done")
  /\ UNCHANGED <<capVars, booked, spilled, seen, faults>>

\* Mutant: the answer for a full plan is given before the claim is released.
ClientRefusedEarly(r) ==
  /\ req[r].pc = "client" /\ req[r].op = "approve"
  /\ call[r].pc = "refused"
  /\ call' = [call EXCEPT ![r] = NoCall]
  /\ End(r, "done")
  /\ UNCHANGED faults
  /\ Elsewhere

\* The plan is full or the transaction failed: the catch releases the claim.
ClientRefused(r) ==
  /\ req[r].pc = "client" /\ req[r].op = "approve"
  /\ call[r].pc = "refused"
  /\ call' = [call EXCEPT ![r] = NoCall]
  /\ Goto(r, "release")
  /\ UNCHANGED faults
  /\ Elsewhere

BookInvoiceFails(r) ==
  /\ req[r].pc = "client" /\ req[r].op = "approve"
  /\ call[r].pc = "ok"
  /\ MayQuery
  /\ call' = [call EXCEPT ![r] = NoCall]
  /\ Goto(r, "release")
  /\ Fault
  /\ Elsewhere

\* The invoice is there, its entry goes back to review all the same.
CompleteEntryFails(r) ==
  /\ req[r].pc = "complete"
  /\ MayQuery
  /\ spilled' = [spilled EXCEPT ![req[r].entry] = @ + 1]
  /\ Goto(r, "release")
  /\ Fault
  /\ UNCHANGED <<capVars, status, booked, seen>>

ReleaseClaim(r) ==
  /\ req[r].pc = "release"
  /\ MayQuery
  /\ status' = [status EXCEPT ![req[r].entry] = "manual_review"]
  /\ End(r, "done")
  /\ UNCHANGED <<capVars, booked, spilled, seen, faults>>

\* .catch(() => {})
ReleaseClaimFails(r) ==
  /\ req[r].pc = "release"
  /\ MayQuery
  /\ End(r, "done")
  /\ Fault
  /\ UNCHANGED <<capVars, queueVars, seen>>

Reject(r, e) ==
  /\ req[r].pc = "idle"
  /\ MayQuery
  /\ status[e] \in Claimable
  /\ status' = [status EXCEPT ![e] = "failed"]
  /\ End(r, "done")
  /\ UNCHANGED <<capVars, booked, spilled, seen, faults>>

-----------------------------------------------------------------------------
(* POST /api/ocr, /api/upload/[token] and /api/clients *)

\* needsManualReview() answers true whatever was extracted, so the statements
\* that book a clean extraction at once are never reached.
NeedsManualReview(d) == TRUE

IntakeStatus(d) == IF NeedsManualReview(d) THEN "manual_review" ELSE "completed"

\* Mutant: the values of the INSERT are in the wrong order.
UploadStatusSwapped == "webhook"

UploadStatus == "queued"

Scan(r, d) ==
  /\ req[r].pc = "idle"
  /\ MayQuery
  /\ req' = [req EXCEPT ![r].pc = "connect", ![r].op = "scan", ![r].doc = d]
  /\ UNCHANGED <<call, faults>>
  /\ Elsewhere

\* The link names the client, the document is not read.
Upload(r, d) ==
  /\ req[r].pc = "idle"
  /\ MayQuery
  /\ clients # {}
  /\ req' = [req EXCEPT ![r].pc = "enqueue", ![r].op = "upload", ![r].doc = d]
  /\ UNCHANGED <<call, faults>>
  /\ Elsewhere

AddClient(r, n) ==
  /\ req[r].pc = "idle"
  /\ MayQuery
  /\ req' = [req EXCEPT ![r].pc = "client", ![r].op = "add"]
  /\ call' = [call EXCEPT ![r] = Begun(n)]
  /\ UNCHANGED faults
  /\ Elsewhere

AddClientEnds(r) ==
  /\ req[r].pc = "client" /\ req[r].op = "add"
  /\ call[r].pc \in {"ok", "refused"}
  /\ call[r].pc = "ok" => MayQuery
  /\ call' = [call EXCEPT ![r] = NoCall]
  /\ End(r, "done")
  /\ UNCHANGED faults
  /\ Elsewhere

\* The sync goes on with the next attachment.
AttachmentDone(r) == [req[r] EXCEPT !.pc = "attach", !.left = @ \ {req[r].doc}]

\* pool.connect() before createClientWithinPlan().
TakeConnection(r) ==
  /\ req[r].pc = "connect"
  /\ MayQuery
  /\ free' = free - 1
  /\ call' = [call EXCEPT ![r] = Begun(NipOf[req[r].doc])]
  /\ Goto(r, "client")
  /\ UNCHANGED <<clients, maxClients, lockedBy, queueVars, seen, faults>>

\* The request is about to insert a document into the queue.
MayEnqueue(r) ==
  \/ HasConnection(r) /\ call[r].pc = "ok"
  \/ req[r].pc = "enqueue" /\ MayQuery

Enqueue(r) ==
  /\ MayEnqueue(r)
  /\ status' = [status EXCEPT ![<<r, req[r].doc>>] =
                  IF req[r].op = "upload" THEN UploadStatus ELSE IntakeStatus(req[r].doc)]
  /\ call' = [call EXCEPT ![r] = NoCall]
  /\ req' = [req EXCEPT ![r] = IF req[r].op = "mail" THEN AttachmentDone(r) ELSE Ended("done")]
  /\ Release(r)
  /\ UNCHANGED <<clients, maxClients, lockedBy, booked, spilled, seen, faults>>

-----------------------------------------------------------------------------
(* POST /api/email/sync *)

SearchMail(r) ==
  /\ req[r].pc = "idle"
  /\ MayQuery
  /\ req' = [req EXCEPT ![r].pc = "next", ![r].op = "mail", ![r].todo = Messages \ seen]
  /\ UNCHANGED <<call, faults>>
  /\ Elsewhere

NextMessage(r, m) ==
  /\ req[r].pc = "next"
  /\ m \in req[r].todo
  /\ req' = [req EXCEPT ![r].pc = "attach", ![r].msg = m, ![r].left = Attached[m],
                        ![r].failed = FALSE]
  /\ UNCHANGED <<call, faults>>
  /\ Elsewhere

\* The text of the attachment is extracted.
TakeAttachment(r, d) ==
  /\ req[r].pc = "attach"
  /\ d \in req[r].left
  /\ req' = [req EXCEPT ![r].pc = "connect", ![r].doc = d]
  /\ UNCHANGED <<call, faults>>
  /\ Elsewhere

\* Mutant: messageFailed is not set.
AttachmentForgotten(r) == AttachmentDone(r)

\* The catch of the attachment loop.
AttachmentFailed(r) == [AttachmentDone(r) EXCEPT !.failed = TRUE]

\* Where a failure leaves a request that takes a document in.
IntakeEnds(r) ==
  req' = [req EXCEPT ![r] = IF req[r].op = "mail" THEN AttachmentFailed(r)
                                                  ELSE Ended("done")]

IntakeRefused(r) ==
  /\ HasConnection(r)
  /\ call[r].pc = "refused"
  /\ call' = [call EXCEPT ![r] = NoCall]
  /\ IntakeEnds(r)
  /\ Release(r)
  /\ UNCHANGED <<clients, maxClients, lockedBy, queueVars, seen, faults>>

\* The extraction, pool.connect() or the INSERT fails.
IntakeFails(r) ==
  /\ req[r].pc = "connect" \/ MayEnqueue(r)
  /\ call' = [call EXCEPT ![r] = NoCall]
  /\ IntakeEnds(r)
  /\ Release(r)
  /\ Fault
  /\ UNCHANGED <<clients, maxClients, lockedBy, queueVars, seen>>

\* An e-mail with a failed attachment stays unseen; the next sync takes all of
\* its attachments in again.
MessageDone(r) ==
  /\ req[r].pc = "attach"
  /\ req[r].left = {}
  /\ seen' = IF req[r].failed THEN seen ELSE seen \union {req[r].msg}
  /\ req' = [req EXCEPT ![r].pc = "next", ![r].todo = @ \ {req[r].msg}]
  /\ UNCHANGED <<capVars, queueVars, faults>>

SyncDone(r) ==
  /\ req[r].pc = "next"
  /\ req[r].todo = {}
  /\ End(r, "done")
  /\ UNCHANGED <<capVars, queueVars, seen, faults>>

\* The mail server fails (a download, the flag): the sync answers an error.
SyncFails(r) ==
  /\ req[r].pc = "attach"
  /\ End(r, "done")
  /\ Fault
  /\ UNCHANGED <<capVars, queueVars, seen>>

-----------------------------------------------------------------------------
(* createClientWithinPlan() in a request, the plan, crashes *)

Transaction(r) ==
  /\ CapStep(r)
  /\ UNCHANGED <<queueVars, seen, req, faults>>

TransactionFails(r) ==
  /\ CapFails(r)
  /\ Fault
  /\ UNCHANGED <<queueVars, seen, req>>

PlanChanges(limit) ==
  /\ ChangePlan(limit)
  /\ UNCHANGED <<queueVars, seen, req, faults>>

\* The portal's process dies with every request it is serving.
Crash ==
  /\ CapCrash
  /\ spilled' = [e \in Entries |-> IF Booking(e) THEN spilled[e] + 1 ELSE spilled[e]]
  /\ req' = [r \in Callers |-> IF Served(r) THEN Ended("crashed") ELSE req[r]]
  /\ Fault
  /\ UNCHANGED <<status, booked, seen>>

-----------------------------------------------------------------------------
Arrives(r) ==
  \/ \E e \in Entries, n \in Nips, valid \in BOOLEAN : Approve(r, e, n, valid)
  \/ \E e \in Entries : Reject(r, e)
  \/ \E d \in Documents : Scan(r, d) \/ Upload(r, d)
  \/ \E n \in Nips : AddClient(r, n)
  \/ SearchMail(r)

Continues(r) ==
  \/ Transaction(r)
  \/ RefuseAmounts(r) \/ BookInvoice(r) \/ CompleteEntry(r)
  \/ ClientRefused(r) \/ ReleaseClaim(r)
  \/ AddClientEnds(r) \/ TakeConnection(r) \/ Enqueue(r) \/ IntakeRefused(r)
  \/ \E m \in Messages : NextMessage(r, m)
  \/ \E d \in Documents : TakeAttachment(r, d)
  \/ MessageDone(r) \/ SyncDone(r)

Breaks(r) ==
  \/ TransactionFails(r)
  \/ RefuseAmountsFails(r) \/ BookInvoiceFails(r) \/ CompleteEntryFails(r)
  \/ ReleaseClaimFails(r) \/ IntakeFails(r) \/ SyncFails(r)

Next ==
  \/ \E r \in Callers : Arrives(r) \/ Continues(r) \/ Breaks(r)
  \/ \E limit \in Limits : PlanChanges(limit)
  \/ Crash

Spec == Init /\ [][Next]_vars

\* A request that is being served goes on.  PostgreSQL hands a row lock, and
\* the pool its connections, to those that wait in turn: none of them is passed
\* over for ever by others.
FairSpec == Spec /\ \A r \in Callers : SF_vars(Continues(r))

-----------------------------------------------------------------------------
(* Properties *)

\* The books balance: an entry's invoices are the one of its completion, the
\* one an approval inserted a moment ago, and those whose entry could not be
\* marked.  In particular two approvals of a document never both book it, a
\* rejected or waiting document has no invoice unless a statement failed, and
\* nothing is booked without an approval (app/api/ocr-queue/[id]).
BooksBalance ==
  \A e \in Entries :
    booked[e] = spilled[e] + (IF status[e] = "completed" \/ Booking(e) THEN 1 ELSE 0)

\* The claim excludes: at most one request works on an entry, and the entry
\* says so (the UPDATE ... RETURNING of app/api/ocr-queue/[id]).
ClaimExcludes ==
  \A r \in Callers, e \in Entries :
    Holds(r, e) => /\ status[e] = "processing"
                   /\ \A s \in Callers \ {r} : ~Holds(s, e)

\* An entry is left in 'processing' by nobody but a request that met a fault
\* of its own or died with the portal (app/api/ocr-queue/[id]).
OnlyFaultsStrand ==
  Cardinality({e \in Entries : status[e] = "processing" /\ \A r \in Callers : ~Holds(r, e)})
    <= faults + Cardinality({r \in Callers : req[r].pc = "crashed"})

\* No connection leaks and none is given back twice, however a request ends:
\* those that are not free belong to a transaction that is open or waits for
\* the row lock, or to a scan or sync that waits for one (lib/client-cap.ts,
\* app/api/ocr, app/api/email/sync).
ConnectionsReturned ==
  free + Cardinality({c \in Callers : Connected(c)})
       + Cardinality({r \in Callers : HasConnection(r)}) = PoolSize

\* Whoever waits for a connection waits for a transaction, which ends and gives
\* its connection back, and not only for requests that wait as well
\* (lib/client-cap.ts, lib/db.ts).
PoolMovesOn == free = 0 => \E c \in Callers : Connected(c)

\* The insert into ocr_queue or invoices that comes next finds the client its
\* foreign key names, the placeholder for an unknown number included
\* (app/api/ocr, app/api/email/sync, app/api/ocr-queue/[id]).
ForeignKeysHold ==
  \A r \in Callers : call[r].pc = "ok" => call[r].nip \in clients

\* An e-mail flagged \Seen has every attachment in the queue: nothing a sync
\* could not handle is lost (app/api/email/sync).
SeenIsStored ==
  \A m \in seen : \A d \in Attached[m] : \E r \in Callers : status[<<r, d>>] # "none"

\* The invariant behind these, conjunct by conjunct inductive: the lock names
\* the transaction that is open; what a transaction read under the lock is
\* still so; a request without a call has no open transaction; an attachment a
\* sync is done with is stored unless the sync knows it is not, and one it has
\* ahead of it is not.
LockIsHeld == \A c \in Callers : lockedBy = c <=> InTransaction(c)

ReadUnderLock ==
  \A c \in Callers :
    /\ InTransaction(c) => call[c].limit = maxClients
    /\ call[c].pc = "insert" => Cardinality(clients) < maxClients

CallsAreAwaited == \A r \in Callers : req[r].pc # "client" => call[r].pc = "idle"

\* A sync is at the attachments of an e-mail.
InMessage(r) == req[r].op = "mail" /\ req[r].pc \in {"attach", "connect", "client"}

\* Only an approval has a claim to give back.
ClaimsAreApprovals ==
  \A r \in Callers : req[r].pc \in {"refuse", "complete", "release"} => req[r].op = "approve"

SyncKnows ==
  \A r \in Callers :
    /\ req[r].pc \in {"next", "attach"} => req[r].op = "mail"
    /\ req[r].pc = "connect" => req[r].op \in {"scan", "mail"}
    /\ req[r].pc = "enqueue" => req[r].op = "upload"
    /\ InMessage(r) /\ ~req[r].failed
         => \A d \in Attached[req[r].msg] \ req[r].left : status[<<r, d>>] # "none"

\* A request has documents ahead of it that it has not inserted yet.
Ahead(r, d) ==
  \/ req[r].pc = "idle"
  \/ req[r].pc = "enqueue" /\ d = req[r].doc
  \/ req[r].pc \in {"connect", "client"} /\ req[r].op = "scan" /\ d = req[r].doc
  \/ InMessage(r) /\ d \in req[r].left
  \/ InMessage(r) /\ \E m \in req[r].todo \ {req[r].msg} : d \in Attached[m]
  \/ req[r].pc = "next" /\ \E m \in req[r].todo : d \in Attached[m]

InsertsAreNew ==
  \A r \in Callers :
    /\ \A d \in Documents : Ahead(r, d) => status[<<r, d>>] = "none"
    /\ InMessage(r) => req[r].left \subseteq Attached[req[r].msg]
    /\ req[r].op = "mail" /\ req[r].pc \in {"connect", "client"} => req[r].doc \in req[r].left

IInv ==
  /\ TypeOK
  /\ LockIsHeld
  /\ ReadUnderLock
  /\ CallsAreAwaited
  /\ ForeignKeysHold
  /\ ClaimExcludes
  /\ BooksBalance
  /\ ClaimsAreApprovals
  /\ SyncKnows
  /\ InsertsAreNew
  /\ SeenIsStored

\* Concurrent requests never add a client beyond the plan in force, whoever
\* else adds clients and however the plan changes (lib/client-cap.ts).
GrowsWithinCap ==
  [][clients' # clients => Cardinality(clients') <= maxClients]_vars

\* An entry in 'processing' is decided or released as long as its request is
\* not cut off: no wait for the firm's row lock is endless.
ClaimEnds ==
  \A e \in Entries :
    status[e] = "processing"
      ~> (status[e] # "processing" \/ \A r \in Callers : ~Holds(r, e))

\* lib/client-cap.ts:27-29: the row lock "serializes every cap-aware client
\* creation path while keeping unrelated firms fully concurrent": a creation may
\* wait for others, but not for ever.
CreationEnds ==
  \A c \in Callers : call[c].pc = "connect" ~> call[c].pc \in {"ok", "refused", "idle"}

=============================================================================
