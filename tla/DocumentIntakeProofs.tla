------------------------- MODULE DocumentIntakeProofs -------------------------
(***************************************************************************)
(* Proofs about DocumentIntake for any number of requests, documents,      *)
(* clients and e-mails, any plan and any number of faults.                 *)
(***************************************************************************)
EXTENDS DocumentIntake, TLAPS, FiniteSetTheorems

-----------------------------------------------------------------------------
(* Types *)

LEMMA BlankType ==
  /\ NoCall \in Call /\ NoCall.pc = "idle"
  /\ \A n \in Nips : Begun(n) \in Call /\ Begun(n).pc = "connect" /\ Begun(n).nip = n
<1>1. (CHOOSE n \in Nips : TRUE) \in Nips
  BY CapAssumption
<1> QED
  BY <1>1 DEF NoCall, Begun, Call

LEMMA EndedType ==
  /\ Blank \in Request /\ Blank.pc = "idle" /\ Blank.op = "add"
  /\ \A pc \in {"done", "crashed"} :
       Ended(pc) \in Request /\ Ended(pc).pc = pc /\ Ended(pc).op = "add"
<1>1. (CHOOSE d \in Documents : TRUE) \in Documents /\ (CHOOSE m \in Messages : TRUE) \in Messages
  BY IntakeAssumption
<1>2. <<None, CHOOSE d \in Documents : TRUE>> \in Entries
  BY <1>1 DEF Entries
<1>3. (CHOOSE e \in Entries : TRUE) \in Entries
  BY <1>2
<1> QED
  BY <1>1, <1>3 DEF Blank, Ended, Request

LEMMA OverType == OverTheCap = "refused" /\ UploadStatus = "queued"
                  /\ \A d \in Documents : IntakeStatus(d) = "manual_review"
  BY DEF OverTheCap, UploadStatus, IntakeStatus, NeedsManualReview

LEMMA TypeInit == Init => TypeOK
<1> SUFFICES ASSUME Init PROVE TypeOK
  OBVIOUS
<1>1. CapTypeOK
  BY CapAssumption, BlankType DEF Init, CapInit, CapTypeOK
<1>2. status \in [Entries -> Statuses] /\ booked \in [Entries -> Nat] /\ spilled \in [Entries -> Nat]
  BY DEF Init, Statuses
<1>3. seen \subseteq Messages /\ req \in [Callers -> Request] /\ faults \in 0..MaxFaults
  BY EndedType, IntakeAssumption DEF Init
<1> QED
  BY <1>1, <1>2, <1>3 DEF TypeOK

\* What the steps do to the tables of ClientCap: the transaction of one caller
\* moves on or breaks off, or only the call of a request with no open
\* transaction begins or ends.
CallChange(r) ==
  /\ UNCHANGED <<clients, maxClients, lockedBy>>
  /\ free' \in Nat
  /\ ~InTransaction(r)
  /\ \/ UNCHANGED call
     \/ call' = [call EXCEPT ![r] = NoCall]
     \/ \E n \in Nips : call' = [call EXCEPT ![r] = Begun(n)]

CapShape(r) == CapStep(r) \/ CapFails(r) \/ CallChange(r)

LEMMA ShapeOfCap ==
  ASSUME IInv, NEW r \in Callers, Arrives(r) \/ Continues(r) \/ Breaks(r)
  PROVE  CapShape(r)
<1> USE DEF CapShape
<1>0. /\ req[r].pc # "client" => ~InTransaction(r)
      /\ call[r].pc \in {"ok", "refused"} => ~InTransaction(r)
      /\ NipOf[req[r].doc] \in Nips /\ \A d \in Documents : NipOf[d] \in Nips
      /\ call \in [Callers -> Call]
      /\ free \in Nat /\ (MayQuery => free - 1 \in Nat)
  BY IntakeAssumption DEF IInv, CallsAreAwaited, InTransaction, TypeOK, CapTypeOK, Request, MayQuery
<1>1. CASE Arrives(r)
  <2>1. ASSUME NEW e \in Entries, NEW n \in Nips, NEW v \in BOOLEAN, Approve(r, e, n, v)
        PROVE  CallChange(r)
    <3>1. CASE v
      BY <1>0, <2>1, <3>1 DEF Approve, CallChange
    <3>2. CASE ~v
      BY <1>0, <2>1, <3>2 DEF Approve, CallChange
    <3> QED
      BY <3>1, <3>2
  <2>2. ASSUME NEW e \in Entries, Reject(r, e) PROVE CallChange(r)
    BY <1>0, <2>2 DEF Reject, CallChange, capVars
  <2>3. ASSUME NEW d \in Documents, Scan(r, d) \/ Upload(r, d) PROVE CallChange(r)
    BY <1>0, <2>3 DEF Scan, Upload, CallChange, Elsewhere
  <2>4. ASSUME NEW n \in Nips, AddClient(r, n) PROVE CallChange(r)
    BY <1>0, <2>4 DEF AddClient, CallChange, Elsewhere
  <2>5. ASSUME SearchMail(r) PROVE CallChange(r)
    BY <1>0, <2>5 DEF SearchMail, CallChange, Elsewhere
  <2> QED
    BY <1>1, <2>1, <2>2, <2>3, <2>4, <2>5 DEF Arrives
<1>2. CASE Continues(r)
  <2>1. ASSUME Transaction(r) PROVE CapStep(r)
    BY <2>1 DEF Transaction
  <2>2. ASSUME RefuseAmounts(r) \/ CompleteEntry(r) \/ ReleaseClaim(r) \/ MessageDone(r) \/ SyncDone(r)
        PROVE  CallChange(r)
    BY <1>0, <2>2 DEF RefuseAmounts, CompleteEntry, ReleaseClaim, MessageDone, SyncDone, CallChange, capVars
  <2>3. ASSUME BookInvoice(r) \/ ClientRefused(r) \/ AddClientEnds(r) \/ IntakeRefused(r)
        PROVE  CallChange(r)
    BY <1>0, <2>3 DEF BookInvoice, ClientRefused, AddClientEnds, IntakeRefused, Elsewhere, CallChange, Release
  <2>4. ASSUME Enqueue(r) \/ TakeConnection(r) PROVE CallChange(r)
    BY <1>0, <2>4 DEF Enqueue, MayEnqueue, TakeConnection, HasConnection, Release, CallChange
  <2>5. ASSUME NEW m \in Messages, NextMessage(r, m) PROVE CallChange(r)
    BY <1>0, <2>5 DEF NextMessage, Elsewhere, CallChange
  <2>6. ASSUME NEW d \in Documents, TakeAttachment(r, d) PROVE CallChange(r)
    BY <1>0, <2>6 DEF TakeAttachment, Elsewhere, CallChange
  <2> QED
    BY <1>2, <2>1, <2>2, <2>3, <2>4, <2>5, <2>6 DEF Continues
<1>3. CASE Breaks(r)
  <2>1. ASSUME TransactionFails(r) PROVE CapFails(r)
    BY <2>1 DEF TransactionFails
  <2>3. ASSUME RefuseAmountsFails(r) \/ CompleteEntryFails(r) \/ ReleaseClaimFails(r) \/ SyncFails(r)
        PROVE  CallChange(r)
    BY <1>0, <2>3 DEF RefuseAmountsFails, CompleteEntryFails, ReleaseClaimFails, SyncFails, CallChange, capVars
  <2>4. ASSUME BookInvoiceFails(r) PROVE CallChange(r)
    BY <1>0, <2>4 DEF BookInvoiceFails, Elsewhere, CallChange
  <2>5. ASSUME IntakeFails(r) PROVE CallChange(r)
    BY <1>0, <2>5 DEF IntakeFails, MayEnqueue, HasConnection, Release, CallChange
  <2> QED
    BY <1>3, <2>1, <2>3, <2>4, <2>5 DEF Breaks
<1> QED
  BY <1>1, <1>2, <1>3

LEMMA TypeOfCap ==
  ASSUME CapTypeOK, NEW r \in Callers, CapShape(r)
  PROVE  CapTypeOK'
<1> USE DEF CapTypeOK
<1>0. call[r] \in Call /\ maxClients \in Nat /\ free \in Nat
  BY CapAssumption
<1>6. CASE Connect(r)
  BY <1>0, <1>6 DEF Connect, MayQuery, Call
<1>1. CASE LockFirm(r)
  BY <1>0, <1>1 DEF LockFirm, Call
<1>2. CASE FindExisting(r)
  BY <1>0, <1>2 DEF FindExisting, Commit, Call
<1>3. CASE CountClients(r)
  BY <1>0, <1>3, OverType DEF CountClients, Rollback, Call
<1>4. CASE InsertClient(r)
  BY <1>0, <1>4 DEF InsertClient, Commit, Call
<1>5. CASE CapFails(r)
  BY <1>0, <1>5 DEF CapFails, Rollback, Call
<1>7. CASE CallChange(r)
  BY <1>0, <1>7, BlankType DEF CallChange
<1> QED
  BY <1>1, <1>2, <1>3, <1>4, <1>5, <1>6, <1>7 DEF CapShape, CapStep

\* Every step of a request leaves it with well-typed variables.
LEMMA TypeOfRequest ==
  ASSUME TypeOK, NEW r \in Callers, Arrives(r) \/ Continues(r) \/ Breaks(r)
  PROVE  /\ req' \in [Callers -> Request]
         /\ \A s \in Callers \ {r} : req'[s] = req[s]
<1> DEFINE Moved == \E v \in Request : req' = [req EXCEPT ![r] = v]
<1> SUFFICES Moved
  BY DEF TypeOK
<1>0. req[r] \in Request /\ req \in [Callers -> Request]
  BY DEF TypeOK
<1>1. UNCHANGED req => Moved
  BY <1>0
<1>2. \A pc \in {"client", "complete", "release"} : Goto(r, pc) => Moved
  <2> SUFFICES ASSUME NEW pc \in {"client", "complete", "release"}, Goto(r, pc) PROVE Moved
    OBVIOUS
  <2>1. [req[r] EXCEPT !.pc = pc] \in Request
    BY <1>0 DEF Request
  <2>2. req' = [req EXCEPT ![r] = [req[r] EXCEPT !.pc = pc]]
    BY <1>0 DEF Goto
  <2> QED
    BY <2>1, <2>2
<1>3. \A pc \in {"done", "crashed"} : End(r, pc) => Moved
  BY EndedType DEF End
<1>4. CASE Arrives(r)
  <2>1. ASSUME NEW e \in Entries, NEW n \in Nips, NEW v \in BOOLEAN, Approve(r, e, n, v) PROVE Moved
    <3>1. [req[r] EXCEPT !.pc = IF v THEN "client" ELSE "refuse", !.op = "approve", !.entry = e] \in Request
      BY <1>0 DEF Request
    <3> QED
      BY <1>0, <2>1, <3>1 DEF Approve
  <2>2. ASSUME NEW e \in Entries, Reject(r, e) PROVE Moved
    BY <1>3, <2>2 DEF Reject
  <2>3. ASSUME NEW d \in Documents, Scan(r, d) PROVE Moved
    <3>1. [req[r] EXCEPT !.pc = "connect", !.op = "scan", !.doc = d] \in Request
      BY <1>0 DEF Request
    <3> QED
      BY <1>0, <2>3, <3>1 DEF Scan
  <2>4. ASSUME NEW d \in Documents, Upload(r, d) PROVE Moved
    <3>1. [req[r] EXCEPT !.pc = "enqueue", !.op = "upload", !.doc = d] \in Request
      BY <1>0 DEF Request
    <3> QED
      BY <1>0, <2>4, <3>1 DEF Upload
  <2>5. ASSUME NEW n \in Nips, AddClient(r, n) PROVE Moved
    <3>1. [req[r] EXCEPT !.pc = "client", !.op = "add"] \in Request
      BY <1>0 DEF Request
    <3> QED
      BY <1>0, <2>5, <3>1 DEF AddClient
  <2>6. ASSUME SearchMail(r) PROVE Moved
    <3>1. [req[r] EXCEPT !.pc = "next", !.op = "mail", !.todo = Messages \ seen] \in Request
      BY <1>0 DEF Request
    <3> QED
      BY <1>0, <2>6, <3>1 DEF SearchMail
  <2> QED
    BY <1>4, <2>1, <2>2, <2>3, <2>4, <2>5, <2>6 DEF Arrives
<1>5. CASE Continues(r)
  <2>1. ASSUME Transaction(r) PROVE Moved
    BY <1>1, <2>1 DEF Transaction
  <2>2. ASSUME RefuseAmounts(r) \/ CompleteEntry(r) \/ ReleaseClaim(r) \/ AddClientEnds(r) \/ SyncDone(r)
        PROVE  Moved
    BY <1>3, <2>2 DEF RefuseAmounts, CompleteEntry, ReleaseClaim, AddClientEnds, SyncDone
  <2>3. ASSUME BookInvoice(r) \/ ClientRefused(r) \/ TakeConnection(r) PROVE Moved
    BY <1>2, <2>3 DEF BookInvoice, ClientRefused, TakeConnection
  <2>4. ASSUME Enqueue(r) PROVE Moved
    <3>1. AttachmentDone(r) \in Request
      BY <1>0 DEF AttachmentDone, Request
    <3> QED
      BY <1>0, <2>4, <3>1, EndedType DEF Enqueue
  <2>5. ASSUME IntakeRefused(r) PROVE Moved
    <3>1. AttachmentFailed(r) \in Request
      BY <1>0 DEF AttachmentFailed, AttachmentDone, Request
    <3> QED
      BY <1>0, <2>5, <3>1, EndedType DEF IntakeRefused, IntakeEnds
  <2>6. ASSUME NEW m \in Messages, NextMessage(r, m) PROVE Moved
    <3>1. [req[r] EXCEPT !.pc = "attach", !.msg = m, !.left = Attached[m], !.failed = FALSE] \in Request
      BY <1>0, IntakeAssumption DEF Request
    <3> QED
      BY <1>0, <2>6, <3>1 DEF NextMessage
  <2>7. ASSUME NEW d \in Documents, TakeAttachment(r, d) PROVE Moved
    <3>1. [req[r] EXCEPT !.pc = "connect", !.doc = d] \in Request
      BY <1>0 DEF Request
    <3> QED
      BY <1>0, <2>7, <3>1 DEF TakeAttachment
  <2>8. ASSUME MessageDone(r) PROVE Moved
    <3>1. [req[r] EXCEPT !.pc = "next", !.todo = @ \ {req[r].msg}] \in Request
      BY <1>0 DEF Request
    <3> QED
      BY <1>0, <2>8, <3>1 DEF MessageDone
  <2> QED
    BY <1>5, <2>1, <2>2, <2>3, <2>4, <2>5, <2>6, <2>7, <2>8 DEF Continues
<1>6. CASE Breaks(r)
  <2>1. ASSUME TransactionFails(r) PROVE Moved
    BY <1>1, <2>1 DEF TransactionFails
  <2>2. ASSUME RefuseAmountsFails(r) \/ ReleaseClaimFails(r) \/ SyncFails(r) PROVE Moved
    BY <1>3, <2>2 DEF RefuseAmountsFails, ReleaseClaimFails, SyncFails
  <2>3. ASSUME BookInvoiceFails(r) \/ CompleteEntryFails(r) PROVE Moved
    BY <1>2, <2>3 DEF BookInvoiceFails, CompleteEntryFails
  <2>4. ASSUME IntakeFails(r) PROVE Moved
    <3>1. AttachmentFailed(r) \in Request
      BY <1>0 DEF AttachmentFailed, AttachmentDone, Request
    <3> QED
      BY <1>0, <2>4, <3>1, EndedType DEF IntakeFails, IntakeEnds
  <2> QED
    BY <1>6, <2>1, <2>2, <2>3, <2>4 DEF Breaks
<1> QED
  BY <1>4, <1>5, <1>6

LEMMA TypeStep == TypeOK /\ IInv /\ [Next]_vars => TypeOK'
<1> SUFFICES ASSUME TypeOK, IInv, [Next]_vars PROVE TypeOK'
  OBVIOUS
<1> USE IntakeAssumption
<1>1. ASSUME NEW r \in Callers, Arrives(r) \/ Continues(r) \/ Breaks(r)
      PROVE  TypeOK'
  <2>0. /\ req[r] \in Request /\ req[r].entry \in Entries /\ <<r, req[r].doc>> \in Entries
        /\ status \in [Entries -> Statuses] /\ booked \in [Entries -> Nat] /\ spilled \in [Entries -> Nat]
        /\ seen \subseteq Messages /\ faults \in 0..MaxFaults
    BY DEF TypeOK, Request, Entries
  <2>1. CapTypeOK' /\ req' \in [Callers -> Request]
    BY <1>1, ShapeOfCap, TypeOfCap, TypeOfRequest DEF TypeOK
  <2>2. Fault => faults' \in 0..MaxFaults
    BY <2>0 DEF Fault
  <2> DEFINE Tables == /\ status' \in [Entries -> Statuses] /\ booked' \in [Entries -> Nat]
                       /\ spilled' \in [Entries -> Nat] /\ seen' \subseteq Messages
                       /\ faults' \in 0..MaxFaults
  <2>3. CASE Arrives(r)
    <3>1. ASSUME NEW e \in Entries, NEW n \in Nips, NEW v \in BOOLEAN, Approve(r, e, n, v) \/ Reject(r, e)
          PROVE  Tables
      BY <2>0, <3>1 DEF Approve, Reject, Statuses
    <3>2. ASSUME NEW d \in Documents, NEW n \in Nips, Scan(r, d) \/ Upload(r, d) \/ AddClient(r, n)
          PROVE  Tables
      BY <2>0, <3>2 DEF Scan, Upload, AddClient, Elsewhere, queueVars
    <3>3. ASSUME SearchMail(r) PROVE Tables
      BY <2>0, <3>3 DEF SearchMail, Elsewhere, queueVars
    <3>4. (\E n \in Nips : TRUE) /\ (\E v \in BOOLEAN : TRUE)
      BY CapAssumption
    <3> QED
      BY <2>1, <2>3, <3>1, <3>2, <3>3, <3>4 DEF Arrives, TypeOK
  <2>4. CASE Continues(r)
    <3>1. ASSUME RefuseAmounts(r) \/ CompleteEntry(r) \/ ReleaseClaim(r) PROVE Tables
      BY <2>0, <3>1 DEF RefuseAmounts, CompleteEntry, ReleaseClaim, Statuses
    <3>2. ASSUME BookInvoice(r) PROVE Tables
      BY <2>0, <3>2 DEF BookInvoice
    <3>3. ASSUME Transaction(r) \/ ClientRefused(r) \/ AddClientEnds(r) \/ IntakeRefused(r) \/ SyncDone(r)
                 \/ TakeConnection(r)
          PROVE  Tables
      BY <2>0, <3>3 DEF Transaction, ClientRefused, AddClientEnds, IntakeRefused, SyncDone, TakeConnection,
         Elsewhere, queueVars
    <3>4. ASSUME Enqueue(r) PROVE Tables
      <4>1. IntakeStatus(req[r].doc) \in Statuses /\ UploadStatus \in Statuses
        BY <2>0, OverType DEF Statuses, Request
      <4> QED
        BY <2>0, <3>4, <4>1 DEF Enqueue
    <3>5. ASSUME MessageDone(r) PROVE Tables
      BY <2>0, <3>5 DEF MessageDone, queueVars, Request
    <3>6. ASSUME NEW m \in Messages, NextMessage(r, m) PROVE Tables
      BY <2>0, <3>6 DEF NextMessage, Elsewhere, queueVars
    <3>7. ASSUME NEW d \in Documents, TakeAttachment(r, d) PROVE Tables
      BY <2>0, <3>7 DEF TakeAttachment, Elsewhere, queueVars
    <3> QED
      BY <2>1, <2>4, <3>1, <3>2, <3>3, <3>4, <3>5, <3>6, <3>7 DEF Continues, TypeOK
  <2>5. CASE Breaks(r)
    <3>1. ASSUME \/ TransactionFails(r) \/ RefuseAmountsFails(r) \/ BookInvoiceFails(r)
                 \/ ReleaseClaimFails(r) \/ IntakeFails(r) \/ SyncFails(r)
          PROVE  Tables
      BY <2>0, <2>2, <3>1 DEF TransactionFails, RefuseAmountsFails, BookInvoiceFails,
         ReleaseClaimFails, IntakeFails, SyncFails, Elsewhere, queueVars
    <3>2. ASSUME CompleteEntryFails(r) PROVE Tables
      BY <2>0, <2>2, <3>2 DEF CompleteEntryFails
    <3> QED
      BY <2>1, <2>5, <3>1, <3>2 DEF Breaks, TypeOK
  <2> QED
    BY <1>1, <2>3, <2>4, <2>5
<1>2. ASSUME NEW limit \in Limits, PlanChanges(limit) PROVE TypeOK'
  BY <1>2 DEF PlanChanges, ChangePlan, queueVars, TypeOK, CapTypeOK
<1>3. CASE UNCHANGED vars
  BY <1>3 DEF vars, capVars, TypeOK, CapTypeOK
<1>4. CASE Crash
  <2>1. CapTypeOK'
    BY <1>4, BlankType, CapAssumption DEF Crash, CapCrash, TypeOK, CapTypeOK
  <2>2. req' \in [Callers -> Request] /\ spilled' \in [Entries -> Nat] /\ faults' \in 0..MaxFaults
    BY <1>4, EndedType DEF Crash, Fault, TypeOK
  <2> QED
    BY <1>4, <2>1, <2>2 DEF Crash, TypeOK
<1> QED
  BY <1>1, <1>2, <1>3, <1>4 DEF Next

-----------------------------------------------------------------------------
(* The firm's row lock *)

CapFacts == LockIsHeld /\ ReadUnderLock /\ ForeignKeysHold

LEMMA ClientsAreFinite ==
  ASSUME CapTypeOK
  PROVE  IsFiniteSet(clients) /\ Cardinality(clients) \in Nat /\ maxClients \in Nat
<1>1. IsFiniteSet(clients)
  BY CapAssumption, FS_Subset DEF CapTypeOK
<1>2. Cardinality(clients) \in Nat
  BY <1>1, FS_CardinalityType
<1> QED
  BY <1>1, <1>2, CapAssumption DEF CapTypeOK

\* Only the control state of r's call changes.
CallTo(r, pc) ==
  /\ call'[r].pc = pc /\ call'[r].nip = call[r].nip /\ call'[r].limit = call[r].limit
  /\ \A c \in Callers \ {r} : call'[c] = call[c]

LEMMA FindEffect ==
  ASSUME CapTypeOK, NEW r \in Callers, FindExisting(r)
  PROVE  /\ call[r].pc = "existing" /\ clients' = clients /\ maxClients' = maxClients
         /\ \/ call[r].nip \in clients /\ lockedBy' = None /\ free' = free + 1 /\ CallTo(r, "ok")
            \/ lockedBy' = lockedBy /\ free' = free /\ CallTo(r, "count")
<1>1. call \in [Callers -> Call] /\ call[r] \in Call
  BY DEF CapTypeOK
<1>2. \A pc \in {"ok", "count"} : call' = [call EXCEPT ![r].pc = pc] => CallTo(r, pc)
  BY <1>1 DEF CallTo, Call
<1>3. CASE call[r].nip \in clients
  BY <1>2, <1>3 DEF FindExisting, Commit
<1>4. CASE call[r].nip \notin clients
  BY <1>2, <1>4 DEF FindExisting
<1> QED
  BY <1>3, <1>4

LEMMA CountEffect ==
  ASSUME CapTypeOK, NEW r \in Callers, CountClients(r)
  PROVE  /\ call[r].pc = "count" /\ clients' = clients /\ maxClients' = maxClients
         /\ \/ lockedBy' = None /\ free' = free + 1 /\ CallTo(r, "refused")
            \/ /\ Cardinality(clients) < call[r].limit /\ CallTo(r, "insert")
               /\ lockedBy' = lockedBy /\ free' = free
<1>1. call \in [Callers -> Call] /\ call[r] \in Call /\ call[r].limit \in Nat /\ Cardinality(clients) \in Nat
  BY ClientsAreFinite DEF CapTypeOK, Call
<1>2. \A pc \in {"refused", "insert"} : call' = [call EXCEPT ![r].pc = pc] => CallTo(r, pc)
  BY <1>1 DEF CallTo, Call
<1>3. CASE Cardinality(clients) >= call[r].limit
  BY <1>2, <1>3, OverType DEF CountClients, Rollback
<1>4. CASE ~(Cardinality(clients) >= call[r].limit)
  BY <1>1, <1>2, <1>4 DEF CountClients
<1> QED
  BY <1>3, <1>4

LEMMA LockStep ==
  ASSUME CapTypeOK, CapFacts, NEW r \in Callers, CapShape(r)
  PROVE  CapFacts'
<1> USE DEF CapFacts
<1>0. /\ None \notin Callers /\ call \in [Callers -> Call]
      /\ Cardinality(clients) \in Nat /\ maxClients \in Nat
      /\ \A c \in Callers : call[c].limit \in Nat
  BY CapAssumption, ClientsAreFinite DEF CapTypeOK, Call
<1>1. LockIsHeld'
  <2> USE <1>0 DEF LockIsHeld, InTransaction
  <2>1. CASE LockFirm(r)
    BY <2>1 DEF LockFirm, MayLock
  <2>2. CASE FindExisting(r)
    BY <2>2, FindEffect DEF CallTo
  <2>3. CASE CountClients(r)
    BY <2>3, CountEffect DEF CallTo
  <2>4. CASE InsertClient(r)
    BY <2>4 DEF InsertClient, Commit
  <2>5. CASE CapFails(r)
    BY <2>5 DEF CapFails, Rollback
  <2>6. CASE Connect(r)
    BY <2>6 DEF Connect
  <2>7. CASE CallChange(r)
    BY <2>7, BlankType DEF CallChange
  <2> QED
    BY <2>1, <2>2, <2>3, <2>4, <2>5, <2>6, <2>7 DEF CapShape, CapStep
<1>2. ReadUnderLock'
  <2> USE <1>0 DEF ReadUnderLock, InTransaction
  <2>1. CASE LockFirm(r)
    BY <2>1 DEF LockFirm
  <2>2. CASE FindExisting(r)
    BY <2>2, FindEffect DEF CallTo
  <2>3. CASE CountClients(r)
    BY <2>3, CountEffect DEF CallTo
  <2>4. CASE InsertClient(r)
    <3>1. \A c \in Callers \ {r} : ~InTransaction(c)
      BY <2>4 DEF InsertClient, LockIsHeld
    <3> QED
      BY <2>4, <3>1 DEF InsertClient
  <2>5. CASE CapFails(r)
    BY <2>5 DEF CapFails, Rollback
  <2>6. CASE Connect(r)
    BY <2>6 DEF Connect
  <2>7. CASE CallChange(r)
    BY <2>7, BlankType DEF CallChange
  <2> QED
    BY <2>1, <2>2, <2>3, <2>4, <2>5, <2>6, <2>7 DEF CapShape, CapStep
<1>3. ForeignKeysHold'
  <2> USE <1>0 DEF ForeignKeysHold
  <2>1. CASE LockFirm(r)
    BY <2>1 DEF LockFirm
  <2>2. CASE FindExisting(r)
    BY <2>2, FindEffect DEF CallTo
  <2>3. CASE CountClients(r)
    BY <2>3, CountEffect DEF CallTo
  <2>4. CASE InsertClient(r)
    BY <2>4 DEF InsertClient, Commit
  <2>5. CASE CapFails(r)
    BY <2>5 DEF CapFails, Rollback
  <2>6. CASE Connect(r)
    BY <2>6 DEF Connect
  <2>7. CASE CallChange(r)
    BY <2>7, BlankType DEF CallChange
  <2> QED
    BY <2>1, <2>2, <2>3, <2>4, <2>5, <2>6, <2>7 DEF CapShape, CapStep
<1> QED
  BY <1>1, <1>2, <1>3

LEMMA PlanStep ==
  ASSUME CapTypeOK, CapFacts, NEW limit \in Limits, ChangePlan(limit)
  PROVE  CapFacts'
<1>1. \A c \in Callers : ~InTransaction(c)
  BY CapAssumption DEF ChangePlan, CapFacts, LockIsHeld
<1> QED
  BY <1>1 DEF ChangePlan, CapFacts, LockIsHeld, ReadUnderLock, ForeignKeysHold, InTransaction

-----------------------------------------------------------------------------
(* The requests *)

Moves(r) == Arrives(r) \/ Continues(r) \/ Breaks(r)

\* A call is begun by the step that waits for it and ended by the next one.
LEMMA AwaitedStep ==
  ASSUME IInv, NEW r \in Callers, Moves(r)
  PROVE  CallsAreAwaited'
<1> USE DEF CallsAreAwaited
<1>0. /\ call \in [Callers -> Call] /\ req \in [Callers -> Request] /\ CallsAreAwaited
      /\ \A s \in Callers \ {r} : req'[s] = req[s]
  BY TypeOfRequest DEF Moves, IInv, TypeOK, CapTypeOK
<1>1. ASSUME NEW n \in Nips, call' = [call EXCEPT ![r] = Begun(n)], req'[r].pc = "client"
      PROVE  CallsAreAwaited'
  BY <1>0, <1>1
<1>2. (call' = [call EXCEPT ![r] = NoCall]) => CallsAreAwaited'
  BY <1>0, BlankType
<1>3. req[r].pc # "client" /\ UNCHANGED call => CallsAreAwaited'
  BY <1>0
<1>4. UNCHANGED req /\ (\A s \in Callers \ {r} : call'[s] = call[s]) /\ call[r].pc # "idle"
        => CallsAreAwaited'
  BY <1>0
<1>5. CASE Arrives(r)
  <2>1. ASSUME NEW e \in Entries, NEW n \in Nips, NEW v \in BOOLEAN, Approve(r, e, n, v)
        PROVE  CallsAreAwaited'
    <3>1. CASE v
      BY <1>0, <1>1, <2>1, <3>1 DEF Approve
    <3>2. CASE ~v
      BY <1>0, <1>3, <2>1, <3>2 DEF Approve
    <3> QED
      BY <3>1, <3>2
  <2>2. ASSUME NEW e \in Entries, Reject(r, e) PROVE CallsAreAwaited'
    BY <1>3, <2>2 DEF Reject, capVars
  <2>3. ASSUME NEW d \in Documents, Scan(r, d) PROVE CallsAreAwaited'
    BY <1>3, <2>3 DEF Scan
  <2>4. ASSUME NEW d \in Documents, Upload(r, d) PROVE CallsAreAwaited'
    BY <1>3, <2>4 DEF Upload
  <2>5. ASSUME NEW n \in Nips, AddClient(r, n) PROVE CallsAreAwaited'
    BY <1>0, <1>1, <2>5 DEF AddClient
  <2>6. ASSUME SearchMail(r) PROVE CallsAreAwaited'
    BY <1>3, <2>6 DEF SearchMail
  <2> QED
    BY <1>5, <2>1, <2>2, <2>3, <2>4, <2>5, <2>6 DEF Arrives
<1>6. CASE Continues(r)
  <2>1. ASSUME Transaction(r) PROVE CallsAreAwaited'
    BY <1>0, <1>4, <2>1 DEF Transaction, CapStep, Connect, LockFirm, FindExisting, CountClients, InsertClient
  <2>2. ASSUME RefuseAmounts(r) \/ CompleteEntry(r) \/ ReleaseClaim(r) \/ MessageDone(r) \/ SyncDone(r)
        PROVE  CallsAreAwaited'
    BY <1>3, <2>2 DEF RefuseAmounts, CompleteEntry, ReleaseClaim, MessageDone, SyncDone, capVars
  <2>3. ASSUME \/ BookInvoice(r) \/ ClientRefused(r) \/ AddClientEnds(r) \/ IntakeRefused(r) \/ Enqueue(r)
        PROVE  CallsAreAwaited'
    BY <1>2, <2>3 DEF BookInvoice, ClientRefused, AddClientEnds, IntakeRefused, Enqueue
  <2>4. ASSUME NEW m \in Messages, NextMessage(r, m) PROVE CallsAreAwaited'
    BY <1>3, <2>4 DEF NextMessage
  <2>5. ASSUME NEW d \in Documents, TakeAttachment(r, d) PROVE CallsAreAwaited'
    BY <1>3, <2>5 DEF TakeAttachment
  <2>6. ASSUME TakeConnection(r) PROVE CallsAreAwaited'
    <3>1. NipOf[req[r].doc] \in Nips /\ req'[r].pc = "client"
      BY <1>0, <2>6, IntakeAssumption DEF TakeConnection, Goto, Request
    <3> QED
      BY <1>1, <2>6, <3>1 DEF TakeConnection
  <2> QED
    BY <1>6, <2>1, <2>2, <2>3, <2>4, <2>5, <2>6 DEF Continues
<1>7. CASE Breaks(r)
  <2>1. ASSUME TransactionFails(r) PROVE CallsAreAwaited'
    BY <1>0, <1>4, <2>1 DEF TransactionFails, CapFails, InTransaction
  <2>2. ASSUME RefuseAmountsFails(r) \/ CompleteEntryFails(r) \/ ReleaseClaimFails(r) \/ SyncFails(r)
        PROVE  CallsAreAwaited'
    BY <1>3, <2>2 DEF RefuseAmountsFails, CompleteEntryFails, ReleaseClaimFails, SyncFails, capVars
  <2>3. ASSUME BookInvoiceFails(r) \/ IntakeFails(r) PROVE CallsAreAwaited'
    BY <1>2, <2>3 DEF BookInvoiceFails, IntakeFails
  <2> QED
    BY <1>7, <2>1, <2>2, <2>3 DEF Breaks
<1> QED
  BY <1>5, <1>6, <1>7 DEF Moves

ClaimFacts == ClaimExcludes /\ BooksBalance

\* A step that leaves the queue alone and claims nothing.
Quiet(r) ==
  /\ UNCHANGED queueVars
  /\ \A e \in Entries : Holds(r, e)' => Holds(r, e)
  /\ req[r].pc # "complete" /\ req'[r].pc # "complete"

LEMMA QuietStep ==
  ASSUME ClaimFacts, NEW r \in Callers, Quiet(r), \A s \in Callers \ {r} : req'[s] = req[s]
  PROVE  ClaimFacts'
<1>1. ClaimExcludes'
  BY DEF ClaimFacts, ClaimExcludes, Quiet, queueVars, Holds
<1>2. \A e \in Entries : Booking(e)' <=> Booking(e)
  BY DEF Quiet, Booking, Holds
<1>3. BooksBalance'
  BY <1>2 DEF ClaimFacts, BooksBalance, Quiet, queueVars
<1> QED
  BY <1>1, <1>3 DEF ClaimFacts

\* The books of x balance before a step of its holder r ...
KeptBefore(r, x) == booked[x] = spilled[x] + (IF req[r].pc = "complete" THEN 1 ELSE 0)

\* ... and after it.
KeptAfter(r, x) ==
  booked'[x] = spilled'[x]
    + (IF status'[x] = "completed" \/ (Holds(r, x)' /\ req'[r].pc = "complete") THEN 1 ELSE 0)

\* A request moves on with the entry x it holds, or lets go of it: x alone
\* changes, and its books are kept.
LEMMA HolderStep ==
  ASSUME ClaimFacts, TypeOK, NEW r \in Callers, NEW x \in Entries, Holds(r, x),
         \A s \in Callers \ {r} : req'[s] = req[s],
         \A e \in Entries \ {x} : /\ status'[e] = status[e] /\ booked'[e] = booked[e]
                                 /\ spilled'[e] = spilled[e] /\ ~Holds(r, e)',
         Holds(r, x)' => status'[x] = "processing",
         KeptBefore(r, x) => KeptAfter(r, x)
  PROVE  ClaimFacts'
<1>1. /\ status[x] = "processing" /\ \A s \in Callers \ {r} : ~Holds(s, x) /\ ~Holds(s, x)'
      /\ \A e \in Entries \ {x} : ~Holds(r, e)
  BY DEF ClaimFacts, ClaimExcludes, Holds
<1>2. \A s \in Callers \ {r}, e \in Entries : Holds(s, e)' <=> Holds(s, e)
  BY DEF Holds
<1>3. ClaimExcludes'
  BY <1>1, <1>2 DEF ClaimFacts, ClaimExcludes
<1>4. Booking(x) <=> req[r].pc = "complete"
  BY <1>1 DEF Booking
<1>5. Booking(x)' <=> Holds(r, x)' /\ req'[r].pc = "complete"
  BY <1>1 DEF Booking
<1>6. \A e \in Entries \ {x} : Booking(e)' <=> Booking(e)
  BY <1>1, <1>2 DEF Booking, Holds
<1>7. booked[x] = spilled[x] + (IF req[r].pc = "complete" THEN 1 ELSE 0)
  BY <1>1, <1>4 DEF ClaimFacts, BooksBalance
<1>8. booked'[x] = spilled'[x] + (IF status'[x] = "completed" \/ Booking(x)' THEN 1 ELSE 0)
  BY <1>5, <1>7 DEF KeptBefore, KeptAfter
<1>9. \A e \in Entries \ {x} :
        booked'[e] = spilled'[e] + (IF status'[e] = "completed" \/ Booking(e)' THEN 1 ELSE 0)
  BY <1>6 DEF ClaimFacts, BooksBalance
<1>10. BooksBalance'
  BY <1>8, <1>9 DEF BooksBalance
<1> QED
  BY <1>3, <1>10 DEF ClaimFacts

\* An entry nobody holds changes without being booked, and nobody begins to
\* hold another.
LEMMA FreeStep ==
  ASSUME ClaimFacts, NEW r \in Callers, NEW x \in Entries,
         status[x] \notin {"processing", "completed"}, status'[x] # "completed",
         UNCHANGED <<booked, spilled>>,
         \A s \in Callers \ {r} : req'[s] = req[s],
         \A e \in Entries \ {x} : status'[e] = status[e],
         \A e \in Entries : ~Holds(r, e) /\ (Holds(r, e)' => e = x /\ status'[x] = "processing"),
         req'[r].pc # "complete"
  PROVE  ClaimFacts'
<1>1. \A s \in Callers : ~Holds(s, x)
  BY DEF ClaimFacts, ClaimExcludes
<1>2. \A s \in Callers \ {r}, e \in Entries : Holds(s, e)' <=> Holds(s, e)
  BY DEF Holds
<1>3. ClaimExcludes'
  BY <1>1, <1>2 DEF ClaimFacts, ClaimExcludes
<1>4. \A e \in Entries : Booking(e)' <=> Booking(e)
  BY <1>2 DEF Booking
<1>5. ~Booking(x)
  BY <1>1 DEF Booking
<1>6. BooksBalance'
  BY <1>4, <1>5 DEF ClaimFacts, BooksBalance
<1> QED
  BY <1>3, <1>6 DEF ClaimFacts

LEMMA ClaimStep ==
  ASSUME IInv, NEW r \in Callers, Moves(r)
  PROVE  ClaimFacts'
<1>0. /\ TypeOK /\ ClaimFacts /\ req \in [Callers -> Request] /\ req[r] \in Request
      /\ status \in [Entries -> Statuses] /\ booked \in [Entries -> Nat] /\ spilled \in [Entries -> Nat]
      /\ \A s \in Callers \ {r} : req'[s] = req[s]
      /\ req[r].entry \in Entries
      /\ req[r].pc \in {"next", "attach"} => req[r].op = "mail"
  BY TypeOfRequest DEF IInv, Moves, TypeOK, ClaimFacts, SyncKnows, Request
<1>x. PICK x \in Entries : x = req[r].entry
  BY <1>0
<1>1. \A pc : End(r, pc) /\ pc \in {"done", "crashed"}
               => req'[r].pc = pc /\ \A e \in Entries : ~Holds(r, e)'
  BY <1>0, EndedType DEF End, Holds
<1>2. \A pc : Goto(r, pc) => req'[r].pc = pc /\ req'[r].op = req[r].op /\ req'[r].entry = x
  BY <1>0, <1>x DEF Goto, Request
<1>3. Quiet(r) => ClaimFacts'
  BY <1>0, QuietStep
<1>4. \A e \in Entries : Holds(r, e) => e = x
  BY <1>x DEF Holds
<1>5. CASE Arrives(r)
  <2>0. req[r].pc = "idle"
    BY <1>5 DEF Arrives, Approve, Reject, Scan, Upload, AddClient, SearchMail
  <2>1. ASSUME NEW e \in Entries, NEW n \in Nips, NEW v \in BOOLEAN, Approve(r, e, n, v)
        PROVE  ClaimFacts'
    <3>1. req'[r].entry = e /\ req'[r].op = "approve" /\ req'[r].pc # "complete"
      BY <1>0, <2>1 DEF Approve, Request
    <3>2. status[e] \notin {"processing", "completed"} /\ status'[e] = "processing"
          /\ \A f \in Entries \ {e} : status'[f] = status[f]
      BY <1>0, <2>1 DEF Approve, Claimable
    <3>3. UNCHANGED <<booked, spilled>>
      BY <2>1 DEF Approve
    <3>4. \A f \in Entries : ~Holds(r, f) /\ (Holds(r, f)' => f = e)
      BY <2>0, <3>1 DEF Holds
    <3> QED
      BY <1>0, <3>1, <3>2, <3>3, <3>4, FreeStep
  <2>2. ASSUME NEW e \in Entries, Reject(r, e) PROVE ClaimFacts'
    <3>1. req'[r].pc = "done" /\ \A f \in Entries : ~Holds(r, f) /\ ~Holds(r, f)'
      BY <1>1, <2>0, <2>2 DEF Reject, Holds
    <3>2. /\ status[e] \notin {"processing", "completed"} /\ status'[e] = "failed"
          /\ \A f \in Entries \ {e} : status'[f] = status[f]
          /\ UNCHANGED <<booked, spilled>>
      BY <1>0, <2>2 DEF Reject, Claimable
    <3> QED
      BY <1>0, <3>1, <3>2, FreeStep
  <2>3. ASSUME NEW d \in Documents, Scan(r, d) \/ Upload(r, d) PROVE ClaimFacts'
    <3>1. Quiet(r)
      BY <1>0, <2>0, <2>3 DEF Scan, Upload, Elsewhere, Quiet, Holds, Request
    <3> QED
      BY <1>3, <3>1
  <2>4. ASSUME NEW n \in Nips, AddClient(r, n) PROVE ClaimFacts'
    <3>1. Quiet(r)
      BY <1>0, <2>0, <2>4 DEF AddClient, Elsewhere, Quiet, Holds, Request
    <3> QED
      BY <1>3, <3>1
  <2>5. ASSUME SearchMail(r) PROVE ClaimFacts'
    <3>1. Quiet(r)
      BY <1>0, <2>0, <2>5 DEF SearchMail, Elsewhere, Quiet, Holds, Request
    <3> QED
      BY <1>3, <3>1
  <2> QED
    BY <1>5, <2>1, <2>2, <2>3, <2>4, <2>5 DEF Arrives
<1>6. CASE Continues(r)
  <2>1. ASSUME RefuseAmounts(r) \/ ReleaseClaim(r), req[r].op = "approve" PROVE ClaimFacts'
    <3>1. Holds(r, x)
      BY <1>x, <2>1 DEF RefuseAmounts, ReleaseClaim, Holds
    <3>2. /\ status'[x] = "manual_review" /\ \A e \in Entries \ {x} : status'[e] = status[e]
          /\ UNCHANGED <<booked, spilled>> /\ req[r].pc # "complete"
          /\ \A e \in Entries : ~Holds(r, e)'
      BY <1>x, <1>0, <1>1, <2>1 DEF RefuseAmounts, ReleaseClaim
    <3>3. status[x] = "processing" /\ booked[x] \in Nat /\ spilled[x] \in Nat
      BY <1>0, <3>1 DEF ClaimFacts, ClaimExcludes
    <3>4. KeptBefore(r, x) => KeptAfter(r, x)
      <4>1. booked'[x] = booked[x] /\ spilled'[x] = spilled[x] /\ status'[x] # "completed" /\ ~Holds(r, x)'
        BY <3>1, <3>2
      <4>2. KeptBefore(r, x) => booked[x] = spilled[x]
        BY <3>2, <3>3 DEF KeptBefore
      <4>3. booked[x] = spilled[x] => KeptAfter(r, x)
        BY <3>3, <4>1 DEF KeptAfter
      <4> QED
        BY <4>2, <4>3
    <3> QED
      BY <1>0, <3>1, <3>2, <3>4, HolderStep
  <2>2. ASSUME BookInvoice(r) PROVE ClaimFacts'
    <3>1. Holds(r, x)
      BY <1>x, <2>2 DEF BookInvoice, Holds
    <3>2. /\ UNCHANGED <<status, spilled>> /\ req[r].pc # "complete" /\ req'[r].pc = "complete"
          /\ req'[r].entry = x /\ req'[r].op = "approve"
          /\ booked'[x] = booked[x] + 1 /\ \A e \in Entries \ {x} : booked'[e] = booked[e]
      BY <1>x, <1>0, <1>2, <2>2 DEF BookInvoice
    <3>3. Holds(r, x)' /\ status[x] = "processing" /\ \A e \in Entries \ {x} : ~Holds(r, e)'
      BY <1>0, <3>1, <3>2 DEF Holds, ClaimFacts, ClaimExcludes
    <3>4. booked[x] \in Nat /\ spilled[x] \in Nat /\ x \in Entries
      BY <1>0
    <3>5. KeptBefore(r, x) => KeptAfter(r, x)
      BY <3>2, <3>3, <3>4 DEF KeptBefore, KeptAfter
    <3> QED
      BY <1>0, <3>1, <3>2, <3>3, <3>4, <3>5, HolderStep
  <2>3. ASSUME CompleteEntry(r), req[r].op = "approve" PROVE ClaimFacts'
    <3>1. Holds(r, x)
      BY <1>x, <2>3 DEF CompleteEntry, Holds
    <3>2. /\ status'[x] = "completed" /\ \A e \in Entries \ {x} : status'[e] = status[e]
          /\ UNCHANGED <<booked, spilled>> /\ req[r].pc = "complete"
          /\ \A e \in Entries : ~Holds(r, e)'
      BY <1>x, <1>0, <1>1, <2>3 DEF CompleteEntry
    <3>3. status[x] = "processing" /\ booked[x] \in Nat /\ spilled[x] \in Nat
      BY <1>0, <3>1 DEF ClaimFacts, ClaimExcludes
    <3>4. KeptBefore(r, x) => KeptAfter(r, x)
      BY <3>1, <3>2, <3>3 DEF KeptBefore, KeptAfter
    <3> QED
      BY <1>0, <3>1, <3>2, <3>4, HolderStep
  <2>4. ASSUME Enqueue(r) PROVE ClaimFacts'
    <3> DEFINE y == <<r, req[r].doc>>
    <3>1. y \in Entries /\ req[r].doc \in Documents
      BY <1>0 DEF Request, Entries
    <3>2. status[y] = "none"
      BY <2>4, <3>1 DEF Enqueue, MayEnqueue, HasConnection, IInv, InsertsAreNew, Ahead, InMessage
    <3>3. /\ status'[y] \in {"queued", "manual_review"} /\ UNCHANGED <<booked, spilled>>
          /\ \A e \in Entries \ {y} : status'[e] = status[e]
      BY <1>0, <2>4, <3>1, OverType DEF Enqueue
    <3>4. \A e \in Entries : ~Holds(r, e)
      BY <2>4 DEF Enqueue, MayEnqueue, HasConnection, Holds
    <3>5. req'[r].pc \in {"attach", "done"}
      BY <1>0, <2>4, EndedType DEF Enqueue, AttachmentDone, Request
    <3>6. \A e \in Entries : ~Holds(r, e)'
      BY <3>5 DEF Holds
    <3> HIDE DEF y
    <3> QED
      BY <1>0, <3>1, <3>2, <3>3, <3>4, <3>5, <3>6, FreeStep
  <2>5. ASSUME Transaction(r) PROVE ClaimFacts'
    <3>1. \A e \in Entries : (Holds(r, e)' <=> Holds(r, e)) /\ (Booking(e)' <=> Booking(e))
      BY <2>5 DEF Transaction, Holds, Booking
    <3> QED
      BY <1>0, <2>5, <3>1 DEF Transaction, queueVars, ClaimFacts, ClaimExcludes, BooksBalance, Holds
  <2>6. ASSUME ClientRefused(r) PROVE ClaimFacts'
    <3>1. req[r].pc = "client" /\ req[r].op = "approve" /\ req'[r].pc = "release" /\ req'[r].entry = x
      BY <1>x, <1>2, <2>6 DEF ClientRefused
    <3>2. Quiet(r)
      BY <1>x, <2>6, <3>1 DEF ClientRefused, Elsewhere, Quiet, Holds
    <3> QED
      BY <1>3, <3>2
  <2>7. ASSUME AddClientEnds(r) \/ SyncDone(r) PROVE ClaimFacts'
    <3>1. Quiet(r)
      BY <1>1, <2>7 DEF AddClientEnds, SyncDone, Elsewhere, Quiet
    <3> QED
      BY <1>3, <3>1
  <2>8. ASSUME IntakeRefused(r) PROVE ClaimFacts'
    <3>1. req'[r].pc \in {"attach", "done"}
      BY <1>0, <2>8, EndedType DEF IntakeRefused, IntakeEnds, AttachmentFailed, AttachmentDone, Request
    <3>2. Quiet(r)
      BY <2>8, <3>1 DEF IntakeRefused, HasConnection, Quiet, Holds
    <3> QED
      BY <1>3, <3>2
  <2>9. ASSUME MessageDone(r) \/ \E m \in Messages : NextMessage(r, m) PROVE ClaimFacts'
    <3>1. req[r].pc \in {"attach", "next"} /\ req'[r].pc \in {"attach", "next"} /\ UNCHANGED queueVars
      <4>1. CASE MessageDone(r)
        BY <1>0, <4>1 DEF MessageDone, Request
      <4>2. ASSUME NEW m \in Messages, NextMessage(r, m)
            PROVE  req[r].pc = "next" /\ req'[r].pc = "attach" /\ UNCHANGED queueVars
        BY <1>0, <4>2 DEF NextMessage, Elsewhere, Request
      <4> QED
        BY <2>9, <4>1, <4>2
    <3>2. Quiet(r)
      BY <3>1 DEF Quiet, Holds
    <3> QED
      BY <1>3, <3>2
  <2>10. ASSUME NEW d \in Documents, TakeAttachment(r, d) PROVE ClaimFacts'
    <3>1. req[r].pc = "attach" /\ req'[r].pc = "connect" /\ UNCHANGED queueVars
      BY <1>0, <2>10 DEF TakeAttachment, Elsewhere, Request
    <3>2. Quiet(r)
      BY <3>1 DEF Quiet, Holds
    <3> QED
      BY <1>3, <3>2
  <2>12. ASSUME TakeConnection(r) PROVE ClaimFacts'
    <3>1. req[r].pc = "connect" /\ req'[r].pc = "client" /\ req'[r].op = req[r].op /\ UNCHANGED queueVars
      BY <1>2, <2>12 DEF TakeConnection
    <3>2. req[r].op # "approve"
      BY <3>1 DEF IInv, SyncKnows
    <3>3. Quiet(r)
      BY <3>1, <3>2 DEF Quiet, Holds
    <3> QED
      BY <1>3, <3>3
  <2>11. req[r].pc \in {"refuse", "release", "complete"} => req[r].op = "approve"
    BY DEF IInv, ClaimsAreApprovals
  <2> QED
    BY <1>6, <2>1, <2>2, <2>3, <2>4, <2>5, <2>6, <2>7, <2>8, <2>9, <2>10, <2>11, <2>12
       DEF Continues, RefuseAmounts, ReleaseClaim, CompleteEntry
<1>7. CASE Breaks(r)
  <2>1. ASSUME TransactionFails(r) PROVE ClaimFacts'
    <3>1. \A e \in Entries : (Holds(r, e)' <=> Holds(r, e)) /\ (Booking(e)' <=> Booking(e))
      BY <2>1 DEF TransactionFails, Holds, Booking
    <3> QED
      BY <1>0, <2>1, <3>1 DEF TransactionFails, queueVars, ClaimFacts, ClaimExcludes, BooksBalance, Holds
  <2>2. ASSUME RefuseAmountsFails(r) \/ ReleaseClaimFails(r) \/ SyncFails(r) PROVE ClaimFacts'
    <3>1. Quiet(r)
      BY <1>1, <2>2 DEF RefuseAmountsFails, ReleaseClaimFails, SyncFails, Quiet
    <3> QED
      BY <1>3, <3>1
  <2>3. ASSUME BookInvoiceFails(r) PROVE ClaimFacts'
    <3>1. req[r].pc = "client" /\ req[r].op = "approve" /\ req'[r].pc = "release" /\ req'[r].entry = x
      BY <1>x, <1>2, <2>3 DEF BookInvoiceFails
    <3>2. Quiet(r)
      BY <1>x, <2>3, <3>1 DEF BookInvoiceFails, Elsewhere, Quiet, Holds
    <3> QED
      BY <1>3, <3>2
  <2>4. ASSUME IntakeFails(r) PROVE ClaimFacts'
    <3>1. req'[r].pc \in {"attach", "done"}
      BY <1>0, <2>4, EndedType DEF IntakeFails, IntakeEnds, AttachmentFailed, AttachmentDone, Request
    <3>2. Quiet(r)
      BY <2>4, <3>1 DEF IntakeFails, MayEnqueue, HasConnection, Quiet, Holds
    <3> QED
      BY <1>3, <3>2
  <2>5. ASSUME CompleteEntryFails(r) PROVE ClaimFacts'
    <3>1. Holds(r, x) /\ req[r].pc = "complete"
      BY <1>x, <2>5 DEF CompleteEntryFails, Holds, IInv, ClaimsAreApprovals
    <3>2. /\ UNCHANGED <<status, booked>> /\ req'[r].pc # "complete"
          /\ spilled'[x] = spilled[x] + 1 /\ \A e \in Entries \ {x} : spilled'[e] = spilled[e]
          /\ \A e \in Entries \ {x} : ~Holds(r, e)'
      BY <1>x, <1>0, <1>1, <1>2, <2>5 DEF CompleteEntryFails, Holds
    <3>3. status[x] = "processing" /\ booked[x] \in Nat /\ spilled[x] \in Nat /\ x \in Entries
      BY <1>0, <3>1 DEF ClaimFacts, ClaimExcludes
    <3>4. KeptBefore(r, x) => KeptAfter(r, x)
      BY <3>1, <3>2, <3>3 DEF KeptBefore, KeptAfter
    <3> QED
      BY <1>0, <3>1, <3>2, <3>3, <3>4, HolderStep
  <2> QED
    BY <1>7, <2>1, <2>2, <2>3, <2>4, <2>5 DEF Breaks
<1> QED
  BY <1>5, <1>6, <1>7 DEF Moves

-----------------------------------------------------------------------------
(* The documents on their way into the queue *)

IntakeFacts == ClaimsAreApprovals /\ SyncKnows /\ InsertsAreNew /\ SeenIsStored

\* No step but Enqueue inserts an entry, and none removes one.
LEMMA EntriesStay ==
  ASSUME IInv, NEW r \in Callers, Moves(r), ~Enqueue(r)
  PROVE  \A e \in Entries : status'[e] = "none" <=> status[e] = "none"
<1>0. /\ status \in [Entries -> Statuses] /\ req[r].entry \in Entries
      /\ req[r].pc \in {"refuse", "release", "complete"} => status[req[r].entry] = "processing"
  BY DEF IInv, TypeOK, Request, ClaimsAreApprovals, ClaimExcludes, Holds
<1>1. CASE Arrives(r)
  BY <1>0, <1>1 DEF Arrives, Approve, Reject, Claimable, Scan, Upload, AddClient, SearchMail, Elsewhere, queueVars
<1>2. CASE Continues(r)
  <2>1. CASE RefuseAmounts(r) \/ CompleteEntry(r) \/ ReleaseClaim(r)
    BY <1>0, <2>1 DEF RefuseAmounts, CompleteEntry, ReleaseClaim
  <2>2. CASE ~(RefuseAmounts(r) \/ CompleteEntry(r) \/ ReleaseClaim(r))
    <3>1. UNCHANGED status
      BY <1>2, <2>2 DEF Continues, Transaction, BookInvoice, ClientRefused, AddClientEnds, IntakeRefused,
         TakeConnection, NextMessage, TakeAttachment, MessageDone, SyncDone, Elsewhere, queueVars
    <3> QED
      BY <3>1
  <2> QED
    BY <2>1, <2>2
<1>3. CASE Breaks(r)
  BY <1>3 DEF Breaks, TransactionFails, RefuseAmountsFails, BookInvoiceFails, CompleteEntryFails,
     ReleaseClaimFails, IntakeFails, SyncFails, Elsewhere, queueVars
<1> QED
  BY <1>1, <1>2, <1>3 DEF Moves

\* What the facts say of one request.
KnowsAt(r) ==
  /\ req[r].pc \in {"refuse", "complete", "release"} => req[r].op = "approve"
  /\ req[r].pc \in {"next", "attach"} => req[r].op = "mail"
  /\ req[r].pc = "connect" => req[r].op \in {"scan", "mail"}
  /\ req[r].pc = "enqueue" => req[r].op = "upload"
  /\ InMessage(r) /\ ~req[r].failed
       => \A d \in Attached[req[r].msg] \ req[r].left : status[<<r, d>>] # "none"
  /\ \A d \in Documents : Ahead(r, d) => status[<<r, d>>] = "none"
  /\ InMessage(r) => req[r].left \subseteq Attached[req[r].msg]
  /\ req[r].op = "mail" /\ req[r].pc \in {"connect", "client"} => req[r].doc \in req[r].left

LEMMA KnowsOfAll ==
  (ClaimsAreApprovals /\ SyncKnows /\ InsertsAreNew) <=> \A r \in Callers : KnowsAt(r)
  BY DEF ClaimsAreApprovals, SyncKnows, InsertsAreNew, KnowsAt

\* A request that is neither idle nor taking documents in knows nothing.
LEMMA KnowsNothing ==
  ASSUME NEW r \in Callers,
         \/ req[r].pc \in {"done", "crashed"}
         \/ req[r].pc \in {"refuse", "client", "complete", "release"} /\ req[r].op = "approve"
         \/ req[r].pc = "client" /\ req[r].op = "add"
  PROVE  KnowsAt(r)
  BY DEF KnowsAt, Ahead, InMessage

LEMMA KnowsStep ==
  ASSUME IInv, NEW r \in Callers, Moves(r)
  PROVE  KnowsAt(r)'
<1>0. /\ req \in [Callers -> Request] /\ req[r] \in Request
      /\ status \in [Entries -> Statuses] /\ \A d \in Documents : <<r, d>> \in Entries
      /\ seen \subseteq Messages
  BY DEF IInv, TypeOK, Entries
<1>1. KnowsAt(r)
  BY KnowsOfAll DEF IInv
<1>2. \A pc \in {"done", "crashed"} : End(r, pc) => KnowsAt(r)'
  <2>1. ASSUME NEW pc \in {"done", "crashed"}, End(r, pc) PROVE req'[r].pc \in {"done", "crashed"}
    BY <1>0, <2>1, EndedType DEF End
  <2> QED
    BY <2>1 DEF KnowsAt, Ahead, InMessage
<1>3. \A pc \in {"complete", "release"} : Goto(r, pc) /\ req[r].op = "approve" => KnowsAt(r)'
  <2>1. ASSUME NEW pc \in {"complete", "release"}, Goto(r, pc), req[r].op = "approve"
        PROVE  req'[r].pc \in {"complete", "release"} /\ req'[r].op = "approve"
    BY <1>0, <2>1 DEF Goto, Request
  <2> QED
    BY <2>1 DEF KnowsAt, Ahead, InMessage
<1>4. ASSUME UNCHANGED req, \A d \in Documents : status'[<<r, d>>] = status[<<r, d>>] PROVE KnowsAt(r)'
  <2>1. \A m \in Messages : Attached[m] \subseteq Documents
    BY IntakeAssumption
  <2>2. req[r].msg \in Messages
    BY <1>0 DEF Request
  <2>3. \A d \in Documents : Ahead(r, d)' <=> Ahead(r, d)
    BY <1>4 DEF Ahead, InMessage
  <2> QED
    BY <1>1, <1>4, <2>1, <2>2, <2>3 DEF KnowsAt, InMessage
<1>5. CASE Arrives(r)
  <2>1. ASSUME NEW e \in Entries, NEW n \in Nips, NEW v \in BOOLEAN, Approve(r, e, n, v) PROVE KnowsAt(r)'
    <3>1. req'[r].pc \in {"client", "refuse"} /\ req'[r].op = "approve"
      BY <1>0, <2>1 DEF Approve, Request
    <3> QED
      BY <3>1 DEF KnowsAt, Ahead, InMessage
  <2>2. ASSUME NEW e \in Entries, Reject(r, e) PROVE KnowsAt(r)'
    BY <1>2, <2>2 DEF Reject
  <2>3. ASSUME NEW d \in Documents, Scan(r, d) \/ Upload(r, d) PROVE KnowsAt(r)'
    <3>1. /\ req[r].pc = "idle" /\ UNCHANGED status /\ req'[r].doc = d
          /\ \/ req'[r].pc = "connect" /\ req'[r].op = "scan"
             \/ req'[r].pc = "enqueue" /\ req'[r].op = "upload"
      BY <1>0, <2>3 DEF Scan, Upload, Elsewhere, queueVars, Request
    <3>2. status[<<r, d>>] = "none"
      BY <1>1, <3>1 DEF KnowsAt, Ahead, InMessage
    <3> QED
      BY <3>1, <3>2 DEF KnowsAt, Ahead, InMessage
  <2>4. ASSUME NEW n \in Nips, AddClient(r, n) PROVE KnowsAt(r)'
    <3>1. req'[r].pc = "client" /\ req'[r].op = "add"
      BY <1>0, <2>4 DEF AddClient, Request
    <3> QED
      BY <3>1 DEF KnowsAt, Ahead, InMessage
  <2>5. ASSUME SearchMail(r) PROVE KnowsAt(r)'
    <3>1. req[r].pc = "idle" /\ UNCHANGED status /\ req'[r].pc = "next" /\ req'[r].op = "mail"
      BY <1>0, <2>5 DEF SearchMail, Elsewhere, queueVars, Request
    <3>2. \A d \in Documents : status[<<r, d>>] = "none"
      BY <1>1, <3>1 DEF KnowsAt, Ahead, InMessage
    <3> QED
      BY <3>1, <3>2 DEF KnowsAt, Ahead, InMessage
  <2> QED
    BY <1>5, <2>1, <2>2, <2>3, <2>4, <2>5 DEF Arrives
<1>6. ASSUME req[r].op = "mail" => req[r].pc \in {"connect", "client"}, IntakeEnds(r), UNCHANGED status
      PROVE  KnowsAt(r)'
  <2>1. CASE req[r].op = "mail"
    <3>1. /\ req[r].pc \in {"connect", "client"} /\ req'[r].pc = "attach" /\ req'[r].op = "mail" /\ req'[r].failed
          /\ req'[r].left = req[r].left \ {req[r].doc} /\ req'[r].msg = req[r].msg
          /\ req'[r].todo = req[r].todo
      BY <1>0, <1>6, <2>1 DEF IntakeEnds, AttachmentFailed, AttachmentDone, Request
    <3>2. \A d \in Documents : Ahead(r, d)' => Ahead(r, d)
      BY <2>1, <3>1 DEF Ahead, InMessage
    <3> QED
      BY <1>1, <1>6, <2>1, <3>1, <3>2 DEF KnowsAt, InMessage
  <2>2. CASE req[r].op # "mail"
    <3>1. req'[r].pc = "done"
      BY <1>0, <1>6, <2>2, EndedType DEF IntakeEnds
    <3> QED
      BY <3>1 DEF KnowsAt, Ahead, InMessage
  <2> QED
    BY <2>1, <2>2
<1>7. CASE Continues(r)
  <2>1. ASSUME Transaction(r) PROVE KnowsAt(r)'
    BY <1>4, <2>1 DEF Transaction, queueVars
  <2>2. ASSUME RefuseAmounts(r) \/ CompleteEntry(r) \/ ReleaseClaim(r) \/ AddClientEnds(r) \/ SyncDone(r)
        PROVE  KnowsAt(r)'
    BY <1>2, <2>2 DEF RefuseAmounts, CompleteEntry, ReleaseClaim, AddClientEnds, SyncDone
  <2>3. ASSUME BookInvoice(r) \/ ClientRefused(r) PROVE KnowsAt(r)'
    BY <1>3, <2>3 DEF BookInvoice, ClientRefused
  <2>4. ASSUME IntakeRefused(r) PROVE KnowsAt(r)'
    BY <1>6, <2>4 DEF IntakeRefused, HasConnection, queueVars
  <2>9. ASSUME TakeConnection(r) PROVE KnowsAt(r)'
    <3>1. /\ req[r].pc = "connect" /\ req'[r] = [req[r] EXCEPT !.pc = "client"] /\ UNCHANGED status
      BY <1>0, <2>9 DEF TakeConnection, Goto, queueVars
    <3>2. /\ req'[r].pc = "client" /\ req'[r].op = req[r].op /\ req'[r].doc = req[r].doc
          /\ req'[r].left = req[r].left /\ req'[r].msg = req[r].msg
          /\ req'[r].failed = req[r].failed /\ req'[r].todo = req[r].todo
      BY <1>0, <3>1 DEF Request
    <3>3. \A f \in Documents : Ahead(r, f)' => Ahead(r, f)
      BY <3>1, <3>2 DEF Ahead, InMessage
    <3> QED
      BY <1>1, <3>1, <3>2, <3>3 DEF KnowsAt, InMessage
  <2>5. ASSUME Enqueue(r) PROVE KnowsAt(r)'
    <3>1. CASE req[r].op = "mail"
      <4> DEFINE d0 == req[r].doc
      <4>1. /\ req[r].pc = "client" /\ req'[r].pc = "attach" /\ req'[r].op = "mail"
            /\ req'[r].failed = req[r].failed
            /\ req'[r].left = req[r].left \ {d0} /\ req'[r].msg = req[r].msg
            /\ req'[r].todo = req[r].todo
        BY <1>0, <1>1, <2>5, <3>1 DEF Enqueue, MayEnqueue, HasConnection, AttachmentDone, Request, KnowsAt
      <4>2. /\ d0 \in Documents /\ status'[<<r, d0>>] # "none"
            /\ \A d \in Documents \ {d0} : status'[<<r, d>>] = status[<<r, d>>]
        <5>1. d0 \in Documents
          BY <1>0 DEF Request
        <5> QED
          BY <1>0, <2>5, <5>1, OverType DEF Enqueue
      <4>3. /\ req[r].msg \in Messages /\ req[r].todo \subseteq Messages
            /\ d0 \in req[r].left /\ req[r].left \subseteq Attached[req[r].msg]
            /\ Attached[req[r].msg] \subseteq Documents
        BY <1>0, <1>1, <3>1, <4>1, IntakeAssumption DEF Request, KnowsAt, InMessage
      <4>4. \A d \in Documents : Ahead(r, d)' => Ahead(r, d) /\ d # d0
        <5>1. \A m \in req[r].todo \ {req[r].msg} : d0 \notin Attached[m]
          BY <4>3, IntakeAssumption
        <5> QED
          BY <3>1, <4>1, <5>1 DEF Ahead, InMessage
      <4>5. \A d \in Documents : Ahead(r, d)' => status'[<<r, d>>] = "none"
        BY <1>1, <4>2, <4>4 DEF KnowsAt, InMessage
      <4>6. ~req'[r].failed => \A d \in Attached[req'[r].msg] \ req'[r].left : status'[<<r, d>>] # "none"
        BY <1>1, <3>1, <4>1, <4>2, <4>3 DEF KnowsAt, InMessage
      <4> QED
        BY <4>1, <4>3, <4>5, <4>6 DEF KnowsAt, InMessage
    <3>2. CASE req[r].op # "mail"
      <4>1. req'[r].pc = "done"
        BY <1>0, <2>5, <3>2, EndedType DEF Enqueue
      <4> QED
        BY <4>1 DEF KnowsAt, Ahead, InMessage
    <3> QED
      BY <3>1, <3>2
  <2>6. ASSUME NEW m \in Messages, NextMessage(r, m) PROVE KnowsAt(r)'
    <3>1. /\ req[r].pc = "next" /\ req'[r].pc = "attach" /\ req'[r].op = "mail" /\ m \in req[r].todo
          /\ req'[r].left = Attached[m] /\ req'[r].msg = m /\ req'[r].todo = req[r].todo /\ UNCHANGED status
      BY <1>0, <1>1, <2>6 DEF NextMessage, Elsewhere, queueVars, Request, KnowsAt
    <3>2. \A d \in Documents : Ahead(r, d)' => Ahead(r, d)
      BY <3>1 DEF Ahead, InMessage
    <3> QED
      BY <1>1, <3>1, <3>2 DEF KnowsAt, InMessage
  <2>7. ASSUME NEW d \in Documents, TakeAttachment(r, d) PROVE KnowsAt(r)'
    <3>1. /\ req[r].pc = "attach" /\ req'[r].pc = "connect" /\ req[r].op = "mail" /\ req'[r].op = "mail"
          /\ d \in req[r].left /\ req'[r].doc = d /\ req'[r].left = req[r].left /\ req'[r].msg = req[r].msg
          /\ req'[r].failed = req[r].failed /\ req'[r].todo = req[r].todo /\ UNCHANGED status
      BY <1>0, <1>1, <2>7 DEF TakeAttachment, Elsewhere, queueVars, Request, KnowsAt
    <3>2. \A f \in Documents : Ahead(r, f)' => Ahead(r, f)
      BY <3>1 DEF Ahead, InMessage
    <3> QED
      BY <1>1, <3>1, <3>2 DEF KnowsAt, InMessage
  <2>8. ASSUME MessageDone(r) PROVE KnowsAt(r)'
    <3>1. /\ req[r].pc = "attach" /\ req'[r].pc = "next" /\ req[r].op = "mail" /\ req'[r].op = "mail"
          /\ req'[r].todo = req[r].todo \ {req[r].msg} /\ UNCHANGED status
      BY <1>0, <1>1, <2>8 DEF MessageDone, queueVars, Request, KnowsAt
    <3>2. \A f \in Documents : Ahead(r, f)' => Ahead(r, f)
      BY <3>1 DEF Ahead, InMessage
    <3> QED
      BY <1>1, <3>1, <3>2 DEF KnowsAt, InMessage
  <2> QED
    BY <1>7, <2>1, <2>2, <2>3, <2>4, <2>5, <2>6, <2>7, <2>8, <2>9 DEF Continues
<1>8. CASE Breaks(r)
  <2>1. ASSUME TransactionFails(r) PROVE KnowsAt(r)'
    BY <1>4, <2>1 DEF TransactionFails, queueVars
  <2>2. ASSUME RefuseAmountsFails(r) \/ ReleaseClaimFails(r) \/ SyncFails(r) PROVE KnowsAt(r)'
    BY <1>2, <2>2 DEF RefuseAmountsFails, ReleaseClaimFails, SyncFails
  <2>3. ASSUME BookInvoiceFails(r) \/ CompleteEntryFails(r) PROVE KnowsAt(r)'
    BY <1>1, <1>3, <2>3 DEF BookInvoiceFails, CompleteEntryFails, KnowsAt
  <2>4. ASSUME IntakeFails(r) PROVE KnowsAt(r)'
    BY <1>1, <1>6, <2>4 DEF IntakeFails, MayEnqueue, HasConnection, queueVars, KnowsAt
  <2> QED
    BY <1>8, <2>1, <2>2, <2>3, <2>4 DEF Breaks
<1> QED
  BY <1>5, <1>7, <1>8 DEF Moves

LEMMA SeenStep ==
  ASSUME IInv, NEW r \in Callers, Moves(r)
  PROVE  SeenIsStored'
<1>0. /\ seen \subseteq Messages /\ \A m \in Messages : Attached[m] \subseteq Documents
      /\ \A s \in Callers, d \in Documents : <<s, d>> \in Entries
  BY IntakeAssumption DEF IInv, TypeOK, Entries
<1>1. \A e \in Entries : status[e] # "none" => status'[e] # "none"
  <2>1. CASE Enqueue(r)
    <3>1. <<r, req[r].doc>> \in Entries /\ req[r].doc \in Documents /\ status \in [Entries -> Statuses]
      BY <1>0 DEF IInv, TypeOK, Request
    <3> QED
      BY <2>1, <3>1, OverType DEF Enqueue
  <2> QED
    BY <2>1, EntriesStay
<1>2. UNCHANGED seen => SeenIsStored'
  BY <1>0, <1>1 DEF IInv, SeenIsStored
<1>3. CASE MessageDone(r)
  <2>1. UNCHANGED status /\ req[r].pc = "attach" /\ req[r].op = "mail" /\ req[r].left = {}
    BY <1>3 DEF MessageDone, queueVars, IInv, SyncKnows
  <2>2. CASE req[r].failed
    BY <1>2, <1>3, <2>2 DEF MessageDone
  <2>3. CASE ~req[r].failed
    <3>1. seen' = seen \union {req[r].msg}
      BY <1>3, <2>3 DEF MessageDone
    <3>2. \A d \in Attached[req[r].msg] : status[<<r, d>>] # "none"
      BY <2>1, <2>3 DEF IInv, SyncKnows, InMessage
    <3> QED
      BY <2>1, <3>1, <3>2 DEF IInv, SeenIsStored
  <2> QED
    BY <2>2, <2>3
<1>4. CASE ~MessageDone(r)
  <2>1. Arrives(r) => UNCHANGED seen
    BY DEF Arrives, Approve, Reject, Scan, Upload, AddClient, SearchMail, Elsewhere
  <2>2. Continues(r) => UNCHANGED seen
    BY <1>4 DEF Continues, Transaction, RefuseAmounts, BookInvoice, CompleteEntry, ClientRefused, ReleaseClaim,
       AddClientEnds, TakeConnection, Enqueue, IntakeRefused, NextMessage, TakeAttachment, SyncDone, Elsewhere
  <2>3. Breaks(r) => UNCHANGED seen
    BY DEF Breaks, TransactionFails, RefuseAmountsFails, BookInvoiceFails, CompleteEntryFails,
       ReleaseClaimFails, IntakeFails, SyncFails, Elsewhere
  <2> QED
    BY <1>2, <2>1, <2>2, <2>3 DEF Moves
<1> QED
  BY <1>3, <1>4

LEMMA IntakeStep ==
  ASSUME IInv, NEW r \in Callers, Moves(r)
  PROVE  IntakeFacts'
<1>1. KnowsAt(r)'
  BY KnowsStep
<1>2. \A s \in Callers \ {r} : KnowsAt(s)'
  <2> SUFFICES ASSUME NEW s \in Callers \ {r} PROVE KnowsAt(s)'
    OBVIOUS
  <2>1. req'[s] = req[s] /\ req[s] \in Request
    BY TypeOfRequest DEF IInv, TypeOK, Moves
  <2>2. \A d \in Documents : status'[<<s, d>>] = "none" <=> status[<<s, d>>] = "none"
    <3>1. \A d \in Documents : <<s, d>> \in Entries
      BY DEF Entries
    <3>2. CASE Enqueue(r)
      <4>1. status \in [Entries -> Statuses] /\ \A d \in Documents : <<s, d>> # <<r, req[r].doc>>
        BY DEF IInv, TypeOK
      <4> QED
        BY <3>1, <3>2, <4>1 DEF Enqueue
    <3> QED
      BY <3>1, <3>2, EntriesStay
  <2>3. KnowsAt(s) /\ req[s].msg \in Messages /\ Attached[req[s].msg] \subseteq Documents
    BY <2>1, KnowsOfAll, IntakeAssumption DEF IInv, Request
  <2>4. \A d \in Documents : Ahead(s, d)' <=> Ahead(s, d)
    BY <2>1 DEF Ahead, InMessage
  <2> QED
    BY <2>1, <2>2, <2>3, <2>4 DEF KnowsAt, InMessage
<1>3. (\A s \in Callers : KnowsAt(s))'
  BY <1>1, <1>2
<1>4. (ClaimsAreApprovals /\ SyncKnows /\ InsertsAreNew)'
  BY <1>3 DEF KnowsAt, ClaimsAreApprovals, SyncKnows, InsertsAreNew
<1> QED
  BY <1>4, SeenStep DEF IntakeFacts

-----------------------------------------------------------------------------
(* The crash *)

LEMMA CrashStep ==
  ASSUME IInv, TypeOK', Crash
  PROVE  IInv'
<1>1. /\ \A r \in Callers : call'[r] = NoCall
      /\ \A r \in Callers : req'[r] = IF Served(r) THEN Ended("crashed") ELSE req[r]
      /\ lockedBy' = None /\ UNCHANGED <<clients, maxClients, status, booked, seen>>
      /\ \A e \in Entries : spilled'[e] = IF Booking(e) THEN spilled[e] + 1 ELSE spilled[e]
  BY DEF Crash, CapCrash
<1>2. \A r \in Callers : req'[r].pc \in {"idle", "done", "crashed"} /\ (req'[r].pc = "idle" => req'[r] = req[r])
  BY <1>1, EndedType DEF Served
<1>3. (LockIsHeld /\ ReadUnderLock /\ CallsAreAwaited /\ ForeignKeysHold)'
  BY <1>1, BlankType, CapAssumption DEF LockIsHeld, ReadUnderLock, CallsAreAwaited, ForeignKeysHold, InTransaction
<1>4. \A r \in Callers, e \in Entries : ~Holds(r, e)'
  BY <1>2 DEF Holds
<1>5. ClaimExcludes'
  BY <1>4 DEF ClaimExcludes
<1>6. BooksBalance'
  <2> SUFFICES ASSUME NEW e \in Entries
               PROVE  booked[e] = spilled'[e] + (IF status[e] = "completed" THEN 1 ELSE 0)
    BY <1>1, <1>4 DEF BooksBalance, Booking
  <2>1. /\ booked[e] \in Nat /\ spilled[e] \in Nat
        /\ booked[e] = spilled[e] + (IF status[e] = "completed" \/ Booking(e) THEN 1 ELSE 0)
        /\ Booking(e) => status[e] = "processing"
    BY DEF IInv, TypeOK, BooksBalance, Booking, ClaimExcludes
  <2> QED
    BY <1>1, <2>1
<1>7. (ClaimsAreApprovals /\ SyncKnows)'
  BY <1>2 DEF ClaimsAreApprovals, SyncKnows, InMessage
<1>8. InsertsAreNew'
  <2>1. \A r \in Callers, d \in Documents : Ahead(r, d)' => Ahead(r, d)
    BY <1>2 DEF Ahead, InMessage
  <2> QED
    BY <1>1, <1>2, <2>1 DEF IInv, InsertsAreNew, InMessage
<1>9. SeenIsStored'
  BY <1>1 DEF IInv, SeenIsStored
<1> QED
  BY <1>3, <1>5, <1>6, <1>7, <1>8, <1>9 DEF IInv

-----------------------------------------------------------------------------
(* The theorems *)

LEMMA InitIInv == Init => IInv
<1> SUFFICES ASSUME Init PROVE IInv
  OBVIOUS
<1>1. TypeOK
  BY TypeInit
<1>2. \A r \in Callers : call[r] = NoCall /\ req[r] = Blank
  BY DEF Init, CapInit
<1>3. LockIsHeld /\ ReadUnderLock /\ CallsAreAwaited /\ ForeignKeysHold
  BY <1>2, BlankType, CapAssumption
     DEF Init, CapInit, LockIsHeld, ReadUnderLock, CallsAreAwaited, ForeignKeysHold, InTransaction
<1>4. ClaimExcludes /\ BooksBalance
  <2>1. \A r \in Callers, e \in Entries : ~Holds(r, e)
    BY <1>2, EndedType DEF Holds
  <2>2. \A e \in Entries : status[e] # "completed" /\ booked[e] = 0 /\ spilled[e] = 0 /\ ~Booking(e)
    BY <2>1 DEF Init, Booking
  <2> QED
    BY <2>1, <2>2 DEF ClaimExcludes, BooksBalance
<1>5. ClaimsAreApprovals /\ SyncKnows /\ InsertsAreNew
  <2>1. \A r \in Callers, d \in Documents : status[<<r, d>>] = "none"
    BY CapAssumption DEF Init, Entries
  <2> QED
    BY <1>2, <2>1, EndedType DEF ClaimsAreApprovals, SyncKnows, InsertsAreNew, InMessage
<1>6. SeenIsStored
  BY DEF Init, SeenIsStored
<1> QED
  BY <1>1, <1>3, <1>4, <1>5, <1>6 DEF IInv

LEMMA StepIInv == IInv /\ [Next]_vars => IInv'
<1> SUFFICES ASSUME IInv, [Next]_vars PROVE IInv'
  OBVIOUS
<1>1. TypeOK' /\ TypeOK /\ CapTypeOK
  BY TypeStep DEF IInv, TypeOK
<1>2. ASSUME NEW r \in Callers, Moves(r) PROVE IInv'
  <2>1. CapFacts'
    BY <1>1, <1>2, ShapeOfCap, LockStep DEF IInv, CapFacts, Moves
  <2> QED
    BY <1>1, <1>2, <2>1, AwaitedStep, ClaimStep, IntakeStep
       DEF IInv, CapFacts, ClaimFacts, IntakeFacts
<1>3. ASSUME NEW limit \in Limits, PlanChanges(limit) PROVE IInv'
  <2>1. CapFacts' /\ UNCHANGED <<call, status, booked, spilled, seen, req, faults>>
    BY <1>1, <1>3, PlanStep DEF PlanChanges, ChangePlan, queueVars, IInv, CapFacts
  <2>2. CallsAreAwaited' /\ ClaimExcludes' /\ BooksBalance' /\ ClaimsAreApprovals' /\ SyncKnows'
        /\ InsertsAreNew' /\ SeenIsStored'
    BY <2>1 DEF IInv, CallsAreAwaited, ClaimExcludes, BooksBalance, Booking, Holds, ClaimsAreApprovals,
       SyncKnows, InsertsAreNew, Ahead, InMessage, SeenIsStored
  <2> QED
    BY <1>1, <2>1, <2>2 DEF IInv, CapFacts
<1>4. CASE UNCHANGED vars
  BY <1>1, <1>4 DEF vars, capVars, IInv, LockIsHeld, ReadUnderLock, InTransaction, ForeignKeysHold, CallsAreAwaited,
     ClaimExcludes, BooksBalance, Booking, Holds, ClaimsAreApprovals, SyncKnows, InsertsAreNew, Ahead, InMessage, SeenIsStored
<1>5. CASE Crash
  BY <1>1, <1>5, CrashStep
<1> QED
  BY <1>2, <1>3, <1>4, <1>5 DEF Next, Moves

\* The invariant of the document intake holds in every behaviour, with the
\* types of all its tables and requests.
THEOREM Invariance == Spec => []IInv
<1>1. Init => IInv
  BY InitIInv
<1>2. IInv /\ [Next]_vars => IInv'
  BY StepIInv
<1> QED
  BY <1>1, <1>2, PTL DEF Spec

\* The tables and the requests are well typed (all routes of the intake).
THEOREM TypesHold == Spec => []TypeOK
<1>1. IInv => TypeOK
  BY DEF IInv
<1> QED
  BY <1>1, Invariance, PTL

\* Whatever runs concurrently and whatever fails, an entry's invoices are those
\* of its one completion and of the approvals whose last UPDATE failed
\* (app/api/ocr-queue/[id]).
THEOREM BooksAlwaysBalance == Spec => []BooksBalance
<1>1. IInv => BooksBalance
  BY DEF IInv
<1> QED
  BY <1>1, Invariance, PTL

\* At most one approval works on an entry (app/api/ocr-queue/[id]).
THEOREM ClaimsExclude == Spec => []ClaimExcludes
<1>1. IInv => ClaimExcludes
  BY DEF IInv
<1> QED
  BY <1>1, Invariance, PTL

\* A foreign key never fails: a row names a client that exists (lib/client-cap.ts).
THEOREM RowsNameClients == Spec => []ForeignKeysHold
<1>1. IInv => ForeignKeysHold
  BY DEF IInv
<1> QED
  BY <1>1, Invariance, PTL

\* No attachment of a message flagged \Seen is missing (app/api/email/sync).
THEOREM NothingSeenIsLost == Spec => []SeenIsStored
<1>1. IInv => SeenIsStored
  BY DEF IInv
<1> QED
  BY <1>1, Invariance, PTL

\* The cap: any number of concurrent requests add a client only while the plan
\* in force has room for it (lib/client-cap.ts).
THEOREM CapIsKept == Spec => GrowsWithinCap
<1>1. IInv /\ [Next]_vars => [clients' # clients => Cardinality(clients') <= maxClients]_vars
  <2> SUFFICES ASSUME IInv, Next, clients' # clients PROVE Cardinality(clients') <= maxClients
    BY DEF vars
  <2>0. CapTypeOK
    BY DEF IInv, TypeOK
  <2>1. PICK r \in Callers : InsertClient(r)
    <3>1. \A limit \in Limits : ~PlanChanges(limit)
      BY DEF PlanChanges, ChangePlan
    <3>2. /\ ~Crash
          /\ \A r \in Callers : CapFails(r) \/ CallChange(r) => clients' = clients
      BY DEF Crash, CapFails, CapCrash, CallChange
    <3>3. \A r \in Callers : Connect(r) \/ LockFirm(r) \/ FindExisting(r) \/ CountClients(r)
                             => clients' = clients
      BY DEF Connect, LockFirm, FindExisting, CountClients
    <3> QED
      BY <3>1, <3>2, <3>3, ShapeOfCap DEF Next, CapShape, CapStep
  <2>2. IsFiniteSet(clients) /\ Cardinality(clients) \in Nat /\ maxClients \in Nat
    BY <2>0, ClientsAreFinite
  <2>3. Cardinality(clients) < maxClients
    BY <2>1 DEF InsertClient, IInv, ReadUnderLock
  <2>4. clients' = clients \union {call[r].nip}
    BY <2>1 DEF InsertClient
  <2>5. Cardinality(clients') = Cardinality(clients) \/ Cardinality(clients') = Cardinality(clients) + 1
    BY <2>2, <2>4, FS_AddElement
  <2> QED
    BY <2>2, <2>3, <2>5
<1> QED
  BY <1>1, Invariance, PTL DEF Spec, GrowsWithinCap

-----------------------------------------------------------------------------
(* The connections of the pool *)

\* The connections that r keeps.
Uses(r) == (IF Connected(r) THEN 1 ELSE 0) + (IF HasConnection(r) THEN 1 ELSE 0)

LEMMA UsesOfArrival ==
  ASSUME IInv, NEW r \in Callers, Arrives(r)
  PROVE  free' = free /\ Uses(r) = 0 /\ Uses(r)' = 0
<1>0. /\ call \in [Callers -> Call] /\ req \in [Callers -> Request] /\ req[r] \in Request
      /\ req[r].pc = "idle" => call[r].pc = "idle"
  BY DEF IInv, TypeOK, CapTypeOK, CallsAreAwaited
<1> DEFINE Kept == free' = free /\ Uses(r) = 0 /\ Uses(r)' = 0
<1>1. ASSUME req[r].pc = "idle", free' = free,
             call'[r].pc \in {"idle", "connect"}, ~HasConnection(r)'
      PROVE  Kept
  BY <1>0, <1>1 DEF Uses, Connected, HasConnection
<1>2. ASSUME NEW e \in Entries, NEW n \in Nips, NEW v \in BOOLEAN, Approve(r, e, n, v) PROVE Kept
  <2>1. req'[r].op = "approve"
    BY <1>0, <1>2 DEF Approve, Request
  <2>2. req[r].pc = "idle" /\ free' = free
    BY <1>2 DEF Approve
  <2>3. call'[r].pc \in {"idle", "connect"}
    BY <1>0, <1>2, BlankType DEF Approve
  <2> QED
    BY <1>1, <2>1, <2>2, <2>3 DEF HasConnection
<1>3. ASSUME NEW e \in Entries, Reject(r, e) PROVE Kept
  <2>1. req'[r].pc = "done"
    BY <1>0, <1>3, EndedType DEF Reject, End
  <2> QED
    BY <1>0, <1>1, <1>3, <2>1 DEF Reject, capVars, HasConnection
<1>4. ASSUME NEW d \in Documents, Scan(r, d) \/ Upload(r, d) PROVE Kept
  <2>1. req'[r].pc \in {"connect", "enqueue"}
    BY <1>0, <1>4 DEF Scan, Upload, Request
  <2> QED
    BY <1>0, <1>1, <1>4, <2>1 DEF Scan, Upload, Elsewhere, HasConnection
<1>5. ASSUME NEW n \in Nips, AddClient(r, n) PROVE Kept
  <2>1. req'[r].op = "add" /\ call'[r].pc = "connect"
    BY <1>0, <1>5, BlankType DEF AddClient, Request
  <2> QED
    BY <1>1, <1>5, <2>1 DEF AddClient, Elsewhere, HasConnection
<1>6. ASSUME SearchMail(r) PROVE Kept
  <2>1. req'[r].pc = "next"
    BY <1>0, <1>6 DEF SearchMail, Request
  <2> QED
    BY <1>0, <1>1, <1>6, <2>1 DEF SearchMail, Elsewhere, HasConnection
<1> QED
  BY <1>2, <1>3, <1>4, <1>5, <1>6 DEF Arrives

\* Within a transaction connections are taken and released by Connect, COMMIT
\* and ROLLBACK.
LEMMA UsesOfTransaction ==
  ASSUME IInv, NEW r \in Callers, CapStep(r) \/ CapFails(r), UNCHANGED req
  PROVE  free' + Uses(r)' = free + Uses(r) /\ \A s \in Callers \ {r} : call'[s] = call[s]
<1>0. call \in [Callers -> Call] /\ call[r] \in Call /\ free \in Nat /\ CapTypeOK
  BY DEF IInv, TypeOK, CapTypeOK
<1>1. HasConnection(r)' <=> HasConnection(r)
  BY DEF HasConnection
<1>2. \/ free' = free /\ (Connected(r)' <=> Connected(r))
      \/ free' = free - 1 /\ ~Connected(r) /\ Connected(r)'
      \/ free' = free + 1 /\ Connected(r) /\ ~Connected(r)'
  <2>1. CASE Connect(r)
    BY <1>0, <2>1 DEF Connect, Connected, Call
  <2>2. CASE LockFirm(r)
    BY <1>0, <2>2 DEF LockFirm, Connected, Call
  <2>3. CASE FindExisting(r)
    BY <1>0, <2>3, FindEffect DEF Connected, CallTo
  <2>4. CASE CountClients(r)
    BY <1>0, <2>4, CountEffect DEF Connected, CallTo
  <2>5. CASE InsertClient(r)
    BY <1>0, <2>5 DEF InsertClient, Commit, Connected, Call
  <2>6. CASE CapFails(r)
    BY <1>0, <2>6 DEF CapFails, Rollback, InTransaction, Connected, Call
  <2> QED
    BY <2>1, <2>2, <2>3, <2>4, <2>5, <2>6 DEF CapStep
<1>3. \A s \in Callers \ {r} : call'[s] = call[s]
  BY <1>0 DEF CapStep, Connect, LockFirm, FindExisting, CountClients, InsertClient, CapFails
<1> QED
  BY <1>0, <1>1, <1>2, <1>3 DEF Uses

\* The other steps of a request that is being served.
LEMMA UsesOfRequest ==
  ASSUME IInv, NEW r \in Callers, Continues(r) \/ Breaks(r), ~Transaction(r), ~TransactionFails(r)
  PROVE  free' + Uses(r)' = free + Uses(r) /\ \A s \in Callers \ {r} : call'[s] = call[s]
<1>0. /\ call \in [Callers -> Call] /\ req \in [Callers -> Request] /\ req[r] \in Request /\ free \in Nat
      /\ req[r].pc # "client" => call[r].pc = "idle"
      /\ req[r].pc \in {"complete", "release"} => req[r].op = "approve"
  BY DEF IInv, TypeOK, CapTypeOK, CallsAreAwaited, ClaimsAreApprovals
<1>1. UNCHANGED call \/ \E v \in Call : call' = [call EXCEPT ![r] = v]
  <2>1. \A d \in Documents : NipOf[d] \in Nips
    BY IntakeAssumption
  <2>2. Continues(r) => UNCHANGED call \/ \E v \in Call : call' = [call EXCEPT ![r] = v]
    BY <1>0, <2>1, BlankType DEF Continues, RefuseAmounts, BookInvoice, CompleteEntry, ClientRefused, ReleaseClaim,
       AddClientEnds, TakeConnection, Enqueue, IntakeRefused, NextMessage, TakeAttachment, MessageDone, SyncDone,
       capVars, Request
  <2>3. Breaks(r) => UNCHANGED call \/ \E v \in Call : call' = [call EXCEPT ![r] = v]
    BY BlankType DEF Breaks, RefuseAmountsFails, BookInvoiceFails, CompleteEntryFails, ReleaseClaimFails,
       IntakeFails, SyncFails, capVars
  <2> QED
    BY <2>2, <2>3
<1>2. \A s \in Callers \ {r} : call'[s] = call[s]
  BY <1>0, <1>1
<1> DEFINE Kept == free' + Uses(r)' = free + Uses(r)
<1>3. ASSUME free' = free, call[r].pc \in {"idle", "ok", "refused"}, call'[r].pc = "idle",
             ~HasConnection(r), ~HasConnection(r)'
      PROVE  Kept
  BY <1>3 DEF Uses, Connected
<1>4. ASSUME Release(r), call[r].pc \in {"idle", "ok", "refused"}, call'[r].pc = "idle", ~HasConnection(r)'
      PROVE  Kept
  BY <1>0, <1>4 DEF Uses, Connected, Release
<1>5. (call' = [call EXCEPT ![r] = NoCall]) => call'[r].pc = "idle"
  BY <1>0, BlankType
<1>6. \A pc \in {"done", "crashed"} : End(r, pc) => ~HasConnection(r)'
  BY <1>0, EndedType DEF End, HasConnection
<1>7. ASSUME \/ RefuseAmounts(r) \/ CompleteEntry(r) \/ ReleaseClaim(r) \/ SyncDone(r)
             \/ RefuseAmountsFails(r) \/ ReleaseClaimFails(r) \/ SyncFails(r)
      PROVE  Kept
  <2>1. req[r].pc # "client" /\ UNCHANGED <<free, call>> /\ End(r, "done")
    BY <1>7 DEF RefuseAmounts, CompleteEntry, ReleaseClaim, SyncDone, RefuseAmountsFails, ReleaseClaimFails,
       SyncFails, capVars
  <2> QED
    BY <1>0, <1>3, <1>6, <2>1 DEF HasConnection
<1>8. ASSUME BookInvoice(r) \/ ClientRefused(r) \/ BookInvoiceFails(r) \/ CompleteEntryFails(r)
      PROVE  Kept
  <2>1. /\ req[r].op = "approve" /\ free' = free /\ call[r].pc \in {"idle", "ok", "refused"}
        /\ call' = [call EXCEPT ![r] = NoCall] \/ (UNCHANGED call /\ call[r].pc = "idle")
    BY <1>0, <1>8 DEF BookInvoice, ClientRefused, BookInvoiceFails, CompleteEntryFails, Elsewhere, capVars
  <2>2. Goto(r, "complete") \/ Goto(r, "release")
    BY <1>8 DEF BookInvoice, ClientRefused, BookInvoiceFails, CompleteEntryFails
  <2>3. req'[r].pc # "client"
    BY <1>0, <2>2 DEF Goto, Request
  <2> QED
    BY <1>3, <1>5, <2>1, <2>3 DEF HasConnection
<1>9. ASSUME AddClientEnds(r) PROVE Kept
  BY <1>3, <1>5, <1>6, <1>9 DEF AddClientEnds, Elsewhere, HasConnection
<1>10. ASSUME TakeConnection(r) PROVE Kept
  <2>1. req'[r].pc = "client" /\ req'[r].op = req[r].op /\ req[r].pc = "connect"
    BY <1>0, <1>10 DEF TakeConnection, Goto, Request
  <2>2. req[r].op \in {"scan", "mail"}
    BY <2>1 DEF IInv, SyncKnows
  <2>3. call[r].pc = "idle" /\ call'[r].pc = "connect" /\ free' = free - 1
    BY <1>0, <1>10, <2>1, BlankType, IntakeAssumption DEF TakeConnection, Request
  <2> QED
    BY <1>0, <2>1, <2>2, <2>3 DEF Uses, Connected, HasConnection
<1>11. (AttachmentDone(r).pc = "attach") /\ (AttachmentFailed(r).pc = "attach")
  BY <1>0 DEF AttachmentDone, AttachmentFailed, Request
<1>12. ASSUME Enqueue(r) PROVE Kept
  <2>1. call[r].pc \in {"idle", "ok"}
    BY <1>0, <1>12 DEF Enqueue, MayEnqueue
  <2>2. req'[r].pc # "client"
    BY <1>0, <1>11, <1>12, EndedType DEF Enqueue
  <2> QED
    BY <1>4, <1>5, <1>12, <2>1, <2>2 DEF Enqueue, HasConnection
<1>13. ASSUME IntakeRefused(r) \/ IntakeFails(r) PROVE Kept
  <2>1. call[r].pc \in {"idle", "ok", "refused"}
    BY <1>0, <1>13 DEF IntakeRefused, IntakeFails, MayEnqueue
  <2>2. req'[r].pc # "client"
    BY <1>0, <1>11, <1>13, EndedType DEF IntakeRefused, IntakeFails, IntakeEnds
  <2> QED
    BY <1>4, <1>5, <1>13, <2>1, <2>2 DEF IntakeRefused, IntakeFails, HasConnection
<1>14. ASSUME NEW m \in Messages, NextMessage(r, m) PROVE Kept
  <2>1. req[r].pc = "next" /\ req'[r].pc = "attach" /\ UNCHANGED <<free, call>>
    BY <1>0, <1>14 DEF NextMessage, Elsewhere, Request
  <2> QED
    BY <1>0, <1>3, <2>1 DEF HasConnection
<1>15. ASSUME NEW d \in Documents, TakeAttachment(r, d) PROVE Kept
  <2>1. req[r].pc = "attach" /\ req'[r].pc = "connect" /\ UNCHANGED <<free, call>>
    BY <1>0, <1>15 DEF TakeAttachment, Elsewhere, Request
  <2> QED
    BY <1>0, <1>3, <2>1 DEF HasConnection
<1>16. ASSUME MessageDone(r) PROVE Kept
  <2>1. req[r].pc = "attach" /\ req'[r].pc = "next" /\ UNCHANGED <<free, call>>
    BY <1>0, <1>16 DEF MessageDone, capVars, Request
  <2> QED
    BY <1>0, <1>3, <2>1 DEF HasConnection
<1> QED
  BY <1>2, <1>7, <1>8, <1>9, <1>10, <1>12, <1>13, <1>14, <1>15, <1>16 DEF Continues, Breaks

LEMMA CountWithout ==
  ASSUME NEW A \in SUBSET Callers, NEW r \in Callers
  PROVE  /\ Cardinality(A) \in Nat /\ Cardinality(A \ {r}) \in Nat
         /\ Cardinality(A) = Cardinality(A \ {r}) + (IF r \in A THEN 1 ELSE 0)
<1>1. IsFiniteSet(A)
  BY CapAssumption, FS_Subset
<1>2. IsFiniteSet(A \ {r}) /\ Cardinality(A \ {r}) = IF r \in A THEN Cardinality(A) - 1 ELSE Cardinality(A)
  BY <1>1, FS_RemoveElement
<1>3. Cardinality(A) \in Nat /\ Cardinality(A \ {r}) \in Nat
  BY <1>1, <1>2, FS_CardinalityType
<1> QED
  BY <1>2, <1>3

\* One request moves and the connections that the others keep stay theirs.
LEMMA ConnectionsOfOthers ==
  ASSUME IInv, ConnectionsReturned, NEW r \in Callers, free' \in Nat,
         free' + Uses(r)' = free + Uses(r),
         \A s \in Callers \ {r} : call'[s] = call[s] /\ req'[s] = req[s]
  PROVE  ConnectionsReturned'
<1> DEFINE A == {c \in Callers : Connected(c)}
           B == {c \in Callers : HasConnection(c)}
<1>1. PICK A1, B1 : A1 = A' /\ B1 = B' /\ A1 \in SUBSET Callers /\ B1 \in SUBSET Callers
  OBVIOUS
<1>2. A1 \ {r} = A \ {r} /\ B1 \ {r} = B \ {r}
  BY <1>1 DEF Connected, HasConnection
<1>3. PICK u \in {0, 1}, v \in {0, 1}, u1 \in {0, 1}, v1 \in {0, 1} :
         /\ u = (IF Connected(r) THEN 1 ELSE 0) /\ u1 = (IF Connected(r)' THEN 1 ELSE 0)
         /\ v = (IF HasConnection(r) THEN 1 ELSE 0) /\ v1 = (IF HasConnection(r)' THEN 1 ELSE 0)
  OBVIOUS
<1>4. free' + (u1 + v1) = free + (u + v)
  BY <1>3 DEF Uses
<1>5. PICK a \in Nat, b \in Nat : a = Cardinality(A \ {r}) /\ b = Cardinality(B \ {r})
  BY CountWithout
<1>6. Cardinality(A) = a + u /\ Cardinality(B) = b + v
  BY <1>3, <1>5, CountWithout
<1>7. Cardinality(A1) = a + u1 /\ Cardinality(B1) = b + v1
  BY <1>1, <1>2, <1>3, <1>5, CountWithout
<1> HIDE DEF A, B
<1>8. free' + Cardinality(A1) + Cardinality(B1) = PoolSize
  <2>1. free \in Nat /\ PoolSize \in Nat /\ free + Cardinality(A) + Cardinality(B) = PoolSize
    BY CapAssumption DEF IInv, TypeOK, CapTypeOK, ConnectionsReturned, A, B
  <2>2. free + (a + u) + (b + v) = PoolSize
    BY <1>6, <2>1
  <2>3. PICK f \in Nat, f1 \in Nat, n \in Nat : f = free /\ f1 = free' /\ n = PoolSize
    BY <2>1
  <2>4. f + (a + u) + (b + v) = n /\ f1 + (u1 + v1) = f + (u + v)
    BY <1>4, <2>2, <2>3
  <2>5. f1 + (a + u1) + (b + v1) = n
    BY <2>4
  <2> QED
    BY <1>7, <2>3, <2>5
<1>9. A1 = {c \in Callers : Connected(c)'} /\ B1 = {c \in Callers : HasConnection(c)'}
  BY <1>1 DEF A, B
<1> QED
  BY <1>8, <1>9 DEF ConnectionsReturned

\* No connection of the pool is lost or given back twice, whatever fails and
\* however many requests there are (lib/client-cap.ts, app/api/ocr,
\* app/api/email/sync).
THEOREM NoConnectionLeaks == Spec => []ConnectionsReturned
<1>1. Init => ConnectionsReturned
  <2> SUFFICES ASSUME Init PROVE ConnectionsReturned
    OBVIOUS
  <2>1. \A r \in Callers : call[r].pc = "idle" /\ req[r].pc = "idle"
    BY BlankType, EndedType DEF Init, CapInit
  <2>2. {c \in Callers : Connected(c)} = {} /\ {c \in Callers : HasConnection(c)} = {}
    BY <2>1 DEF Connected, HasConnection
  <2>3. Cardinality({c \in Callers : Connected(c)}) = 0 /\ Cardinality({c \in Callers : HasConnection(c)}) = 0
    BY <2>2, FS_EmptySet
  <2>4. free = PoolSize
    BY DEF Init, CapInit
  <2>5. PoolSize \in Nat
    BY CapAssumption
  <2> QED
    BY <2>3, <2>4, <2>5 DEF ConnectionsReturned
<1>2. IInv /\ IInv' /\ ConnectionsReturned /\ [Next]_vars => ConnectionsReturned'
  <2> SUFFICES ASSUME IInv, IInv', ConnectionsReturned, [Next]_vars PROVE ConnectionsReturned'
    OBVIOUS
  <2>0. free' \in Nat /\ free \in Nat
    BY DEF IInv, TypeOK, CapTypeOK
  <2>1. ASSUME NEW r \in Callers, Arrives(r) \/ Continues(r) \/ Breaks(r) PROVE ConnectionsReturned'
    <3>0. TypeOK /\ \A s \in Callers \ {r} : req'[s] = req[s]
      BY <2>1, TypeOfRequest DEF IInv
    <3>1. CASE Arrives(r)
      <4>1. free' + Uses(r)' = free + Uses(r)
        BY <2>0, <3>1, UsesOfArrival
      <4>2. \A s \in Callers \ {r} : call'[s] = call[s]
        BY <3>1 DEF Arrives, Approve, Reject, Scan, Upload, AddClient, SearchMail, capVars, IInv, TypeOK, CapTypeOK
      <4> QED
        BY <2>0, <3>0, <4>1, <4>2, ConnectionsOfOthers
    <3>2. CASE Transaction(r) \/ TransactionFails(r)
      <4>1. (CapStep(r) \/ CapFails(r)) /\ UNCHANGED req
        BY <3>2 DEF Transaction, TransactionFails
      <4> QED
        BY <2>0, <3>0, <4>1, UsesOfTransaction, ConnectionsOfOthers
    <3>3. CASE ~Arrives(r) /\ ~Transaction(r) /\ ~TransactionFails(r)
      BY <2>0, <2>1, <3>0, <3>3, UsesOfRequest, ConnectionsOfOthers
    <3> QED
      BY <3>1, <3>2, <3>3
  <2>2. ASSUME NEW limit \in Limits, PlanChanges(limit) PROVE ConnectionsReturned'
    BY <2>2 DEF PlanChanges, ChangePlan, ConnectionsReturned, Connected, HasConnection
  <2>3. CASE UNCHANGED vars
    BY <2>3 DEF vars, capVars, ConnectionsReturned, Connected, HasConnection
  <2>4. CASE Crash
    <3>1. \A r \in Callers : call'[r].pc = "idle" /\ req'[r].pc # "client"
      BY <2>4, BlankType, EndedType DEF Crash, CapCrash, Served
    <3>2. {c \in Callers : Connected(c)'} = {} /\ {c \in Callers : HasConnection(c)'} = {}
      BY <3>1 DEF Connected, HasConnection
    <3>3. free' = PoolSize
      BY <2>4 DEF Crash, CapCrash
    <3> QED
      BY <3>2, <3>3, CapAssumption, FS_EmptySet DEF ConnectionsReturned
  <2> QED
    BY <2>1, <2>2, <2>3, <2>4 DEF Next
<1> QED
  BY <1>1, <1>2, Invariance, PTL DEF Spec

\* With fewer requests in flight than the pool has connections a scan that
\* keeps one and waits for another is never stuck; with as many it may be
\* (app/api/ocr, app/api/email/sync).
THEOREM FewRequestsNeverExhaust ==
  ASSUME Cardinality(Callers) < PoolSize
  PROVE  Spec => []PoolMovesOn
<1>1. IInv /\ ConnectionsReturned => PoolMovesOn
  <2> SUFFICES ASSUME IInv, ConnectionsReturned, free = 0, \A c \in Callers : ~Connected(c)
               PROVE  FALSE
    BY DEF PoolMovesOn
  <2>1. Cardinality({c \in Callers : Connected(c)}) = 0
    <3>1. {c \in Callers : Connected(c)} = {}
      OBVIOUS
    <3> QED
      BY <3>1, FS_EmptySet
  <2>2. PICK B \in SUBSET Callers : B = {r \in Callers : HasConnection(r)}
    OBVIOUS
  <2>3. Cardinality(B) \in Nat /\ Cardinality(B) <= Cardinality(Callers) /\ Cardinality(Callers) \in Nat
    BY CapAssumption, FS_Subset, FS_CardinalityType
  <2>4. Cardinality(B) = PoolSize
    BY <2>1, <2>2, <2>3 DEF ConnectionsReturned
  <2> QED
    BY <2>3, <2>4, CapAssumption
<1> QED
  BY <1>1, Invariance, NoConnectionLeaks, PTL

-----------------------------------------------------------------------------
(* Entries that nobody works on *)

Stranded == {e \in Entries : status[e] = "processing" /\ \A r \in Callers : ~Holds(r, e)}

Crashed == {r \in Callers : req[r].pc = "crashed"}

StrandOK == IsFiniteSet(Stranded) /\ Cardinality(Stranded) <= faults + Cardinality(Crashed)

\* An entry that r leaves in 'processing' was there before, and r did not just
\* lose it.
Keeps(r, e) ==
  status'[e] = "processing"
    => Holds(r, e)' \/ (status[e] = "processing" /\ ~Holds(r, e))

\* Of the steps of a request only the two that cannot give the claim back lose
\* its entry, and those are faults.
LEMMA RequestKeeps ==
  ASSUME IInv, NEW r \in Callers, Moves(r)
  PROVE  \/ \A e \in Entries : Keeps(r, e)
         \/ faults' = faults + 1 /\ \A e \in Entries \ {req[r].entry} : Keeps(r, e)
<1>0. /\ req \in [Callers -> Request] /\ req[r] \in Request /\ status \in [Entries -> Statuses]
      /\ req[r].entry \in Entries
  BY DEF IInv, TypeOK, Request
<1>1. UNCHANGED status /\ (\A e \in Entries : ~Holds(r, e)) => \A e \in Entries : Keeps(r, e)
  BY DEF Keeps
<1>2. UNCHANGED <<status, req>> => \A e \in Entries : Keeps(r, e)
  BY DEF Keeps, Holds
<1>3. \A e \in Entries : Holds(r, e) => e = req[r].entry
  BY DEF Holds
<1>4. ASSUME UNCHANGED status, req[r].op = "approve", Goto(r, "complete") \/ Goto(r, "release")
      PROVE  \A e \in Entries : Keeps(r, e)
  <2>1. /\ req'[r].pc \in {"complete", "release"} /\ req'[r].op = "approve"
        /\ req'[r].entry = req[r].entry
    BY <1>0, <1>4 DEF Goto, Request
  <2> QED
    BY <1>4, <2>1 DEF Keeps, Holds
<1>5. CASE Arrives(r)
  <2>0. \A e \in Entries : ~Holds(r, e)
    BY <1>5 DEF Arrives, Approve, Reject, Scan, Upload, AddClient, SearchMail, Holds
  <2>1. ASSUME NEW x \in Entries, NEW n \in Nips, NEW v \in BOOLEAN, Approve(r, x, n, v)
        PROVE  \A e \in Entries : Keeps(r, e)
    <3>1. req'[r].entry = x /\ req'[r].op = "approve" /\ req'[r].pc \in {"client", "refuse"}
      BY <1>0, <2>1 DEF Approve, Request
    <3>2. \A e \in Entries \ {x} : status'[e] = status[e]
      BY <1>0, <2>1 DEF Approve
    <3> QED
      BY <2>0, <3>1, <3>2 DEF Keeps, Holds
  <2>2. ASSUME NEW x \in Entries, Reject(r, x) PROVE \A e \in Entries : Keeps(r, e)
    <3>1. status'[x] = "failed" /\ \A e \in Entries \ {x} : status'[e] = status[e]
      BY <1>0, <2>2 DEF Reject
    <3> QED
      BY <2>0, <3>1 DEF Keeps
  <2>3. ASSUME UNCHANGED status PROVE \A e \in Entries : Keeps(r, e)
    BY <1>1, <2>0, <2>3
  <2> QED
    BY <1>5, <2>1, <2>2, <2>3 DEF Arrives, Scan, Upload, AddClient, SearchMail, Elsewhere, queueVars
<1>6. CASE Continues(r)
  <2>1. CASE Transaction(r)
    BY <1>2, <2>1 DEF Transaction, queueVars
  <2>2. CASE RefuseAmounts(r) \/ CompleteEntry(r) \/ ReleaseClaim(r)
    <3>1. PICK s \in {"manual_review", "completed"} : status' = [status EXCEPT ![req[r].entry] = s]
      BY <2>2 DEF RefuseAmounts, CompleteEntry, ReleaseClaim
    <3>2. /\ status'[req[r].entry] # "processing"
          /\ \A e \in Entries \ {req[r].entry} : status'[e] = status[e]
      BY <1>0, <3>1
    <3> QED
      BY <1>3, <3>2 DEF Keeps
  <2>3. CASE BookInvoice(r) \/ ClientRefused(r)
    BY <1>4, <2>3 DEF BookInvoice, ClientRefused, Elsewhere, queueVars
  <2>4. CASE Enqueue(r)
    <3>1. \A e \in Entries : ~Holds(r, e)
      BY <2>4 DEF Enqueue, MayEnqueue, HasConnection, Holds
    <3>2. PICK x \in Entries : x = <<r, req[r].doc>>
      BY <1>0 DEF Entries, Request
    <3>3. req[r].doc \in Documents
      BY <1>0 DEF Request
    <3>4. status'[x] # "processing" /\ \A e \in Entries \ {x} : status'[e] = status[e]
      BY <1>0, <2>4, <3>2, <3>3, OverType DEF Enqueue
    <3> QED
      BY <3>1, <3>4 DEF Keeps
  <2>5. CASE \/ AddClientEnds(r) \/ TakeConnection(r) \/ IntakeRefused(r)
             \/ (\E m \in Messages : NextMessage(r, m)) \/ (\E d \in Documents : TakeAttachment(r, d))
             \/ MessageDone(r) \/ SyncDone(r)
    <3>1. \A e \in Entries : ~Holds(r, e)
      BY <2>5 DEF AddClientEnds, TakeConnection, IntakeRefused, NextMessage, TakeAttachment, MessageDone,
         SyncDone, HasConnection, Holds
    <3>2. UNCHANGED status
      BY <2>5 DEF AddClientEnds, TakeConnection, IntakeRefused, NextMessage, TakeAttachment, MessageDone,
         SyncDone, Elsewhere, queueVars
    <3> QED
      BY <1>1, <3>1, <3>2
  <2> QED
    BY <1>6, <2>1, <2>2, <2>3, <2>4, <2>5 DEF Continues
<1>7. CASE Breaks(r)
  <2>1. CASE TransactionFails(r)
    BY <1>2, <2>1 DEF TransactionFails, queueVars
  <2>2. CASE BookInvoiceFails(r) \/ CompleteEntryFails(r)
    <3>1. req[r].op = "approve"
      BY <2>2 DEF BookInvoiceFails, CompleteEntryFails, IInv, ClaimsAreApprovals
    <3> QED
      BY <1>4, <2>2, <3>1 DEF BookInvoiceFails, CompleteEntryFails, Elsewhere, queueVars
  <2>3. CASE RefuseAmountsFails(r) \/ ReleaseClaimFails(r)
    <3>1. UNCHANGED status /\ faults' = faults + 1
      BY <2>3 DEF RefuseAmountsFails, ReleaseClaimFails, Fault, queueVars
    <3> QED
      BY <1>3, <3>1 DEF Keeps
  <2>4. CASE IntakeFails(r) \/ SyncFails(r)
    <3>1. \A e \in Entries : ~Holds(r, e)
      BY <2>4 DEF IntakeFails, SyncFails, MayEnqueue, HasConnection, Holds
    <3>2. UNCHANGED status
      BY <2>4 DEF IntakeFails, SyncFails, queueVars
    <3> QED
      BY <1>1, <3>1, <3>2
  <2> QED
    BY <1>7, <2>1, <2>2, <2>3, <2>4 DEF Breaks
<1> QED
  BY <1>5, <1>6, <1>7 DEF Moves

\* A request that moves has not crashed, and does not.
LEMMA MovingIsAlive ==
  ASSUME IInv, NEW r \in Callers, Moves(r)
  PROVE  Crashed' = Crashed /\ faults' \in {faults, faults + 1}
<1>0. /\ req \in [Callers -> Request] /\ req[r] \in Request
      /\ \A s \in Callers \ {r} : req'[s] = req[s]
  BY TypeOfRequest DEF IInv, TypeOK, Moves
<1>1. req[r].pc # "crashed"
  <2>1. Arrives(r) => req[r].pc # "crashed"
    BY DEF Arrives, Approve, Reject, Scan, Upload, AddClient, SearchMail
  <2>2. Transaction(r) \/ TransactionFails(r) => call[r].pc # "idle"
    BY DEF Transaction, TransactionFails, CapStep, CapFails, Connect, LockFirm, FindExisting, CountClients,
       InsertClient, InTransaction
  <2>3. Transaction(r) \/ TransactionFails(r) => req[r].pc # "crashed"
    BY <2>2 DEF IInv, CallsAreAwaited
  <2>4. Continues(r) /\ ~Transaction(r) => req[r].pc # "crashed"
    BY DEF Continues, RefuseAmounts, BookInvoice, CompleteEntry, ClientRefused, ReleaseClaim, AddClientEnds,
       TakeConnection, Enqueue, MayEnqueue, HasConnection, IntakeRefused, NextMessage, TakeAttachment,
       MessageDone, SyncDone
  <2>5. Breaks(r) /\ ~TransactionFails(r) => req[r].pc # "crashed"
    BY DEF Breaks, RefuseAmountsFails, BookInvoiceFails, CompleteEntryFails, ReleaseClaimFails, IntakeFails,
       MayEnqueue, HasConnection, SyncFails
  <2> QED
    BY <2>1, <2>3, <2>4, <2>5 DEF Moves
<1>2. End(r, "done") => req'[r].pc # "crashed"
  BY <1>0, EndedType DEF End
<1>3. Goto(r, "complete") \/ Goto(r, "release") \/ Goto(r, "client") => req'[r].pc # "crashed"
  BY <1>0 DEF Goto, Request
<1>4. AttachmentDone(r).pc = "attach" /\ AttachmentFailed(r).pc = "attach"
  BY <1>0 DEF AttachmentDone, AttachmentFailed, Request
<1>5. IntakeEnds(r) => req'[r].pc # "crashed"
  BY <1>0, <1>4, EndedType DEF IntakeEnds
<1>6. req'[r].pc # "crashed"
  <2>1. CASE Arrives(r)
    <3>1. ASSUME NEW e \in Entries, NEW n \in Nips, NEW v \in BOOLEAN, Approve(r, e, n, v)
          PROVE  req'[r].pc # "crashed"
      BY <1>0, <3>1 DEF Approve, Request
    <3>2. ASSUME NEW d \in Documents, Scan(r, d) \/ Upload(r, d) PROVE req'[r].pc # "crashed"
      BY <1>0, <3>2 DEF Scan, Upload, Request
    <3>3. ASSUME NEW n \in Nips, AddClient(r, n) PROVE req'[r].pc # "crashed"
      BY <1>0, <3>3 DEF AddClient, Request
    <3>4. SearchMail(r) => req'[r].pc # "crashed"
      BY <1>0 DEF SearchMail, Request
    <3> QED
      BY <1>2, <2>1, <3>1, <3>2, <3>3, <3>4 DEF Arrives, Reject
  <2>2. CASE Continues(r)
    <3>1. Transaction(r) => req'[r].pc # "crashed"
      BY <1>1 DEF Transaction
    <3>2. ASSUME NEW m \in Messages, NextMessage(r, m) PROVE req'[r].pc # "crashed"
      BY <1>0, <3>2 DEF NextMessage, Request
    <3>3. ASSUME NEW d \in Documents, TakeAttachment(r, d) PROVE req'[r].pc # "crashed"
      BY <1>0, <3>3 DEF TakeAttachment, Request
    <3>4. MessageDone(r) => req'[r].pc # "crashed"
      BY <1>0 DEF MessageDone, Request
    <3>5. Enqueue(r) => req'[r].pc # "crashed"
      BY <1>0, <1>4, EndedType DEF Enqueue
    <3> QED
      BY <1>2, <1>3, <1>5, <2>2, <3>1, <3>2, <3>3, <3>4, <3>5 DEF Continues, RefuseAmounts, BookInvoice,
         CompleteEntry, ClientRefused, ReleaseClaim, AddClientEnds, TakeConnection, IntakeRefused, SyncDone
  <2>3. CASE Breaks(r)
    BY <1>1, <1>2, <1>3, <1>5, <2>3 DEF Breaks, TransactionFails, RefuseAmountsFails, BookInvoiceFails,
       CompleteEntryFails, ReleaseClaimFails, IntakeFails, SyncFails
  <2> QED
    BY <2>1, <2>2, <2>3 DEF Moves
<1>7. faults' \in {faults, faults + 1}
  <2>1. Arrives(r) => UNCHANGED faults
    BY DEF Arrives, Approve, Reject, Scan, Upload, AddClient, SearchMail
  <2>2. Continues(r) => UNCHANGED faults
    BY DEF Continues, Transaction, RefuseAmounts, BookInvoice, CompleteEntry, ClientRefused, ReleaseClaim,
       AddClientEnds, TakeConnection, Enqueue, IntakeRefused, NextMessage, TakeAttachment, MessageDone, SyncDone
  <2>3. Breaks(r) => faults' = faults + 1
    BY DEF Breaks, TransactionFails, RefuseAmountsFails, BookInvoiceFails, CompleteEntryFails,
       ReleaseClaimFails, IntakeFails, SyncFails, Fault
  <2> QED
    BY <2>1, <2>2, <2>3 DEF Moves
<1>8. \A s \in Callers : req'[s].pc = "crashed" <=> req[s].pc = "crashed"
  BY <1>0, <1>1, <1>6
<1> QED
  BY <1>7, <1>8 DEF Crashed

LEMMA MoveStrands ==
  ASSUME IInv, StrandOK, NEW r \in Callers, Moves(r)
  PROVE  StrandOK'
<1>0. /\ \A s \in Callers \ {r} : req'[s] = req[s]
      /\ faults \in Nat /\ faults' \in {faults, faults + 1} /\ Crashed' = Crashed
  BY TypeOfRequest, MovingIsAlive, IntakeAssumption DEF IInv, TypeOK, Moves
<1>1. \A e \in Entries : Keeps(r, e) /\ e \in Stranded' => e \in Stranded
  BY <1>0 DEF Keeps, Stranded, Holds
<1>2. Cardinality(Crashed) \in Nat
  <2>1. IsFiniteSet(Crashed)
    BY CapAssumption, FS_Subset DEF Crashed
  <2> QED
    BY <2>1, FS_CardinalityType
<1>3. Cardinality(Stranded) \in Nat
  BY FS_CardinalityType DEF StrandOK
<1>4. CASE \A e \in Entries : Keeps(r, e)
  <2>1. Stranded' \in SUBSET Stranded
    BY <1>1, <1>4 DEF Stranded
  <2>2. IsFiniteSet(Stranded') /\ Cardinality(Stranded') <= Cardinality(Stranded)
    BY <2>1, FS_Subset DEF StrandOK
  <2>3. Cardinality(Stranded') \in Nat
    BY <2>2, FS_CardinalityType
  <2> QED
    BY <1>0, <1>2, <1>3, <2>2, <2>3 DEF StrandOK
<1>5. CASE faults' = faults + 1 /\ \A e \in Entries \ {req[r].entry} : Keeps(r, e)
  <2> DEFINE more == Stranded \cup {req[r].entry}
  <2>1. Stranded' \in SUBSET more
    BY <1>1, <1>5 DEF Stranded
  <2>2. IsFiniteSet(more) /\ Cardinality(more) <= Cardinality(Stranded) + 1
    BY <1>3, FS_AddElement DEF StrandOK
  <2>3. IsFiniteSet(Stranded') /\ Cardinality(Stranded') <= Cardinality(more)
    BY <2>1, <2>2, FS_Subset
  <2>4. Cardinality(Stranded') \in Nat /\ Cardinality(more) \in Nat
    BY <2>2, <2>3, FS_CardinalityType
  <2> HIDE DEF more
  <2> QED
    BY <1>0, <1>2, <1>3, <1>5, <2>2, <2>3, <2>4 DEF StrandOK
<1> QED
  BY <1>4, <1>5, RequestKeeps

\* A crash strands no more entries than approvals were being served: each of
\* them held one, and it has crashed.
LEMMA CrashStrands ==
  ASSUME IInv, StrandOK, Crash
  PROVE  StrandOK'
<1> DEFINE H == {r \in Callers : \E e \in Entries : Holds(r, e)}
           T == {e \in Entries : \E r \in Callers : Holds(r, e)}
           f == [r \in H |-> req[r].entry]
<1>1. IsFiniteSet(H) /\ IsFiniteSet(Crashed) /\ IsFiniteSet(Crashed')
  BY CapAssumption, FS_Subset DEF Crashed
<1>2. f \in Surjection(H, T)
  <2>1. f \in [H -> T]
    BY DEF Holds
  <2>2. \A e \in T : \E r \in H : f[r] = e
    BY DEF Holds
  <2> QED
    BY <2>1, <2>2 DEF Surjection
<1>3. IsFiniteSet(T) /\ Cardinality(T) <= Cardinality(H)
  BY <1>1, <1>2, FS_Surjection
<1>4. Stranded' \in SUBSET (Stranded \cup T)
  BY DEF Crash, Stranded
<1>5. Crashed \cap H = {} /\ Crashed \cup H \in SUBSET Crashed'
  <2>1. \A r \in Callers : req'[r] = IF Served(r) THEN Ended("crashed") ELSE req[r]
    BY DEF Crash
  <2>2. \A r \in H : Served(r) /\ r \notin Crashed
    BY DEF Holds, Served, Crashed
  <2> QED
    BY <2>1, <2>2, EndedType DEF Crashed, Served
<1>6. faults' = faults + 1 /\ faults \in Nat
  BY IntakeAssumption DEF Crash, Fault, IInv, TypeOK
<1> HIDE DEF H, T, f
<1>7. /\ Cardinality(H) \in Nat /\ Cardinality(T) \in Nat /\ Cardinality(Stranded) \in Nat
      /\ Cardinality(Crashed) \in Nat /\ Cardinality(Crashed') \in Nat
  BY <1>1, <1>3, FS_CardinalityType DEF StrandOK
<1>8. Cardinality(Crashed) + Cardinality(H) <= Cardinality(Crashed')
  <2>1. Cardinality(Crashed \cap H) = 0
    BY <1>5, FS_EmptySet
  <2>2. /\ IsFiniteSet(Crashed \cup H)
        /\ Cardinality(Crashed \cup H)
             = Cardinality(Crashed) + Cardinality(H) - Cardinality(Crashed \cap H)
    BY <1>1, FS_Union
  <2>3. Cardinality(Crashed \cup H) <= Cardinality(Crashed')
    BY <1>1, <1>5, FS_Subset
  <2> QED
    BY <1>7, <2>1, <2>2, <2>3
<1>9. IsFiniteSet(Stranded') /\ Cardinality(Stranded') <= Cardinality(Stranded) + Cardinality(T)
  <2>1. /\ IsFiniteSet(Stranded \cup T)
        /\ Cardinality(Stranded \cup T)
             = Cardinality(Stranded) + Cardinality(T) - Cardinality(Stranded \cap T)
    BY <1>3, FS_Union DEF StrandOK
  <2>2. IsFiniteSet(Stranded \cap T)
    BY FS_Subset DEF StrandOK
  <2>3. Cardinality(Stranded \cap T) \in Nat
    BY <2>2, FS_CardinalityType
  <2>4. IsFiniteSet(Stranded') /\ Cardinality(Stranded') <= Cardinality(Stranded \cup T)
    BY <1>4, <2>1, FS_Subset
  <2>5. Cardinality(Stranded') \in Nat
    BY <2>4, FS_CardinalityType
  <2> QED
    BY <1>7, <2>1, <2>3, <2>4, <2>5
<1>10. Cardinality(Stranded') \in Nat
  BY <1>9, FS_CardinalityType
<1>11. Cardinality(Stranded) <= faults + Cardinality(Crashed)
  BY DEF StrandOK
<1>12. Cardinality(Stranded') <= faults' + Cardinality(Crashed')
  BY <1>3, <1>6, <1>7, <1>8, <1>9, <1>10, <1>11
<1> QED
  BY <1>9, <1>12 DEF StrandOK

\* However many requests meet at the queue, an entry is left in 'processing' by
\* nobody but a request that met a fault of its own or died with the portal
\* (app/api/ocr-queue/[id]).
THEOREM OnlyFaultsLeaveClaims == Spec => []OnlyFaultsStrand
<1>1. Init => StrandOK
  <2> SUFFICES ASSUME Init PROVE StrandOK
    OBVIOUS
  <2>1. Stranded = {} /\ faults = 0
    BY DEF Init, Stranded
  <2>2. Crashed = {}
    BY EndedType DEF Init, Crashed
  <2>3. IsFiniteSet({}) /\ Cardinality({}) = 0
    BY FS_EmptySet
  <2> QED
    BY <2>1, <2>2, <2>3 DEF StrandOK
<1>2. IInv /\ StrandOK /\ [Next]_vars => StrandOK'
  <2> SUFFICES ASSUME IInv, StrandOK, [Next]_vars PROVE StrandOK'
    OBVIOUS
  <2>1. ASSUME NEW r \in Callers, Moves(r) PROVE StrandOK'
    BY <2>1, MoveStrands
  <2>2. CASE UNCHANGED <<status, req, faults>>
    BY <2>2 DEF StrandOK, Stranded, Crashed, Holds
  <2>3. (\E limit \in Limits : PlanChanges(limit)) \/ UNCHANGED vars => UNCHANGED <<status, req, faults>>
    BY DEF PlanChanges, queueVars, vars
  <2> QED
    BY <2>1, <2>2, <2>3, CrashStrands DEF Next, Moves
<1>3. StrandOK => OnlyFaultsStrand
  BY DEF StrandOK, OnlyFaultsStrand, Stranded, Crashed
<1> QED
  BY <1>1, <1>2, <1>3, Invariance, PTL DEF Spec

=============================================================================
