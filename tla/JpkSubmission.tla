---------------------------- MODULE JpkSubmission ----------------------------
(***************************************************************************)
(* Sending a stored JPK file to the test gateway of the Ministry of        *)
(* Finance (api/jpk/test-gateway, lib/jpk-gateway.ts): the metadata are    *)
(* signed by the sidecar, the gateway opens a session and names the parts  *)
(* to put, the parts are put, the upload is finished and the status polled *)
(* until it is final.  Any call may fail, before or after it took effect.  *)
(* A document is what it was made of; a signature is a record around it.   *)
(***************************************************************************)
EXTENDS Integers, Sequences

CONSTANTS Parts,           \* how many parts the file is cut into
          PollAttempts

ASSUME SubmissionAssumption == Parts \in Nat \ {0} /\ PollAttempts \in Nat \ {0}

VARIABLES preparation,   \* jpk_preparations.export_data of the period: <<>> or <<file>>
          submissions,   \* the rows of jpk_test_submissions and where their requests are
          gateway        \* the gateway's upload sessions, by reference number
submissionVars == <<preparation, submissions, gateway>>

Submissions == DOMAIN submissions

SubmissionInit == preparation = <<>> /\ submissions = <<>> /\ gateway = <<>>

\* prepareJpkUpload(): the zipped file is cut into parts, every one encrypted with
\* the one key of this upload, and the metadata name them by number and hash.
Part(file, key, number) == [file |-> file, key |-> key, number |-> number]
PartsOf(file, key) == [number \in 1..Parts |-> Part(file, key, number)]
Metadata(file, key) == [file |-> file, key |-> key, parts |-> PartsOf(file, key)]

\* signEnveloped(): the document, whole, inside the signature.
Signed(document) == [signed |-> document]

\* A missing file is refused: it is never generated as part of sending.  The key
\* is drawn at random.
Submit ==
    /\ preparation # <<>>
    /\ submissions' = Append(submissions,
          [file |-> preparation[1], metadata |-> Metadata(preparation[1], Len(submissions) + 1),
           step |-> "sign", ref |-> 0, put |-> 0, polls |-> 0, code |-> 0, status |-> "submitting"])
    /\ UNCHANGED <<preparation, gateway>>

At(s, step) == submissions[s].step = step
Go(s, changed) == submissions' = [submissions EXCEPT ![s] = changed]
Moved(s, step) == [submissions[s] EXCEPT !.step = step]
Failed(s) == Moved(s, "failed")

\* A call that the gateway, or the sidecar, does not carry out.
CallFails(s) ==
    /\ submissions[s].step \in {"sign", "init", "put", "finish", "poll"}
    /\ Go(s, Failed(s))
    /\ UNCHANGED <<preparation, gateway>>

\* A call that was carried out; its answer may be lost.
Answered(s, changed) == Go(s, changed) \/ Go(s, Failed(s))

\* The sidecar signs the metadata with its own key; without one it answers 503.
SignMetadata(s) ==
    /\ At(s, "sign")
    /\ Go(s, [Moved(s, "init") EXCEPT !.metadata = Signed(@)])
    /\ UNCHANGED <<preparation, gateway>>

InitUpload(s) ==
    /\ At(s, "init")
    /\ gateway' = Append(gateway, [declared |-> submissions[s].metadata.signed, stored |-> {},
                                    finished |-> FALSE, code |-> 300])
    /\ Answered(s, [Moved(s, "put") EXCEPT !.ref = Len(gateway) + 1])
    /\ UNCHANGED preparation

\* Put Blob, for one part after the other.
PutPart(s) ==
    LET ref == submissions[s].ref
        number == submissions[s].put + 1
    IN /\ At(s, "put")
       /\ gateway' = [gateway EXCEPT ![ref].stored = @ \cup {Part(submissions[s].file, s, number)}]
       /\ Answered(s, [Moved(s, IF number = Parts THEN "finish" ELSE "put") EXCEPT !.put = number])
       /\ UNCHANGED preparation

FinishUpload(s) ==
    /\ At(s, "finish")
    /\ gateway' = [gateway EXCEPT ![submissions[s].ref].finished = TRUE]
    /\ Answered(s, Moved(s, "poll"))
    /\ UNCHANGED preparation

\* The gateway checks a finished upload in its own time: 3xx while it does.  It
\* accepts none whose parts are not those the metadata declare.
IsWhole(session) == session.stored = {session.declared.parts[number] : number \in 1..Parts}
GatewayDecides(ref) ==
    /\ gateway[ref].finished /\ gateway[ref].code = 300
    /\ \E code \in IF IsWhole(gateway[ref]) THEN {200, 400} ELSE {400} :
          gateway' = [gateway EXCEPT ![ref].code = code]
    /\ UNCHANGED <<preparation, submissions>>

\* Mutant: the last answer is final, whatever it is.
StatusOfLastPoll(code) == IF code < 400 THEN "accepted" ELSE "rejected"

StatusOf(code) ==
    IF code >= 200 /\ code < 300 THEN "accepted" ELSE IF code >= 400 THEN "rejected" ELSE "processing"

Poll(s) ==
    LET code == gateway[submissions[s].ref].code
        polls == submissions[s].polls + 1
        done == code \in 200..299 \/ code >= 400 \/ polls = PollAttempts
    IN /\ At(s, "poll")
       /\ Go(s, [Moved(s, IF done THEN "record" ELSE "poll") EXCEPT !.code = code, !.polls = polls])
       /\ UNCHANGED <<preparation, gateway>>

\* The UPDATE of the result; one that fails is caught like any other step.
Record(s) ==
    /\ At(s, "record")
    /\ \/ Go(s, [Moved(s, "done") EXCEPT !.status = StatusOf(submissions[s].code)])
       \/ Go(s, Failed(s))
    /\ UNCHANGED <<preparation, gateway>>

\* The UPDATE in the catch; when it fails the row stays as it was.
RecordFailure(s) ==
    /\ At(s, "failed")
    /\ \/ Go(s, [Moved(s, "done") EXCEPT !.status = "error"])
       \/ Go(s, Moved(s, "done"))
    /\ UNCHANGED <<preparation, gateway>>

\* The process ends.
SubmissionCrash(s) ==
    /\ ~At(s, "done")
    /\ Go(s, Moved(s, "done"))
    /\ UNCHANGED <<preparation, gateway>>

\* Everything but the request itself.
SubmissionStep ==
    \/ \E s \in Submissions :
          \/ CallFails(s) \/ SignMetadata(s) \/ InitUpload(s) \/ PutPart(s) \/ FinishUpload(s) \/ Poll(s)
          \/ Record(s) \/ RecordFailure(s) \/ SubmissionCrash(s)
    \/ \E ref \in DOMAIN gateway : GatewayDecides(ref)

-----------------------------------------------------------------------------
(* Properties                                                              *)

\* A verdict shown in the portal is the gateway's, and on the very file that was
\* stored when the operator sent it, all parts of it: a lost answer, a failed
\* write or a poll that gave up never becomes one (test-gateway/route.ts:86-116,
\* jpk-gateway.ts:294-307).
VerdictIsTheGateways ==
    \A s \in Submissions :
        submissions[s].status \in {"accepted", "rejected"} =>
            LET session == gateway[submissions[s].ref] IN
            /\ session.declared = Metadata(submissions[s].file, s)
            /\ StatusOf(session.code) = submissions[s].status
            /\ submissions[s].status = "accepted" =>
                  session.stored = {Part(submissions[s].file, s, number) : number \in 1..Parts}
=============================================================================
