------------------------ MODULE OccurrenceLifecycle ------------------------
(***************************************************************************)
(* What the job queue promises about an occurrence, whatever the workers,  *)
(* their leases and their crashes do (the guarantees listed at the head of *)
(* portal/src/lib/jobs/queue.ts and in db/migrations/                      *)
(* 2026-09-20-job-harness.sql): it is submitted once, at most one          *)
(* occurrence of a job runs at a time, it is begun at most MaxAttempts     *)
(* times, and once it has succeeded or failed it is never touched again.   *)
(* There is no clock, no worker and no retention here.  JobRunner          *)
(* implements this specification.                                          *)
(***************************************************************************)
EXTENDS Naturals

CONSTANTS Jobs, Occurrences, JobOf, MaxAttempts

VARIABLES
  status,   \* of each occurrence
  tries     \* how often each occurrence has been begun

lifecycleVars == <<status, tries>>

Init ==
  /\ status = [o \in Occurrences |-> "none"]
  /\ tries = [o \in Occurrences |-> 0]

Submit(o) ==
  /\ status[o] = "none"
  /\ status' = [status EXCEPT ![o] = "pending"]
  /\ UNCHANGED tries

Begin(o) ==
  /\ status[o] = "pending"
  /\ tries[o] < MaxAttempts[o]
  /\ \A p \in Occurrences : JobOf[p] = JobOf[o] => status[p] # "running"
  /\ status' = [status EXCEPT ![o] = "running"]
  /\ tries' = [tries EXCEPT ![o] = @ + 1]

Succeed(o) ==
  /\ status[o] = "running"
  /\ status' = [status EXCEPT ![o] = "succeeded"]
  /\ UNCHANGED tries

\* The attempts of S end without a result: each occurrence is given back for
\* another attempt, or has failed for good when it has none left.
GiveBack(S) ==
  /\ \A o \in S : status[o] = "running"
  /\ status' = [o \in Occurrences |->
                  IF o \notin S THEN status[o]
                  ELSE IF tries[o] < MaxAttempts[o] THEN "pending" ELSE "failed"]
  /\ UNCHANGED tries

Next ==
  \/ \E o \in Occurrences : Submit(o) \/ Begin(o) \/ Succeed(o)
  \/ \E S \in SUBSET Occurrences : GiveBack(S)

Spec == Init /\ [][Next]_lifecycleVars

=============================================================================
