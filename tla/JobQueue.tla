------------------------------ MODULE JobQueue ------------------------------
(***************************************************************************)
(* The durable job queue of portal/src/lib/jobs/queue.ts: the table        *)
(* job_occurrences and one operator for each SQL statement the code runs   *)
(* on it.  PostgreSQL runs each statement atomically, so each operator     *)
(* describes one change of `rows'; the processes that issue the statements *)
(* are in JobRunner.                                                       *)
(*                                                                         *)
(* A row is found by its occurrence, which stands for both the primary key *)
(* and UNIQUE (job_name, occurrence_key).  Times are natural numbers;      *)
(* SQL's NULL is 0 for a time and None for a worker.                       *)
(***************************************************************************)
EXTENDS Integers

CONSTANTS
  Workers,       \* worker processes: main.ts draws a fresh worker_id at start
  None,          \* no worker
  Jobs,          \* job names
  Occurrences,   \* (job_name, occurrence_key) pairs
  JobOf,         \* the job of an occurrence
  DueAt,         \* scheduled_for of an occurrence
  Shadow,        \* TRUE for an occurrence of a shadow run (its own key)
  MaxAttempts,   \* max_attempts of an occurrence
  LeaseTime,     \* JOBS_LEASE_SECONDS
  BackoffUnit,   \* first retry delay, 60 s
  BackoffCap,    \* longest retry delay, 15 min
  Retention      \* PRUNE_DAYS

ASSUME QueueAssumption ==
  /\ None \notin Workers
  /\ JobOf \in [Occurrences -> Jobs]
  /\ DueAt \in [Occurrences -> Nat]
  /\ Shadow \in [Occurrences -> BOOLEAN]
  /\ MaxAttempts \in [Occurrences -> Nat \ {0}]
  /\ LeaseTime \in Nat
  /\ BackoffUnit \in Nat
  /\ BackoffCap \in Nat
  /\ Retention \in Nat

VARIABLES
  clock,         \* the time every process reads
  rows           \* job_occurrences

-----------------------------------------------------------------------------
(* Rows *)

States == {"none", "pending", "running", "succeeded", "failed"}
Finished == {"succeeded", "failed"}

\* The result column, as far as it matters: no result, one without or one
\* with per-item failures.
Results == {"none", "clean", "partial"}

Row == [state      : States,
        attempts   : Nat,
        runAfter   : Nat,
        lease      : Nat,
        worker     : Workers \cup {None},
        finishedAt : Nat,
        result     : Results]

NoRow == [state |-> "none", attempts |-> 0, runAfter |-> 0, lease |-> 0,
          worker |-> None, finishedAt |-> 0, result |-> "none"]

\* 60 s, 120 s, 240 s, ... capped at 15 minutes.
Backoff(attempt) ==
  LET exponent == IF attempt > 1 THEN attempt - 1 ELSE 0
      delay    == BackoffUnit * 2^exponent
  IN  IF delay < BackoffCap THEN delay ELSE BackoffCap

\* A mathematical truth, stated for the provers, which know nothing of 2^n.
ASSUME BackoffAssumption ==
  \A o \in Occurrences : \A n \in 0 .. MaxAttempts[o] : Backoff(n) \in Nat

-----------------------------------------------------------------------------
(* Enqueueing: INSERT ... ON CONFLICT (job_name, occurrence_key) DO NOTHING *)

FreshRow(o) == [NoRow EXCEPT !.state = "pending", !.runAfter = DueAt[o]]

Enqueue(o) ==
  rows' = IF rows[o].state = "none" THEN [rows EXCEPT ![o] = FreshRow(o)] ELSE rows

-----------------------------------------------------------------------------
(* Recovery of expired leases *)

Exhausted(o, attempt) == attempt >= MaxAttempts[o]

\* Mutant: the comparison is the wrong way round.
LeaseExpiredSwapped(o) == rows[o].state = "running" /\ clock < rows[o].lease

LeaseExpired(o) == rows[o].state = "running" /\ rows[o].lease < clock

\* Mutant: an occurrence that used all its attempts is retried once more.
ReapedRowNoLimit(o) ==
  [rows[o] EXCEPT !.state = "pending", !.runAfter = clock, !.lease = 0,
                  !.worker = None, !.finishedAt = 0]

\* Mutant: run_after is cleared with the lease.
ReapedRowNoRunAfter(o) ==
  [ReapedRowNoLimit(o) EXCEPT !.runAfter = None]

ReapedRow(o) ==
  [rows[o] EXCEPT
     !.state      = IF Exhausted(o, rows[o].attempts) THEN "failed" ELSE "pending",
     !.runAfter   = clock,
     !.lease      = 0,
     !.worker     = None,
     !.finishedAt = IF Exhausted(o, rows[o].attempts) THEN clock ELSE 0]

\* Mutant: only occurrences with an attempt left are recovered.
ReapRetryable(S) ==
  rows' = [o \in Occurrences |->
             IF o \in S /\ LeaseExpired(o) /\ ~Exhausted(o, rows[o].attempts)
             THEN ReapedRow(o) ELSE rows[o]]

\* The UPDATE over every expired row in S, the rows of the caller's own modes.
ReapExpired(S) ==
  rows' = [o \in Occurrences |->
             IF o \in S /\ LeaseExpired(o) THEN ReapedRow(o) ELSE rows[o]]

-----------------------------------------------------------------------------
(* Claiming: the candidate is selected and locked by the statement's own    *)
(* snapshot, then updated; one_running_occurrence_per_job refuses the       *)
(* update when an occurrence of the job has started running in between.     *)

JobIsRunning(j) == \E o \in Occurrences : JobOf[o] = j /\ rows[o].state = "running"

\* Due rows of S that no other claim holds locked.
Claimable(S, locked) ==
  {o \in S \ locked : /\ rows[o].state = "pending"
                      /\ rows[o].runAfter <= clock
                      /\ ~JobIsRunning(JobOf[o])}

\* ORDER BY scheduled_for, id LIMIT 1; which of two equal times has the
\* smaller id is left open.
OldestOf(S) == {o \in S : \A p \in S : DueAt[o] <= DueAt[p]}

\* Mutant: no unique index, the check made while selecting is trusted.
NoUniqueIndex(o) == TRUE

UniqueIndexAdmits(o) == ~JobIsRunning(JobOf[o])

ClaimedRow(o, w) ==
  [rows[o] EXCEPT !.state    = "running",
                  !.attempts = @ + 1,
                  !.lease    = clock + LeaseTime,
                  !.worker   = w]

ClaimRow(o, w) == rows' = [rows EXCEPT ![o] = ClaimedRow(o, w)]

-----------------------------------------------------------------------------
(* Statements of the worker that runs an occurrence.  Each is guarded by    *)
(* state = 'running' AND worker_id = $; an update of no row says that the   *)
(* lease was lost.                                                          *)

\* Mutant: the state is checked, the worker_id is not.
HoldsAnyRunning(w, o) == rows[o].state = "running"

Holds(w, o) == rows[o].state = "running" /\ rows[o].worker = w

UpdateHeld(w, o, row) == rows' = IF Holds(w, o) THEN [rows EXCEPT ![o] = row] ELSE rows

Heartbeat(w, o) == UpdateHeld(w, o, [rows[o] EXCEPT !.lease = clock + LeaseTime])

\* worker_id is left in the row.
Complete(w, o, result) ==
  UpdateHeld(w, o, [rows[o] EXCEPT !.state      = "succeeded",
                                   !.finishedAt = clock,
                                   !.lease      = 0,
                                   !.result     = result])

\* attempt is the number the claim returned, not the row's present one.
FailedRow(o, attempt) ==
  [rows[o] EXCEPT
     !.state      = IF Exhausted(o, attempt) THEN "failed" ELSE "pending",
     !.runAfter   = IF Exhausted(o, attempt) THEN @ ELSE clock + Backoff(attempt),
     !.lease      = 0,
     !.worker     = None,
     !.finishedAt = IF Exhausted(o, attempt) THEN clock ELSE 0]

Fail(w, o, attempt) == UpdateHeld(w, o, FailedRow(o, attempt))

-----------------------------------------------------------------------------
(* Retention *)

\* Mutant: finished rows are dropped at once.
PrunableAtOnce(o) == rows[o].state \in Finished

Prunable(o) == rows[o].state \in Finished /\ rows[o].finishedAt + Retention < clock

Prune == rows' = [o \in Occurrences |-> IF Prunable(o) THEN NoRow ELSE rows[o]]

=============================================================================
