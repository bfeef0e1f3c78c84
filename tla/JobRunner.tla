------------------------------ MODULE JobRunner ------------------------------
(***************************************************************************)
(* The worker processes that drive the job queue: tickOnce() and execute() *)
(* of portal/src/lib/jobs/runner.ts, the loop of portal/src/worker/main.ts *)
(* and the portal's manual enqueueing.  One action per database statement  *)
(* or callback, so that statements of several workers interleave.          *)
(*                                                                         *)
(* A worker that crashes never returns: its successor is another member of *)
(* Workers, because main.ts draws a new worker_id at every start.          *)
(***************************************************************************)
EXTENDS JobQueue, FiniteSets

CONSTANTS
  Mode,          \* Mode[w][j]: how worker w was configured to treat job j
  Manual,        \* the occurrences a user enqueues (manual.ts, manual-sync.ts)
  Lookback,      \* lookbackMinutes
  JobTimeout,    \* timeoutMs
  MaxPerTick,    \* occurrences run in one tick
  MaxClock,      \* bound: the clock stops here
  MaxFaults      \* bound: crashes and failed statements in a behaviour

\* What a worker checks before its first tick: a job is enabled or in shadow
\* mode, not both, and no lookback reaches back to what may have been pruned.
AssertRunnerConfig ==
  /\ Mode \in [Workers -> [Jobs -> {"enabled", "shadow", "off"}]]
  /\ Lookback \in Nat
  /\ Lookback <= Retention

ASSUME RunnerAssumption ==
  /\ None \notin Occurrences
  /\ AssertRunnerConfig
  /\ Manual \subseteq Occurrences
  /\ JobTimeout \in Nat
  /\ MaxPerTick \in Nat \ {0}
  /\ MaxClock \in Nat
  /\ MaxFaults \in Nat

VARIABLES
  pc,        \* where each worker is in its tick
  exec,      \* the attempt each worker is executing, as claim() returned it
  todo,      \* what is left of the loop a worker is in (alerts, jobs)
  ran,       \* occurrences claimed in the present tick
  bodies,    \* job bodies that are running, abandoned ones included
  raised,    \* alerts in system_alerts
  unrecorded, \* alerts that raise() wrote to its log as ALERT NOT RECORDED
  faults,    \* crashes and failed statements so far
  tries,     \* history: how often an occurrence has been claimed
  outcome    \* history: how an occurrence ended, remembered after pruning

workerVars == <<pc, exec, todo, ran>>
history == <<tries, outcome>>
vars == <<clock, rows, pc, exec, todo, ran, bodies, raised, unrecorded, faults, tries, outcome>>

NoExec == [occ |-> None, attempt |-> 0, deadline |-> 0, result |-> "none"]

Execution == [occ      : Occurrences \cup {None},
              attempt  : Nat,
              deadline : Nat,
              result   : Results]

PC == {"new", "tick", "alertReaped", "enqueue", "claim", "claiming", "run",
       "report", "complete", "fail", "alertFailed", "rest", "dead"}

\* The interval timer of execute() is live in these places.
HeartbeatPlaces == {"run", "report", "complete", "fail", "alertFailed"}

Body == [worker : Workers, occ : Occurrences, attempt : Nat]

Alert == [kind : {"critical", "warning"}, occ : Occurrences, attempt : Nat]

TypeOK ==
  /\ clock \in Nat
  /\ rows \in [Occurrences -> Row]
  /\ pc \in [Workers -> PC]
  /\ exec \in [Workers -> Execution]
  /\ todo \in [Workers -> SUBSET (Occurrences \cup Jobs)]
  /\ ran \in [Workers -> Nat]
  /\ bodies \subseteq Body
  /\ raised \subseteq Alert
  /\ unrecorded \subseteq Alert
  /\ faults \in Nat
  /\ tries \in [Occurrences -> Nat]
  /\ outcome \in [Occurrences -> {"none"} \cup Finished]

Init ==
  /\ clock = 0
  /\ rows = [o \in Occurrences |-> NoRow]
  /\ pc = [w \in Workers |-> "new"]
  /\ exec = [w \in Workers |-> NoExec]
  /\ todo = [w \in Workers |-> {}]
  /\ ran = [w \in Workers |-> 0]
  /\ bodies = {}
  /\ raised = {}
  /\ unrecorded = {}
  /\ faults = 0
  /\ tries = [o \in Occurrences |-> 0]
  /\ outcome = [o \in Occurrences |-> "none"]

-----------------------------------------------------------------------------
(* Helpers *)

GoTo(w, place) == pc' = [pc EXCEPT ![w] = place]

Move(w, from, to) == pc[w] = from /\ GoTo(w, to)

\* The occurrences worker w may recover and claim: real ones of the jobs it
\* has enabled, shadow ones of the jobs it has in shadow mode.
Serves(w, o) ==
  Mode[w][JobOf[o]] = IF Shadow[o] THEN "shadow" ELSE "enabled"

ServedBy(w) == {o \in Occurrences : Serves(w, o)}

LockedByOthers(w) ==
  {exec[v].occ : v \in {v \in Workers \ {w} : pc[v] = "claiming"}}

\* After an occurrence has been executed the claim loop goes round again.
EndExecution(w) ==
  /\ GoTo(w, "claim")
  /\ exec' = [exec EXCEPT ![w] = NoExec]

\* tickOnce() returns or throws, and its variables are gone.
EndTick(w, place) ==
  /\ GoTo(w, place)
  /\ exec' = [exec EXCEPT ![w] = NoExec]
  /\ todo' = [todo EXCEPT ![w] = {}]
  /\ ran' = [ran EXCEPT ![w] = 0]

CurrentBody(w) == [worker |-> w, occ |-> exec[w].occ, attempt |-> exec[w].attempt]

Critical(o, n) == [kind |-> "critical", occ |-> o, attempt |-> n]
Warning(o, n) == [kind |-> "warning", occ |-> o, attempt |-> n]

\* A fault, of which there are at most MaxFaults in a behaviour.
Fault == faults < MaxFaults /\ faults' = faults + 1

\* Mutant: an alert that could not be recorded is swallowed.
RaiseSwallowing(a) ==
  \/ raised' = raised \cup {a} /\ UNCHANGED <<unrecorded, faults>>
  \/ Fault /\ UNCHANGED <<raised, unrecorded>>

\* raise() never throws: where one of its two INSERTs fails it logs the alert
\* and its caller goes on.  The alert may be recorded for all that.
Raise(a) ==
  \/ /\ raised' = raised \cup {a}
     /\ UNCHANGED <<unrecorded, faults>>
  \/ /\ Fault
     /\ unrecorded' = unrecorded \cup {a}
     /\ raised' \in {raised, raised \cup {a}}

\* How the history variables follow the table, conjoined to every step.
Observe ==
  /\ tries' = [o \in Occurrences |->
                 IF rows[o].state # "running" /\ rows'[o].state = "running"
                 THEN tries[o] + 1 ELSE tries[o]]
  /\ outcome' = [o \in Occurrences |->
                   IF rows'[o].state \in Finished THEN rows'[o].state ELSE outcome[o]]

-----------------------------------------------------------------------------
(* One tick *)

Start(w) ==
  /\ Move(w, "new", "tick")
  /\ UNCHANGED <<clock, rows, exec, todo, ran, bodies, raised, unrecorded, faults>>

\* tickOnce, step 1.  raise() does nothing for a shadow occurrence.
Reap(w) ==
  LET expired == {o \in ServedBy(w) : LeaseExpired(o)}
      failed  == {o \in expired : ReapedRow(o).state = "failed" /\ ~Shadow[o]}
  IN  /\ pc[w] = "tick"
      /\ ReapExpired(expired)
      /\ todo' = [todo EXCEPT ![w] = IF failed = {} THEN Jobs ELSE failed]
      /\ GoTo(w, IF failed = {} THEN "enqueue" ELSE "alertReaped")
      /\ UNCHANGED <<clock, exec, ran, bodies, raised, unrecorded, faults>>

AlertReaped(w) ==
  /\ pc[w] = "alertReaped"
  /\ \E o \in todo[w] :
       /\ Raise(Critical(o, rows[o].attempts))
       /\ IF todo[w] = {o}
          THEN todo' = [todo EXCEPT ![w] = Jobs] /\ GoTo(w, "enqueue")
          ELSE todo' = [todo EXCEPT ![w] = @ \ {o}] /\ UNCHANGED pc
  /\ UNCHANGED <<clock, rows, exec, ran, bodies>>

\* The occurrences of job j in (now - lookback, now], for the mode of w.
DueNow(w, j) ==
  {o \in ServedBy(w) \ Manual : /\ JobOf[o] = j
                                /\ DueAt[o] <= clock
                                /\ clock < DueAt[o] + Lookback}

LatestOf(S) == {o \in S : \A p \in S : DueAt[p] <= DueAt[o]}

\* tickOnce, step 2, one job: only the latest missed occurrence is enqueued.
EnqueueDue(w) ==
  /\ pc[w] = "enqueue"
  /\ \E j \in todo[w] :
       /\ IF DueNow(w, j) = {} THEN UNCHANGED rows
          ELSE \E o \in LatestOf(DueNow(w, j)) : Enqueue(o)
       /\ todo' = [todo EXCEPT ![w] = @ \ {j}]
       /\ GoTo(w, IF todo[w] = {j} THEN "claim" ELSE "enqueue")
  /\ UNCHANGED <<clock, exec, ran, bodies, raised, unrecorded, faults>>

\* A row that a person asks for: due at once and once, keyed at random or, for
\* a client, by the minute, so that a double click is one row.
EnqueueManual(o) ==
  /\ o \in Manual
  /\ DueAt[o] = clock
  /\ Enqueue(o)
  /\ UNCHANGED <<clock, workerVars, bodies, raised, unrecorded, faults>>

\* The portal, configured like a worker, knows in which of the two modes the
\* job runs; a job in neither is refused.
Listed(o) == \E w \in Workers : Serves(w, o)

\* clientSyncMode(): a client is synchronised by a real run or not at all.
RunsForReal(o) == ~Shadow[o] /\ \E w \in Workers : Mode[w][JobOf[o]] = "enabled"

\* POST /api/jobs/run
RunJob(o) == Listed(o) /\ EnqueueManual(o)

\* POST /api/jobs/run/machine: the same for a caller with the job secret.
RunJobByMachine(o) == Listed(o) /\ EnqueueManual(o)

\* POST /api/clients/[id]/sync
SyncClient(o) == RunsForReal(o) /\ EnqueueManual(o)

\* tickOnce, step 3: the claim statement selects and locks a candidate, ...
SelectCandidate(w) ==
  LET free == Claimable(ServedBy(w), LockedByOthers(w))
  IN  /\ pc[w] = "claim"
      /\ IF ran[w] = MaxPerTick \/ free = {}
         THEN EndTick(w, "rest")
         ELSE \E o \in OldestOf(free) :
                /\ exec' = [exec EXCEPT ![w].occ = o]
                /\ GoTo(w, "claiming")
                /\ UNCHANGED <<todo, ran>>
      /\ UNCHANGED <<clock, rows, bodies, raised, unrecorded, faults>>

\* ... then updates it; execute() starts the body of the returned attempt.
Claim(w) ==
  LET o == exec[w].occ
      n == rows[o].attempts + 1
  IN  /\ pc[w] = "claiming"
      /\ UniqueIndexAdmits(o)
      /\ ClaimRow(o, w)
      /\ exec' = [exec EXCEPT ![w] = [occ |-> o, attempt |-> n,
                                      deadline |-> clock + JobTimeout, result |-> "none"]]
      /\ bodies' = bodies \cup {[worker |-> w, occ |-> o, attempt |-> n]}
      /\ ran' = [ran EXCEPT ![w] = @ + 1]
      /\ GoTo(w, "run")
      /\ UNCHANGED <<clock, todo, raised, unrecorded, faults>>

\* SQLSTATE 23505: claim() returns null, which ends the tick.
ClaimRefused(w) ==
  /\ pc[w] = "claiming"
  /\ ~UniqueIndexAdmits(exec[w].occ)
  /\ EndTick(w, "rest")
  /\ UNCHANGED <<clock, rows, bodies, raised, unrecorded, faults>>

-----------------------------------------------------------------------------
(* Executing an attempt *)

\* The job's run() settles: a result, a result with per-item failures, or an
\* exception.
BodyEnds(w) ==
  /\ pc[w] = "run"
  /\ bodies' = bodies \ {CurrentBody(w)}
  /\ \/ /\ GoTo(w, "complete")
        /\ exec' = [exec EXCEPT ![w].result = "clean"]
     \/ /\ GoTo(w, "report")
        /\ exec' = [exec EXCEPT ![w].result = "partial"]
     \/ /\ GoTo(w, "fail")
        /\ UNCHANGED exec
  /\ UNCHANGED <<clock, rows, todo, ran, raised, unrecorded, faults>>

\* A body that lost the race against the abort signal ends, unheard.
AbandonedBodyEnds(b) ==
  /\ b \in bodies
  /\ ~(pc[b.worker] = "run" /\ b = CurrentBody(b.worker))
  /\ bodies' = bodies \ {b}
  /\ UNCHANGED <<clock, rows, workerVars, raised, unrecorded, faults>>

\* The timer of execute() aborts the attempt; the body may go on.
Timeout(w) ==
  /\ Move(w, "run", "fail")
  /\ exec[w].deadline <= clock
  /\ UNCHANGED <<clock, rows, exec, todo, ran, bodies, raised, unrecorded, faults>>

\* The interval of execute().  Not holding the lease any more aborts the
\* attempt, which records nothing, unless its body has already settled.
Beat(w) ==
  LET o == exec[w].occ
  IN  /\ pc[w] \in HeartbeatPlaces
      /\ Heartbeat(w, o)
      /\ IF ~Holds(w, o) /\ pc[w] = "run" THEN EndExecution(w) ELSE UNCHANGED <<pc, exec>>
      /\ UNCHANGED <<clock, todo, ran, bodies, raised, unrecorded, faults>>

\* Per-item failures are reported before the success is recorded, which does
\* not ask whether the report was; raise() does nothing for a shadow occurrence.
Report(w) ==
  /\ Move(w, "report", "complete")
  /\ IF Shadow[exec[w].occ]
     THEN UNCHANGED <<raised, unrecorded, faults>>
     ELSE Raise(Warning(exec[w].occ, exec[w].attempt))
  /\ UNCHANGED <<clock, rows, exec, todo, ran, bodies>>

RecordSuccess(w) ==
  /\ pc[w] = "complete"
  /\ Complete(w, exec[w].occ, exec[w].result)
  /\ EndExecution(w)
  /\ UNCHANGED <<clock, todo, ran, bodies, raised, unrecorded, faults>>

\* Mutant: the critical alert does not ask whether the failure was recorded.
OwesAlertUnrecorded(w) == Exhausted(exec[w].occ, exec[w].attempt) /\ ~Shadow[exec[w].occ]

OwesAlert(w) ==
  /\ Exhausted(exec[w].occ, exec[w].attempt)
  /\ Holds(w, exec[w].occ)
  /\ ~Shadow[exec[w].occ]

RecordFailure(w) ==
  /\ pc[w] = "fail"
  /\ Fail(w, exec[w].occ, exec[w].attempt)
  /\ IF OwesAlert(w) THEN GoTo(w, "alertFailed") /\ UNCHANGED exec ELSE EndExecution(w)
  /\ UNCHANGED <<clock, todo, ran, bodies, raised, unrecorded, faults>>

AlertFailed(w) ==
  /\ pc[w] = "alertFailed"
  /\ Raise(Critical(exec[w].occ, exec[w].attempt))
  /\ EndExecution(w)
  /\ UNCHANGED <<clock, rows, todo, ran, bodies>>

-----------------------------------------------------------------------------
(* Between ticks: main.ts prunes at most once an hour, after a good tick. *)

Sleep(w) ==
  /\ Move(w, "rest", "tick")
  /\ UNCHANGED <<clock, rows, exec, todo, ran, bodies, raised, unrecorded, faults>>

PruneAndSleep(w) ==
  /\ \E o \in Occurrences : Prunable(o)
  /\ Move(w, "rest", "tick")
  /\ Prune
  /\ UNCHANGED <<clock, exec, todo, ran, bodies, raised, unrecorded, faults>>

-----------------------------------------------------------------------------
(* Faults that end a tick, an execution or a worker *)

\* The process is killed: its timers, locks and bodies go with it.
Crash(w) ==
  /\ Fault
  /\ pc[w] \notin {"new", "dead"}
  /\ EndTick(w, "dead")
  /\ bodies' = {b \in bodies : b.worker # w}
  /\ UNCHANGED <<clock, rows, raised, unrecorded>>

\* The connection breaks around a statement: it was either not applied or
\* applied with its answer lost.  In a tick the exception ends the tick.
TickStatementFails(w) ==
  /\ Fault
  /\ \/ /\ pc[w] \in {"tick", "enqueue", "claim", "claiming"}
        /\ UNCHANGED rows
     \/ /\ pc[w] = "tick"
        /\ ReapExpired(ServedBy(w))
     \/ /\ pc[w] = "claiming"
        /\ UniqueIndexAdmits(exec[w].occ)
        /\ ClaimRow(exec[w].occ, w)
  /\ EndTick(w, "tick")
  /\ UNCHANGED <<clock, bodies, raised, unrecorded>>

\* An exception of complete() is caught by execute(), which calls fail().
CompleteFails(w) ==
  /\ Fault
  /\ Move(w, "complete", "fail")
  /\ Complete(w, exec[w].occ, exec[w].result) \/ UNCHANGED rows
  /\ UNCHANGED <<clock, exec, todo, ran, bodies, raised, unrecorded>>

\* An exception of fail() leaves execute() and ends the tick.
FailFails(w) ==
  /\ Fault
  /\ pc[w] = "fail"
  /\ Fail(w, exec[w].occ, exec[w].attempt) \/ UNCHANGED rows
  /\ EndTick(w, "tick")
  /\ UNCHANGED <<clock, bodies, raised, unrecorded>>

-----------------------------------------------------------------------------
(* Specification *)

Tick ==
  /\ clock < MaxClock
  /\ clock' = clock + 1
  /\ UNCHANGED <<rows, workerVars, bodies, raised, unrecorded, faults>>

\* The steps a live worker takes of itself; a body may also never end.
WorkerStep(w) ==
  \/ Start(w) \/ Reap(w) \/ AlertReaped(w) \/ EnqueueDue(w)
  \/ SelectCandidate(w) \/ Claim(w) \/ ClaimRefused(w)
  \/ Timeout(w) \/ Report(w) \/ RecordSuccess(w) \/ RecordFailure(w) \/ AlertFailed(w)
  \/ Sleep(w)

FaultStep(w) ==
  \/ Crash(w) \/ TickStatementFails(w) \/ CompleteFails(w) \/ FailFails(w)

Step ==
  \/ \E w \in Workers : WorkerStep(w) \/ BodyEnds(w) \/ Beat(w) \/ PruneAndSleep(w) \/ FaultStep(w)
  \/ \E o \in Occurrences : RunJob(o) \/ RunJobByMachine(o) \/ SyncClient(o)
  \/ \E b \in bodies : AbandonedBodyEnds(b)
  \/ Tick

Next == Step /\ Observe

Spec == Init /\ [][Next]_vars

\* Some timer has yet to fire, so that the passing of time matters.
WaitsForTime ==
  \/ \E o \in Occurrences :
       \/ clock < DueAt[o]
       \/ rows[o].state = "pending" /\ clock < rows[o].runAfter
       \/ rows[o].state = "running" /\ clock <= rows[o].lease
  \/ \E w \in Workers : pc[w] = "run" /\ clock < exec[w].deadline

\* For liveness: the statements that follow a claim or a body take less than
\* a unit of time, a timeout fires in the unit it is due in, and time stops
\* when no timer is pending.
TimedTick ==
  /\ WaitsForTime
  /\ \A w \in Workers :
       /\ pc[w] \notin {"claiming", "alertReaped", "report", "complete", "fail", "alertFailed"}
       /\ pc[w] = "run" => clock < exec[w].deadline
  /\ Tick

\* The worker loop runs for ever, and time passes.  Bodies, heartbeats,
\* pruning and users owe nothing.
FairSpec ==
  /\ Init
  /\ [][Next /\ (clock' # clock => TimedTick)]_vars
  /\ \A w \in Workers : WF_vars(WorkerStep(w) /\ Observe)
  /\ WF_vars(TimedTick /\ Observe)

-----------------------------------------------------------------------------
(* Safety *)

\* The partial unique index: two occurrences of a job never run together,
\* however the claims of several workers interleave (queue.ts:8).
AtMostOneRunningPerJob ==
  \A o, p \in Occurrences :
    rows[o].state = "running" /\ rows[p].state = "running" /\ JobOf[o] = JobOf[p] => o = p

\* An occurrence is never begun more than max_attempts times, counting what
\* reaping, lost answers, repeated enqueueing and pruning do to its row.
AttemptsBounded == \A o \in Occurrences : tries[o] <= MaxAttempts[o]

\* worker_id fences attempts although it names a process, not an attempt: a
\* worker that passes the check is executing the very attempt the row is at
\* (queue.ts:10).
CurrentAttempt ==
  \A w \in Workers :
    pc[w] \in {"run", "report", "complete", "fail"} /\ Holds(w, exec[w].occ)
      => rows[exec[w].occ].attempts = exec[w].attempt

\* A permanent failure is announced by one critical alert at most, and by
\* one exactly as long as nothing failed but the recording of alerts; the one
\* that was not recorded is in the log (runner.ts:89 and 168, alerts.ts:10).
Owing(o) ==
  {w \in Workers : \/ pc[w] = "alertReaped" /\ o \in todo[w]
                   \/ pc[w] = "alertFailed" /\ exec[w].occ = o}

Announced(o) == {a \in raised \cup unrecorded : a.kind = "critical" /\ a.occ = o}

OnlyAlertsFailed == faults = Cardinality(unrecorded)

AlertedExactlyOnce ==
  \A o \in Occurrences :
    LET alerts == Cardinality(Owing(o)) + Cardinality(Announced(o))
    IN  /\ alerts <= 1
        /\ OnlyAlertsFailed /\ outcome[o] = "failed" /\ ~Shadow[o] => alerts = 1

\* A run that succeeded with per-item failures has reported them first, so
\* that a crash after the success loses none: each is in system_alerts or,
\* one for every statement that failed, in the worker's log, since raise()
\* "never swallows" (runner.ts:149, alerts.ts:9).
PartialFailureIsReported ==
  /\ \A o \in Occurrences :
       rows[o].result = "partial" /\ ~Shadow[o]
         => Warning(o, rows[o].attempts) \in raised \cup unrecorded
  /\ Cardinality(unrecorded) <= faults

\* Real and shadow work of one job share its rows and its unique index but
\* are kept apart: the body of a real occurrence runs only in a worker that
\* has the job enabled, a shadow one only where it is in shadow mode, and a
\* shadow occurrence never raises an alert (types.ts, runner.ts:85).
ModesKeptApart ==
  /\ \A b \in bodies :
       Mode[b.worker][JobOf[b.occ]] = IF Shadow[b.occ] THEN "shadow" ELSE "enabled"
  /\ \A a \in raised \cup unrecorded : ~Shadow[a.occ]

-----------------------------------------------------------------------------
(* What a step may never do *)

\* A running row is settled only by the worker that executes its present
\* attempt, or recovered after its lease has expired.
OnlyHolderSettles ==
  [][\A o \in Occurrences :
       rows[o].state = "running" /\ rows'[o].state # "running" =>
         \/ LeaseExpired(o)
         \/ \E w \in Workers : /\ pc[w] \in {"complete", "fail"}
                               /\ exec[w].occ = o
                               /\ exec[w].attempt = rows[o].attempts]_vars

\* An outcome is final: a finished occurrence is never reopened, run again or
\* overwritten, not even once its row has been pruned.
OutcomeIsFinal ==
  [][\A o \in Occurrences : outcome[o] # "none" => rows'[o].state \in {outcome[o], "none"}]_vars

-----------------------------------------------------------------------------
(* The inductive invariant behind the safety properties *)

Executing == {"run", "report", "complete", "fail", "alertFailed"}

\* A row is due, has attempts left while it waits, and a finished one was not
\* finished before it was due.
RowOK(o) ==
  /\ rows[o].state = "none" => rows[o] = NoRow
  /\ rows[o].state # "none" => DueAt[o] <= clock
  /\ rows[o].attempts <= MaxAttempts[o]
  /\ rows[o].state = "pending" => rows[o].attempts < MaxAttempts[o]
  /\ rows[o].state \in Finished => DueAt[o] <= rows[o].finishedAt

\* The history agrees with the row; a row that was pruned is too old to be
\* enqueued again.
HistoryOK(o) ==
  /\ rows[o].state # "none" => tries[o] = rows[o].attempts
  /\ rows[o].state = "none" /\ outcome[o] = "none" => tries[o] = 0
  /\ rows[o].state \in Finished => outcome[o] = rows[o].state
  /\ outcome[o] # "none" => rows[o].state \in {outcome[o], "none"}
  /\ outcome[o] # "none" /\ rows[o].state = "none" => DueAt[o] + Lookback < clock

\* A claim holds the lock of a waiting row, and no other claim does; an
\* execution is of an attempt the occurrence is allowed.
ExecOK(w) ==
  /\ pc[w] = "alertReaped" => todo[w] \subseteq Occurrences
  /\ pc[w] = "claiming" =>
       /\ exec[w].occ \in Occurrences
       /\ rows[exec[w].occ].state = "pending"
       /\ \A v \in Workers : pc[v] = "claiming" /\ exec[v].occ = exec[w].occ => v = w
  /\ pc[w] \in Executing =>
       /\ exec[w].occ \in Occurrences
       /\ exec[w].attempt \in 1 .. MaxAttempts[exec[w].occ]

IInv ==
  /\ TypeOK
  /\ \A o \in Occurrences : RowOK(o)
  /\ \A o \in Occurrences : HistoryOK(o)
  /\ AttemptsBounded
  /\ \A w \in Workers : ExecOK(w)
  /\ AtMostOneRunningPerJob
  /\ CurrentAttempt

-----------------------------------------------------------------------------
(* Refinement: the queue keeps the promise of OccurrenceLifecycle. *)

Status == [o \in Occurrences |->
             IF outcome[o] = "none" THEN rows[o].state ELSE outcome[o]]

Lifecycle == INSTANCE OccurrenceLifecycle WITH status <- Status, tries <- tries

Implements == Lifecycle!Spec

-----------------------------------------------------------------------------
(* Liveness *)

\* Every occurrence that was enqueued is settled in the end, whatever worker
\* crashes or loses its lease on the way (queue.ts:9).
EveryOccurrenceSettles ==
  \A o \in Occurrences : rows[o].state = "pending" ~> outcome[o] # "none"

=============================================================================
