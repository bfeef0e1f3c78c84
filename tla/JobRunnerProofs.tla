--------------------------- MODULE JobRunnerProofs ---------------------------
(***************************************************************************)
(* Proofs about JobRunner for any number of workers, jobs and occurrences, *)
(* any attempt limits, leases, timeouts and bounds: its invariants, what   *)
(* its steps may never do, and that the queue, with its leases, crashes,   *)
(* retries and pruning, implements OccurrenceLifecycle.                    *)
(***************************************************************************)
EXTENDS JobRunner, FiniteSetTheorems, TLAPS

-----------------------------------------------------------------------------
(* What a statement can do to a row *)

Inserted(o) ==
  /\ rows[o].state = "none"
  /\ outcome[o] = "none"
  /\ DueAt[o] <= clock
  /\ rows'[o] = FreshRow(o)

Reaped(o) == LeaseExpired(o) /\ rows'[o] = ReapedRow(o)

Claimed(o) ==
  /\ rows[o].state = "pending"
  /\ UniqueIndexAdmits(o)
  /\ \A p \in Occurrences \ {o} : rows'[p] = rows[p]
  /\ \E w \in Workers : rows'[o] = ClaimedRow(o, w)

Extended(o) ==
  /\ rows[o].state = "running"
  /\ rows'[o] = [rows[o] EXCEPT !.lease = clock + LeaseTime]

Succeeded(o) ==
  /\ rows[o].state = "running"
  /\ \E result \in Results :
       rows'[o] = [rows[o] EXCEPT !.state = "succeeded", !.finishedAt = clock,
                                  !.lease = 0, !.result = result]

Failed(o) == rows[o].state = "running" /\ rows'[o] = FailedRow(o, rows[o].attempts)

Pruned(o) == Prunable(o) /\ rows'[o] = NoRow

RowStep(o) ==
  \/ rows'[o] = rows[o]
  \/ Inserted(o) \/ Reaped(o) \/ Claimed(o) \/ Extended(o)
  \/ Succeeded(o) \/ Failed(o) \/ Pruned(o)

\* Except for the occurrences O and the workers W, nothing is claimed: rows
\* keep waiting, and who holds a row held it before, for the same attempt.
KeptExcept(O, W) ==
  /\ \A p \in Occurrences \ O : rows[p].state = "pending" => rows'[p].state = "pending"
  /\ \A p \in Occurrences, v \in Workers \ W :
       rows'[p].state = "running" /\ rows'[p].worker = v =>
         Holds(v, p) /\ rows'[p].attempts = rows[p].attempts

RowsStep(O, W) ==
  /\ rows' \in [Occurrences -> Row]
  /\ \A p \in Occurrences : RowStep(p)
  /\ KeptExcept(O, W)

-----------------------------------------------------------------------------
(* The rows the statements write are rows. *)

LEMMA NoRowType == NoRow \in Row /\ NoRow.state = "none"
  BY DEF NoRow, Row, States, Results

LEMMA FreshRowType ==
  ASSUME NEW o \in Occurrences
  PROVE  FreshRow(o) \in Row /\ FreshRow(o).state = "pending"
  BY QueueAssumption DEF FreshRow, NoRow, Row, States, Results

LEMMA ReapedRowType ==
  ASSUME TypeOK, NEW o \in Occurrences
  PROVE  ReapedRow(o) \in Row /\ ReapedRow(o).state \in {"pending", "failed"}
<1>1. rows[o] \in Row
  BY DEF TypeOK
<1>2. clock \in Nat
  BY DEF TypeOK
<1> QED
  BY <1>1, <1>2 DEF Row, ReapedRow, States

LEMMA ClaimedRowType ==
  ASSUME TypeOK, NEW o \in Occurrences, NEW w \in Workers
  PROVE  /\ ClaimedRow(o, w) \in Row
         /\ ClaimedRow(o, w).state = "running"
         /\ ClaimedRow(o, w).worker = w
         /\ ClaimedRow(o, w).attempts = rows[o].attempts + 1
<1>1. rows[o] \in Row
  BY DEF TypeOK
<1>2. clock + LeaseTime \in Nat
  BY QueueAssumption DEF TypeOK
<1>3. rows[o].attempts + 1 \in Nat
  BY <1>1 DEF Row
<1>4. ClaimedRow(o, w).state = "running"
  BY <1>1 DEF Row, ClaimedRow
<1> QED
  BY <1>1, <1>2, <1>3, <1>4 DEF Row, ClaimedRow, States

LEMMA FailedRowType ==
  ASSUME TypeOK, NEW o \in Occurrences, NEW n \in 1 .. MaxAttempts[o]
  PROVE  FailedRow(o, n) \in Row /\ FailedRow(o, n).state \in {"pending", "failed"}
<1>1. Backoff(n) \in Nat
  <2>1. n \in 0 .. MaxAttempts[o]
    BY QueueAssumption
  <2> QED
    BY <2>1, BackoffAssumption
<1>2. clock \in Nat /\ clock + Backoff(n) \in Nat
  BY <1>1 DEF TypeOK
<1>3. rows[o] \in Row
  BY DEF TypeOK
<1> QED
  BY <1>2, <1>3 DEF Row, FailedRow, States

-----------------------------------------------------------------------------
(* Every statement takes a RowStep. *)

LEMMA UnchangedStep ==
  ASSUME TypeOK, UNCHANGED rows
  PROVE  RowsStep({}, {})
  BY DEF TypeOK, RowsStep, KeptExcept, Holds, RowStep

LEMMA EnqueueStep ==
  ASSUME IInv, NEW o \in Occurrences, DueAt[o] <= clock, clock <= DueAt[o] + Lookback,
         Enqueue(o)
  PROVE  RowsStep({}, {})
<1>1. rows[o].state = "none" => outcome[o] = "none"
  BY QueueAssumption, RunnerAssumption DEF AssertRunnerConfig, IInv, HistoryOK, TypeOK
<1>2. rows \in [Occurrences -> Row]
  BY DEF IInv, TypeOK
<1>3. CASE rows[o].state # "none"
  BY <1>3, UnchangedStep DEF Enqueue, IInv
<1>4. CASE rows[o].state = "none"
  <2>1. rows' = [rows EXCEPT ![o] = FreshRow(o)]
    BY <1>4 DEF Enqueue
  <2>2. rows' \in [Occurrences -> Row] /\ rows'[o].state = "pending"
    BY <1>2, <2>1, FreshRowType
  <2>3. \A p \in Occurrences : RowStep(p)
    BY <1>1, <1>2, <1>4, <2>1 DEF RowStep, Inserted
  <2>4. KeptExcept({}, {})
    BY <1>2, <1>4, <2>1, <2>2 DEF KeptExcept, Holds
  <2> QED
    BY <2>2, <2>3, <2>4 DEF RowsStep
<1> QED
  BY <1>3, <1>4

LEMMA ReapStep ==
  ASSUME IInv, NEW S, ReapExpired(S)
  PROVE  RowsStep({}, {})
<1>1. \A o \in Occurrences :
        rows[o] \in Row /\ ReapedRow(o) \in Row /\ ReapedRow(o).state \in {"pending", "failed"}
  BY ReapedRowType DEF IInv, TypeOK
<1>2. rows' \in [Occurrences -> Row] /\ \A o \in Occurrences : RowStep(o)
  BY <1>1 DEF ReapExpired, RowStep, Reaped
<1>3. \A o \in Occurrences :
        rows'[o] = rows[o] \/ (rows[o].state = "running" /\ rows'[o].state \in {"pending", "failed"})
  BY <1>1 DEF ReapExpired, LeaseExpired
<1>4. KeptExcept({}, {})
  BY <1>3 DEF KeptExcept, Holds
<1> QED
  BY <1>2, <1>4 DEF RowsStep

LEMMA ClaimStep ==
  ASSUME IInv, NEW w \in Workers, NEW o \in Occurrences, rows[o].state = "pending",
         UniqueIndexAdmits(o), ClaimRow(o, w)
  PROVE  RowsStep({o}, {w})
<1>1. rows \in [Occurrences -> Row] /\ ClaimedRow(o, w) \in Row /\ ClaimedRow(o, w).worker = w
  BY ClaimedRowType DEF IInv, TypeOK
<1>2. rows' = [rows EXCEPT ![o] = ClaimedRow(o, w)]
  BY DEF ClaimRow
<1>3. Claimed(o)
  BY <1>1, <1>2 DEF Claimed
<1>4. \A p \in Occurrences \ {o} : rows'[p] = rows[p]
  BY <1>1, <1>2
<1>5. rows'[o].worker = w
  BY <1>1, <1>2
<1>6. KeptExcept({o}, {w})
  BY <1>4, <1>5 DEF KeptExcept, Holds
<1>7. rows' \in [Occurrences -> Row]
  BY <1>1, <1>2
<1>8. \A p \in Occurrences : RowStep(p)
  BY <1>3, <1>4 DEF RowStep
<1> QED
  BY <1>6, <1>7, <1>8 DEF RowsStep

\* A statement of the worker that holds a row and ends its running.
LEMMA HeldStep ==
  ASSUME IInv, NEW w \in Workers, NEW o \in Occurrences, NEW row \in Row,
         row.state # "running", UpdateHeld(w, o, row),
         Holds(w, o) /\ rows'[o] = row => RowStep(o)
  PROVE  RowsStep({}, {})
<1>1. rows \in [Occurrences -> Row]
  BY DEF IInv, TypeOK
<1>2. CASE ~Holds(w, o)
  BY <1>2, UnchangedStep DEF UpdateHeld, IInv
<1>3. CASE Holds(w, o)
  <2>1. rows' = [rows EXCEPT ![o] = row]
    BY <1>3 DEF UpdateHeld
  <2>2. rows' \in [Occurrences -> Row] /\ \A p \in Occurrences : RowStep(p)
    BY <1>1, <1>3, <2>1 DEF RowStep
  <2>3. KeptExcept({}, {})
    BY <1>1, <1>3, <2>1 DEF KeptExcept, Holds
  <2> QED
    BY <2>2, <2>3 DEF RowsStep
<1> QED
  BY <1>2, <1>3

LEMMA HeartbeatStep ==
  ASSUME IInv, NEW w \in Workers, NEW o \in Occurrences, Heartbeat(w, o)
  PROVE  RowsStep({}, {})
<1>1. rows \in [Occurrences -> Row]
  BY DEF IInv, TypeOK
<1>2. clock + LeaseTime \in Nat
  BY QueueAssumption DEF IInv, TypeOK
<1>3. [rows[o] EXCEPT !.lease = clock + LeaseTime] \in Row
  BY <1>1, <1>2 DEF Row
<1> QED
  BY <1>1, <1>3 DEF Heartbeat, UpdateHeld, RowsStep, KeptExcept, Holds, RowStep, Extended

LEMMA CompleteStep ==
  ASSUME IInv, NEW w \in Workers, NEW o \in Occurrences, NEW result \in Results,
         Complete(w, o, result)
  PROVE  RowsStep({}, {})
<1> DEFINE row == [rows[o] EXCEPT !.state = "succeeded", !.finishedAt = clock,
                                  !.lease = 0, !.result = result]
<1>1. rows[o] \in Row /\ clock \in Nat
  BY DEF IInv, TypeOK
<1>2. row \in Row /\ row.state # "running"
  BY <1>1 DEF Row, States
<1>3. UpdateHeld(w, o, row)
  BY DEF Complete
<1>4. Holds(w, o) /\ rows'[o] = row => RowStep(o)
  BY DEF Holds, RowStep, Succeeded
<1> HIDE DEF row
<1> QED
  BY <1>2, <1>3, <1>4, HeldStep

LEMMA FailStep ==
  ASSUME IInv, NEW w \in Workers, pc[w] = "fail", Fail(w, exec[w].occ, exec[w].attempt)
  PROVE  RowsStep({}, {})
<1> DEFINE o == exec[w].occ
           n == exec[w].attempt
<1>1. o \in Occurrences /\ n \in 1 .. MaxAttempts[o]
  BY DEF IInv, ExecOK, Executing
<1>2. FailedRow(o, n) \in Row /\ FailedRow(o, n).state # "running"
  BY <1>1, FailedRowType DEF IInv
<1>3. Holds(w, o) => rows[o].state = "running" /\ n = rows[o].attempts
  BY DEF Holds, IInv, CurrentAttempt
<1>4. UpdateHeld(w, o, FailedRow(o, n))
  BY DEF Fail
<1>5. Holds(w, o) /\ rows'[o] = FailedRow(o, n) => RowStep(o)
  BY <1>3 DEF RowStep, Failed
<1> HIDE DEF o, n
<1> QED
  BY <1>1, <1>2, <1>4, <1>5, HeldStep

LEMMA PruneStep ==
  ASSUME IInv, Prune
  PROVE  RowsStep({}, {})
<1>1. rows \in [Occurrences -> Row]
  BY DEF IInv, TypeOK
<1>2. rows' \in [Occurrences -> Row] /\ \A o \in Occurrences : RowStep(o)
  BY <1>1, NoRowType DEF Prune, RowStep, Pruned
<1>3. \A o \in Occurrences :
        rows'[o] = rows[o] \/ (rows[o].state \in Finished /\ rows'[o].state = "none")
  BY NoRowType DEF Prune, Prunable
<1>4. KeptExcept({}, {})
  BY <1>3 DEF KeptExcept, Holds, Finished
<1> QED
  BY <1>2, <1>4 DEF RowsStep

-----------------------------------------------------------------------------
(* A step of the rows preserves what the invariant says of them. *)

LEMMA RowPreserved ==
  ASSUME IInv, NEW o \in Occurrences, RowStep(o), rows'[o] \in Row,
         clock' \in {clock, clock + 1}
  PROVE  RowOK(o)'
<1>1. /\ rows[o] \in Row /\ clock \in Nat /\ DueAt[o] \in Nat /\ MaxAttempts[o] \in Nat
      /\ RowOK(o)
      /\ clock <= clock' /\ clock' \in Nat
      /\ MaxAttempts[o] >= 1
  BY QueueAssumption DEF IInv, TypeOK
<1>2. CASE rows'[o] = rows[o]
  BY <1>1, <1>2 DEF RowOK, Row
<1>3. CASE Inserted(o)
  BY <1>1, <1>3 DEF RowOK, Inserted, FreshRow, NoRow, Finished
<1>4. CASE Reaped(o)
  BY <1>1, <1>4 DEF RowOK, Reaped, LeaseExpired, ReapedRow, Exhausted, Finished, Row
<1>5. CASE Claimed(o)
  <2>1. PICK w \in Workers : rows'[o] = ClaimedRow(o, w)
    BY <1>5 DEF Claimed
  <2>2. /\ rows'[o].state = "running"
        /\ rows'[o].attempts = rows[o].attempts + 1
    BY <2>1, ClaimedRowType DEF IInv
  <2> QED
    BY <1>1, <1>5, <2>2 DEF RowOK, Claimed, Finished, Row
<1>6. CASE Extended(o)
  BY <1>1, <1>6 DEF RowOK, Extended, Finished, Row
<1>7. CASE Succeeded(o)
  BY <1>1, <1>7 DEF RowOK, Succeeded, Finished, Row
<1>8. CASE Failed(o)
  BY <1>1, <1>8 DEF RowOK, Failed, FailedRow, Exhausted, Finished, Row
<1>9. CASE Pruned(o)
  BY <1>1, <1>9, QueueAssumption DEF RowOK, Pruned, NoRow, Finished
<1> QED
  BY <1>2, <1>3, <1>4, <1>5, <1>6, <1>7, <1>8, <1>9 DEF RowStep

LEMMA HistoryPreserved ==
  ASSUME IInv, NEW o \in Occurrences, RowStep(o), rows'[o] \in Row,
         clock' \in {clock, clock + 1}, Observe
  PROVE  HistoryOK(o)' /\ tries'[o] <= MaxAttempts[o]
<1>1. /\ rows[o] \in Row /\ clock \in Nat /\ DueAt[o] \in Nat /\ MaxAttempts[o] \in Nat
      /\ Lookback \in Nat /\ Retention \in Nat /\ Lookback <= Retention
      /\ tries[o] \in Nat /\ tries[o] <= MaxAttempts[o] /\ outcome[o] \in {"none"} \cup Finished
      /\ RowOK(o) /\ HistoryOK(o)
      /\ clock <= clock' /\ clock' \in Nat
  BY QueueAssumption, RunnerAssumption DEF AssertRunnerConfig, IInv, TypeOK, AttemptsBounded
<1>2. /\ tries'[o] = IF rows[o].state # "running" /\ rows'[o].state = "running"
                     THEN tries[o] + 1 ELSE tries[o]
      /\ outcome'[o] = IF rows'[o].state \in Finished THEN rows'[o].state ELSE outcome[o]
  BY DEF Observe
<1>3. CASE rows'[o] = rows[o]
  BY <1>1, <1>2, <1>3 DEF HistoryOK, Row, Finished
<1>4. CASE Inserted(o)
  BY <1>1, <1>2, <1>4 DEF HistoryOK, Inserted, FreshRow, NoRow, Finished
<1>5. CASE Reaped(o)
  BY <1>1, <1>2, <1>5 DEF HistoryOK, Reaped, LeaseExpired, ReapedRow, Finished, Row
<1>6. CASE Claimed(o)
  <2>1. PICK w \in Workers : rows'[o] = ClaimedRow(o, w)
    BY <1>6 DEF Claimed
  <2>2. /\ rows'[o].state = "running"
        /\ rows'[o].attempts = rows[o].attempts + 1
    BY <2>1, ClaimedRowType DEF IInv
  <2> QED
    BY <1>1, <1>2, <1>6, <2>2 DEF RowOK, HistoryOK, Claimed, Finished, Row
<1>7. CASE Extended(o)
  BY <1>1, <1>2, <1>7 DEF HistoryOK, Extended, Finished, Row
<1>8. CASE Succeeded(o)
  BY <1>1, <1>2, <1>8 DEF HistoryOK, Succeeded, Finished, Row
<1>9. CASE Failed(o)
  BY <1>1, <1>2, <1>9 DEF HistoryOK, Failed, FailedRow, Finished, Row
<1>10. CASE Pruned(o)
  <2>1. DueAt[o] + Lookback < clock
    BY <1>1, <1>10 DEF Pruned, Prunable, RowOK, Row
  <2> QED
    BY <1>1, <1>2, <1>10, <2>1 DEF HistoryOK, Pruned, Prunable, NoRow, Finished
<1> QED
  BY <1>3, <1>4, <1>5, <1>6, <1>7, <1>8, <1>9, <1>10 DEF RowStep

\* The unique index keeps two occurrences of a job from running together.
LEMMA OneRunningPreserved ==
  ASSUME IInv, \A p \in Occurrences : RowStep(p)
  PROVE  AtMostOneRunningPerJob'
<1> SUFFICES ASSUME NEW o \in Occurrences, NEW p \in Occurrences,
                    rows'[o].state = "running", rows'[p].state = "running",
                    JobOf[o] = JobOf[p], o # p
             PROVE  FALSE
  BY DEF AtMostOneRunningPerJob
<1>1. \A q \in Occurrences : rows'[q].state = "running" => rows[q].state = "running" \/ Claimed(q)
  <2> SUFFICES ASSUME NEW q \in Occurrences, rows'[q].state = "running",
                      rows[q].state # "running"
               PROVE  Claimed(q)
    OBVIOUS
  <2>1. RowStep(q)
    OBVIOUS
  <2>2. ~Inserted(q)
    BY FreshRowType DEF Inserted
  <2>3. ~Pruned(q)
    BY NoRowType DEF Pruned
  <2> QED
    BY <2>1, <2>2, <2>3 DEF RowStep, Reaped, LeaseExpired, Extended, Succeeded, Failed
<1>2. CASE Claimed(o)
  <2>1. rows[p].state = "running"
    BY <1>2 DEF Claimed
  <2> QED
    BY <1>2, <2>1 DEF Claimed, UniqueIndexAdmits, JobIsRunning
<1>3. CASE Claimed(p)
  <2>1. rows[o].state = "running"
    BY <1>3 DEF Claimed
  <2> QED
    BY <1>3, <2>1 DEF Claimed, UniqueIndexAdmits, JobIsRunning
<1>4. CASE rows[o].state = "running" /\ rows[p].state = "running"
  BY <1>4 DEF IInv, AtMostOneRunningPerJob
<1> QED
  BY <1>1, <1>2, <1>3, <1>4

OthersUnchanged(w) ==
  \A v \in Workers \ {w} : pc'[v] = pc[v] /\ exec'[v] = exec[v] /\ todo'[v] = todo[v]

\* A step of worker w preserves what the invariant says of the workers when
\* it does for w: it claims what it had locked, and locks what is free.
LEMMA PlacesPreserved ==
  ASSUME IInv, NEW w \in Workers, NEW O, NEW W, RowsStep(O, W),
         W \subseteq {w},
         O = {} \/ (pc[w] = "claiming" /\ O = {exec[w].occ}),
         OthersUnchanged(w),
         pc'[w] = "alertReaped" => todo'[w] \subseteq Occurrences,
         pc'[w] = "claiming" =>
           /\ exec'[w].occ \in Occurrences
           /\ rows'[exec'[w].occ].state = "pending"
           /\ exec'[w].occ \notin LockedByOthers(w),
         pc'[w] \in Executing =>
           /\ exec'[w].occ \in Occurrences
           /\ exec'[w].attempt \in 1 .. MaxAttempts[exec'[w].occ],
         pc'[w] \in {"run", "report", "complete", "fail"} /\ Holds(w, exec[w].occ)' =>
           rows'[exec'[w].occ].attempts = exec'[w].attempt
  PROVE  (\A v \in Workers : ExecOK(v))' /\ CurrentAttempt'
<1>1. ASSUME NEW v \in Workers PROVE ExecOK(v)'
  <2>1. CASE v = w
    BY <2>1 DEF ExecOK, LockedByOthers, OthersUnchanged
  <2>2. CASE v # w
    <3>1. pc'[v] = pc[v] /\ exec'[v] = exec[v] /\ todo'[v] = todo[v] /\ ExecOK(v)
      BY <2>2 DEF IInv, OthersUnchanged
    <3>2. pc'[v] \in Executing =>
            exec'[v].occ \in Occurrences /\ exec'[v].attempt \in 1 .. MaxAttempts[exec'[v].occ]
      BY <3>1 DEF ExecOK
    <3>3. ASSUME pc[v] = "claiming"
          PROVE  /\ exec[v].occ \in Occurrences
                 /\ rows'[exec[v].occ].state = "pending"
                 /\ \A u \in Workers : pc'[u] = "claiming" /\ exec'[u].occ = exec[v].occ => u = v
      <4>1. exec[v].occ \in Occurrences /\ rows[exec[v].occ].state = "pending"
        BY <3>1, <3>3 DEF ExecOK
      <4>2. exec[v].occ \notin O
        BY <2>2, <3>1, <3>3 DEF ExecOK
      <4>3. rows'[exec[v].occ].state = "pending"
        BY <4>1, <4>2 DEF RowsStep, KeptExcept
      <4>4. exec[v].occ \in LockedByOthers(w)
        BY <2>2, <3>3 DEF LockedByOthers
      <4>5. ASSUME NEW u \in Workers, pc'[u] = "claiming", exec'[u].occ = exec[v].occ
            PROVE  u = v
        <5>1. u # w
          BY <4>4, <4>5
        <5>2. pc[u] = "claiming" /\ exec[u].occ = exec[v].occ
          BY <4>5, <5>1 DEF OthersUnchanged
        <5> QED
          BY <3>1, <3>3, <5>2 DEF ExecOK
      <4> QED
        BY <4>1, <4>3, <4>5
    <3> QED
      BY <3>1, <3>2, <3>3 DEF ExecOK
  <2> QED
    BY <2>1, <2>2
<1>2. ASSUME NEW v \in Workers, pc'[v] \in {"run", "report", "complete", "fail"},
             Holds(v, exec[v].occ)'
      PROVE  rows'[exec'[v].occ].attempts = exec'[v].attempt
  <2>1. CASE v = w
    BY <1>2, <2>1
  <2>2. CASE v # w
    <3>1. pc'[v] = pc[v] /\ exec'[v] = exec[v] /\ v \notin W
      BY <2>2 DEF OthersUnchanged
    <3>2. exec[v].occ \in Occurrences
      BY <1>2, <3>1 DEF IInv, ExecOK, Executing
    <3>3. Holds(v, exec[v].occ) /\ rows'[exec[v].occ].attempts = rows[exec[v].occ].attempts
      BY <1>2, <3>1, <3>2 DEF RowsStep, KeptExcept, Holds
    <3> QED
      BY <1>2, <3>1, <3>3 DEF IInv, CurrentAttempt
  <2> QED
    BY <2>1, <2>2
<1> QED
  BY <1>1, <1>2 DEF CurrentAttempt

-----------------------------------------------------------------------------
(* Every step preserves the inductive invariant, one lemma per group of     *)
(* actions.                                                                 *)

\* The part of TypeOK that is not about the rows and the history.
OtherTypes ==
  /\ clock \in Nat
  /\ pc \in [Workers -> PC]
  /\ exec \in [Workers -> Execution]
  /\ todo \in [Workers -> SUBSET (Occurrences \cup Jobs)]
  /\ ran \in [Workers -> Nat]
  /\ bodies \subseteq Body
  /\ raised \subseteq Alert
  /\ unrecorded \subseteq Alert
  /\ faults \in Nat

Preserved ==
  /\ clock' \in {clock, clock + 1}
  /\ rows' \in [Occurrences -> Row]
  /\ \A o \in Occurrences : RowStep(o)
  /\ OtherTypes'
  /\ (\A v \in Workers : ExecOK(v))'
  /\ CurrentAttempt'

LEMMA NoExecType == NoExec \in Execution
  BY DEF NoExec, Execution, Results

\* Places at which a worker neither claims nor executes owe nothing.
LEMMA IdleWorker ==
  ASSUME IInv, NEW w \in Workers, RowsStep({}, {}), OtherTypes', clock' = clock,
         OthersUnchanged(w),
         pc'[w] \notin Executing \cup {"claiming"},
         pc'[w] = "alertReaped" => todo'[w] \subseteq Occurrences
  PROVE  Preserved
<1>1. (\A v \in Workers : ExecOK(v))' /\ CurrentAttempt'
  BY PlacesPreserved DEF Executing
<1> QED
  BY <1>1 DEF Preserved, RowsStep

\* A worker that goes on with the execution it was in.
LEMMA BusyWorker ==
  ASSUME IInv, NEW w \in Workers, RowsStep({}, {}), OtherTypes', clock' = clock,
         OthersUnchanged(w),
         pc[w] \in Executing, pc'[w] \in Executing,
         pc[w] = "alertFailed" => pc'[w] = "alertFailed",
         exec'[w].occ = exec[w].occ, exec'[w].attempt = exec[w].attempt
  PROVE  Preserved
<1>1. exec[w].occ \in Occurrences /\ exec[w].attempt \in 1 .. MaxAttempts[exec[w].occ]
  BY DEF IInv, ExecOK
<1>2. Holds(w, exec[w].occ)' => Holds(w, exec[w].occ)
                                 /\ rows'[exec[w].occ].attempts = rows[exec[w].occ].attempts
  BY <1>1 DEF RowsStep, KeptExcept, Holds
<1>3. pc'[w] \in {"run", "report", "complete", "fail"} /\ Holds(w, exec[w].occ)' =>
        rows'[exec'[w].occ].attempts = exec'[w].attempt
  BY <1>2 DEF IInv, CurrentAttempt, Executing
<1>4. (\A v \in Workers : ExecOK(v))' /\ CurrentAttempt'
  BY <1>1, <1>3, PlacesPreserved DEF Executing
<1> QED
  BY <1>4 DEF Preserved, RowsStep

\* What becomes of an alert that is raised.
LEMMA RaiseStep ==
  ASSUME NEW a \in Alert, Raise(a), TypeOK
  PROVE  /\ raised' \subseteq Alert /\ unrecorded' \subseteq Alert /\ faults' \in Nat
         /\ raised' \cup unrecorded' = raised \cup unrecorded \cup {a}
  BY DEF Raise, Fault, TypeOK

\* Between two ticks a worker has none of the variables of one.
LEMMA EndedTick ==
  ASSUME TypeOK, NEW w \in Workers, NEW place \in PC, EndTick(w, place)
  PROVE  /\ pc' \in [Workers -> PC] /\ pc'[w] = place
         /\ exec' \in [Workers -> Execution]
         /\ todo' \in [Workers -> SUBSET (Occurrences \cup Jobs)] /\ todo'[w] = {}
         /\ ran' \in [Workers -> Nat]
         /\ OthersUnchanged(w)
  BY NoExecType DEF EndTick, GoTo, TypeOK, OthersUnchanged

LEMMA StartPreserves ==
  ASSUME IInv, NEW w \in Workers, Start(w)
  PROVE  Preserved
<1>1. RowsStep({}, {})
  BY UnchangedStep DEF IInv, Start
<1>2. OtherTypes' /\ OthersUnchanged(w) /\ pc'[w] = "tick" /\ clock' = clock
  BY DEF IInv, TypeOK, OtherTypes, OthersUnchanged, Start, Move, GoTo, PC
<1> QED
  BY <1>1, <1>2, IdleWorker DEF Executing

LEMMA ReapPreserves ==
  ASSUME IInv, NEW w \in Workers, Reap(w)
  PROVE  Preserved
<1> DEFINE expired == {o \in ServedBy(w) : LeaseExpired(o)}
           failed  == {o \in expired : ReapedRow(o).state = "failed" /\ ~Shadow[o]}
<1>1. RowsStep({}, {})
  BY ReapStep DEF Reap
<1>2. failed \subseteq Occurrences
  BY DEF ServedBy
<1>3. /\ todo' = [todo EXCEPT ![w] = IF failed = {} THEN Jobs ELSE failed]
      /\ pc' = [pc EXCEPT ![w] = IF failed = {} THEN "enqueue" ELSE "alertReaped"]
      /\ UNCHANGED <<clock, exec, ran, bodies, raised, unrecorded, faults>>
  BY DEF Reap, GoTo
<1> HIDE DEF failed
<1>4. OtherTypes' /\ OthersUnchanged(w)
  BY <1>2, <1>3 DEF IInv, TypeOK, OtherTypes, OthersUnchanged, PC
<1>5. pc'[w] \in {"enqueue", "alertReaped"} /\ (pc'[w] = "alertReaped" => todo'[w] = failed)
  BY <1>3 DEF IInv, TypeOK
<1> QED
  BY <1>1, <1>2, <1>3, <1>4, <1>5, IdleWorker DEF Executing

LEMMA AlertReapedPreserves ==
  ASSUME IInv, NEW w \in Workers, AlertReaped(w)
  PROVE  Preserved
<1>1. RowsStep({}, {})
  BY UnchangedStep DEF IInv, AlertReaped
<1>2. todo[w] \subseteq Occurrences
  BY DEF IInv, ExecOK, AlertReaped
<1>3. PICK o \in todo[w] :
        /\ Raise(Critical(o, rows[o].attempts))
        /\ IF todo[w] = {o}
           THEN todo' = [todo EXCEPT ![w] = Jobs] /\ GoTo(w, "enqueue")
           ELSE todo' = [todo EXCEPT ![w] = @ \ {o}] /\ UNCHANGED pc
  BY DEF AlertReaped
<1>4. o \in Occurrences /\ rows[o].attempts \in Nat
  BY <1>2 DEF IInv, TypeOK, Row
<1>5. raised' \subseteq Alert /\ unrecorded' \subseteq Alert /\ faults' \in Nat
  <2>1. Critical(o, rows[o].attempts) \in Alert
    BY <1>4 DEF Alert, Critical
  <2> QED
    BY <1>3, <2>1, RaiseStep DEF IInv
<1>6. /\ pc' \in [Workers -> PC]
      /\ todo' \in [Workers -> SUBSET (Occurrences \cup Jobs)]
      /\ OthersUnchanged(w)
      /\ pc'[w] \in {"enqueue", "alertReaped"}
      /\ pc'[w] = "alertReaped" => todo'[w] \subseteq Occurrences
  BY <1>2, <1>3 DEF IInv, TypeOK, GoTo, PC, OthersUnchanged, AlertReaped
<1>7. OtherTypes' /\ clock' = clock
  BY <1>5, <1>6 DEF IInv, TypeOK, OtherTypes, AlertReaped
<1> QED
  BY <1>1, <1>6, <1>7, IdleWorker DEF Executing

LEMMA EnqueueDuePreserves ==
  ASSUME IInv, NEW w \in Workers, EnqueueDue(w)
  PROVE  Preserved
<1>1. PICK j \in todo[w] :
        /\ IF DueNow(w, j) = {} THEN UNCHANGED rows
           ELSE \E o \in LatestOf(DueNow(w, j)) : Enqueue(o)
        /\ todo' = [todo EXCEPT ![w] = @ \ {j}]
        /\ GoTo(w, IF todo[w] = {j} THEN "claim" ELSE "enqueue")
  BY DEF EnqueueDue
<1>2. RowsStep({}, {})
  <2>1. CASE UNCHANGED rows
    BY <2>1, UnchangedStep DEF IInv
  <2>2. ASSUME NEW o \in LatestOf(DueNow(w, j)), Enqueue(o)
        PROVE  RowsStep({}, {})
    <3>1. o \in Occurrences /\ DueAt[o] <= clock /\ clock < DueAt[o] + Lookback
      BY <2>2 DEF LatestOf, DueNow, ServedBy
    <3>2. clock <= DueAt[o] + Lookback
      BY <3>1, QueueAssumption, RunnerAssumption DEF AssertRunnerConfig, IInv, TypeOK
    <3> QED
      BY <2>2, <3>1, <3>2, EnqueueStep
  <2> QED
    BY <1>1, <2>1, <2>2
<1>3. OtherTypes' /\ OthersUnchanged(w) /\ pc'[w] \in {"claim", "enqueue"} /\ clock' = clock
  BY <1>1 DEF IInv, TypeOK, OtherTypes, OthersUnchanged, EnqueueDue, GoTo, PC
<1> QED
  BY <1>2, <1>3, IdleWorker DEF Executing

LEMMA EnqueueManualPreserves ==
  ASSUME IInv, NEW o \in Occurrences, EnqueueManual(o)
  PROVE  Preserved
<1>1. DueAt[o] <= clock /\ clock <= DueAt[o] + Lookback
  BY QueueAssumption, RunnerAssumption DEF AssertRunnerConfig, EnqueueManual, IInv, TypeOK
<1>2. RowsStep({}, {})
  BY <1>1, EnqueueStep DEF EnqueueManual
<1>3. OtherTypes' /\ clock' = clock /\ pc' = pc /\ exec' = exec /\ todo' = todo
  BY DEF IInv, TypeOK, OtherTypes, EnqueueManual, workerVars
<1>4. ASSUME NEW w \in Workers PROVE ExecOK(w)'
  BY <1>2, <1>3 DEF IInv, ExecOK, RowsStep, KeptExcept
<1>5. CurrentAttempt'
  <2> SUFFICES ASSUME NEW w \in Workers, pc[w] \in {"run", "report", "complete", "fail"},
                      Holds(w, exec[w].occ)'
               PROVE  rows'[exec[w].occ].attempts = exec[w].attempt
    BY <1>3 DEF CurrentAttempt
  <2>1. exec[w].occ \in Occurrences
    BY DEF IInv, ExecOK, Executing
  <2>2. Holds(w, exec[w].occ) /\ rows'[exec[w].occ].attempts = rows[exec[w].occ].attempts
    BY <1>2, <1>3, <2>1 DEF RowsStep, KeptExcept, Holds
  <2> QED
    BY <2>2 DEF IInv, CurrentAttempt
<1> QED
  BY <1>2, <1>3, <1>4, <1>5 DEF Preserved, RowsStep

LEMMA SelectCandidatePreserves ==
  ASSUME IInv, NEW w \in Workers, SelectCandidate(w)
  PROVE  Preserved
<1> DEFINE free == Claimable(ServedBy(w), LockedByOthers(w))
<1>1. RowsStep({}, {}) /\ clock' = clock /\ rows' = rows
  BY UnchangedStep DEF IInv, SelectCandidate
<1>2. CASE EndTick(w, "rest")
  <2>1. pc'[w] = "rest" /\ OthersUnchanged(w) /\ OtherTypes'
    BY <1>2, EndedTick DEF IInv, TypeOK, OtherTypes, SelectCandidate, PC
  <2> QED
    BY <1>1, <2>1, IdleWorker DEF Executing
<1>3. CASE \E o \in OldestOf(free) :
             /\ exec' = [exec EXCEPT ![w].occ = o] /\ pc' = [pc EXCEPT ![w] = "claiming"]
             /\ UNCHANGED <<todo, ran>>
  <2>1. PICK o \in OldestOf(free) :
          /\ exec' = [exec EXCEPT ![w].occ = o] /\ pc' = [pc EXCEPT ![w] = "claiming"]
             /\ UNCHANGED <<todo, ran>>
    BY <1>3
  <2>2. o \in Occurrences /\ rows[o].state = "pending" /\ o \notin LockedByOthers(w)
    BY DEF OldestOf, Claimable, ServedBy
  <2>3. exec' \in [Workers -> Execution] /\ exec'[w].occ = o
    BY <2>1, <2>2 DEF IInv, TypeOK, Execution
  <2>4. OtherTypes' /\ OthersUnchanged(w) /\ pc'[w] = "claiming"
    BY <2>1, <2>3 DEF IInv, TypeOK, OtherTypes, OthersUnchanged, SelectCandidate, PC
  <2>5. (\A v \in Workers : ExecOK(v))' /\ CurrentAttempt'
    BY <1>1, <2>2, <2>3, <2>4, PlacesPreserved DEF Executing
  <2> QED
    BY <1>1, <2>4, <2>5 DEF Preserved, RowsStep
<1> QED
  BY <1>2, <1>3 DEF SelectCandidate, GoTo

\* The claim itself, by Claim and by the claim whose answer is lost.
LEMMA ClaimPreserves ==
  ASSUME IInv, NEW w \in Workers, Claim(w)
  PROVE  Preserved
<1> DEFINE o == exec[w].occ
           n == rows[o].attempts + 1
<1>1. o \in Occurrences /\ rows[o].state = "pending" /\ pc[w] = "claiming"
  BY DEF Claim, IInv, ExecOK
<1>2. rows[o] \in Row /\ n \in 1 .. MaxAttempts[o]
  BY <1>1, QueueAssumption DEF IInv, TypeOK, RowOK, Row
<1>3. /\ ClaimRow(o, w) /\ UniqueIndexAdmits(o)
      /\ exec' = [exec EXCEPT ![w] = [occ |-> o, attempt |-> n,
                                      deadline |-> clock + JobTimeout, result |-> "none"]]
      /\ bodies' = bodies \cup {[worker |-> w, occ |-> o, attempt |-> n]}
      /\ ran' = [ran EXCEPT ![w] = @ + 1]
      /\ pc' = [pc EXCEPT ![w] = "run"]
      /\ UNCHANGED <<clock, todo, raised, unrecorded, faults>>
  BY DEF Claim, GoTo
<1>4. RowsStep({o}, {w})
  BY <1>1, <1>3, ClaimStep
<1>5. rows'[o].attempts = n
  BY <1>1, <1>3, ClaimedRowType DEF ClaimRow, IInv, TypeOK
<1> HIDE DEF o, n
<1>6. clock + JobTimeout \in Nat
  BY RunnerAssumption DEF IInv, TypeOK
<1>7. /\ exec' \in [Workers -> Execution]
      /\ exec'[w].occ = o
      /\ exec'[w].attempt = n
  BY <1>1, <1>2, <1>3, <1>6 DEF IInv, TypeOK, Execution, Results
<1>8. bodies' \subseteq Body
  BY <1>1, <1>2, <1>3 DEF IInv, TypeOK, Body
<1>9. ran' \in [Workers -> Nat] /\ pc' \in [Workers -> PC] /\ pc'[w] = "run"
  BY <1>3 DEF IInv, TypeOK, PC
<1>10. OtherTypes' /\ OthersUnchanged(w)
  BY <1>3, <1>7, <1>8, <1>9 DEF IInv, TypeOK, OtherTypes, OthersUnchanged
<1>11. (\A v \in Workers : ExecOK(v))' /\ CurrentAttempt'
  <2>1. {o} = {} \/ (pc[w] = "claiming" /\ {o} = {exec[w].occ})
    BY <1>1 DEF o
  <2> QED
    BY <1>1, <1>2, <1>4, <1>5, <1>7, <1>9, <1>10, <2>1, PlacesPreserved
<1> QED
  BY <1>3, <1>4, <1>10, <1>11 DEF Preserved, RowsStep

LEMMA ClaimRefusedPreserves ==
  ASSUME IInv, NEW w \in Workers, ClaimRefused(w)
  PROVE  Preserved
<1>1. RowsStep({}, {}) /\ clock' = clock
  BY UnchangedStep DEF IInv, ClaimRefused
<1>2. OtherTypes' /\ OthersUnchanged(w) /\ pc'[w] = "rest"
  BY EndedTick DEF IInv, TypeOK, OtherTypes, ClaimRefused, PC
<1> QED
  BY <1>1, <1>2, IdleWorker DEF Executing

LEMMA BodyEndsPreserves ==
  ASSUME IInv, NEW w \in Workers, BodyEnds(w)
  PROVE  Preserved
<1>1. RowsStep({}, {}) /\ clock' = clock
  BY UnchangedStep DEF IInv, BodyEnds
<1>2. /\ exec' \in [Workers -> Execution]
      /\ exec'[w].occ = exec[w].occ /\ exec'[w].attempt = exec[w].attempt
      /\ \A v \in Workers \ {w} : exec'[v] = exec[v]
  BY DEF IInv, TypeOK, BodyEnds, Execution, Results
<1>3. /\ pc' \in [Workers -> PC]
      /\ pc[w] = "run" /\ pc'[w] \in {"complete", "report", "fail"}
      /\ \A v \in Workers \ {w} : pc'[v] = pc[v]
  BY DEF IInv, TypeOK, BodyEnds, GoTo, PC
<1>4. OtherTypes' /\ OthersUnchanged(w)
  BY <1>2, <1>3 DEF IInv, TypeOK, OtherTypes, OthersUnchanged, BodyEnds
<1> QED
  BY <1>1, <1>2, <1>3, <1>4, BusyWorker DEF Executing

LEMMA TimeoutPreserves ==
  ASSUME IInv, NEW w \in Workers, Timeout(w)
  PROVE  Preserved
<1>1. RowsStep({}, {}) /\ clock' = clock /\ exec' = exec
  BY UnchangedStep DEF IInv, Timeout
<1>2. OtherTypes' /\ OthersUnchanged(w) /\ pc[w] = "run" /\ pc'[w] = "fail"
  BY DEF IInv, TypeOK, OtherTypes, OthersUnchanged, Timeout, Move, GoTo, PC
<1> QED
  BY <1>1, <1>2, BusyWorker DEF Executing

LEMMA BeatPreserves ==
  ASSUME IInv, NEW w \in Workers, Beat(w)
  PROVE  Preserved
<1>1. pc[w] \in Executing
  BY DEF Beat, Executing, HeartbeatPlaces
<1>2. exec[w].occ \in Occurrences
  BY <1>1 DEF IInv, ExecOK
<1>3. RowsStep({}, {}) /\ clock' = clock
  BY <1>2, HeartbeatStep DEF Beat
<1>4. CASE EndExecution(w)
  <2>1. OtherTypes' /\ OthersUnchanged(w) /\ pc'[w] = "claim"
    BY <1>4, NoExecType
       DEF IInv, TypeOK, OtherTypes, OthersUnchanged, Beat, EndExecution, GoTo, PC
  <2> QED
    BY <1>3, <2>1, IdleWorker DEF Executing
<1>5. CASE UNCHANGED <<pc, exec>>
  <2>1. OtherTypes' /\ OthersUnchanged(w)
    BY <1>5 DEF IInv, TypeOK, OtherTypes, OthersUnchanged, Beat
  <2> QED
    BY <1>1, <1>3, <1>5, <2>1, BusyWorker
<1> QED
  BY <1>4, <1>5 DEF Beat

LEMMA ReportPreserves ==
  ASSUME IInv, NEW w \in Workers, Report(w)
  PROVE  Preserved
<1>1. RowsStep({}, {}) /\ clock' = clock /\ exec' = exec
  BY UnchangedStep DEF IInv, Report
<1>2. exec[w].occ \in Occurrences /\ exec[w].attempt \in Nat
  BY QueueAssumption DEF IInv, TypeOK, ExecOK, Report, Move, Executing, Execution
<1>3. raised' \subseteq Alert /\ unrecorded' \subseteq Alert /\ faults' \in Nat
  <2>1. Warning(exec[w].occ, exec[w].attempt) \in Alert
    BY <1>2 DEF Warning, Alert
  <2> QED
    BY <2>1, RaiseStep DEF Report, IInv, TypeOK
<1>4. OtherTypes' /\ OthersUnchanged(w) /\ pc[w] = "report" /\ pc'[w] = "complete"
  BY <1>3 DEF IInv, TypeOK, OtherTypes, OthersUnchanged, Report, Move, GoTo, PC
<1> QED
  BY <1>1, <1>4, BusyWorker DEF Executing

LEMMA RecordSuccessPreserves ==
  ASSUME IInv, NEW w \in Workers, RecordSuccess(w)
  PROVE  Preserved
<1>1. exec[w].occ \in Occurrences /\ exec[w].result \in Results
  BY DEF IInv, TypeOK, ExecOK, RecordSuccess, Executing, Execution
<1>2. RowsStep({}, {}) /\ clock' = clock
  BY <1>1, CompleteStep DEF RecordSuccess
<1>3. OtherTypes' /\ OthersUnchanged(w) /\ pc'[w] = "claim"
  BY NoExecType
     DEF IInv, TypeOK, OtherTypes, OthersUnchanged, RecordSuccess, EndExecution, GoTo, PC
<1> QED
  BY <1>2, <1>3, IdleWorker DEF Executing

LEMMA RecordFailurePreserves ==
  ASSUME IInv, NEW w \in Workers, RecordFailure(w)
  PROVE  Preserved
<1>1. RowsStep({}, {}) /\ clock' = clock
  BY FailStep DEF RecordFailure
<1>2. CASE GoTo(w, "alertFailed") /\ UNCHANGED exec
  <2>1. OtherTypes' /\ OthersUnchanged(w) /\ pc[w] = "fail" /\ pc'[w] = "alertFailed"
    BY <1>2 DEF IInv, TypeOK, OtherTypes, OthersUnchanged, RecordFailure, GoTo, PC
  <2> QED
    BY <1>1, <1>2, <2>1, BusyWorker DEF Executing
<1>3. CASE EndExecution(w)
  <2>1. OtherTypes' /\ OthersUnchanged(w) /\ pc'[w] = "claim"
    BY <1>3, NoExecType
       DEF IInv, TypeOK, OtherTypes, OthersUnchanged, RecordFailure, EndExecution, GoTo, PC
  <2> QED
    BY <1>1, <2>1, IdleWorker DEF Executing
<1> QED
  BY <1>2, <1>3 DEF RecordFailure

LEMMA AlertFailedPreserves ==
  ASSUME IInv, NEW w \in Workers, AlertFailed(w)
  PROVE  Preserved
<1>1. RowsStep({}, {}) /\ clock' = clock
  BY UnchangedStep DEF IInv, AlertFailed
<1>2. exec[w].occ \in Occurrences /\ exec[w].attempt \in Nat
  BY DEF IInv, TypeOK, ExecOK, AlertFailed, Executing, Execution
<1>3. raised' \subseteq Alert /\ unrecorded' \subseteq Alert /\ faults' \in Nat
  <2>1. Critical(exec[w].occ, exec[w].attempt) \in Alert
    BY <1>2 DEF Critical, Alert
  <2> QED
    BY <2>1, RaiseStep DEF AlertFailed, IInv
<1>4. OtherTypes' /\ OthersUnchanged(w) /\ pc'[w] = "claim"
  BY <1>3, NoExecType
     DEF IInv, TypeOK, OtherTypes, OthersUnchanged, AlertFailed, EndExecution, GoTo, PC
<1> QED
  BY <1>1, <1>4, IdleWorker DEF Executing

LEMMA SleepPreserves ==
  ASSUME IInv, NEW w \in Workers, Sleep(w) \/ PruneAndSleep(w)
  PROVE  Preserved
<1>1. RowsStep({}, {}) /\ clock' = clock
  BY UnchangedStep, PruneStep DEF IInv, Sleep, PruneAndSleep
<1>2. OtherTypes' /\ OthersUnchanged(w) /\ pc'[w] = "tick"
  BY DEF IInv, TypeOK, OtherTypes, OthersUnchanged, Sleep, PruneAndSleep, Move, GoTo, PC
<1> QED
  BY <1>1, <1>2, IdleWorker DEF Executing

LEMMA CrashPreserves ==
  ASSUME IInv, NEW w \in Workers, Crash(w)
  PROVE  Preserved
<1>1. RowsStep({}, {}) /\ clock' = clock
  BY UnchangedStep DEF IInv, Crash
<1>2. faults' \in Nat
  BY DEF IInv, TypeOK, Crash, Fault
<1>3. OtherTypes' /\ OthersUnchanged(w) /\ pc'[w] = "dead"
  BY <1>2, EndedTick DEF IInv, TypeOK, OtherTypes, Crash, PC
<1> QED
  BY <1>1, <1>3, IdleWorker DEF Executing

LEMMA TickStatementFailsPreserves ==
  ASSUME IInv, NEW w \in Workers, TickStatementFails(w)
  PROVE  Preserved
<1>1. faults' \in Nat
  BY DEF IInv, TypeOK, TickStatementFails, Fault
<1>2. OtherTypes' /\ OthersUnchanged(w) /\ pc'[w] = "tick" /\ clock' = clock
  BY <1>1, EndedTick DEF IInv, TypeOK, OtherTypes, TickStatementFails, PC
<1>3. CASE UNCHANGED rows \/ ReapExpired(ServedBy(w))
  <2>1. RowsStep({}, {})
    BY <1>3, UnchangedStep, ReapStep DEF IInv
  <2> QED
    BY <1>2, <2>1, IdleWorker DEF Executing
<1>4. CASE pc[w] = "claiming" /\ UniqueIndexAdmits(exec[w].occ) /\ ClaimRow(exec[w].occ, w)
  <2>1. exec[w].occ \in Occurrences /\ rows[exec[w].occ].state = "pending"
    BY <1>4 DEF IInv, ExecOK
  <2>2. RowsStep({exec[w].occ}, {w})
    BY <1>4, <2>1, ClaimStep
  <2>3. (\A v \in Workers : ExecOK(v))' /\ CurrentAttempt'
    BY <1>2, <1>4, <2>2, PlacesPreserved DEF Executing
  <2> QED
    BY <1>2, <2>2, <2>3 DEF Preserved, RowsStep
<1> QED
  BY <1>3, <1>4 DEF TickStatementFails

LEMMA CompleteFailsPreserves ==
  ASSUME IInv, NEW w \in Workers, CompleteFails(w)
  PROVE  Preserved
<1>1. pc[w] = "complete" /\ exec' = exec /\ clock' = clock
  BY DEF CompleteFails, Move
<1>2. exec[w].occ \in Occurrences /\ exec[w].result \in Results
  BY <1>1 DEF IInv, TypeOK, ExecOK, Executing, Execution
<1>3. RowsStep({}, {})
  BY <1>2, CompleteStep, UnchangedStep DEF CompleteFails, IInv
<1>4. faults' \in Nat
  BY DEF IInv, TypeOK, CompleteFails, Fault
<1>5. OtherTypes' /\ OthersUnchanged(w) /\ pc'[w] = "fail"
  BY <1>4 DEF IInv, TypeOK, OtherTypes, OthersUnchanged, CompleteFails, Move, GoTo, PC
<1> QED
  BY <1>1, <1>3, <1>5, BusyWorker DEF Executing

LEMMA FailFailsPreserves ==
  ASSUME IInv, NEW w \in Workers, FailFails(w)
  PROVE  Preserved
<1>1. pc[w] = "fail" /\ clock' = clock
  BY DEF FailFails
<1>2. RowsStep({}, {})
  BY <1>1, FailStep, UnchangedStep DEF FailFails, IInv
<1>3. faults' \in Nat
  BY DEF IInv, TypeOK, FailFails, Fault
<1>4. OtherTypes' /\ OthersUnchanged(w) /\ pc'[w] = "tick"
  BY <1>3, EndedTick DEF IInv, TypeOK, OtherTypes, FailFails, PC
<1> QED
  BY <1>1, <1>2, <1>4, IdleWorker DEF Executing

\* Steps that change neither the table nor a worker.
LEMMA EnvironmentPreserves ==
  ASSUME IInv, Tick \/ \E b \in bodies : AbandonedBodyEnds(b)
  PROVE  Preserved
<1>1. RowsStep({}, {})
  BY UnchangedStep DEF IInv, Tick, AbandonedBodyEnds
<1>2. /\ rows' = rows /\ pc' = pc /\ exec' = exec /\ todo' = todo
      /\ clock' \in {clock, clock + 1} /\ OtherTypes'
  BY DEF IInv, TypeOK, OtherTypes, Tick, AbandonedBodyEnds, workerVars
<1>3. (\A v \in Workers : ExecOK(v))' /\ CurrentAttempt'
  BY <1>2 DEF IInv, ExecOK, CurrentAttempt, Holds
<1> QED
  BY <1>1, <1>2, <1>3 DEF Preserved, RowsStep

LEMMA StepPreserves ==
  ASSUME IInv, Step
  PROVE  Preserved
<1>1. ASSUME NEW w \in Workers, WorkerStep(w) PROVE Preserved
  BY <1>1, StartPreserves, ReapPreserves, AlertReapedPreserves, EnqueueDuePreserves,
     SelectCandidatePreserves, ClaimPreserves, ClaimRefusedPreserves, TimeoutPreserves,
     ReportPreserves, RecordSuccessPreserves, RecordFailurePreserves, AlertFailedPreserves,
     SleepPreserves
     DEF WorkerStep
<1>2. ASSUME NEW w \in Workers, BodyEnds(w) \/ Beat(w) \/ PruneAndSleep(w) PROVE Preserved
  BY <1>2, BodyEndsPreserves, BeatPreserves, SleepPreserves
<1>3. ASSUME NEW w \in Workers, FaultStep(w) PROVE Preserved
  BY <1>3, CrashPreserves, TickStatementFailsPreserves, CompleteFailsPreserves,
     FailFailsPreserves DEF FaultStep
<1> QED
  BY <1>1, <1>2, <1>3, EnqueueManualPreserves, EnvironmentPreserves
  DEF Step, RunJob, RunJobByMachine, SyncClient

-----------------------------------------------------------------------------
(* The inductive invariant *)

LEMMA InvariantInitially == Init => IInv
<1> SUFFICES ASSUME Init PROVE IInv
  OBVIOUS
<1>1. TypeOK
  BY NoRowType, NoExecType DEF Init, TypeOK, PC
<1>2. \A o \in Occurrences : RowOK(o) /\ HistoryOK(o)
  BY QueueAssumption DEF Init, RowOK, HistoryOK, NoRow, Finished
<1>3. AttemptsBounded
  BY QueueAssumption DEF Init, AttemptsBounded
<1>4. \A w \in Workers : ExecOK(w)
  BY DEF Init, ExecOK, Executing
<1>5. AtMostOneRunningPerJob /\ CurrentAttempt
  BY DEF Init, AtMostOneRunningPerJob, CurrentAttempt, NoRow
<1> QED
  BY <1>1, <1>2, <1>3, <1>4, <1>5 DEF IInv

LEMMA InvariantPreserved == IInv /\ [Next]_vars => IInv'
<1> SUFFICES ASSUME IInv, [Next]_vars PROVE IInv'
  OBVIOUS
<1>1. CASE Next
  <2>1. Preserved /\ Observe
    BY <1>1, StepPreserves DEF Next
  <2>2. \A o \in Occurrences : RowStep(o) /\ rows'[o] \in Row
    BY <2>1 DEF Preserved
  <2>3. \A o \in Occurrences : RowOK(o)'
    BY <2>1, <2>2, RowPreserved DEF Preserved
  <2>4. \A o \in Occurrences : HistoryOK(o)' /\ tries'[o] <= MaxAttempts[o]
    BY <2>1, <2>2, HistoryPreserved DEF Preserved
  <2>5. tries' \in [Occurrences -> Nat] /\ outcome' \in [Occurrences -> {"none"} \cup Finished]
    BY <2>1 DEF IInv, TypeOK, Observe
  <2>6. TypeOK'
    BY <2>1, <2>5 DEF Preserved, OtherTypes, TypeOK
  <2>7. AtMostOneRunningPerJob'
    BY <2>2, OneRunningPreserved
  <2> QED
    BY <2>1, <2>3, <2>4, <2>6, <2>7 DEF Preserved, IInv, AttemptsBounded
<1>2. CASE UNCHANGED vars
  BY <1>2 DEF vars, IInv, TypeOK, RowOK, HistoryOK, AttemptsBounded, ExecOK,
              AtMostOneRunningPerJob, CurrentAttempt, Holds
<1> QED
  BY <1>1, <1>2

\* The invariant holds in every state of every behaviour.
THEOREM Invariance == Spec => []IInv
  BY InvariantInitially, InvariantPreserved, PTL DEF Spec

-----------------------------------------------------------------------------
(* Theorems *)

\* Every variable keeps its type.
THEOREM TypeCorrect == Spec => []TypeOK
<1>1. IInv => TypeOK
  BY DEF IInv
<1> QED
  BY <1>1, Invariance, PTL

\* However claims interleave and whatever crashes, no two occurrences of a
\* job are running (queue.ts:8).
THEOREM OneRunningPerJob == Spec => []AtMostOneRunningPerJob
<1>1. IInv => AtMostOneRunningPerJob
  BY DEF IInv
<1> QED
  BY <1>1, Invariance, PTL

\* No occurrence is begun more than max_attempts times, ever.
THEOREM AttemptsAreBounded == Spec => []AttemptsBounded
<1>1. IInv => AttemptsBounded
  BY DEF IInv
<1> QED
  BY <1>1, Invariance, PTL

\* The worker_id check identifies the attempt (queue.ts:10).
THEOREM WorkerIdFencesAttempts == Spec => []CurrentAttempt
<1>1. IInv => CurrentAttempt
  BY DEF IInv
<1> QED
  BY <1>1, Invariance, PTL

-----------------------------------------------------------------------------
(* Steps: what Next and the two states around it satisfy *)

LEMMA StepFacts ==
  ASSUME IInv, Next
  PROVE  /\ \A o \in Occurrences : RowStep(o) /\ RowOK(o) /\ HistoryOK(o)
         /\ rows \in [Occurrences -> Row]
         /\ rows' \in [Occurrences -> Row]
         /\ tries \in [Occurrences -> Nat]
         /\ outcome \in [Occurrences -> {"none"} \cup Finished]
         /\ Observe
  BY StepPreserves DEF Next, Preserved, IInv, TypeOK

-----------------------------------------------------------------------------
(* Which rows a step may touch *)

\* One row, or every expired row, or every row that is due for pruning.
TouchesOnly(o) == \A p \in Occurrences \ {o} : rows'[p] = rows[p]

Recovers == \A p \in Occurrences : rows'[p] = rows[p] \/ Reaped(p)

Clears == \A p \in Occurrences : rows'[p] = rows[p] \/ Pruned(p)

Shape == (\E o \in Occurrences : TouchesOnly(o)) \/ Recovers \/ Clears

LEMMA UpdateHeldShape ==
  ASSUME IInv, NEW w \in Workers, NEW o \in Occurrences, NEW row, UpdateHeld(w, o, row)
  PROVE  Shape
  BY DEF IInv, TypeOK, UpdateHeld, Shape, TouchesOnly, Recovers

LEMMA ExecutedOccurrence ==
  ASSUME IInv, NEW w \in Workers, pc[w] \in Executing \cup {"claiming"}
  PROVE  exec[w].occ \in Occurrences
  BY DEF IInv, ExecOK

LEMMA StepShape ==
  ASSUME IInv, Step
  PROVE  Shape
<1> USE DEF Shape
<1>1. rows' = rows => Recovers
  BY DEF Recovers
<1>2. ASSUME NEW S, ReapExpired(S) PROVE Recovers
  BY <1>2 DEF ReapExpired, Recovers, Reaped
<1>3. ASSUME NEW o \in Occurrences, Enqueue(o) PROVE Shape
  BY <1>3 DEF Enqueue, IInv, TypeOK, TouchesOnly, Recovers
<1>4. ASSUME NEW o \in Occurrences, NEW w \in Workers, ClaimRow(o, w) PROVE Shape
  BY <1>4 DEF ClaimRow, IInv, TypeOK, TouchesOnly
<1>5. ASSUME NEW w \in Workers, WorkerStep(w) PROVE Shape
  <2>1. CASE Start(w) \/ AlertReaped(w) \/ SelectCandidate(w) \/ ClaimRefused(w)
             \/ Timeout(w) \/ Report(w) \/ AlertFailed(w) \/ Sleep(w)
    BY <1>1, <2>1 DEF Start, AlertReaped, SelectCandidate, ClaimRefused, Timeout, Report,
                      AlertFailed, Sleep
  <2>2. CASE Reap(w)
    BY <1>2, <2>2 DEF Reap
  <2>3. CASE EnqueueDue(w)
    BY <1>1, <1>3, <2>3 DEF EnqueueDue, LatestOf, DueNow, ServedBy
  <2>4. CASE Claim(w)
    BY <1>4, <2>4, ExecutedOccurrence DEF Claim
  <2>5. CASE RecordSuccess(w) \/ RecordFailure(w)
    BY <2>5, ExecutedOccurrence, UpdateHeldShape
       DEF RecordSuccess, RecordFailure, Complete, Fail, Executing
  <2> QED
    BY <1>5, <2>1, <2>2, <2>3, <2>4, <2>5 DEF WorkerStep
<1>6. ASSUME NEW w \in Workers, BodyEnds(w) \/ Beat(w) \/ PruneAndSleep(w) PROVE Shape
  <2>1. CASE BodyEnds(w)
    BY <1>1, <2>1 DEF BodyEnds
  <2>2. CASE Beat(w)
    BY <2>2, ExecutedOccurrence, UpdateHeldShape DEF Beat, Heartbeat, HeartbeatPlaces, Executing
  <2>3. CASE PruneAndSleep(w)
    BY <2>3 DEF PruneAndSleep, Prune, Clears, Pruned
  <2> QED
    BY <1>6, <2>1, <2>2, <2>3
<1>7. ASSUME NEW w \in Workers, FaultStep(w) PROVE Shape
  <2>1. CASE Crash(w)
    BY <1>1, <2>1 DEF Crash
  <2>2. CASE TickStatementFails(w)
    BY <1>1, <1>2, <1>4, <2>2, ExecutedOccurrence DEF TickStatementFails
  <2>3. CASE CompleteFails(w) \/ FailFails(w)
    BY <1>1, <2>3, ExecutedOccurrence, UpdateHeldShape
       DEF CompleteFails, FailFails, Complete, Fail, Move, Executing
  <2> QED
    BY <1>7, <2>1, <2>2, <2>3 DEF FaultStep
<1>8. ASSUME NEW b \in bodies, AbandonedBodyEnds(b) PROVE Shape
  BY <1>1, <1>8 DEF AbandonedBodyEnds
<1>9. Tick => Shape
  BY <1>1 DEF Tick
<1>10. ASSUME NEW o \in Occurrences, EnqueueManual(o) PROVE Shape
  BY <1>3, <1>10 DEF EnqueueManual
<1> QED
  BY <1>5, <1>6, <1>7, <1>8, <1>9, <1>10 DEF Step, RunJob, RunJobByMachine, SyncClient

-----------------------------------------------------------------------------
(* What a step does to the abstract state of one occurrence *)

Stays(o) == Status'[o] = Status[o] /\ tries'[o] = tries[o]

Submitted(o) == Status[o] = "none" /\ Status'[o] = "pending" /\ tries'[o] = tries[o]

Begun(o) ==
  /\ Status[o] = "pending" /\ Status'[o] = "running"
  /\ tries[o] < MaxAttempts[o] /\ tries'[o] = tries[o] + 1
  /\ UniqueIndexAdmits(o)

Ended(o) == Status[o] = "running" /\ Status'[o] = "succeeded" /\ tries'[o] = tries[o]

GivenBack(o) ==
  /\ Status[o] = "running"
  /\ Status'[o] = IF tries[o] < MaxAttempts[o] THEN "pending" ELSE "failed"
  /\ tries'[o] = tries[o]

LEMMA SameRowStays ==
  ASSUME IInv, Next, NEW o \in Occurrences, rows'[o] = rows[o]
  PROVE  Stays(o)
  BY StepFacts DEF HistoryOK, Observe, Stays, Status, Finished

LEMMA LiveStatus ==
  ASSUME IInv, NEW o \in Occurrences
  PROVE  /\ rows[o].state \in {"pending", "running"} =>
              outcome[o] = "none" /\ Status[o] = rows[o].state /\ tries[o] = rows[o].attempts
         /\ Status[o] = "running" => rows[o].state = "running"
  BY DEF IInv, TypeOK, HistoryOK, Status, Finished

LEMMA ReapedIsGivenBack ==
  ASSUME IInv, Next, NEW o \in Occurrences, Reaped(o)
  PROVE  GivenBack(o)
<1>1. rows[o] \in Row /\ rows[o].state = "running"
  BY StepFacts DEF Reaped, LeaseExpired
<1>2. rows'[o].state = IF rows[o].attempts >= MaxAttempts[o] THEN "failed" ELSE "pending"
  BY <1>1 DEF Reaped, ReapedRow, Exhausted, Row
<1>3. tries[o] = rows[o].attempts /\ tries[o] \in Nat /\ MaxAttempts[o] \in Nat
  BY <1>1, LiveStatus, StepFacts, QueueAssumption
<1> QED
  BY <1>1, <1>2, <1>3, LiveStatus, StepFacts DEF GivenBack, Observe, Status, Finished

LEMMA FailedIsGivenBack ==
  ASSUME IInv, Next, NEW o \in Occurrences, Failed(o)
  PROVE  GivenBack(o)
<1>1. rows[o] \in Row /\ rows[o].state = "running"
  BY StepFacts DEF Failed
<1>2. rows'[o].state = IF rows[o].attempts >= MaxAttempts[o] THEN "failed" ELSE "pending"
  BY <1>1 DEF Failed, FailedRow, Exhausted, Row
<1>3. tries[o] = rows[o].attempts /\ tries[o] \in Nat /\ MaxAttempts[o] \in Nat
  BY <1>1, LiveStatus, StepFacts, QueueAssumption
<1> QED
  BY <1>1, <1>2, <1>3, LiveStatus, StepFacts DEF GivenBack, Observe, Status, Finished

LEMMA OccurrenceStep ==
  ASSUME IInv, Next, NEW o \in Occurrences
  PROVE  Stays(o) \/ Submitted(o) \/ Begun(o) \/ Ended(o) \/ GivenBack(o)
<1>1. CASE Inserted(o)
  <2>1. rows'[o].state = "pending"
    BY <1>1, FreshRowType DEF Inserted
  <2> QED
    BY <1>1, <2>1, StepFacts DEF Inserted, Submitted, Observe, Status, Finished
<1>2. CASE Claimed(o)
  <2>1. rows'[o].state = "running"
    BY <1>2, ClaimedRowType DEF Claimed, IInv
  <2>2. rows[o].state = "pending" /\ tries[o] = rows[o].attempts /\ Status[o] = "pending"
        /\ outcome[o] = "none"
    BY <1>2, LiveStatus DEF Claimed
  <2>3. tries[o] < MaxAttempts[o]
    BY <2>2, StepFacts DEF RowOK
  <2> QED
    BY <1>2, <2>1, <2>2, <2>3, StepFacts DEF Claimed, Begun, Observe, Status, Finished
<1>3. CASE Extended(o)
  <2>1. rows'[o].state = "running" /\ rows[o].state = "running"
    BY <1>3, StepFacts DEF Extended, Row
  <2> QED
    BY <2>1, LiveStatus, StepFacts DEF Stays, Observe, Status, Finished
<1>4. CASE Succeeded(o)
  <2>1. rows'[o].state = "succeeded" /\ rows[o].state = "running"
    BY <1>4, StepFacts DEF Succeeded, Row
  <2> QED
    BY <2>1, LiveStatus, StepFacts DEF Ended, Observe, Status, Finished
<1>5. CASE Pruned(o)
  <2>1. rows'[o].state = "none" /\ rows[o].state \in Finished
    BY <1>5, NoRowType DEF Pruned, Prunable
  <2> QED
    BY <2>1, StepFacts DEF Stays, HistoryOK, Observe, Status, Finished
<1> QED
  BY <1>1, <1>2, <1>3, <1>4, <1>5, SameRowStays, ReapedIsGivenBack, FailedIsGivenBack, StepFacts
     DEF RowStep

-----------------------------------------------------------------------------
(* Every step maps to a step of OccurrenceLifecycle or to a stutter. *)

LEMMA AbstractFunctions ==
  ASSUME IInv, Next
  PROVE  /\ Status = [p \in Occurrences |-> Status[p]]
         /\ Status' = [p \in Occurrences |-> Status'[p]]
         /\ tries = [p \in Occurrences |-> tries[p]]
         /\ tries' = [p \in Occurrences |-> tries'[p]]
  BY StepFacts DEF Status, Observe

LEMMA AllStay ==
  ASSUME IInv, Next, \A p \in Occurrences : Stays(p)
  PROVE  UNCHANGED <<Status, tries>>
  BY AbstractFunctions DEF Stays

LEMMA StepImplements ==
  ASSUME IInv, Next
  PROVE  Lifecycle!Next \/ UNCHANGED <<Status, tries>>
<1>1. Shape
  BY StepShape DEF Next
<1>2. CASE Clears
  <2>1. \A p \in Occurrences : Stays(p)
    <3>1. ASSUME NEW p \in Occurrences, Pruned(p) PROVE Stays(p)
      <4>1. rows'[p].state = "none" /\ rows[p].state \in Finished
        BY <3>1, NoRowType DEF Pruned, Prunable
      <4> QED
        BY <4>1, StepFacts DEF Stays, HistoryOK, Observe, Status, Finished
    <3> QED
      BY <1>2, <3>1, SameRowStays DEF Clears
  <2> QED
    BY <2>1, AllStay
<1>3. CASE Recovers
  <2> DEFINE S == {p \in Occurrences : Reaped(p)}
  <2>1. \A p \in S : GivenBack(p)
    BY ReapedIsGivenBack
  <2>2. \A p \in Occurrences \ S : Stays(p)
    BY <1>3, SameRowStays DEF Recovers
  <2>3. Lifecycle!GiveBack(S)
    <3>1. \A p \in S : Status[p] = "running"
      BY <2>1 DEF GivenBack
    <3>2. Status' = [p \in Occurrences |->
                       IF p \notin S THEN Status[p]
                       ELSE IF tries[p] < MaxAttempts[p] THEN "pending" ELSE "failed"]
      BY <2>1, <2>2, AbstractFunctions DEF GivenBack, Stays
    <3>3. UNCHANGED tries
      BY <2>1, <2>2, AbstractFunctions DEF GivenBack, Stays
    <3> QED
      BY <3>1, <3>2, <3>3 DEF Lifecycle!GiveBack
  <2> QED
    BY <2>3 DEF Lifecycle!Next
<1>4. ASSUME NEW o \in Occurrences, TouchesOnly(o)
      PROVE  Lifecycle!Next \/ UNCHANGED <<Status, tries>>
  <2>1. \A p \in Occurrences \ {o} : Stays(p)
    BY <1>4, SameRowStays DEF TouchesOnly
  <2>2. CASE Stays(o)
    BY <2>1, <2>2, AllStay
  <2>3. tries'[o] = tries[o] => UNCHANGED tries
    BY <2>1, AbstractFunctions DEF Stays
  <2>4. Status' = [Status EXCEPT ![o] = Status'[o]]
    BY <2>1, AbstractFunctions DEF Stays
  <2>5. CASE Submitted(o)
    BY <2>3, <2>4, <2>5 DEF Submitted, Lifecycle!Submit, Lifecycle!Next
  <2>6. CASE Begun(o)
    <3>1. \A p \in Occurrences : JobOf[p] = JobOf[o] => Status[p] # "running"
      BY <2>6, LiveStatus DEF Begun, UniqueIndexAdmits, JobIsRunning
    <3>2. tries' = [tries EXCEPT ![o] = @ + 1]
      BY <2>1, <2>6, AbstractFunctions DEF Stays, Begun
    <3> QED
      BY <2>4, <2>6, <3>1, <3>2 DEF Begun, Lifecycle!Begin, Lifecycle!Next
  <2>7. CASE Ended(o)
    BY <2>3, <2>4, <2>7 DEF Ended, Lifecycle!Succeed, Lifecycle!Next
  <2>8. CASE GivenBack(o)
    <3>1. Status' = [p \in Occurrences |->
                       IF p \notin {o} THEN Status[p]
                       ELSE IF tries[p] < MaxAttempts[p] THEN "pending" ELSE "failed"]
      BY <2>1, <2>8, AbstractFunctions DEF GivenBack, Stays
    <3>2. Lifecycle!GiveBack({o})
      BY <2>3, <2>8, <3>1 DEF GivenBack, Lifecycle!GiveBack
    <3> QED
      BY <3>2 DEF Lifecycle!Next
  <2> QED
    BY <2>2, <2>5, <2>6, <2>7, <2>8, OccurrenceStep
<1> QED
  BY <1>1, <1>2, <1>3, <1>4 DEF Shape

\* The queue keeps the promises at the head of queue.ts: every behaviour of the
\* workers, their crashes and failing statements is, seen through Status, one
\* of OccurrenceLifecycle.
THEOREM QueueImplementsLifecycle == Spec => Implements
<1>1. Init => Lifecycle!Init
  BY DEF Init, Lifecycle!Init, Status, NoRow
<1>2. IInv /\ [Next]_vars => [Lifecycle!Next]_(Lifecycle!lifecycleVars)
  <2>1. CASE UNCHANGED vars
    BY <2>1 DEF vars, Status, Lifecycle!lifecycleVars
  <2> QED
    BY <2>1, StepImplements DEF Lifecycle!lifecycleVars
<1> QED
  BY <1>1, <1>2, Invariance, PTL DEF Spec, Implements, Lifecycle!Spec

-----------------------------------------------------------------------------
(* What a step may never do *)

\* Who ends the running of a row, and what entitles it to.
EntitledToSettle(o) ==
  \/ LeaseExpired(o)
  \/ \E w \in Workers : /\ pc[w] \in {"complete", "fail"}
                        /\ exec[w].occ = o
                        /\ exec[w].attempt = rows[o].attempts

LEMMA HolderSettles ==
  ASSUME IInv, NEW w \in Workers, pc[w] \in {"complete", "fail"}, NEW row,
         UpdateHeld(w, exec[w].occ, row), NEW o \in Occurrences, rows'[o] # rows[o]
  PROVE  EntitledToSettle(o)
<1>1. exec[w].occ \in Occurrences /\ rows \in [Occurrences -> Row]
  BY ExecutedOccurrence DEF IInv, TypeOK, Executing
<1>2. Holds(w, exec[w].occ) /\ exec[w].occ = o
  BY <1>1 DEF UpdateHeld
<1>3. exec[w].attempt = rows[o].attempts
  BY <1>2 DEF IInv, CurrentAttempt
<1> QED
  BY <1>2, <1>3 DEF EntitledToSettle

LEMMA SettlingStep ==
  ASSUME IInv, Step, NEW o \in Occurrences, rows[o].state = "running",
         rows'[o].state # "running"
  PROVE  EntitledToSettle(o)
<1>1. rows'[o] # rows[o] /\ rows \in [Occurrences -> Row]
  BY DEF IInv, TypeOK
<1>2. ASSUME NEW S, ReapExpired(S) PROVE EntitledToSettle(o)
  BY <1>1, <1>2 DEF ReapExpired, EntitledToSettle
<1>3. ASSUME NEW p \in Occurrences PROVE ~Enqueue(p)
  BY <1>1 DEF Enqueue
<1>4. ASSUME NEW w \in Workers, NEW p \in Occurrences, rows[p].state = "pending"
      PROVE  ~ClaimRow(p, w)
  BY <1>1, <1>4 DEF ClaimRow
<1>5. ASSUME NEW w \in Workers, pc[w] = "claiming"
      PROVE  exec[w].occ \in Occurrences /\ rows[exec[w].occ].state = "pending"
  BY <1>5 DEF IInv, ExecOK
<1>6. ASSUME NEW w \in Workers, WorkerStep(w) PROVE EntitledToSettle(o)
  <2>1. CASE Start(w) \/ AlertReaped(w) \/ SelectCandidate(w) \/ ClaimRefused(w)
             \/ Timeout(w) \/ Report(w) \/ AlertFailed(w) \/ Sleep(w)
    BY <1>1, <2>1 DEF Start, AlertReaped, SelectCandidate, ClaimRefused, Timeout, Report,
                      AlertFailed, Sleep
  <2>2. CASE Reap(w)
    BY <1>2, <2>2 DEF Reap
  <2>3. CASE EnqueueDue(w)
    BY <1>1, <1>3, <2>3 DEF EnqueueDue, LatestOf, DueNow, ServedBy
  <2>4. CASE Claim(w)
    BY <1>4, <1>5, <2>4 DEF Claim
  <2>5. CASE RecordSuccess(w) \/ RecordFailure(w)
    BY <1>1, <2>5, HolderSettles DEF RecordSuccess, RecordFailure, Complete, Fail
  <2> QED
    BY <1>6, <2>1, <2>2, <2>3, <2>4, <2>5 DEF WorkerStep
<1>7. ASSUME NEW w \in Workers, BodyEnds(w) \/ Beat(w) \/ PruneAndSleep(w)
      PROVE  EntitledToSettle(o)
  <2>1. CASE BodyEnds(w)
    BY <1>1, <2>1 DEF BodyEnds
  <2>2. CASE Beat(w)
    BY <1>1, <2>2, ExecutedOccurrence
       DEF Beat, Heartbeat, UpdateHeld, Holds, HeartbeatPlaces, Executing, Row
  <2>3. CASE PruneAndSleep(w)
    BY <1>1, <2>3 DEF PruneAndSleep, Prune, Prunable, Finished
  <2> QED
    BY <1>7, <2>1, <2>2, <2>3
<1>8. ASSUME NEW w \in Workers, FaultStep(w) PROVE EntitledToSettle(o)
  <2>1. CASE Crash(w)
    BY <1>1, <2>1 DEF Crash
  <2>2. CASE TickStatementFails(w)
    BY <1>1, <1>2, <1>4, <1>5, <2>2 DEF TickStatementFails
  <2>3. CASE CompleteFails(w) \/ FailFails(w)
    BY <1>1, <2>3, HolderSettles DEF CompleteFails, FailFails, Complete, Fail, Move
  <2> QED
    BY <1>8, <2>1, <2>2, <2>3 DEF FaultStep
<1>9. ~(\E p \in Occurrences : RunJob(p) \/ RunJobByMachine(p) \/ SyncClient(p))
  BY <1>3 DEF EnqueueManual, RunJob, RunJobByMachine, SyncClient
<1>10. ~Tick /\ ~(\E b \in bodies : AbandonedBodyEnds(b))
  BY <1>1 DEF Tick, AbandonedBodyEnds
<1> QED
  BY <1>6, <1>7, <1>8, <1>9, <1>10 DEF Step

\* A worker whose lease was taken over changes nothing any more (queue.ts:10).
THEOREM OnlyTheHolderSettles == Spec => OnlyHolderSettles
<1>1. IInv /\ [Next]_vars =>
        [\A o \in Occurrences :
           rows[o].state = "running" /\ rows'[o].state # "running" =>
             \/ LeaseExpired(o)
             \/ \E w \in Workers : /\ pc[w] \in {"complete", "fail"}
                                   /\ exec[w].occ = o
                                   /\ exec[w].attempt = rows[o].attempts]_vars
  BY SettlingStep DEF Next, EntitledToSettle
<1> QED
  BY <1>1, Invariance, PTL DEF Spec, OnlyHolderSettles

LEMMA FinalOutcome ==
  ASSUME IInv, Next, NEW o \in Occurrences, outcome[o] # "none"
  PROVE  rows'[o].state \in {outcome[o], "none"} /\ outcome'[o] = outcome[o]
<1>1. rows[o].state \in {outcome[o], "none"} /\ outcome[o] \in Finished
  BY StepFacts DEF HistoryOK
<1>2. rows[o].state \notin {"pending", "running"}
  BY <1>1 DEF Finished
<1>3. rows'[o] = rows[o] \/ Pruned(o)
  BY <1>2, StepFacts
     DEF RowStep, Inserted, Reaped, LeaseExpired, Claimed, Extended, Succeeded, Failed
<1>4. rows'[o].state \in {outcome[o], "none"}
  BY <1>1, <1>3, NoRowType DEF Pruned
<1> QED
  BY <1>1, <1>4, StepFacts DEF Observe, Finished

\* A finished occurrence stays finished: repeated enqueueing, late statements
\* and pruning do not reopen it.
THEOREM OutcomesAreFinal == Spec => OutcomeIsFinal
<1>1. ASSUME IInv, Next, NEW o \in Occurrences, outcome[o] # "none"
      PROVE  rows'[o].state \in {outcome[o], "none"}
  BY <1>1, FinalOutcome
<1>2. IInv /\ [Next]_vars =>
        [\A o \in Occurrences :
           outcome[o] # "none" => rows'[o].state \in {outcome[o], "none"}]_vars
  BY <1>1
<1> QED
  BY <1>2, Invariance, PTL DEF Spec, OutcomeIsFinal

-----------------------------------------------------------------------------
(* Real and shadow work *)

\* What ModesKeptApart needs: a worker locks and executes only what it
\* serves, and what it is about to alert is real.
ModeOK ==
  /\ ModesKeptApart
  /\ \A w \in Workers :
       /\ pc[w] \in Executing \cup {"claiming"} => Serves(w, exec[w].occ)
       /\ pc[w] = "alertReaped" => \A o \in todo[w] : ~Shadow[o]
       /\ pc[w] = "alertFailed" => ~Shadow[exec[w].occ]

LEMMA ModePreserved ==
  ASSUME IInv, ModeOK, Step
  PROVE  ModeOK'
<1> USE DEF ModeOK, ModesKeptApart, Serves
<1>1. /\ pc \in [Workers -> PC] /\ exec \in [Workers -> Execution]
      /\ todo \in [Workers -> SUBSET (Occurrences \cup Jobs)]
  BY DEF IInv, TypeOK
<1>2. ASSUME NEW w \in Workers, WorkerStep(w) PROVE ModeOK'
  <2>1. CASE Start(w) \/ Sleep(w) \/ ClaimRefused(w)
    BY <1>1, <2>1 DEF Start, Sleep, ClaimRefused, EndTick, Move, GoTo, Executing
  <2>2. CASE Reap(w)
    BY <1>1, <2>2 DEF Reap, GoTo, Executing
  <2>3. CASE AlertReaped(w)
    BY <1>1, <2>3 DEF AlertReaped, Raise, GoTo, Executing, Critical
  <2>4. CASE EnqueueDue(w)
    BY <1>1, <2>4 DEF EnqueueDue, GoTo, Executing
  <2>5. CASE SelectCandidate(w)
    BY <1>1, <2>5 DEF SelectCandidate, EndTick, OldestOf, Claimable, ServedBy, GoTo, Executing,
                        Execution
  <2>6. CASE Claim(w)
    BY <1>1, <2>6 DEF Claim, GoTo, Executing
  <2>7. CASE Timeout(w)
    BY <1>1, <2>7 DEF Timeout, Move, GoTo, Executing
  <2>8. CASE Report(w)
    BY <1>1, <2>8 DEF Report, Raise, Move, GoTo, Executing, Warning
  <2>9. CASE RecordSuccess(w) \/ AlertFailed(w)
    BY <1>1, <2>9 DEF RecordSuccess, AlertFailed, Raise, EndExecution, GoTo, Executing, Critical
  <2>10. CASE RecordFailure(w)
    BY <1>1, <2>10 DEF RecordFailure, OwesAlert, EndExecution, GoTo, Executing
  <2> QED
    BY <1>2, <2>1, <2>2, <2>3, <2>4, <2>5, <2>6, <2>7, <2>8, <2>9, <2>10 DEF WorkerStep
<1>3. ASSUME NEW w \in Workers, BodyEnds(w) \/ Beat(w) \/ PruneAndSleep(w) PROVE ModeOK'
  <2>1. CASE BodyEnds(w)
    BY <1>1, <2>1 DEF BodyEnds, GoTo, Executing, Execution
  <2>2. CASE Beat(w)
    BY <1>1, <2>2 DEF Beat, EndExecution, GoTo, Executing
  <2>3. CASE PruneAndSleep(w)
    BY <1>1, <2>3 DEF PruneAndSleep, Move, GoTo, Executing
  <2> QED
    BY <1>3, <2>1, <2>2, <2>3
<1>4. ASSUME NEW w \in Workers, FaultStep(w) PROVE ModeOK'
  BY <1>1, <1>4 DEF FaultStep, Crash, TickStatementFails, CompleteFails, FailFails, EndTick, Move,
                    GoTo, Executing
<1>5. ASSUME NEW b \in bodies, AbandonedBodyEnds(b) PROVE ModeOK'
  BY <1>5 DEF AbandonedBodyEnds, workerVars
<1>6. ASSUME Tick \/ \E o \in Occurrences : RunJob(o) \/ RunJobByMachine(o) \/ SyncClient(o) PROVE ModeOK'
  BY <1>6 DEF Tick, EnqueueManual, RunJob, RunJobByMachine, SyncClient, workerVars
<1> QED
  BY <1>2, <1>3, <1>4, <1>5, <1>6 DEF Step

\* Although a job's real and shadow occurrences share the table, the unique
\* index and the worker loop, a worker never runs one it is not configured
\* for, and no shadow occurrence raises an alert (types.ts, runner.ts:85).
THEOREM ShadowRunsApart == Spec => []ModesKeptApart
<1>1. Init => ModeOK
  BY DEF Init, ModeOK, ModesKeptApart, Executing
<1>2. IInv /\ ModeOK /\ [Next]_vars => ModeOK'
  <2>1. CASE UNCHANGED vars
    BY <2>1 DEF vars, ModeOK, ModesKeptApart
  <2> QED
    BY <2>1, ModePreserved DEF Next
<1>3. ModeOK => ModesKeptApart
  BY DEF ModeOK
<1> QED
  BY <1>1, <1>2, <1>3, Invariance, PTL DEF Spec

-----------------------------------------------------------------------------
(* Who finishes an occurrence *)

\* A step that gives an occurrence an outcome is one of these.
Finishes(w, o) ==
  \/ Reap(w)
  \/ RecordFailure(w)
  \/ RecordSuccess(w) /\ rows'[o].state = "succeeded"
  \/ /\ FaultStep(w)
     /\ rows'[o].state = "succeeded" =>
          CompleteFails(w) /\ Complete(w, exec[w].occ, exec[w].result)

LEMMA FinishingStep ==
  ASSUME IInv, Step, NEW o \in Occurrences, rows[o].state \notin Finished,
         rows'[o].state \in Finished
  PROVE  \E w \in Workers : Finishes(w, o)
<1>1. rows'[o] # rows[o] /\ rows \in [Occurrences -> Row]
  BY DEF IInv, TypeOK
<1>2. ASSUME NEW p \in Occurrences PROVE ~Enqueue(p)
  BY <1>1, FreshRowType DEF Enqueue, Finished
<1>3. ASSUME NEW w \in Workers, NEW p \in Occurrences PROVE ~ClaimRow(p, w)
  BY <1>1, ClaimedRowType DEF ClaimRow, Finished, IInv
<1>4. ASSUME NEW S, ReapExpired(S) PROVE rows'[o].state # "succeeded"
  BY <1>1, <1>4, ReapedRowType DEF ReapExpired, IInv
<1>5. ASSUME NEW w \in Workers, pc[w] = "fail", Fail(w, exec[w].occ, exec[w].attempt)
      PROVE  rows'[o].state # "succeeded"
  <2>1. /\ exec[w].occ \in Occurrences
        /\ exec[w].attempt \in 1 .. MaxAttempts[exec[w].occ]
    BY <1>5 DEF IInv, ExecOK, Executing
  <2>2. FailedRow(exec[w].occ, exec[w].attempt).state \in {"pending", "failed"}
    BY <2>1, FailedRowType DEF IInv
  <2> QED
    BY <1>1, <1>5, <2>1, <2>2 DEF Fail, UpdateHeld
<1>6. ASSUME NEW w \in Workers, pc[w] = "claiming"
      PROVE  exec[w].occ \in Occurrences
  BY <1>6 DEF IInv, ExecOK
<1>7. ASSUME NEW w \in Workers, WorkerStep(w) PROVE Finishes(w, o)
  <2>1. CASE Start(w) \/ AlertReaped(w) \/ SelectCandidate(w) \/ ClaimRefused(w)
             \/ Timeout(w) \/ Report(w) \/ AlertFailed(w) \/ Sleep(w)
    BY <1>1, <2>1 DEF Start, AlertReaped, SelectCandidate, ClaimRefused, Timeout, Report,
                      AlertFailed, Sleep
  <2>2. CASE Reap(w) \/ RecordFailure(w)
    BY <2>2 DEF Finishes
  <2>3. CASE EnqueueDue(w)
    BY <1>1, <1>2, <2>3 DEF EnqueueDue, LatestOf, DueNow, ServedBy
  <2>4. CASE Claim(w)
    BY <1>3, <1>6, <2>4 DEF Claim
  <2>5. CASE RecordSuccess(w)
    <3>1. exec[w].occ \in Occurrences
      BY <2>5, ExecutedOccurrence DEF RecordSuccess, Executing
    <3>2. rows'[o] = [rows[o] EXCEPT !.state = "succeeded", !.finishedAt = clock,
                                     !.lease = 0, !.result = exec[w].result]
      BY <1>1, <2>5, <3>1 DEF RecordSuccess, Complete, UpdateHeld
    <3>3. rows'[o].state = "succeeded"
      BY <1>1, <3>2 DEF Row
    <3> QED
      BY <2>5, <3>3 DEF Finishes
  <2> QED
    BY <1>7, <2>1, <2>2, <2>3, <2>4, <2>5 DEF WorkerStep
<1>8. ASSUME NEW w \in Workers PROVE ~BodyEnds(w) /\ ~Beat(w) /\ ~PruneAndSleep(w)
  <2>1. ~BodyEnds(w)
    BY <1>1 DEF BodyEnds
  <2>2. ~Beat(w)
    BY <1>1, ExecutedOccurrence
       DEF Beat, Heartbeat, UpdateHeld, Holds, HeartbeatPlaces, Executing, Row, Finished
  <2>3. ~PruneAndSleep(w)
    BY <1>1 DEF PruneAndSleep, Prune, Prunable
  <2> QED
    BY <2>1, <2>2, <2>3
<1>9. ASSUME NEW w \in Workers, FaultStep(w) PROVE Finishes(w, o)
  <2>1. CASE Crash(w)
    BY <1>1, <2>1 DEF Crash
  <2>2. CASE TickStatementFails(w)
    BY <1>1, <1>3, <1>4, <1>6, <1>9, <2>2 DEF TickStatementFails, Finishes
  <2>3. CASE CompleteFails(w)
    BY <1>1, <1>9, <2>3 DEF CompleteFails, Finishes
  <2>4. CASE FailFails(w)
    BY <1>1, <1>5, <1>9, <2>4 DEF FailFails, Move, Finishes
  <2> QED
    BY <1>9, <2>1, <2>2, <2>3, <2>4 DEF FaultStep
<1>10. ~(\E p \in Occurrences : RunJob(p) \/ RunJobByMachine(p) \/ SyncClient(p))
  BY <1>2 DEF EnqueueManual, RunJob, RunJobByMachine, SyncClient
<1>11. ~Tick /\ ~(\E b \in bodies : AbandonedBodyEnds(b))
  BY <1>1 DEF Tick, AbandonedBodyEnds
<1> QED
  BY <1>7, <1>8, <1>9, <1>10, <1>11 DEF Step

-----------------------------------------------------------------------------
(* Reports of items that failed *)

\* Alerts stay where they are, and one in the log costs a failed statement.
AlertsGrow ==
  /\ raised \subseteq raised'
  /\ \/ unrecorded' = unrecorded /\ faults' \in {faults, faults + 1}
     \/ \E a \in Alert : unrecorded' = unrecorded \cup {a} /\ faults' = faults + 1

LEMMA AlertsStay ==
  ASSUME IInv, Step
  PROVE  AlertsGrow
<1>1. ASSUME NEW a \in Alert, Raise(a) PROVE AlertsGrow
  BY <1>1 DEF Raise, Fault, AlertsGrow
<1>2. ASSUME NEW w \in Workers, WorkerStep(w) PROVE AlertsGrow
  <2>1. CASE AlertReaped(w)
    <3>1. PICK o \in todo[w] : Raise(Critical(o, rows[o].attempts))
      BY <2>1 DEF AlertReaped
    <3>2. Critical(o, rows[o].attempts) \in Alert
      BY <2>1 DEF IInv, TypeOK, ExecOK, AlertReaped, Critical, Alert, Row
    <3> QED
      BY <1>1, <3>1, <3>2
  <2>2. CASE Report(w)
    <3>1. Warning(exec[w].occ, exec[w].attempt) \in Alert
      BY <2>2 DEF IInv, TypeOK, ExecOK, Report, Move, Executing, Execution, Warning, Alert
    <3>2. CASE UNCHANGED <<raised, unrecorded, faults>>
      BY <3>2 DEF AlertsGrow
    <3> QED
      BY <1>1, <2>2, <3>1, <3>2 DEF Report
  <2>3. CASE AlertFailed(w)
    <3>1. Critical(exec[w].occ, exec[w].attempt) \in Alert
      BY <2>3 DEF IInv, TypeOK, ExecOK, AlertFailed, Executing, Execution, Critical, Alert
    <3> QED
      BY <1>1, <2>3, <3>1 DEF AlertFailed
  <2>4. CASE ~AlertReaped(w) /\ ~Report(w) /\ ~AlertFailed(w)
    BY <1>2, <2>4 DEF WorkerStep, Start, Reap, EnqueueDue, SelectCandidate, Claim, ClaimRefused,
                      Timeout, RecordSuccess, RecordFailure, Sleep, AlertsGrow
  <2> QED
    BY <2>1, <2>2, <2>3, <2>4
<1>3. ASSUME NEW w \in Workers, BodyEnds(w) \/ Beat(w) \/ PruneAndSleep(w) \/ FaultStep(w)
      PROVE  AlertsGrow
  BY <1>3 DEF BodyEnds, Beat, PruneAndSleep, FaultStep, Crash, TickStatementFails, CompleteFails,
              FailFails, Fault, AlertsGrow
<1>4. CASE UNCHANGED <<raised, unrecorded, faults>>
  BY <1>4 DEF AlertsGrow
<1> QED
  BY <1>2, <1>3, <1>4
     DEF Step, Tick, AbandonedBodyEnds, EnqueueManual, RunJob, RunJobByMachine, SyncClient

Logged == IsFiniteSet(unrecorded) /\ Cardinality(unrecorded) <= faults

LEMMA LogStep ==
  ASSUME IInv, Logged, Step
  PROVE  /\ Logged'
         /\ OnlyAlertsFailed' => OnlyAlertsFailed
         /\ unrecorded' = unrecorded /\ faults' = faults + 1 => ~OnlyAlertsFailed'
<1>1. faults \in Nat /\ IsFiniteSet(unrecorded) /\ Cardinality(unrecorded) <= faults
  BY DEF IInv, TypeOK, Logged
<1>2. Cardinality(unrecorded) \in Nat
  BY <1>1, FS_CardinalityType
<1>3. CASE unrecorded' = unrecorded /\ faults' \in {faults, faults + 1}
  BY <1>1, <1>2, <1>3 DEF Logged, OnlyAlertsFailed
<1>4. ASSUME NEW a \in Alert, unrecorded' = unrecorded \cup {a}, faults' = faults + 1
      PROVE  /\ Logged' /\ (OnlyAlertsFailed' => OnlyAlertsFailed)
             /\ unrecorded' = unrecorded => ~OnlyAlertsFailed'
  <2>1. /\ IsFiniteSet(unrecorded')
        /\ Cardinality(unrecorded') =
             IF a \in unrecorded THEN Cardinality(unrecorded) ELSE Cardinality(unrecorded) + 1
    BY <1>1, <1>4, FS_AddElement
  <2> QED
    BY <1>1, <1>2, <1>4, <2>1 DEF Logged, OnlyAlertsFailed
<1>5. AlertsGrow
  BY AlertsStay
<1> QED
  BY <1>3, <1>4, <1>5 DEF AlertsGrow

\* A result is only in the row of a success, and a worker that is about to
\* record one with failures has reported them.
ReportOK ==
  /\ Logged
  /\ PartialFailureIsReported
  /\ \A o \in Occurrences : rows[o].result # "none" => rows[o].state = "succeeded"
  /\ \A w \in Workers :
       pc[w] = "complete" /\ exec[w].result = "partial" /\ ~Shadow[exec[w].occ]
         => Warning(exec[w].occ, exec[w].attempt) \in raised \cup unrecorded

LEMMA ReportersPreserved ==
  ASSUME IInv, ReportOK, Step, NEW v \in Workers, pc'[v] = "complete",
         exec'[v].result = "partial", ~Shadow[exec'[v].occ]
  PROVE  Warning(exec'[v].occ, exec'[v].attempt) \in (raised \cup unrecorded)'
<1>1. pc \in [Workers -> PC] /\ exec \in [Workers -> Execution]
  BY DEF IInv, TypeOK
<1>2. pc[v] = "complete" /\ exec'[v] = exec[v] => Warning(exec'[v].occ, exec'[v].attempt) \in (raised \cup unrecorded)'
  BY AlertsStay DEF ReportOK, AlertsGrow
<1>3. ASSUME NEW w \in Workers, WorkerStep(w)
      PROVE  Warning(exec'[v].occ, exec'[v].attempt) \in (raised \cup unrecorded)'
  <2>1. CASE Start(w) \/ Reap(w) \/ AlertReaped(w) \/ EnqueueDue(w) \/ Timeout(w) \/ Sleep(w)
    BY <1>1, <1>2, <2>1 DEF Start, Reap, AlertReaped, EnqueueDue, Timeout, Sleep, Move, GoTo
  <2>2. CASE SelectCandidate(w) \/ Claim(w) \/ ClaimRefused(w)
    BY <1>1, <1>2, <2>2 DEF SelectCandidate, Claim, ClaimRefused, EndTick, GoTo
  <2>3. CASE Report(w)
    BY <1>1, <1>2, <2>3 DEF Report, Raise, Move, GoTo
  <2>4. CASE RecordSuccess(w) \/ RecordFailure(w) \/ AlertFailed(w)
    BY <1>1, <1>2, <2>4 DEF RecordSuccess, RecordFailure, AlertFailed, EndExecution, GoTo
  <2> QED
    BY <1>3, <2>1, <2>2, <2>3, <2>4 DEF WorkerStep
<1>4. ASSUME NEW w \in Workers, BodyEnds(w)
      PROVE  Warning(exec'[v].occ, exec'[v].attempt) \in (raised \cup unrecorded)'
  <2>1. v # w => pc[v] = "complete" /\ exec'[v] = exec[v]
    BY <1>1, <1>4 DEF BodyEnds, GoTo
  <2>2. v = w => exec'[v].result = "clean"
    BY <1>1, <1>4 DEF BodyEnds, GoTo, Execution
  <2> QED
    BY <1>2, <2>1, <2>2
<1>5. ASSUME NEW w \in Workers, Beat(w) \/ PruneAndSleep(w) \/ FaultStep(w)
      PROVE  Warning(exec'[v].occ, exec'[v].attempt) \in (raised \cup unrecorded)'
  BY <1>1, <1>2, <1>5 DEF Beat, PruneAndSleep, EndExecution, FaultStep, Crash, TickStatementFails,
                          CompleteFails, FailFails, EndTick, Move, GoTo
<1>6. CASE UNCHANGED workerVars
  BY <1>2, <1>6 DEF workerVars
<1> QED
  BY <1>3, <1>4, <1>5, <1>6
     DEF Step, Tick, AbandonedBodyEnds, EnqueueManual, RunJob, RunJobByMachine, SyncClient

LEMMA ReportPreserved ==
  ASSUME IInv, ReportOK, Next
  PROVE  ReportOK'
<1>1. rows \in [Occurrences -> Row] /\ Step
      /\ raised \cup unrecorded \subseteq raised' \cup unrecorded' /\ Logged'
  BY AlertsStay, LogStep DEF Next, IInv, TypeOK, AlertsGrow, ReportOK
<1>2. ASSUME NEW o \in Occurrences, rows'[o] # rows[o], rows'[o].result # "none"
      PROVE  /\ rows[o].state = "running" /\ rows'[o].state = "succeeded"
             /\ rows'[o].attempts = rows[o].attempts
  <2>1. rows[o] \in Row /\ RowStep(o) /\ (rows[o].result # "none" => rows[o].state = "succeeded")
    BY <1>1, StepFacts DEF ReportOK
  <2>2. ~Inserted(o) /\ ~Pruned(o)
    <3>1. FreshRow(o).result = "none" /\ NoRow.result = "none"
      BY DEF FreshRow, NoRow
    <3> QED
      BY <1>2, <3>1 DEF Inserted, Pruned
  <2>3. ~Reaped(o)
    BY <1>2, <2>1 DEF Reaped, LeaseExpired, ReapedRow, Row
  <2>4. ~Claimed(o)
    BY <1>2, <2>1 DEF Claimed, ClaimedRow, Row
  <2>5. ~Extended(o)
    BY <1>2, <2>1 DEF Extended, Row
  <2>6. ~Failed(o)
    BY <1>2, <2>1 DEF Failed, FailedRow, Row
  <2>7. Succeeded(o)
    BY <1>2, <2>1, <2>2, <2>3, <2>4, <2>5, <2>6 DEF RowStep
  <2> QED
    BY <2>1, <2>7 DEF Succeeded, Row
<1>3. ASSUME NEW o \in Occurrences, rows'[o] # rows[o], rows'[o].result = "partial", ~Shadow[o]
      PROVE  Warning(o, rows'[o].attempts) \in (raised \cup unrecorded)'
  <2>1. rows[o].state = "running" /\ rows'[o].state = "succeeded"
        /\ rows'[o].attempts = rows[o].attempts
    BY <1>2, <1>3
  <2>2. PICK w \in Workers : Finishes(w, o)
    BY <1>1, <2>1, FinishingStep DEF Finished
  <2>3. ~Reap(w)
    BY <1>1, <2>1, ReapedRowType DEF Reap, ReapExpired, IInv
  <2>4. ~RecordFailure(w)
    <3>1. SUFFICES ASSUME RecordFailure(w) PROVE FALSE
      OBVIOUS
    <3>2. /\ exec[w].occ \in Occurrences
          /\ exec[w].attempt \in 1 .. MaxAttempts[exec[w].occ]
      BY <3>1 DEF IInv, ExecOK, Executing, RecordFailure
    <3>3. FailedRow(exec[w].occ, exec[w].attempt).state \in {"pending", "failed"}
      BY <3>2, FailedRowType DEF IInv
    <3> QED
      BY <1>1, <2>1, <3>1, <3>2, <3>3 DEF RecordFailure, Fail, UpdateHeld
  <2>5. pc[w] = "complete" /\ Complete(w, exec[w].occ, exec[w].result)
    BY <2>1, <2>2, <2>3, <2>4 DEF Finishes, RecordSuccess, CompleteFails, Move
  <2>6. exec[w].occ = o /\ Holds(w, o)
    BY <1>1, <2>1, <2>5 DEF Complete, UpdateHeld
  <2>7. exec[w].attempt = rows[o].attempts
    BY <2>5, <2>6 DEF IInv, CurrentAttempt
  <2>8. exec[w].result = "partial"
    BY <1>1, <1>3, <2>5, <2>6 DEF Complete, UpdateHeld, Row
  <2> QED
    BY <1>1, <1>3, <2>1, <2>5, <2>6, <2>7, <2>8 DEF ReportOK
<1>4. PartialFailureIsReported'
  BY <1>1, <1>3 DEF ReportOK, PartialFailureIsReported, Logged
<1>5. \A o \in Occurrences : rows'[o].result # "none" => rows'[o].state = "succeeded"
  BY <1>2 DEF ReportOK
<1>6. \A w \in Workers :
        pc'[w] = "complete" /\ exec'[w].result = "partial" /\ ~Shadow[exec'[w].occ]
          => Warning(exec'[w].occ, exec'[w].attempt) \in (raised \cup unrecorded)'
  BY <1>1, ReportersPreserved
<1> QED
  BY <1>1, <1>4, <1>5, <1>6 DEF ReportOK

\* When a run is recorded as a success, the items it could not do have been
\* reported, whatever becomes of the worker: in system_alerts or, one for each
\* statement that failed, in the log (runner.ts:149, alerts.ts:49-52).
THEOREM PartialFailuresAreReported == Spec => []PartialFailureIsReported
<1>1. Init => ReportOK
  BY FS_EmptySet DEF Init, ReportOK, PartialFailureIsReported, Logged, NoRow
<1>2. IInv /\ ReportOK /\ [Next]_vars => ReportOK'
  <2>1. CASE UNCHANGED vars
    BY <2>1 DEF vars, ReportOK, PartialFailureIsReported, Logged
  <2> QED
    BY <2>1, ReportPreserved
<1>3. ReportOK => PartialFailureIsReported /\ Logged
  BY DEF ReportOK
<1> QED
  BY <1>1, <1>2, <1>3, Invariance, PTL DEF Spec

-----------------------------------------------------------------------------
(* Alerts of permanent failures *)

\* An alert that is raised or owed is of an occurrence that failed, and no
\* other is raised or owed for it; while nothing failed but the recording of
\* alerts there is one for every failure.
AlertOK(o) ==
  /\ \A v, w \in Owing(o) : v = w
  /\ \A x, y \in Announced(o) : x = y
  /\ Owing(o) = {} \/ Announced(o) = {}
  /\ Owing(o) # {} \/ Announced(o) # {} => outcome[o] = "failed"
  /\ OnlyAlertsFailed /\ outcome[o] = "failed" /\ ~Shadow[o] => Owing(o) # {} \/ Announced(o) # {}

\* What a step does to the alerts of one occurrence: nothing, or a failure
\* makes a worker owe one, or that worker raises it.
Silent(o) ==
  /\ Announced(o)' = Announced(o)
  /\ Owing(o)' \subseteq Owing(o)
  /\ OnlyAlertsFailed' =>
       /\ Owing(o)' = Owing(o)
       /\ outcome'[o] = "failed" /\ ~Shadow[o] => outcome[o] = "failed"

Incurred(o) ==
  /\ outcome[o] = "none" /\ outcome'[o] = "failed"
  /\ Announced(o)' = Announced(o)
  /\ \E w \in Workers : Owing(o)' = Owing(o) \cup {w}

Discharged(o) ==
  /\ \E w \in Owing(o) : Owing(o)' = Owing(o) \ {w}
  /\ \E a \in Alert : Announced(o)' = Announced(o) \cup {a}

LEMMA AlertStep ==
  ASSUME IInv, Next, NEW o \in Occurrences, AlertOK(o), OnlyAlertsFailed' => OnlyAlertsFailed,
         Silent(o) \/ Incurred(o) \/ Discharged(o)
  PROVE  AlertOK(o)'
<1>1. outcome[o] = "failed" => outcome'[o] = "failed"
  BY FinalOutcome
<1>2. CASE Silent(o)
  BY <1>1, <1>2 DEF AlertOK, Silent
<1>3. CASE Incurred(o)
  <2>1. Owing(o) = {} /\ Announced(o) = {}
    BY <1>3 DEF AlertOK, Incurred
  <2> QED
    BY <1>3, <2>1 DEF AlertOK, Incurred
<1>4. CASE Discharged(o)
  <2>1. PICK w \in Owing(o) : Owing(o)' = Owing(o) \ {w}
    BY <1>4 DEF Discharged
  <2>2. Owing(o) = {w} /\ Announced(o) = {} /\ outcome[o] = "failed"
    BY <2>1 DEF AlertOK
  <2>3. PICK a : Announced(o)' = {a}
    BY <1>4, <2>2 DEF Discharged
  <2> QED
    BY <1>1, <2>1, <2>2, <2>3 DEF AlertOK
<1> QED
  BY <1>2, <1>3, <1>4

\* The failure of a row that ran is a new one.
LEMMA NewFailure ==
  ASSUME IInv, Next, NEW o \in Occurrences
  PROVE  /\ rows[o].state = "running" /\ rows'[o].state = "failed"
              => outcome[o] = "none" /\ outcome'[o] = "failed"
         /\ outcome'[o] = "failed" /\ outcome[o] # "failed"
              => rows[o].state \notin Finished /\ rows'[o].state = "failed"
<1>1. /\ HistoryOK(o) /\ outcome[o] \in {"none"} \cup Finished
      /\ outcome'[o] = IF rows'[o].state \in Finished THEN rows'[o].state ELSE outcome[o]
  BY StepFacts DEF Observe
<1>2. outcome[o] # "none" => outcome'[o] = outcome[o]
  BY FinalOutcome
<1> QED
  BY <1>1, <1>2 DEF HistoryOK, Finished

\* A step that changes neither who owes what nor the alerts, and that is not
\* one of those that record a failure, is silent.
LEMMA SilentStep ==
  ASSUME IInv, Next, NEW o \in Occurrences, UNCHANGED <<raised, unrecorded>>, Owing(o)' = Owing(o),
         outcome'[o] = "failed" /\ outcome[o] # "failed" => Shadow[o]
  PROVE  Silent(o)
  BY DEF Silent, Announced

LEMMA ReapAlerts ==
  ASSUME IInv, Next, NEW w \in Workers, Reap(w), NEW o \in Occurrences
  PROVE  Silent(o) \/ Incurred(o)
<1> DEFINE failed == {p \in {q \in ServedBy(w) : LeaseExpired(q)} :
                        ReapedRow(p).state = "failed" /\ ~Shadow[p]}
<1>1. /\ pc \in [Workers -> PC] /\ todo \in [Workers -> SUBSET (Occurrences \cup Jobs)]
      /\ pc[w] = "tick" /\ UNCHANGED <<exec, raised, unrecorded>>
      /\ todo' = [todo EXCEPT ![w] = IF failed = {} THEN Jobs ELSE failed]
      /\ pc' = [pc EXCEPT ![w] = IF failed = {} THEN "enqueue" ELSE "alertReaped"]
      /\ \A p \in Occurrences :
           rows'[p] = IF p \in {q \in ServedBy(w) : LeaseExpired(q)} /\ LeaseExpired(p)
                      THEN ReapedRow(p) ELSE rows[p]
  BY DEF Reap, GoTo, ReapExpired, IInv, TypeOK
<1>2. CASE o \in failed
  <2>1. rows[o].state = "running" /\ rows'[o].state = "failed"
    BY <1>1, <1>2 DEF LeaseExpired
  <2>2. Owing(o)' = Owing(o) \cup {w}
    <3>1. pc' = [pc EXCEPT ![w] = "alertReaped"] /\ todo' = [todo EXCEPT ![w] = failed]
      BY <1>1, <1>2
    <3> HIDE DEF failed
    <3> QED
      BY <1>1, <1>2, <3>1 DEF Owing
  <2> QED
    BY <1>1, <2>1, <2>2, NewFailure DEF Incurred, Announced
<1>3. CASE o \notin failed
  <2>1. outcome'[o] = "failed" /\ outcome[o] # "failed" => Shadow[o]
    BY <1>1, <1>3, NewFailure DEF Finished
  <2>2. Owing(o)' = Owing(o)
    <3> HIDE DEF failed
    <3> QED
      BY <1>1, <1>3 DEF Owing
  <2> QED
    BY <1>1, <2>1, <2>2, SilentStep
<1> QED
  BY <1>2, <1>3

LEMMA AlertReapedAlerts ==
  ASSUME IInv, Next, NEW w \in Workers, AlertReaped(w), NEW o \in Occurrences
  PROVE  Silent(o) \/ Discharged(o)
<1>1. /\ pc \in [Workers -> PC] /\ todo \in [Workers -> SUBSET (Occurrences \cup Jobs)]
      /\ pc[w] = "alertReaped" /\ UNCHANGED <<rows, exec>>
      /\ todo[w] \subseteq Occurrences
      /\ rows \in [Occurrences -> Row]
  BY DEF AlertReaped, IInv, TypeOK, ExecOK
<1>2. PICK p \in todo[w] :
        /\ Raise(Critical(p, rows[p].attempts))
        /\ IF todo[w] = {p}
           THEN todo' = [todo EXCEPT ![w] = Jobs] /\ pc' = [pc EXCEPT ![w] = "enqueue"]
           ELSE todo' = [todo EXCEPT ![w] = @ \ {p}] /\ pc' = pc
  BY DEF AlertReaped, GoTo
<1>3. p \in Occurrences /\ Critical(p, rows[p].attempts) \in Alert
  BY <1>1 DEF Critical, Alert, Row
<1>4. (raised \cup unrecorded)' = raised \cup unrecorded \cup {Critical(p, rows[p].attempts)}
  BY <1>2, <1>3, RaiseStep DEF IInv
<1>5. CASE o = p
  <2>1. w \in Owing(o) /\ Owing(o)' = Owing(o) \ {w}
    BY <1>1, <1>2, <1>5 DEF Owing
  <2>2. Announced(o)' = Announced(o) \cup {Critical(p, rows[p].attempts)}
    BY <1>4, <1>5 DEF Announced, Critical
  <2> QED
    BY <1>3, <2>1, <2>2 DEF Discharged
<1>6. CASE o # p
  <2>1. Owing(o)' = Owing(o)
    BY <1>1, <1>2, <1>6 DEF Owing
  <2>2. Announced(o)' = Announced(o)
    BY <1>4, <1>6 DEF Announced, Critical
  <2>3. outcome'[o] = "failed" => outcome[o] = "failed"
    BY <1>1, NewFailure DEF Finished
  <2> QED
    BY <1>1, <2>1, <2>2, <2>3 DEF Silent
<1> QED
  BY <1>5, <1>6

LEMMA AlertFailedAlerts ==
  ASSUME IInv, Next, NEW w \in Workers, AlertFailed(w), NEW o \in Occurrences
  PROVE  Silent(o) \/ Discharged(o)
<1> DEFINE p == exec[w].occ
           a == Critical(p, exec[w].attempt)
<1>1. /\ pc \in [Workers -> PC] /\ exec \in [Workers -> Execution]
      /\ pc[w] = "alertFailed" /\ UNCHANGED <<rows, todo>>
      /\ pc' = [pc EXCEPT ![w] = "claim"] /\ exec' = [exec EXCEPT ![w] = NoExec]
      /\ Raise(a)
      /\ p \in Occurrences
  BY ExecutedOccurrence DEF AlertFailed, EndExecution, GoTo, IInv, TypeOK, Executing
<1>2. a \in Alert
  BY <1>1 DEF Critical, Alert, Execution
<1>3. (raised \cup unrecorded)' = raised \cup unrecorded \cup {a}
  BY <1>1, <1>2, RaiseStep DEF IInv
<1>4. CASE o = p
  <2>1. w \in Owing(o) /\ Owing(o)' = Owing(o) \ {w}
    BY <1>1, <1>4 DEF Owing
  <2>2. Announced(o)' = Announced(o) \cup {a}
    BY <1>3, <1>4 DEF Announced, Critical
  <2> QED
    BY <1>2, <2>1, <2>2 DEF Discharged
<1>5. CASE o # p
  <2>1. Owing(o)' = Owing(o)
    BY <1>1, <1>5 DEF Owing
  <2>2. Announced(o)' = Announced(o)
    BY <1>3, <1>5 DEF Announced, Critical
  <2>3. outcome'[o] = "failed" => outcome[o] = "failed"
    BY <1>1, NewFailure DEF Finished
  <2> QED
    BY <1>1, <2>1, <2>2, <2>3 DEF Silent
<1> QED
  BY <1>4, <1>5

LEMMA RecordFailureAlerts ==
  ASSUME IInv, Next, NEW w \in Workers, RecordFailure(w), NEW o \in Occurrences
  PROVE  Silent(o) \/ Incurred(o)
<1> DEFINE p == exec[w].occ
           n == exec[w].attempt
<1>1. /\ pc \in [Workers -> PC] /\ exec \in [Workers -> Execution]
      /\ rows \in [Occurrences -> Row]
      /\ pc[w] = "fail" /\ UNCHANGED <<todo, raised, unrecorded>>
      /\ p \in Occurrences /\ n \in 1 .. MaxAttempts[p]
      /\ rows' = IF Holds(w, p) THEN [rows EXCEPT ![p] = FailedRow(p, n)] ELSE rows
  BY DEF RecordFailure, Fail, UpdateHeld, IInv, TypeOK, ExecOK, Executing
<1>2. FailedRow(p, n).state = IF Exhausted(p, n) THEN "failed" ELSE "pending"
  BY <1>1 DEF FailedRow, Row
<1>3. CASE OwesAlert(w) /\ o = p
  <2>1. pc' = [pc EXCEPT ![w] = "alertFailed"] /\ exec' = exec
    BY <1>3 DEF RecordFailure, GoTo
  <2>2. rows[o].state = "running" /\ rows'[o].state = "failed"
    BY <1>1, <1>2, <1>3 DEF OwesAlert, Holds
  <2>3. Owing(o)' = Owing(o) \cup {w}
    BY <1>1, <1>3, <2>1 DEF Owing
  <2> QED
    BY <1>1, <2>2, <2>3, NewFailure DEF Incurred, Announced
<1>4. CASE ~(OwesAlert(w) /\ o = p)
  <2>1. Owing(o)' = Owing(o)
    <3>1. CASE OwesAlert(w)
      <4>1. pc' = [pc EXCEPT ![w] = "alertFailed"] /\ exec' = exec
        BY <3>1 DEF RecordFailure, GoTo
      <4> QED
        BY <1>1, <1>4, <3>1, <4>1 DEF Owing
    <3>2. CASE ~OwesAlert(w)
      <4>1. pc' = [pc EXCEPT ![w] = "claim"] /\ exec' = [exec EXCEPT ![w] = NoExec]
        BY <3>2 DEF RecordFailure, EndExecution, GoTo
      <4> QED
        BY <1>1, <4>1 DEF Owing
    <3> QED
      BY <3>1, <3>2
  <2>2. outcome'[o] = "failed" /\ outcome[o] # "failed" => Shadow[o]
    <3>1. rows'[o].state = "failed" /\ rows[o].state \notin Finished
            => o = p /\ Holds(w, p) /\ Exhausted(p, n)
      BY <1>1, <1>2 DEF Finished
    <3> QED
      BY <1>4, <3>1, NewFailure DEF OwesAlert
  <2> QED
    BY <1>1, <2>1, <2>2, SilentStep
<1> QED
  BY <1>3, <1>4

\* Every other step of a worker leaves those who owe an alert where they are.
LEMMA SilentWorker ==
  ASSUME IInv, Next, NEW w \in Workers, NEW o \in Occurrences,
         WorkerStep(w) \/ BodyEnds(w) \/ Beat(w) \/ PruneAndSleep(w),
         ~Reap(w), ~AlertReaped(w), ~RecordFailure(w), ~AlertFailed(w)
  PROVE  Owing(o)' = Owing(o) /\ Announced(o)' = Announced(o)
<1>1. /\ pc \in [Workers -> PC] /\ exec \in [Workers -> Execution]
      /\ todo \in [Workers -> SUBSET (Occurrences \cup Jobs)]
  BY DEF IInv, TypeOK
<1>2. CASE Start(w) \/ EnqueueDue(w) \/ Timeout(w) \/ Sleep(w) \/ PruneAndSleep(w)
  BY <1>1, <1>2 DEF Start, EnqueueDue, Timeout, Sleep, PruneAndSleep, Move, GoTo, Owing, Announced
<1>3. CASE SelectCandidate(w) \/ Claim(w) \/ ClaimRefused(w)
  BY <1>1, <1>3 DEF SelectCandidate, Claim, ClaimRefused, EndTick, GoTo, Owing, Announced
<1>4. CASE Report(w)
  BY <1>1, <1>4 DEF Report, Raise, Move, GoTo, Owing, Announced, Warning
<1>5. CASE BodyEnds(w)
  BY <1>1, <1>5 DEF BodyEnds, GoTo, Owing, Announced
<1>6. CASE Beat(w) \/ RecordSuccess(w)
  BY <1>1, <1>6 DEF Beat, RecordSuccess, EndExecution, GoTo, Owing, Announced
<1> QED
  BY <1>2, <1>3, <1>4, <1>5, <1>6 DEF WorkerStep

LEMMA FaultAlerts ==
  ASSUME IInv, Logged, NEW w \in Workers, NEW o \in Occurrences, FaultStep(w)
  PROVE  Silent(o)
<1>1. /\ pc \in [Workers -> PC] /\ UNCHANGED <<raised, unrecorded>> /\ faults' = faults + 1
  BY DEF IInv, TypeOK, FaultStep, Crash, TickStatementFails, CompleteFails, FailFails, Fault
<1>2. Owing(o)' \subseteq Owing(o)
  BY <1>1 DEF FaultStep, Crash, TickStatementFails, CompleteFails, FailFails, EndTick, Move, GoTo,
              Owing, IInv, TypeOK
<1>3. ~OnlyAlertsFailed'
  BY <1>1, LogStep DEF Step
<1> QED
  BY <1>1, <1>2, <1>3 DEF Silent, Announced

LEMMA AlertsOfStep ==
  ASSUME IInv, Logged, Next, NEW o \in Occurrences
  PROVE  Silent(o) \/ Incurred(o) \/ Discharged(o)
<1>1. Step
  BY DEF Next
<1>2. ASSUME \A w \in Workers : ~Reap(w) /\ ~RecordFailure(w) /\ ~FaultStep(w)
      PROVE  outcome'[o] = "failed" => outcome[o] = "failed"
  <2>1. SUFFICES ASSUME outcome'[o] = "failed", outcome[o] # "failed" PROVE FALSE
    OBVIOUS
  <2>2. rows[o].state \notin Finished /\ rows'[o].state = "failed"
    BY <2>1, NewFailure
  <2>3. PICK w \in Workers : Finishes(w, o)
    BY <1>1, <2>2, FinishingStep DEF Finished
  <2> QED
    BY <1>2, <2>2, <2>3 DEF Finishes
<1>3. ASSUME NEW w \in Workers, Reap(w) \/ RecordFailure(w) \/ AlertReaped(w) \/ AlertFailed(w)
      PROVE  Silent(o) \/ Incurred(o) \/ Discharged(o)
  BY <1>3, ReapAlerts, RecordFailureAlerts, AlertReapedAlerts, AlertFailedAlerts
<1>4. ASSUME NEW w \in Workers, FaultStep(w) PROVE Silent(o)
  BY <1>4, FaultAlerts
<1>5. ASSUME \A w \in Workers : /\ ~Reap(w) /\ ~RecordFailure(w) /\ ~FaultStep(w)
                                /\ ~AlertReaped(w) /\ ~AlertFailed(w)
      PROVE  Silent(o)
  <2>1. outcome'[o] = "failed" => outcome[o] = "failed"
    BY <1>2, <1>5
  <2>2. Owing(o)' = Owing(o) /\ Announced(o)' = Announced(o)
    <3>1. ASSUME NEW w \in Workers,
                 WorkerStep(w) \/ BodyEnds(w) \/ Beat(w) \/ PruneAndSleep(w)
          PROVE  Owing(o)' = Owing(o) /\ Announced(o)' = Announced(o)
      BY <1>5, <3>1, SilentWorker
    <3>2. CASE UNCHANGED <<workerVars, raised, unrecorded>>
      BY <3>2 DEF workerVars, Owing, Announced
    <3> QED
      BY <1>1, <1>5, <3>1, <3>2
         DEF Step, Tick, AbandonedBodyEnds, EnqueueManual, RunJob, RunJobByMachine, SyncClient
  <2> QED
    BY <2>1, <2>2 DEF Silent
<1> QED
  BY <1>3, <1>4, <1>5

\* An occurrence that fails for good is announced once: by the worker that gave
\* it up, or by the one that found its lease expired, and by nobody else; an
\* INSERT that fails leaves the announcement in the log (runner.ts:89 and 168,
\* alerts.ts:49-52).
THEOREM FailuresAreAlertedOnce == Spec => []AlertedExactlyOnce
<1> DEFINE Alerts == Logged /\ \A o \in Occurrences : AlertOK(o)
<1>1. Init => Alerts
  BY FS_EmptySet DEF Init, Logged, AlertOK, Owing, Announced
<1>2. IInv /\ Alerts /\ [Next]_vars => Alerts'
  <2>1. CASE UNCHANGED vars
    BY <2>1 DEF vars, Logged, AlertOK, OnlyAlertsFailed, Owing, Announced
  <2>2. ASSUME IInv, Alerts, Next, NEW o \in Occurrences PROVE AlertOK(o)'
    <3>1. OnlyAlertsFailed' => OnlyAlertsFailed
      BY <2>2, LogStep DEF Next
    <3> QED
      BY <2>2, <3>1, AlertsOfStep, AlertStep
  <2>3. ASSUME IInv, Alerts, Next PROVE Logged'
    BY <2>3, LogStep DEF Next
  <2> QED
    BY <2>1, <2>2, <2>3
<1>3. Alerts => AlertedExactlyOnce
  <2>1. ASSUME NEW o \in Occurrences, AlertOK(o)
        PROVE  LET alerts == Cardinality(Owing(o)) + Cardinality(Announced(o))
               IN  /\ alerts <= 1
                   /\ OnlyAlertsFailed /\ outcome[o] = "failed" /\ ~Shadow[o] => alerts = 1
    <3>1. \A S : (\A x, y \in S : x = y) =>
            Cardinality(S) = IF S = {} THEN 0 ELSE 1
      <4>1. ASSUME NEW S, \A x, y \in S : x = y, S # {} PROVE Cardinality(S) = 1
        <5>1. PICK x : S = {x}
          BY <4>1
        <5> QED
          BY <5>1, FS_Singleton
      <4> QED
        BY <4>1, FS_EmptySet
    <3>2. /\ Cardinality(Owing(o)) = IF Owing(o) = {} THEN 0 ELSE 1
          /\ Cardinality(Announced(o)) = IF Announced(o) = {} THEN 0 ELSE 1
      BY <2>1, <3>1 DEF AlertOK
    <3> QED
      BY <2>1, <3>2 DEF AlertOK
  <2> QED
    BY <2>1 DEF AlertedExactlyOnce
<1> QED
  BY <1>1, <1>2, <1>3, Invariance, PTL DEF Spec

=============================================================================
