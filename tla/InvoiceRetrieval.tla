-------------------------- MODULE InvoiceRetrieval --------------------------
(***************************************************************************)
(* The invoice-retrieval job of portal/src/lib/jobs/invoice-retrieval.ts   *)
(* for one client: how a run reads a window of invoice metadata from KSeF  *)
(* page by page and commits the rows together with the high-water mark.    *)
(* Several runs may overlap: one whose lease was lost or whose time is up  *)
(* goes on until it looks at its abort signal (AbandonedBodyEnds of the    *)
(* module JobRunner).                                                      *)
(*                                                                         *)
(* KSeF itself is external.  It is modelled as its OpenAPI document and    *)
(* the comments of ksef-client.ts say: an invoice gets a permanent storage *)
(* date, may become visible later than that, and a watermark tells up to   *)
(* which date everything is visible.  Times are natural numbers, 0 is NULL.*)
(***************************************************************************)
EXTENDS Integers, FiniteSets

CONSTANTS
  Runs,            \* runs of the job for the client
  ShadowRuns,      \* those among them in shadow mode
  ManualRuns,      \* those a person started for this client alone
  Invoices,        \* KSeF numbers, naturals: KSeF sorts equal dates by them
  DirectionCount,  \* direction 1 is sales (Subject1), 2 purchase (Subject2)
  DirectionOf,     \* the direction of an invoice, seen from the client
  InitialMark,     \* hwm_sales and hwm_purchases at the beginning
  Failing,         \* directions whose queries may fail for ever
  PageSize,        \* PAGE_SIZE
  Limit,           \* records KSeF returns for one range, 10 000
  MaxPages,        \* MAX_PAGES_PER_WINDOW
  MaxWindow,       \* MAX_WINDOW_MS
  FirstLookback,   \* FIRST_SYNC_LOOKBACK_MS
  MaxClock,        \* bound: the clock stops here
  MaxFaults        \* bound: faults in a behaviour

Directions == 1 .. DirectionCount

ASSUME RetrievalAssumption ==
  /\ Invoices \subseteq Nat /\ IsFiniteSet(Invoices)
  /\ DirectionCount \in Nat \ {0}
  /\ DirectionOf \in [Invoices -> Directions]
  /\ InitialMark \in [Directions -> 0 .. FirstLookback + 1]
  /\ {PageSize, Limit, MaxPages, MaxWindow} \subseteq Nat \ {0}
  /\ {FirstLookback, MaxClock, MaxFaults} \subseteq Nat

VARIABLES
  now,         \* the time, the same for everyone
  date,        \* KSeF: permanent storage date of an invoice, 0 before it has one
  watermark,   \* KSeF: permanentStorageHwmDate
  stored,      \* the rows of the client in the table invoices
  mark,        \* clients.hwm_sales and clients.hwm_purchases
  syncError,   \* clients.last_sync_error is not NULL
  syncEnabled, \* clients.sync_enabled
  pc,          \* where each run is
  job,         \* the variables of each run
  faults,      \* faults so far
  since        \* history: where the first committed window of a direction began

ksef == <<date, watermark>>
database == <<stored, mark, syncError, syncEnabled>>
vars == <<now, date, watermark, stored, mark, syncError, syncEnabled, pc, job, faults, since>>

NoJob == [dir |-> 1, known |-> [d \in Directions |-> 0], end |-> 0, from |-> 0, to |-> 0,
          cursor |-> 0, offset |-> 0, pages |-> 0, got |-> {}, target |-> 0,
          failed |-> FALSE, aborted |-> FALSE]

Job == [dir     : Directions,
        known   : [Directions -> Nat],   \* the marks as this run knows them
        end     : Nat,                   \* windowEnd
        from    : Nat,                   \* the window being read
        to      : Nat,
        cursor  : Nat,                   \* cursorFrom
        offset  : Nat,
        pages   : Nat,
        got     : SUBSET Invoices,       \* byNumber
        target  : Nat,                   \* hwmMs
        failed  : BOOLEAN,               \* an error of either direction
        aborted : BOOLEAN]               \* ctx.signal.aborted

TypeOK ==
  /\ now \in Nat
  /\ date \in [Invoices -> Nat]
  /\ watermark \in Nat
  /\ stored \subseteq Invoices
  /\ mark \in [Directions -> Nat]
  /\ syncError \in BOOLEAN
  /\ syncEnabled \in BOOLEAN
  /\ pc \in [Runs -> {"idle", "auth", "direction", "read", "commit", "status"}]
  /\ job \in [Runs -> Job]
  /\ faults \in Nat
  /\ since \in [Directions -> Nat]

Init ==
  /\ now = FirstLookback + 1
  /\ date = [i \in Invoices |-> 0]
  /\ watermark = CHOOSE t \in {InitialMark[d] : d \in Directions} :
                   \A d \in Directions : InitialMark[d] <= t
  /\ stored = {}
  /\ mark = InitialMark
  /\ syncError = FALSE
  /\ syncEnabled = TRUE
  /\ pc = [r \in Runs |-> "idle"]
  /\ job = [r \in Runs |-> NoJob]
  /\ faults = 0
  /\ since = InitialMark

Lesser(m, n) == IF m < n THEN m ELSE n
Greater(m, n) == IF m < n THEN n ELSE m

Fault == faults < MaxFaults /\ faults' = faults + 1

-----------------------------------------------------------------------------
(* KSeF (external) *)

\* An invoice is given its date, which may lie a while back but not in the
\* part that is complete.
Accept(i) ==
  /\ date[i] = 0
  /\ \E t \in watermark + 1 .. now : date' = [date EXCEPT ![i] = t]
  /\ UNCHANGED <<now, watermark, database, pc, job, faults, since>>

AdvanceWatermark ==
  /\ \E t \in watermark + 1 .. now : watermark' = t
  /\ UNCHANGED <<now, date, database, pc, job, faults, since>>

\* The records of POST /invoices/query/metadata for a range, as queryInvoices()
\* asks for them: by permanent storage date, restricted to the watermark.
Result(d, from, to) ==
  {i \in Invoices : /\ DirectionOf[i] = d /\ date[i] # 0
                    /\ from <= date[i] /\ date[i] <= Lesser(to, watermark)}

\* Error 21183: the range begins after the watermark it is restricted to.
OutOfRange(from) == watermark < from

\* sortOrder Asc.
Before(i, k) == date[i] < date[k] \/ (date[i] = date[k] /\ i < k)

Rank(result, i) == Cardinality({k \in result : Before(k, i)})

Page(result, offset) ==
  {i \in result : /\ offset * PageSize <= Rank(result, i)
                  /\ Rank(result, i) < (offset + 1) * PageSize}

HasMore(result, offset) == (offset + 1) * PageSize < Cardinality(result)

\* The page that reaches the limit while there are records beyond it.
IsTruncated(result, offset) ==
  Limit <= (offset + 1) * PageSize /\ Limit < Cardinality(result)

\* The date of the last record of a page that is not empty.
LastDate(page) == CHOOSE t \in {date[i] : i \in page} : \A i \in page : date[i] <= t

-----------------------------------------------------------------------------
(* A run *)

Move(r, from, to) == pc[r] = from /\ pc' = [pc EXCEPT ![r] = to]

\* PATCH /api/clients/[id]: a person turns the scheduled synchronisation of the
\* client off or on again, at any time.
SwitchSync ==
  /\ syncEnabled' = ~syncEnabled
  /\ UNCHANGED <<now, ksef, stored, mark, syncError, pc, job, faults, since>>

\* run(): the SELECT that reads the client with both its marks.  A manual run
\* overrides the switch; one that has begun does not look at it again.
Begin(r) ==
  /\ syncEnabled \/ r \in ManualRuns
  /\ Move(r, "idle", "auth")
  /\ job' = [job EXCEPT ![r].known = mark]
  /\ UNCHANGED <<now, ksef, database, faults, since>>

Authenticate(r) ==
  /\ Move(r, "auth", "direction")
  /\ UNCHANGED <<now, ksef, database, job, faults, since>>

AuthenticateFails(r) ==
  /\ Fault
  /\ Move(r, "auth", "status")
  /\ job' = [job EXCEPT ![r].failed = TRUE]
  /\ UNCHANGED <<now, ksef, database, since>>

\* A run without the variables of syncDirection() and readWindow().
Bare(j) == [NoJob EXCEPT !.dir = j.dir, !.known = j.known,
                         !.failed = j.failed, !.aborted = j.aborted]

\* Mutant: an exception in one direction ends the client.
LeaveEndsClient(r, failed) ==
  LET last == job[r].dir = DirectionCount \/ failed
  IN  /\ pc' = [pc EXCEPT ![r] = IF last THEN "status" ELSE "direction"]
      /\ job' = [job EXCEPT ![r] = [Bare(@) EXCEPT !.dir = IF last THEN @ ELSE @ + 1,
                                                   !.failed = @ \/ failed]]

\* The end of syncDirection(): retrieveForClient() notes an exception and
\* turns to the next direction.
Leave(r, failed) ==
  LET j    == Bare(job[r])
      last == j.dir = DirectionCount
  IN  /\ pc' = [pc EXCEPT ![r] = IF last THEN "status" ELSE "direction"]
      /\ job' = [job EXCEPT ![r] = [j EXCEPT !.dir = IF last THEN j.dir ELSE j.dir + 1,
                                             !.failed = j.failed \/ failed]]

Window(j, from, end) ==
  [Bare(j) EXCEPT !.end = end, !.from = from, !.to = Lesser(from + MaxWindow, end),
                  !.cursor = from]

\* syncDirection() takes the time, then opens its first window.
StartDirection(r) ==
  LET known == job[r].known[job[r].dir]
      from  == IF known = 0 THEN now - FirstLookback ELSE known
  IN  /\ pc[r] = "direction"
      /\ IF from < now
         THEN /\ pc' = [pc EXCEPT ![r] = "read"]
              /\ job' = [job EXCEPT ![r] = Window(@, from, now)]
         ELSE Leave(r, FALSE)
      /\ UNCHANGED <<now, ksef, database, faults, since>>

\* Mutant: the narrowed range begins after the last record's date.
NarrowFromAfter(page) == LastDate(page) + 1

NarrowFrom(page) == LastDate(page)

\* Mutant: the mark goes to the end of the window, as the workflow's did.
TargetAtEnd(j) == j.to

\* KSeF's watermark, never past the end of the window, never backwards.
Target(j) == Greater(Lesser(watermark, j.to), j.from)

\* readWindow(): one page.
ReadPage(r) ==
  LET j      == job[r]
      result == Result(j.dir, j.cursor, j.to)
      page   == Page(result, j.offset)
      got    == j.got \cup page
      more   == [j EXCEPT !.got = got, !.pages = @ + 1]
  IN  /\ pc[r] = "read"
      /\ ~j.aborted
      /\ j.pages < MaxPages
      /\ ~OutOfRange(j.cursor)
      /\ \/ /\ ~IsTruncated(result, j.offset)
            /\ HasMore(result, j.offset)
            /\ job' = [job EXCEPT ![r] = [more EXCEPT !.offset = @ + 1]]
            /\ UNCHANGED pc
         \/ /\ IsTruncated(result, j.offset)
            /\ j.cursor < LastDate(page)
            /\ job' = [job EXCEPT ![r] = [more EXCEPT !.cursor = NarrowFrom(page), !.offset = 0]]
            /\ UNCHANGED pc
         \/ /\ ~IsTruncated(result, j.offset)
            /\ ~HasMore(result, j.offset)
            /\ job' = [job EXCEPT ![r] = [j EXCEPT !.got = got, !.target = Target(j)]]
            /\ pc' = [pc EXCEPT ![r] = "commit"]
      /\ UNCHANGED <<now, ksef, database, faults, since>>

\* readWindow() throws: aborted, too many pages, a range that KSeF refuses, or
\* a truncation that cannot be narrowed.
ReadGivesUp(r) ==
  LET j      == job[r]
      result == Result(j.dir, j.cursor, j.to)
  IN  /\ pc[r] = "read"
      /\ \/ j.aborted
         \/ MaxPages <= j.pages
         \/ OutOfRange(j.cursor)
         \/ IsTruncated(result, j.offset) /\ LastDate(Page(result, j.offset)) <= j.cursor
      /\ Leave(r, TRUE)
      /\ UNCHANGED <<now, ksef, database, faults, since>>

\* The query fails: no answer, an error answer, or one without a watermark.
QueryFails(r) ==
  /\ pc[r] = "read"
  /\ IF job[r].dir \in Failing THEN UNCHANGED faults ELSE Fault
  /\ Leave(r, TRUE)
  /\ UNCHANGED <<now, ksef, database, since>>

\* Mutant: no compare-and-set.
MarkUnguarded(r) == TRUE

\* The mark is still the one this run started from.
MarkAsKnown(r) == mark[job[r].dir] = job[r].known[job[r].dir]

\* COMMIT_SALES_SQL, COMMIT_PURCHASE_SQL: rows and mark in one statement.
CommitStatement(r) ==
  LET d == job[r].dir
  IN  /\ stored' = stored \cup job[r].got
      /\ IF MarkAsKnown(r)
         THEN /\ mark' = [mark EXCEPT ![d] = job[r].target]
              /\ since' = IF mark[d] = 0 THEN [since EXCEPT ![d] = job[r].from] ELSE since
         ELSE UNCHANGED <<mark, since>>
      /\ UNCHANGED <<syncError, syncEnabled>>

\* The windows of a direction are chained until the last one, or until one
\* brings no progress.  A mark that somebody else moved ends the direction.
Commit(r) ==
  LET j == job[r]
  IN  /\ pc[r] = "commit"
      /\ ~j.aborted
      /\ r \notin ShadowRuns
      /\ CommitStatement(r)
      /\ IF ~MarkAsKnown(r) \/ j.end <= j.to \/ j.target <= j.from
         THEN Leave(r, FALSE)
         ELSE /\ pc' = [pc EXCEPT ![r] = "read"]
              /\ job' = [job EXCEPT ![r] = Window([@ EXCEPT !.known[j.dir] = j.target], j.target, j.end)]
      /\ UNCHANGED <<now, ksef, faults>>

\* A shadow run only counts, and stops after one window; an aborted run
\* commits nothing.
CommitNothing(r) ==
  /\ pc[r] = "commit"
  /\ job[r].aborted \/ r \in ShadowRuns
  /\ Leave(r, job[r].aborted)
  /\ UNCHANGED <<now, ksef, database, faults, since>>

\* The connection breaks: the statement was not applied, or its answer lost.
CommitFails(r) ==
  /\ Fault
  /\ pc[r] = "commit"
  /\ ~job[r].aborted /\ r \notin ShadowRuns
  /\ CommitStatement(r) \/ UNCHANGED <<database, since>>
  /\ Leave(r, TRUE)
  /\ UNCHANGED <<now, ksef>>

\* recordStatus(); a failure of an aborted run is thrown before it.
RecordStatus(r) ==
  /\ Move(r, "status", "idle")
  /\ syncError' = IF r \in ShadowRuns \/ (job[r].failed /\ job[r].aborted)
                  THEN syncError ELSE job[r].failed
  /\ job' = [job EXCEPT ![r] = NoJob]
  /\ UNCHANGED <<now, ksef, stored, mark, syncEnabled, faults, since>>

-----------------------------------------------------------------------------
(* What happens to a run, at most MaxFaults times in a behaviour *)

\* The timeout or a lost lease; the run notices when it next looks.
Abort(r) ==
  /\ Fault
  /\ pc[r] # "idle" /\ ~job[r].aborted
  /\ job' = [job EXCEPT ![r].aborted = TRUE]
  /\ UNCHANGED <<now, ksef, database, pc, since>>

Crash(r) ==
  /\ Fault
  /\ pc[r] # "idle"
  /\ pc' = [pc EXCEPT ![r] = "idle"]
  /\ job' = [job EXCEPT ![r] = NoJob]
  /\ UNCHANGED <<now, ksef, database, since>>

-----------------------------------------------------------------------------
(* Specification *)

Tick ==
  /\ now < MaxClock
  /\ now' = now + 1
  /\ UNCHANGED <<ksef, database, pc, job, faults, since>>

RunStep(r) ==
  \/ Begin(r) \/ Authenticate(r) \/ StartDirection(r)
  \/ ReadPage(r) \/ ReadGivesUp(r)
  \/ Commit(r) \/ CommitNothing(r) \/ RecordStatus(r)

FaultStep(r) ==
  \/ AuthenticateFails(r) \/ QueryFails(r) \/ CommitFails(r) \/ Abort(r) \/ Crash(r)

Next ==
  \/ \E r \in Runs : RunStep(r) \/ FaultStep(r)
  \/ \E i \in Invoices : Accept(i)
  \/ AdvanceWatermark
  \/ SwitchSync
  \/ Tick

Spec == Init /\ [][Next]_vars

\* The job runs every 30 minutes for ever, and KSeF's watermark moves on.
FairSpec ==
  /\ Spec
  /\ \A r \in Runs : WF_vars(RunStep(r))
  /\ WF_vars(AdvanceWatermark)

-----------------------------------------------------------------------------
(* Safety *)

\* No invoice is skipped for good: everything KSeF holds between the start of
\* the first window and the mark is stored, however pages, truncations and
\* windows interleave with invoices arriving, faults and other runs (the
\* reason for the job's rewrite, invoice-retrieval.ts:9).
NothingSkipped ==
  \A i \in Invoices :
    LET d == DirectionOf[i]
    IN  /\ date[i] # 0 /\ mark[d] # 0
        /\ since[d] <= date[i] /\ date[i] <= mark[d]
        => i \in stored

\* The mark never moves backwards, whichever overlapping run commits last.
MarkNeverMovesBack == [][\A d \in Directions : mark[d] <= mark'[d]]_vars

\* A window that is handed over for committing was read to its end although
\* KSeF went on while it was read.
WindowIsComplete ==
  \A r \in Runs :
    pc[r] = "commit" =>
      Result(job[r].dir, job[r].from, job[r].target) \subseteq job[r].got

-----------------------------------------------------------------------------
(* Liveness *)

\* Every invoice that is not older than the mark the client began with is
\* stored in the end, however often the synchronisation was paused before it
\* stays on, unless the queries of its own direction keep failing.
EveryInvoiceArrives ==
  <>[]syncEnabled =>
    \A i \in Invoices :
      date[i] # 0 /\ InitialMark[DirectionOf[i]] # 0
        /\ InitialMark[DirectionOf[i]] <= date[i] /\ DirectionOf[i] \notin Failing
        ~> i \in stored

=============================================================================
