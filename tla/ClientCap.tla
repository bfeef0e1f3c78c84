----------------------------- MODULE ClientCap ------------------------------
(***************************************************************************)
(* createClientWithinPlan() of lib/client-cap.ts: every path that adds a   *)
(* client to a firm (the client form, a scan, an e-mail attachment, the    *)
(* approval of a document) calls it.  One firm is modelled; each statement *)
(* of the transaction is an action, the row lock on the firm is lockedBy.  *)
(* The transaction runs on a connection of the portal's pool (lib/db.ts),  *)
(* which has a fixed size and lets a request wait for as long as it takes. *)
(***************************************************************************)
EXTENDS Integers, FiniteSets

CONSTANTS
  Callers,     \* requests that may call createClientWithinPlan
  None,        \* no caller
  Nips,        \* tax numbers, the placeholder NIEZNANY among them
  Limits,      \* values firms.max_clients takes
  PoolSize     \* connections of the pool: pg opens 10 unless it is told otherwise

ASSUME CapAssumption ==
  /\ IsFiniteSet(Callers) /\ None \notin Callers
  /\ IsFiniteSet(Nips) /\ Nips # {}
  /\ Limits \subseteq Nat
  /\ PoolSize \in Nat \ {0}

VARIABLES
  clients,     \* the tax numbers of the firm's clients
  maxClients,  \* firms.max_clients
  lockedBy,    \* the transaction that holds the firm's row lock
  free,        \* connections of the pool that nobody holds
  call         \* what each caller's transaction is doing

capVars == <<clients, maxClients, lockedBy, free, call>>

Call == [pc    : {"idle", "connect", "begin", "existing", "count", "insert", "ok", "refused"},
         nip   : Nips,
         limit : Nat]     \* max_clients as read under the lock

NoCall == [pc |-> "idle", nip |-> CHOOSE n \in Nips : TRUE, limit |-> 0]

CapTypeOK ==
  /\ clients \subseteq Nips
  /\ maxClients \in Limits
  /\ lockedBy \in Callers \union {None}
  /\ free \in Nat
  /\ call \in [Callers -> Call]

\* The transaction holds the row lock ...
InTransaction(c) == call[c].pc \in {"existing", "count", "insert"}

\* ... and before that, while it waits for the lock, a connection.
Connected(c) == call[c].pc \in {"begin", "existing", "count", "insert"}

CapInit ==
  /\ maxClients \in Limits
  /\ clients \in {known \in SUBSET Nips : Cardinality(known) <= maxClients}
  /\ lockedBy = None
  /\ free = PoolSize
  /\ call = [c \in Callers |-> NoCall]

-----------------------------------------------------------------------------
\* The caller's side: the call is part of an action of the caller.

Begun(n) == [NoCall EXCEPT !.pc = "connect", !.nip = n]

\* query() takes a connection for one statement and gives it back.
MayQuery == free > 0

-----------------------------------------------------------------------------
Connect(c) ==
  /\ call[c].pc = "connect"
  /\ MayQuery
  /\ free' = free - 1
  /\ call' = [call EXCEPT ![c].pc = "begin"]
  /\ UNCHANGED <<clients, maxClients, lockedBy>>

\* Mutant: the firm's row is read without FOR UPDATE.
MayLockAlways == TRUE

\* FOR UPDATE: the second transaction waits for the first to end.
MayLock == lockedBy = None

LockFirm(c) ==
  /\ call[c].pc = "begin"
  /\ MayLock
  /\ lockedBy' = c
  /\ call' = [call EXCEPT ![c].pc = "existing", ![c].limit = maxClients]
  /\ UNCHANGED <<clients, maxClients, free>>

\* Mutant: the limit is thrown without a ROLLBACK, the connection keeps the lock.
RollbackKeepsLock(c) == UNCHANGED lockedBy /\ free' = free + 1

\* COMMIT and ROLLBACK both end the transaction and its lock, and the finally
\* releases the connection.
Commit(c) == lockedBy' = None /\ free' = free + 1
Rollback(c) == lockedBy' = None /\ free' = free + 1

\* A client that is already there needs no room.
FindExisting(c) ==
  /\ call[c].pc = "existing"
  /\ IF call[c].nip \in clients
       THEN Commit(c) /\ call' = [call EXCEPT ![c].pc = "ok"]
       ELSE UNCHANGED <<lockedBy, free>> /\ call' = [call EXCEPT ![c].pc = "count"]
  /\ UNCHANGED <<clients, maxClients>>

\* Mutant: a full plan is answered like a client that exists.
OverTheCapIgnored == "ok"

\* What the caller gets when the plan is full: ClientLimitReachedError.
OverTheCap == "refused"

CountClients(c) ==
  /\ call[c].pc = "count"
  /\ IF Cardinality(clients) >= call[c].limit
       THEN Rollback(c) /\ call' = [call EXCEPT ![c].pc = OverTheCap]
       ELSE UNCHANGED <<lockedBy, free>> /\ call' = [call EXCEPT ![c].pc = "insert"]
  /\ UNCHANGED <<clients, maxClients>>

InsertClient(c) ==
  /\ call[c].pc = "insert"
  /\ clients' = clients \union {call[c].nip}
  /\ Commit(c)
  /\ call' = [call EXCEPT ![c].pc = "ok"]
  /\ UNCHANGED maxClients

\* The pool refuses a connection, or a statement fails: ROLLBACK and rethrow.
CapFails(c) ==
  /\ \/ call[c].pc = "connect" /\ UNCHANGED <<lockedBy, free>>
     \/ call[c].pc = "begin" /\ UNCHANGED lockedBy /\ free' = free + 1
     \/ InTransaction(c) /\ Rollback(c)
  /\ call' = [call EXCEPT ![c].pc = "refused"]
  /\ UNCHANGED <<clients, maxClients>>

\* The portal dies: PostgreSQL rolls the open transaction back, and the next
\* process starts with a pool of its own.
CapCrash ==
  /\ lockedBy' = None
  /\ free' = PoolSize
  /\ call' = [c \in Callers |-> NoCall]
  /\ UNCHANGED <<clients, maxClients>>

\* The billing webhook and the licence route update the same row, so they
\* wait for the lock as well.  The new limit may be below the clients there are.
ChangePlan(limit) ==
  /\ MayQuery
  /\ lockedBy = None
  /\ limit # maxClients
  /\ maxClients' = limit
  /\ UNCHANGED <<clients, lockedBy, free, call>>

CapStep(c) ==
  \/ Connect(c)
  \/ LockFirm(c)
  \/ FindExisting(c)
  \/ CountClients(c)
  \/ InsertClient(c)

=============================================================================
