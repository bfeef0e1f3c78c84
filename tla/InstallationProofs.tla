-------------------------- MODULE InstallationProofs --------------------------
(***************************************************************************)
(* Proofs about Installation, for any number of processes, images,         *)
(* migrations, tokens, documents and backup runs.  The invariant has three *)
(* parts, of the schema, of the first firm and of the backups; a step of   *)
(* one part leaves the state of the other two alone.                       *)
(***************************************************************************)
EXTENDS Installation, TLAPS, FiniteSetTheorems
-----------------------------------------------------------------------------
(* The inductive invariants                                                *)

Working(p) == proc[p].at \in {"locked", "applying", "executed"}
OfMigration == {"waiting", "locked", "applying", "executed", "migrated"}

Applied(v) == recorded[v] # None /\ executed[v] > 0
HasBaseline == recorded[Baseline] # None /\ tables # "none"

StartedRun == [at : {"waiting", "locked"}, img : Images, confirmed : BOOLEAN]
ApplyingRun == [at : {"applying", "executed"}, img : Images, i : Nat \ {0}, pending : BOOLEAN]

\* A run has applied what comes before the version it is at.
RunOK(p) ==
    /\ lock = p <=> Working(p)
    /\ proc[p].at \in {"waiting", "locked"} => proc[p] \in StartedRun
    /\ proc[p].at \in {"applying", "executed"} =>
          /\ proc[p] \in ApplyingRun /\ HasBaseline
          /\ \A k \in DOMAIN Manifest[proc[p].img] : k < proc[p].i => Applied(Manifest[proc[p].img][k])
    /\ proc[p].at = "executed" => /\ proc[p].i \in DOMAIN Manifest[proc[p].img]
                                  /\ executed[Version(p)] > 0 /\ Version(p) \in Plain
    /\ proc[p].at = "migrated" =>
          /\ proc[p].img \in Images /\ HasBaseline
          /\ \A k \in DOMAIN Manifest[proc[p].img] : Applied(Manifest[proc[p].img][k])

InOrder == \A img \in Images : \A i, j \in DOMAIN Manifest[img] :
    i < j /\ executed[Manifest[img][j]] > 0 => recorded[Manifest[img][i]] # None

SchemaType ==
    /\ DOMAIN proc = Procs /\ tables \in {"none", "matching", "differing"}
    /\ executed \in [Versions -> Nat] /\ recorded \in [Versions -> Sums \cup {None}]

\* Of a version: what is recorded took effect, and without a transaction only
\* more can have.
VersionOK(v) ==
    IF v = Baseline THEN executed[v] = 0 \/ (executed[v] = 1 /\ recorded[v] # None /\ tables # "none")
    ELSE /\ recorded[v] # None => executed[v] > 0
         /\ v \notin Plain => executed[v] = IF recorded[v] = None THEN 0 ELSE 1

SchemaInv ==
    /\ SchemaType /\ InOrder
    /\ \A v \in Versions : VersionOK(v)
    /\ recorded[Baseline] # None => tables # "none"
    /\ \A p \in Procs : RunOK(p)

\* Tables that no run made were made by hand, with a firm.
ByHand == executed[Baseline] = 0 /\ tables # "none"
Consumed == {t \in Tokens : tokens[t] = "consumed"}

\* One token is spent where a registration made the firm.
TokensSpent == IF executed[Baseline] > 0 /\ firms = 1 THEN \E t \in Tokens : Consumed = {t} ELSE Consumed = {}

Registering == {"knocking", "inside", "counted", "claimed"}
Registration == [at : Registering, token : Tokens]

\* What a registration knows while it holds the lock.
RegistrationOK(p) ==
    /\ txlock = p <=> InsideFirstRun(p)
    /\ proc[p].at \in Registering => tables # "none" /\ proc[p] \in Registration
    /\ proc[p].at \in {"counted", "claimed"} => firms = 0
    /\ proc[p].at = "claimed" => tokens[proc[p].token] = "live"

FirstRunInv ==
    /\ firms \in {0, 1} /\ tokens \in [Tokens -> {"absent", "live", "consumed"}]
    /\ tables = "none" => firms = 0
    /\ ByHand => firms = 1
    /\ TokensSpent
    /\ \A p \in Procs : RegistrationOK(p)

SavingAt == {"dump", "uploads", "secrets", "verify", "ship"}
SavingRun == [at : SavingAt, run : Runs, hosted : BOOLEAN]
Directory == [state : {"partial", "summed"}, age : Nat, hosted : BOOLEAN,
              dump : SUBSET {"invoices", "schema_migrations"},
              rows : SUBSET Docs, files : SUBSET Docs, secrets : BOOLEAN]

Saving(p) == proc[p].at \in SavingAt
\* What a run has put into its directory, which no other run writes.
SavingOK(p) ==
    /\ proc[p] \in SavingRun /\ Content(p) \in Directory
    /\ Content(p).age = 0 /\ Content(p).hosted = proc[p].hosted
    /\ BackingUp(p) => Content(p).state = "partial"
    /\ proc[p].at = "uploads" => Content(p).rows \subseteq rows
    /\ proc[p].at \in {"secrets", "verify"} => Content(p).rows \subseteq Content(p).files
    /\ proc[p].at = "verify" => Content(p).secrets

BackupInv ==
    /\ rows \subseteq files /\ files \subseteq Docs /\ DOMAIN backup = Runs
    /\ \A r \in Runs : /\ backup[r] \in Directory \cup {NoBackup}
                       /\ backup[r].state = "summed" => Restorable(r)
    /\ \A p \in Procs : /\ proc[p].at = "stored" => proc[p].doc \in files
                        /\ Saving(p) => SavingOK(p)
    /\ \A p, q \in Procs : Saving(p) /\ Saving(q) /\ proc[p].run = proc[q].run => p = q

IInv == SchemaInv /\ FirstRunInv /\ BackupInv

-----------------------------------------------------------------------------
(* The schema                                                              *)

\* What has been applied stays applied.
Grows == /\ \A v \in Versions : /\ recorded[v] # None => recorded'[v] # None
                                /\ executed[v] <= executed'[v]
         /\ tables # "none" => tables' # "none"

LEMMA ManifestsTyped ==
    ASSUME NEW img \in Images
    PROVE  /\ Manifest[img] \in Seq(Versions \ {Baseline})
           /\ \A i \in DOMAIN Manifest[img] : Manifest[img][i] \in Versions \ {Baseline} /\ i \in Nat \ {0}
BY ImagesAreWellFormed DEF WellFormed

LEMMA VersionTyped ==
    ASSUME NEW p \in Procs, SchemaInv, AtVersion(p) \/ proc[p].at = "executed"
    PROVE  /\ proc[p] \in ApplyingRun /\ proc[p].img \in Images /\ proc[p].i \in DOMAIN Manifest[proc[p].img]
           /\ Version(p) \in Versions \ {Baseline} /\ Sum(p, Version(p)) \in Sums
           /\ lock = p /\ HasBaseline
           /\ \A k \in DOMAIN Manifest[proc[p].img] : k < proc[p].i => Applied(Manifest[proc[p].img][k])
<1>1. RunOK(p) /\ proc[p].at \in {"applying", "executed"}
  BY DEF SchemaInv, AtVersion
<1>2. /\ proc[p] \in ApplyingRun /\ lock = p /\ HasBaseline
      /\ \A k \in DOMAIN Manifest[proc[p].img] : k < proc[p].i => Applied(Manifest[proc[p].img][k])
  BY <1>1 DEF RunOK, Working
<1>3. proc[p].img \in Images /\ proc[p].i \in Nat \ {0}
  BY <1>2 DEF ApplyingRun
<1>4. proc[p].i \in DOMAIN Manifest[proc[p].img]
  BY <1>1, <1>3, ManifestsTyped DEF RunOK, AtVersion
<1>5. Version(p) \in Versions \ {Baseline}
  BY <1>3, <1>4, ManifestsTyped DEF Version
<1>6. Sum(p, Version(p)) \in Sums
  BY <1>3, <1>5, ImagesAreWellFormed DEF Sum
<1> QED
  BY <1>2, <1>3, <1>4, <1>5, <1>6

\* A step of one run: the others lose nothing they know.
LEMMA RunSteps ==
    ASSUME SchemaInv, NEW p \in Procs, NEW new, proc' = [proc EXCEPT ![p] = new],
           SchemaType', Grows, InOrder', \A v \in Versions : VersionOK(v)',
           recorded'[Baseline] # None => tables' # "none",
           \A q \in Procs \ {p} : lock' = q <=> lock = q,
           RunOK(p)'
    PROVE  SchemaInv'
<1>1. ASSUME NEW q \in Procs \ {p} PROVE RunOK(q)'
  <2>1. proc'[q] = proc[q] /\ RunOK(q)
    BY DEF SchemaInv, SchemaType
  <2>2. Working(q)' <=> Working(q)
    BY <2>1 DEF Working
  <2>3. HasBaseline => HasBaseline'
    BY ImagesAreWellFormed DEF HasBaseline, Grows
  <2>4. ASSUME NEW v \in Versions, Applied(v) PROVE Applied(v)'
    BY <2>4 DEF Applied, Grows, SchemaInv, SchemaType
  <2>5. ASSUME NEW img \in Images, NEW k \in DOMAIN Manifest[img], Applied(Manifest[img][k])
        PROVE  Applied(Manifest[img][k])'
    BY <2>4, <2>5, ManifestsTyped
  <2>6. proc[q].at \in {"applying", "executed"} =>
            /\ proc[q] \in ApplyingRun /\ HasBaseline'
            /\ \A k \in DOMAIN Manifest[proc[q].img] : k < proc[q].i => Applied(Manifest[proc[q].img][k])'
    <3>1. SUFFICES ASSUME proc[q].at \in {"applying", "executed"}
                   PROVE  /\ proc[q] \in ApplyingRun /\ HasBaseline'
                          /\ \A k \in DOMAIN Manifest[proc[q].img] :
                                k < proc[q].i => Applied(Manifest[proc[q].img][k])'
      OBVIOUS
    <3>2. proc[q].img \in Images
      BY <2>1, <3>1 DEF RunOK, ApplyingRun
    <3> QED
      BY <2>1, <2>3, <2>5, <3>1, <3>2 DEF RunOK
  <2>7. proc[q].at = "executed" => /\ proc[q].i \in DOMAIN Manifest[proc[q].img]
                                   /\ executed'[Version(q)] > 0 /\ Version(q) \in Plain
    <3>1. SUFFICES ASSUME proc[q].at = "executed"
                   PROVE  /\ proc[q].i \in DOMAIN Manifest[proc[q].img]
                          /\ executed'[Version(q)] > 0 /\ Version(q) \in Plain
      OBVIOUS
    <3>2. /\ proc[q].i \in DOMAIN Manifest[proc[q].img] /\ Version(q) \in Plain
          /\ executed[Version(q)] > 0 /\ Version(q) \in Versions
      BY <2>1, <3>1, VersionTyped DEF RunOK
    <3> QED
      BY <3>2 DEF Grows, SchemaInv, SchemaType
  <2>8. proc[q].at = "migrated" =>
            /\ proc[q].img \in Images /\ HasBaseline'
            /\ \A k \in DOMAIN Manifest[proc[q].img] : Applied(Manifest[proc[q].img][k])'
    BY <2>1, <2>3, <2>5 DEF RunOK
  <2>9. Version(q)' = Version(q)
    BY <2>1 DEF Version
  <2> QED
    BY <2>1, <2>2, <2>6, <2>7, <2>8, <2>9 DEF RunOK
<1> QED
  BY <1>1 DEF SchemaInv

\* A step that neither migrates nor ends a run leaves the schema alone, and so
\* does the end of a run, with its lock.
LEMMA RunEnds ==
    ASSUME SchemaInv, NEW p \in Procs, NEW new, proc' = [proc EXCEPT ![p] = new], new.at \notin OfMigration,
           UNCHANGED <<tables, executed, recorded>>, lock' = Without(lock, p)
    PROVE  SchemaInv'
<1>1. SchemaType' /\ InOrder' /\ Grows /\ \A v \in Versions : VersionOK(v)'
  BY DEF SchemaInv, SchemaType, InOrder, Grows, VersionOK
<1>2. \A q \in Procs \ {p} : lock' = q <=> lock = q
  BY ImagesAreWellFormed DEF Without
<1>3. RunOK(p)'
  <2>1. proc'[p] = new
    BY DEF SchemaInv, SchemaType
  <2>2. lock' # p
    BY ImagesAreWellFormed DEF Without
  <2> QED
    BY <2>1, <2>2 DEF RunOK, Working, OfMigration
<1> QED
  BY <1>1, <1>2, <1>3, RunSteps DEF SchemaInv

LEMMA SchemaStands ==
    ASSUME SchemaInv, UNCHANGED <<tables, executed, recorded, lock, proc>>
    PROVE  SchemaInv'
BY DEF SchemaInv, SchemaType, InOrder, VersionOK, RunOK, Working, HasBaseline, Applied, Version

AllOf(img) == {Baseline} \cup {Manifest[img][i] : i \in DOMAIN Manifest[img]}

LEMMA SchemaStarts == Init => SchemaInv
<1> SUFFICES ASSUME Init PROVE SchemaInv
  OBVIOUS
<1>1. CASE Untouched
  <2>1. /\ tables \in {"none", "matching", "differing"} /\ lock = None
        /\ executed = [v \in Versions |-> 0] /\ recorded = [v \in Versions |-> None]
        /\ proc = [p \in Procs |-> Idle]
    BY <1>1 DEF Untouched, Init
  <2>2. SchemaType /\ \A v \in Versions : executed[v] = 0 /\ recorded[v] = None
    BY <2>1 DEF SchemaType
  <2>3. InOrder /\ \A v \in Versions : VersionOK(v)
    BY <2>2, ManifestsTyped DEF InOrder, VersionOK
  <2>4. \A p \in Procs : RunOK(p)
    BY <2>1, ImagesAreWellFormed DEF RunOK, Idle, Working
  <2>5. recorded[Baseline] = None
    BY <2>2, ImagesAreWellFormed
  <2> QED
    BY <2>2, <2>3, <2>4, <2>5 DEF SchemaInv
<1>2. CASE Installed
  <2>1. PICK img \in Images, p \in Procs :
            /\ tables = "matching"
            /\ executed = [v \in Versions |-> IF v \in AllOf(img) THEN 1 ELSE 0]
            /\ recorded = [v \in Versions |-> IF v \in AllOf(img) THEN SumOf[img][v] ELSE None]
            /\ proc = [q \in Procs |-> IF q = p THEN [at |-> "migrated", img |-> img] ELSE Idle]
    BY <1>2, Zenon DEF Installed, AllOf
  <2>2. PICK all :
            /\ all = {Baseline} \cup {Manifest[img][i] : i \in DOMAIN Manifest[img]}
            /\ tables = "matching"
            /\ executed = [v \in Versions |-> IF v \in all THEN 1 ELSE 0]
            /\ recorded = [v \in Versions |-> IF v \in all THEN SumOf[img][v] ELSE None]
            /\ proc = [q \in Procs |-> IF q = p THEN [at |-> "migrated", img |-> img] ELSE Idle]
    BY <2>1, Zenon DEF AllOf
  <2>3. lock = None /\ Baseline \in Versions /\ None \notin Procs
    BY ImagesAreWellFormed DEF Init
  <2>4. /\ SchemaType
        /\ \A v \in Versions : /\ v \in all => executed[v] = 1 /\ recorded[v] # None
                               /\ v \notin all => executed[v] = 0 /\ recorded[v] = None
    BY <2>2, ImagesAreWellFormed DEF SchemaType
  <2>5. \A v \in Versions : VersionOK(v)
    BY <2>2, <2>4 DEF VersionOK
  <2>6. InOrder
    <3>1. SUFFICES ASSUME NEW jmg \in Images, NEW i \in DOMAIN Manifest[jmg], NEW j \in DOMAIN Manifest[jmg],
                          i < j, executed[Manifest[jmg][j]] > 0
                   PROVE  recorded[Manifest[jmg][i]] # None
      BY DEF InOrder
    <3>2. /\ Manifest[jmg][j] \in Versions \ {Baseline} /\ Manifest[jmg][i] \in Versions
          /\ i \in Nat \ {0} /\ j \in Nat
      BY ManifestsTyped
    <3>3. PICK k \in DOMAIN Manifest[img] : Manifest[jmg][j] = Manifest[img][k]
      BY <2>2, <2>4, <3>1, <3>2
    <3>4. Before(jmg, j) = Before(img, k)
      BY <3>3, ImagesAreWellFormed DEF OnlyGrow
    <3>5. Manifest[jmg][i] \in Before(img, k)
      BY <3>1, <3>2, <3>4 DEF Before
    <3>6. k \in Nat /\ 1..(k - 1) \subseteq DOMAIN Manifest[img]
      BY ManifestsTyped
    <3>7. Manifest[jmg][i] \in all
      BY <2>2, <3>5, <3>6 DEF Before
    <3> QED
      BY <2>4, <3>2, <3>7
  <2>7. \A q \in Procs : RunOK(q)
    <3>1. \A k \in DOMAIN Manifest[img] : Applied(Manifest[img][k])
      BY <2>2, <2>4, ManifestsTyped DEF Applied
    <3>2. HasBaseline
      BY <2>2, <2>3, <2>4 DEF HasBaseline
    <3> QED
      BY <2>2, <2>3, <3>1, <3>2 DEF RunOK, Idle, Working
  <2> QED
    BY <2>2, <2>4, <2>5, <2>6, <2>7 DEF SchemaInv
<1> QED
  BY <1>1, <1>2 DEF Init

\* One lemma per operation of migrate().
LEMMA StartMigrationKeeps ==
    ASSUME SchemaInv, NEW p \in Procs, StartMigration(p)
    PROVE  SchemaInv'
<1>1. PICK img \in Images, confirmed \in BOOLEAN :
          proc[p] = Idle /\ proc' = [proc EXCEPT ![p] = [at |-> "waiting", img |-> img, confirmed |-> confirmed]]
  BY DEF StartMigration, Begin
<1>2. PICK new : new = [at |-> "waiting", img |-> img, confirmed |-> confirmed]
  OBVIOUS
<1>3. UNCHANGED <<tables, executed, recorded, lock>> /\ lock # p
  BY <1>1 DEF StartMigration, schemaVars, SchemaInv, RunOK, Working, Idle
<1>4. SchemaType' /\ InOrder' /\ Grows /\ \A v \in Versions : VersionOK(v)'
  BY <1>1, <1>3 DEF SchemaInv, SchemaType, InOrder, Grows, VersionOK
<1>5. new \in StartedRun /\ new.at = "waiting"
  BY <1>2 DEF StartedRun
<1>6. proc'[p] = new
  BY <1>1, <1>2 DEF SchemaInv, SchemaType
<1>7. RunOK(p)'
  BY <1>3, <1>5, <1>6 DEF RunOK, Working
<1> QED
  BY <1>1, <1>2, <1>3, <1>4, <1>7, RunSteps DEF SchemaInv

LEMMA TakeLockKeeps ==
    ASSUME SchemaInv, NEW p \in Procs, TakeLock(p)
    PROVE  SchemaInv'
<1>1. PICK run, new : run = proc[p] /\ new = [run EXCEPT !.at = "locked"]
  OBVIOUS
<1>2. /\ lock = None /\ lock' = p /\ proc' = [proc EXCEPT ![p] = new] /\ run.at = "waiting"
      /\ UNCHANGED <<tables, executed, recorded>>
  BY <1>1 DEF TakeLock, Goto
<1>3. run \in StartedRun
  BY <1>1, <1>2 DEF SchemaInv, RunOK
<1>4. new \in StartedRun /\ new.at = "locked"
  BY <1>1, <1>3 DEF StartedRun
<1>5. SchemaType' /\ InOrder' /\ Grows /\ \A v \in Versions : VersionOK(v)'
  BY <1>2 DEF SchemaInv, SchemaType, InOrder, Grows, VersionOK
<1>6. proc'[p] = new
  BY <1>2 DEF SchemaInv, SchemaType
<1>7. RunOK(p)'
  BY <1>2, <1>4, <1>6 DEF RunOK, Working
<1>8. \A q \in Procs \ {p} : lock' = q <=> lock = q
  BY <1>2, ImagesAreWellFormed
<1> QED
  BY <1>2, <1>5, <1>7, <1>8, RunSteps DEF SchemaInv

\* The run goes on to its migrations.
LEMMA FirstApply ==
    ASSUME SchemaInv, NEW p \in Procs, proc[p].at = "locked", Goto(p, Apply(p, 1, FALSE)),
           SchemaType', Grows, InOrder', \A v \in Versions : VersionOK(v)', HasBaseline', lock' = lock
    PROVE  SchemaInv'
<1>1. PICK img, new : img = proc[p].img /\ new = [at |-> "applying", img |-> img, i |-> 1, pending |-> FALSE]
  OBVIOUS
<1>2. proc' = [proc EXCEPT ![p] = new]
  BY <1>1 DEF Goto, Apply
<1>3. img \in Images /\ lock = p
  BY <1>1 DEF SchemaInv, RunOK, StartedRun, Working
<1>4. new \in ApplyingRun /\ new.at = "applying" /\ new.i = 1 /\ new.img = img
  BY <1>1, <1>3 DEF ApplyingRun
<1>5. proc'[p] = new
  BY <1>2 DEF SchemaInv, SchemaType
<1>6. \A k \in DOMAIN Manifest[img] : ~(k < 1)
  BY <1>3, ManifestsTyped
<1>7. RunOK(p)'
  BY <1>3, <1>4, <1>5, <1>6 DEF RunOK, Working
<1> QED
  BY <1>2, <1>7, RunSteps DEF HasBaseline

LEMMA FreshInstallKeeps ==
    ASSUME SchemaInv, NEW p \in Procs, FreshInstall(p)
    PROVE  SchemaInv'
<1>1. PICK sum : sum = Sum(p, Baseline)
  OBVIOUS
<1>2. /\ proc[p].at = "locked" /\ recorded[Baseline] = None /\ tables = "none" /\ tables' = "matching"
      /\ executed' = [executed EXCEPT ![Baseline] = @ + 1]
      /\ recorded' = [recorded EXCEPT ![Baseline] = sum]
      /\ Goto(p, Apply(p, 1, FALSE)) /\ lock' = lock
  BY <1>1 DEF FreshInstall, Untracked
<1>3. Baseline \in Versions /\ sum \in Sums /\ sum # None
  <2>1. proc[p].img \in Images
    BY <1>2 DEF SchemaInv, RunOK, StartedRun
  <2> QED
    BY <1>1, <2>1, ImagesAreWellFormed DEF Sum
<1>4. executed[Baseline] = 0 /\ executed \in [Versions -> Nat] /\ recorded \in [Versions -> Sums \cup {None}]
  BY <1>2, <1>3 DEF SchemaInv, VersionOK, SchemaType
<1>5. /\ executed'[Baseline] = 1 /\ recorded'[Baseline] = sum
      /\ \A v \in Versions \ {Baseline} : executed'[v] = executed[v] /\ recorded'[v] = recorded[v]
      /\ executed' \in [Versions -> Nat] /\ recorded' \in [Versions -> Sums \cup {None}]
  BY <1>2, <1>3, <1>4
<1>6. SchemaType'
  BY <1>2, <1>5 DEF SchemaType, SchemaInv, Goto
<1>7. Grows
  BY <1>2, <1>3, <1>4, <1>5 DEF Grows
<1>8. InOrder'
  <2>1. ASSUME NEW img \in Images, NEW k \in DOMAIN Manifest[img]
        PROVE  executed'[Manifest[img][k]] = executed[Manifest[img][k]]
               /\ recorded'[Manifest[img][k]] = recorded[Manifest[img][k]]
    BY <1>5, ManifestsTyped
  <2> QED
    BY <2>1 DEF SchemaInv, InOrder
<1>9. \A v \in Versions : VersionOK(v)'
  BY <1>2, <1>3, <1>5 DEF SchemaInv, VersionOK
<1>10. HasBaseline'
  BY <1>2, <1>3, <1>5 DEF HasBaseline
<1> QED
  BY <1>2, <1>6, <1>7, <1>8, <1>9, <1>10, FirstApply

LEMMA AdoptKeeps ==
    ASSUME SchemaInv, NEW p \in Procs, Adopt(p)
    PROVE  SchemaInv'
<1>1. PICK sum : sum = Sum(p, Baseline)
  OBVIOUS
<1>2. /\ proc[p].at = "locked" /\ recorded[Baseline] = None /\ tables = "matching"
      /\ recorded' = [recorded EXCEPT ![Baseline] = sum] /\ UNCHANGED <<tables, executed, lock>>
      /\ Goto(p, Apply(p, 1, FALSE))
  BY <1>1 DEF Adopt, Untracked, AuditPasses
<1>3. Baseline \in Versions /\ sum \in Sums /\ sum # None
  <2>1. proc[p].img \in Images
    BY <1>2 DEF SchemaInv, RunOK, StartedRun
  <2> QED
    BY <1>1, <2>1, ImagesAreWellFormed DEF Sum
<1>4. /\ recorded'[Baseline] = sum /\ \A v \in Versions \ {Baseline} : recorded'[v] = recorded[v]
      /\ recorded' \in [Versions -> Sums \cup {None}]
  BY <1>2, <1>3 DEF SchemaInv, SchemaType
<1>5. SchemaType'
  BY <1>2, <1>4 DEF SchemaType, SchemaInv, Goto
<1>6. Grows
  BY <1>2, <1>3, <1>4 DEF Grows, SchemaInv, SchemaType
<1>7. InOrder'
  BY <1>2, <1>4, ManifestsTyped DEF SchemaInv, InOrder
<1>8. \A v \in Versions : VersionOK(v)'
  BY <1>2, <1>3, <1>4 DEF SchemaInv, VersionOK
<1>9. HasBaseline'
  BY <1>2, <1>3, <1>4 DEF HasBaseline
<1> QED
  BY <1>2, <1>5, <1>6, <1>7, <1>8, <1>9, FirstApply

LEMMA UpgradeKeeps ==
    ASSUME SchemaInv, NEW p \in Procs, Upgrade(p)
    PROVE  SchemaInv'
<1>1. /\ proc[p].at = "locked" /\ recorded[Baseline] # None /\ Goto(p, Apply(p, 1, FALSE))
      /\ UNCHANGED <<tables, executed, recorded, lock>>
  BY DEF Upgrade, Untracked, schemaVars
<1>2. SchemaType' /\ InOrder' /\ Grows /\ \A v \in Versions : VersionOK(v)'
  BY <1>1 DEF SchemaInv, SchemaType, InOrder, Grows, VersionOK, Goto
<1>3. HasBaseline'
  BY <1>1 DEF HasBaseline, SchemaInv
<1> QED
  BY <1>1, <1>2, <1>3, FirstApply

\* A run is refused, fails, or is over.
LEMMA RunStops ==
    ASSUME SchemaInv, NEW p \in Procs,
           RefuseBaseline(p) \/ RefuseVersion(p) \/ MigrationFails(p)
    PROVE  SchemaInv'
<1>1. Working(p) /\ Refuse(p) /\ UNCHANGED <<tables, executed, recorded>>
  BY DEF RefuseBaseline, RefuseVersion, MigrationFails, AtVersion, Working
<1>2. proc' = [proc EXCEPT ![p] = Idle] /\ lock' = Without(lock, p)
  BY <1>1 DEF Refuse, EndMigration, Goto, Without, SchemaInv, RunOK
<1>3. Idle.at \notin OfMigration
  BY DEF Idle, OfMigration
<1> QED
  BY <1>1, <1>2, <1>3, RunEnds

\* The next version is known to be applied.
LEMMA NextVersion ==
    ASSUME SchemaInv, NEW p \in Procs, AtVersion(p) \/ proc[p].at = "executed",
           NEW pending \in BOOLEAN, Goto(p, Apply(p, proc[p].i + 1, pending)),
           SchemaType', Grows, InOrder', \A v \in Versions : VersionOK(v)',
           NEW v, v = Version(p), Applied(v)', lock' = lock
    PROVE  SchemaInv'
<1>1. PICK img, i, new :
          /\ img = proc[p].img /\ i = proc[p].i
          /\ new = [at |-> "applying", img |-> img, i |-> i + 1, pending |-> pending]
  OBVIOUS
<1>2. proc' = [proc EXCEPT ![p] = new]
  BY <1>1 DEF Goto, Apply
<1>3. /\ img \in Images /\ i \in DOMAIN Manifest[img] /\ i \in Nat \ {0} /\ lock = p /\ HasBaseline
      /\ \A k \in DOMAIN Manifest[img] : k < i => Applied(Manifest[img][k])
  BY <1>1, VersionTyped, ManifestsTyped
<1>4. new \in ApplyingRun /\ new.at = "applying" /\ new.i = i + 1 /\ new.img = img
  BY <1>1, <1>3 DEF ApplyingRun
<1>5. proc'[p] = new
  BY <1>2 DEF SchemaInv, SchemaType
<1>6. Version(p) = Manifest[img][i]
  BY <1>1 DEF Version
<1>7. Applied(Manifest[img][i])'
  BY <1>6 DEF Applied
<1>8. ASSUME NEW k \in DOMAIN Manifest[img], k < i + 1 PROVE Applied(Manifest[img][k])'
  <2>1. k \in Nat /\ Manifest[img][k] \in Versions
    BY <1>3, ManifestsTyped
  <2>2. CASE k = i
    BY <1>7, <2>2
  <2>3. CASE k # i
    BY <1>3, <1>8, <2>1, <2>3 DEF Applied, Grows, SchemaInv, SchemaType
  <2> QED
    BY <2>2, <2>3
<1>9. HasBaseline'
  BY <1>3, ImagesAreWellFormed DEF HasBaseline, Grows
<1>10. RunOK(p)'
  BY <1>3, <1>4, <1>5, <1>8, <1>9 DEF RunOK, Working
<1> QED
  BY <1>2, <1>9, <1>10, RunSteps DEF HasBaseline

LEMMA SkipAppliedKeeps ==
    ASSUME SchemaInv, NEW p \in Procs, SkipApplied(p)
    PROVE  SchemaInv'
<1>1. /\ AtVersion(p) /\ recorded[Version(p)] # None /\ Goto(p, Apply(p, proc[p].i + 1, FALSE))
      /\ UNCHANGED <<tables, executed, recorded, lock>>
  BY DEF SkipApplied, schemaVars
<1>2. PICK v : v = Version(p)
  OBVIOUS
<1>3. v \in Versions \ {Baseline}
  BY <1>1, <1>2, VersionTyped
<1>4. Applied(v)'
  BY <1>1, <1>2, <1>3 DEF Applied, SchemaInv, VersionOK
<1>5. SchemaType' /\ InOrder' /\ Grows /\ \A w \in Versions : VersionOK(w)'
  BY <1>1 DEF SchemaInv, SchemaType, InOrder, Grows, VersionOK, Goto
<1> QED
  BY <1>1, <1>2, <1>4, <1>5, NextVersion

\* The migration a run is at may take effect: those before it have been applied,
\* in the manifest of every image.
LEMMA TakesEffect ==
    ASSUME SchemaInv, NEW p \in Procs, AtVersion(p), NEW v, v = Version(p),
           executed' = [executed EXCEPT ![v] = @ + 1],
           \A w \in Versions : recorded[w] # None => recorded'[w] # None
    PROVE  /\ InOrder' /\ executed' \in [Versions -> Nat] /\ executed'[v] = executed[v] + 1
           /\ \A w \in Versions \ {v} : executed'[w] = executed[w]
<1>1. PICK img, i : img = proc[p].img /\ i = proc[p].i
  OBVIOUS
<1>2. /\ img \in Images /\ i \in DOMAIN Manifest[img] /\ v \in Versions \ {Baseline} /\ v = Manifest[img][i]
      /\ \A k \in DOMAIN Manifest[img] : k < i => Applied(Manifest[img][k])
  BY <1>1, VersionTyped DEF Version
<1>3. /\ executed' \in [Versions -> Nat] /\ executed'[v] = executed[v] + 1
      /\ \A w \in Versions \ {v} : executed'[w] = executed[w]
  BY <1>2 DEF SchemaInv, SchemaType
<1>4. ASSUME NEW jmg \in Images, NEW m \in DOMAIN Manifest[jmg], NEW j \in DOMAIN Manifest[jmg],
             m < j, executed'[Manifest[jmg][j]] > 0
      PROVE  recorded'[Manifest[jmg][m]] # None
  <2>1. /\ Manifest[jmg][j] \in Versions /\ Manifest[jmg][m] \in Versions
        /\ m \in Nat \ {0} /\ j \in Nat
    BY ManifestsTyped
  <2>2. CASE Manifest[jmg][j] # v
    <3>1. executed[Manifest[jmg][j]] > 0
      BY <1>3, <1>4, <2>1, <2>2
    <3>2. recorded[Manifest[jmg][m]] # None
      BY <1>4, <3>1 DEF SchemaInv, InOrder
    <3> QED
      BY <2>1, <3>2
  <2>3. CASE Manifest[jmg][j] = v
    <3>1. Before(jmg, j) = Before(img, i)
      BY <1>2, <2>3, ImagesAreWellFormed DEF OnlyGrow
    <3>2. Manifest[jmg][m] \in Before(img, i)
      BY <1>4, <2>1, <3>1 DEF Before
    <3>3. PICK k \in 1..(i - 1) : Manifest[jmg][m] = Manifest[img][k]
      BY <3>2 DEF Before
    <3>4. k \in DOMAIN Manifest[img] /\ k < i
      BY <1>2, ManifestsTyped
    <3> QED
      BY <1>2, <2>1, <3>3, <3>4 DEF Applied
  <2> QED
    BY <2>2, <2>3
<1>5. InOrder'
  BY <1>4 DEF InOrder
<1> QED
  BY <1>3, <1>5

LEMMA ApplyVersionKeeps ==
    ASSUME SchemaInv, NEW p \in Procs, ApplyVersion(p)
    PROVE  SchemaInv'
<1>1. PICK v, sum : v = Version(p) /\ sum = Sum(p, v)
  OBVIOUS
<1>2. /\ AtVersion(p) /\ recorded[v] = None /\ v \notin Plain
      /\ executed' = [executed EXCEPT ![v] = @ + 1] /\ recorded' = [recorded EXCEPT ![v] = sum]
      /\ tables' = tables
      /\ \/ Goto(p, Apply(p, proc[p].i + 1, TRUE)) /\ lock' = lock
         \/ Refuse(p)
  BY <1>1 DEF ApplyVersion
<1>3. v \in Versions \ {Baseline} /\ sum \in Sums /\ sum # None /\ lock = p /\ HasBaseline
  BY <1>1, <1>2, VersionTyped, ImagesAreWellFormed
<1>4. /\ recorded' \in [Versions -> Sums \cup {None}] /\ recorded'[v] = sum
      /\ \A w \in Versions \ {v} : recorded'[w] = recorded[w]
  BY <1>2, <1>3 DEF SchemaInv, SchemaType
<1>5. \A w \in Versions : recorded[w] # None => recorded'[w] # None
  BY <1>3, <1>4
<1>6. /\ InOrder' /\ executed' \in [Versions -> Nat] /\ executed'[v] = executed[v] + 1
      /\ \A w \in Versions \ {v} : executed'[w] = executed[w]
  BY <1>1, <1>2, <1>5, TakesEffect
<1>7. executed[v] = 0 /\ executed \in [Versions -> Nat]
  BY <1>2, <1>3 DEF SchemaInv, VersionOK, SchemaType
<1>8. Grows /\ Applied(v)'
  BY <1>2, <1>3, <1>4, <1>5, <1>6, <1>7 DEF Grows, Applied
<1>9. \A w \in Versions : VersionOK(w)'
  BY <1>2, <1>3, <1>4, <1>6, <1>7 DEF SchemaInv, VersionOK
<1>10. SchemaType'
  BY <1>2, <1>4, <1>6 DEF SchemaInv, SchemaType, Goto, Refuse, EndMigration
<1>11. recorded'[Baseline] # None => tables' # "none"
  BY <1>2, <1>3 DEF HasBaseline
<1>12. CASE Goto(p, Apply(p, proc[p].i + 1, TRUE)) /\ lock' = lock
  BY <1>1, <1>2, <1>6, <1>8, <1>9, <1>10, <1>12, NextVersion
<1>13. CASE Refuse(p)
  <2>1. proc' = [proc EXCEPT ![p] = Idle] /\ lock' = None
    BY <1>13 DEF Refuse, EndMigration, Goto
  <2>2. proc'[p] = Idle
    BY <2>1 DEF SchemaInv, SchemaType
  <2>3. RunOK(p)'
    BY <2>1, <2>2, ImagesAreWellFormed DEF RunOK, Working, Idle
  <2>4. \A q \in Procs \ {p} : lock' = q <=> lock = q
    BY <1>3, <2>1, ImagesAreWellFormed
  <2> QED
    BY <1>6, <1>8, <1>9, <1>10, <1>11, <2>1, <2>3, <2>4, RunSteps
<1> QED
  BY <1>2, <1>12, <1>13

LEMMA ExecutePlainKeeps ==
    ASSUME SchemaInv, NEW p \in Procs, ExecutePlain(p)
    PROVE  SchemaInv'
<1>1. PICK v, run, new : v = Version(p) /\ run = proc[p] /\ new = [run EXCEPT !.at = "executed"]
  OBVIOUS
<1>2. /\ AtVersion(p) /\ recorded[v] = None /\ v \in Plain
      /\ executed' = [executed EXCEPT ![v] = @ + 1] /\ UNCHANGED <<tables, recorded, lock>>
      /\ proc' = [proc EXCEPT ![p] = new]
  BY <1>1 DEF ExecutePlain, Goto
<1>3. /\ v \in Versions \ {Baseline} /\ lock = p /\ HasBaseline /\ run \in ApplyingRun
      /\ run.img \in Images /\ run.i \in DOMAIN Manifest[run.img] /\ v = Manifest[run.img][run.i]
      /\ \A k \in DOMAIN Manifest[run.img] : k < run.i => Applied(Manifest[run.img][k])
  BY <1>1, <1>2, VersionTyped DEF Version
<1>4. /\ InOrder' /\ executed' \in [Versions -> Nat] /\ executed'[v] = executed[v] + 1
      /\ \A w \in Versions \ {v} : executed'[w] = executed[w]
  BY <1>1, <1>2, TakesEffect
<1>5. executed[v] \in Nat /\ executed \in [Versions -> Nat]
  BY <1>3 DEF SchemaInv, SchemaType
<1>6. SchemaType' /\ Grows
  BY <1>2, <1>4, <1>5 DEF SchemaInv, SchemaType, Grows
<1>7. \A w \in Versions : VersionOK(w)'
  BY <1>2, <1>3, <1>4, <1>5 DEF SchemaInv, VersionOK
<1>8. new \in ApplyingRun /\ new.at = "executed" /\ new.img = run.img /\ new.i = run.i
  BY <1>1, <1>3 DEF ApplyingRun
<1>9. proc'[p] = new
  BY <1>2 DEF SchemaInv, SchemaType
<1>10. ASSUME NEW k \in DOMAIN Manifest[run.img], k < run.i PROVE Applied(Manifest[run.img][k])'
  <2>1. Manifest[run.img][k] \in Versions /\ Applied(Manifest[run.img][k])
    BY <1>3, <1>10, ManifestsTyped
  <2> QED
    BY <1>5, <1>6, <2>1 DEF Applied, Grows, SchemaType
<1>11. HasBaseline'
  BY <1>2, <1>3 DEF HasBaseline
<1>12. Version(p)' = v /\ executed'[v] > 0
  BY <1>3, <1>4, <1>5, <1>8, <1>9 DEF Version
<1>13. RunOK(p)'
  BY <1>2, <1>3, <1>8, <1>9, <1>10, <1>11, <1>12 DEF RunOK, Working
<1> QED
  BY <1>2, <1>4, <1>6, <1>7, <1>11, <1>13, RunSteps DEF HasBaseline

LEMMA RecordPlainKeeps ==
    ASSUME SchemaInv, NEW p \in Procs, RecordPlain(p)
    PROVE  SchemaInv'
<1>1. PICK v, sum : v = Version(p) /\ sum = Sum(p, v)
  OBVIOUS
<1>2. /\ proc[p].at = "executed" /\ recorded' = [recorded EXCEPT ![v] = sum]
      /\ Goto(p, Apply(p, proc[p].i + 1, TRUE)) /\ UNCHANGED <<tables, executed, lock>>
  BY <1>1 DEF RecordPlain
<1>3. v \in Versions \ {Baseline} /\ sum \in Sums /\ sum # None /\ executed[v] > 0 /\ v \in Plain
  BY <1>1, <1>2, VersionTyped, ImagesAreWellFormed DEF SchemaInv, RunOK
<1>4. /\ recorded' \in [Versions -> Sums \cup {None}] /\ recorded'[v] = sum
      /\ \A w \in Versions \ {v} : recorded'[w] = recorded[w]
  BY <1>2, <1>3 DEF SchemaInv, SchemaType
<1>5. SchemaType' /\ Grows /\ Applied(v)'
  BY <1>2, <1>3, <1>4 DEF SchemaInv, SchemaType, Grows, Applied, Goto
<1>6. \A w \in Versions : VersionOK(w)'
  BY <1>2, <1>3, <1>4 DEF SchemaInv, VersionOK
<1>7. InOrder'
  <2>1. \A img \in Images : \A k \in DOMAIN Manifest[img] :
            recorded[Manifest[img][k]] # None => recorded'[Manifest[img][k]] # None
    BY <1>3, <1>4, ManifestsTyped
  <2> QED
    BY <1>2, <2>1 DEF SchemaInv, InOrder
<1> QED
  BY <1>1, <1>2, <1>5, <1>6, <1>7, NextVersion

LEMMA FinishMigrationKeeps ==
    ASSUME SchemaInv, NEW p \in Procs, FinishMigration(p)
    PROVE  SchemaInv'
<1>1. PICK img, new : img = proc[p].img /\ new = [at |-> "migrated", img |-> img]
  OBVIOUS
<1>2. /\ proc[p].at = "applying" /\ proc[p].i > Len(Manifest[img]) /\ lock' = None
      /\ proc' = [proc EXCEPT ![p] = new] /\ UNCHANGED <<tables, executed, recorded>>
  BY <1>1 DEF FinishMigration, EndMigration, Goto
<1>3. /\ proc[p] \in ApplyingRun /\ lock = p /\ HasBaseline
      /\ \A k \in DOMAIN Manifest[img] : k < proc[p].i => Applied(Manifest[img][k])
  BY <1>1, <1>2 DEF SchemaInv, RunOK, Working
<1>4. img \in Images /\ proc[p].i \in Nat
  BY <1>1, <1>3 DEF ApplyingRun
<1>5. \A k \in DOMAIN Manifest[img] : Applied(Manifest[img][k])
  BY <1>2, <1>3, <1>4, ManifestsTyped
<1>6. SchemaType' /\ InOrder' /\ Grows /\ \A v \in Versions : VersionOK(v)'
  BY <1>2 DEF SchemaInv, SchemaType, InOrder, Grows, VersionOK
<1>7. proc'[p] = new /\ new.at = "migrated" /\ new.img = img
  BY <1>1, <1>2 DEF SchemaInv, SchemaType
<1>8. RunOK(p)'
  <2>1. HasBaseline' /\ \A k \in DOMAIN Manifest[img] : Applied(Manifest[img][k])'
    BY <1>2, <1>3, <1>5 DEF HasBaseline, Applied
  <2> QED
    BY <1>2, <1>4, <1>7, <2>1, ImagesAreWellFormed DEF RunOK, Working
<1>9. \A q \in Procs \ {p} : lock' = q <=> lock = q
  BY <1>2, <1>3, ImagesAreWellFormed
<1> QED
  BY <1>2, <1>3, <1>6, <1>8, <1>9, RunSteps DEF HasBaseline

LEMMA MigrateKeeps ==
    ASSUME SchemaInv, NEW p \in Procs, Migrate(p)
    PROVE  SchemaInv'
BY StartMigrationKeeps, TakeLockKeeps, FreshInstallKeeps, AdoptKeeps, UpgradeKeeps, RunStops, SkipAppliedKeeps,
   ApplyVersionKeeps, ExecutePlainKeeps, RecordPlainKeeps, FinishMigrationKeeps DEF Migrate

-----------------------------------------------------------------------------
(* What a step of one part leaves of the others                            *)

OfFirstRun == Registering \cup {"checked", "dropped"}
OfBackup == SavingAt \cup {"stored"}

LEMMA MigrateMoves ==
    ASSUME SchemaInv, NEW p \in Procs, Migrate(p)
    PROVE  /\ \E new : proc' = [proc EXCEPT ![p] = new] /\ new.at \in OfMigration \cup {"idle"}
           /\ proc[p].at \in OfMigration \cup {"idle"} /\ UNCHANGED <<firms, tokens, txlock, files, rows, backup>>
           /\ \/ tables = "none" /\ tables' = "matching" /\ executed'[Baseline] = executed[Baseline] + 1
              \/ tables' = tables /\ executed'[Baseline] = executed[Baseline]
<1>1. Idle.at = "idle"
  BY DEF Idle
<1>2. CASE StartMigration(p)
  <2>1. PICK img \in Images, confirmed \in BOOLEAN :
            proc[p] = Idle /\ proc' = [proc EXCEPT ![p] = [at |-> "waiting", img |-> img, confirmed |-> confirmed]]
    BY <1>2 DEF StartMigration, Begin
  <2>2. PICK new : new = [at |-> "waiting", img |-> img, confirmed |-> confirmed]
    OBVIOUS
  <2>3. new.at = "waiting"
    BY <2>2
  <2>4. UNCHANGED <<firms, tokens, txlock, files, rows, backup, tables, executed>>
    BY <1>2 DEF StartMigration, schemaVars, firmVars, backupVars
  <2> QED
    BY <1>1, <2>1, <2>2, <2>3, <2>4 DEF OfMigration
<1>3. CASE TakeLock(p)
  <2>1. PICK run, new : run = proc[p] /\ new = [run EXCEPT !.at = "locked"]
    OBVIOUS
  <2>2. proc[p].at = "waiting" /\ proc' = [proc EXCEPT ![p] = new]
    BY <1>3, <2>1 DEF TakeLock, Goto
  <2>3. new.at = "locked"
    BY <2>1, <2>2 DEF SchemaInv, RunOK, StartedRun
  <2> QED
    BY <1>3, <2>2, <2>3 DEF TakeLock, firmVars, backupVars, OfMigration
<1>4. CASE \/ FreshInstall(p) \/ Adopt(p) \/ Upgrade(p) \/ SkipApplied(p) \/ RecordPlain(p)
  <2>1. PICK i, pending : Goto(p, Apply(p, i, pending)) /\ proc[p].at \in {"locked", "applying", "executed"}
    BY <1>4 DEF FreshInstall, Adopt, Upgrade, SkipApplied, RecordPlain, AtVersion
  <2>2. Apply(p, i, pending).at = "applying"
    BY DEF Apply
  <2>3. \/ tables = "none" /\ tables' = "matching" /\ executed'[Baseline] = executed[Baseline] + 1
        \/ tables' = tables /\ executed'[Baseline] = executed[Baseline]
    BY <1>4, ImagesAreWellFormed DEF SchemaInv, SchemaType, FreshInstall, Adopt, Upgrade, SkipApplied, RecordPlain,
       schemaVars
  <2>4. UNCHANGED <<firms, tokens, txlock, files, rows, backup>>
    BY <1>4 DEF FreshInstall, Adopt, Upgrade, SkipApplied, RecordPlain, firmVars, backupVars
  <2>5. proc' = [proc EXCEPT ![p] = Apply(p, i, pending)]
    BY <2>1 DEF Goto
  <2> QED
    BY <2>1, <2>2, <2>3, <2>4, <2>5 DEF OfMigration
<1>5. CASE RefuseBaseline(p) \/ RefuseVersion(p) \/ MigrationFails(p)
  <2>1. proc' = [proc EXCEPT ![p] = Idle] /\ proc[p].at \in {"locked", "applying", "executed"}
    BY <1>5 DEF RefuseBaseline, RefuseVersion, MigrationFails, Refuse, EndMigration, Goto, AtVersion
  <2>2. UNCHANGED <<firms, tokens, txlock, files, rows, backup, tables, executed>>
    BY <1>5 DEF RefuseBaseline, RefuseVersion, MigrationFails, firmVars, backupVars
  <2> QED
    BY <1>1, <2>1, <2>2 DEF OfMigration
<1>6. CASE ApplyVersion(p)
  <2>1. PICK v : v = Version(p)
    OBVIOUS
  <2>2. /\ proc[p].at = "applying" /\ tables' = tables /\ AtVersion(p)
        /\ executed' = [executed EXCEPT ![v] = @ + 1]
    BY <1>6, <2>1 DEF ApplyVersion, AtVersion
  <2>3. v \in Versions \ {Baseline}
    BY <2>1, <2>2, VersionTyped
  <2>4. Apply(p, proc[p].i + 1, TRUE).at = "applying"
    BY DEF Apply
  <2>5. \/ proc' = [proc EXCEPT ![p] = Apply(p, proc[p].i + 1, TRUE)]
        \/ proc' = [proc EXCEPT ![p] = Idle]
    BY <1>6 DEF ApplyVersion, Refuse, EndMigration, Goto
  <2>6. executed'[Baseline] = executed[Baseline]
    BY <2>2, <2>3, ImagesAreWellFormed DEF SchemaInv, SchemaType
  <2>7. UNCHANGED <<firms, tokens, txlock, files, rows, backup>>
    BY <1>6 DEF ApplyVersion, firmVars, backupVars
  <2> QED
    BY <1>1, <2>2, <2>4, <2>5, <2>6, <2>7 DEF OfMigration
<1>7. CASE ExecutePlain(p)
  <2>1. PICK v, run, new : v = Version(p) /\ run = proc[p] /\ new = [run EXCEPT !.at = "executed"]
    OBVIOUS
  <2>2. /\ proc[p].at = "applying" /\ tables' = tables /\ AtVersion(p) /\ proc' = [proc EXCEPT ![p] = new]
        /\ executed' = [executed EXCEPT ![v] = @ + 1]
    BY <1>7, <2>1 DEF ExecutePlain, AtVersion, Goto
  <2>3. v \in Versions \ {Baseline} /\ run \in ApplyingRun
    BY <2>1, <2>2, VersionTyped
  <2>4. new.at = "executed"
    BY <2>1, <2>3 DEF ApplyingRun
  <2>5. executed'[Baseline] = executed[Baseline]
    BY <2>2, <2>3, ImagesAreWellFormed DEF SchemaInv, SchemaType
  <2>6. UNCHANGED <<firms, tokens, txlock, files, rows, backup>>
    BY <1>7 DEF ExecutePlain, firmVars, backupVars
  <2> QED
    BY <2>2, <2>4, <2>5, <2>6 DEF OfMigration
<1>8. CASE FinishMigration(p)
  <2>1. PICK new : new = [at |-> "migrated", img |-> proc[p].img]
    OBVIOUS
  <2>2. new.at = "migrated" /\ proc' = [proc EXCEPT ![p] = new] /\ proc[p].at = "applying"
    BY <1>8, <2>1 DEF FinishMigration, EndMigration, Goto
  <2> QED
    BY <1>8, <2>2 DEF FinishMigration, firmVars, backupVars, OfMigration
<1> QED
  BY <1>2, <1>3, <1>4, <1>5, <1>6, <1>7, <1>8 DEF Migrate

LEMMA FirstRunMoves ==
    ASSUME FirstRunInv, NEW p \in Procs, FirstRun(p)
    PROVE  /\ \E new : proc' = [proc EXCEPT ![p] = new] /\ new.at \in OfFirstRun \cup {"idle"}
           /\ proc[p].at \in OfFirstRun \cup {"idle"}
           /\ UNCHANGED <<tables, executed, recorded, lock, files, rows, backup>>
<1>1. Idle.at = "idle"
  BY DEF Idle
<1>2. UNCHANGED <<tables, executed, recorded, lock, files, rows, backup>>
  BY DEF FirstRun, CheckNoFirm, DropTokens, InsertToken, Register, LockFirstRun, CountFirms, ClaimToken,
     CommitFirm, RegistrationFails, schemaVars, backupVars
<1>3. CASE CheckNoFirm(p) \/ DropTokens(p) \/ InsertToken(p) \/ CommitFirm(p) \/ RegistrationFails(p)
  <2>1. /\ proc[p].at \in OfFirstRun \cup {"idle"}
        /\ \/ proc' = [proc EXCEPT ![p] = Idle] \/ proc' = [proc EXCEPT ![p] = [at |-> "checked"]]
           \/ proc' = [proc EXCEPT ![p] = [at |-> "dropped"]]
    BY <1>1, <1>3 DEF CheckNoFirm, DropTokens, InsertToken, CommitFirm, RegistrationFails, Begin, Goto, RollBack,
       OfFirstRun, Registering, InsideFirstRun
  <2>2. [at |-> "checked"].at = "checked" /\ [at |-> "dropped"].at = "dropped"
    OBVIOUS
  <2> QED
    BY <1>1, <1>2, <2>1, <2>2 DEF OfFirstRun
<1>4. CASE Register(p)
  <2>1. PICK t \in Tokens : proc[p] = Idle /\ proc' = [proc EXCEPT ![p] = [at |-> "knocking", token |-> t]]
    BY <1>4 DEF Register, Begin
  <2>2. [at |-> "knocking", token |-> t].at = "knocking"
    OBVIOUS
  <2> QED
    BY <1>1, <1>2, <2>1, <2>2 DEF OfFirstRun, Registering
<1>5. CASE LockFirstRun(p) \/ CountFirms(p) \/ ClaimToken(p)
  <2>1. /\ proc[p].at \in Registering
        /\ \/ proc' = [proc EXCEPT ![p] = Idle]
           \/ \E at \in {"inside", "counted", "claimed"} : proc' = [proc EXCEPT ![p] = [proc[p] EXCEPT !.at = at]]
    BY <1>5 DEF LockFirstRun, CountFirms, ClaimToken, RollBack, Goto, Registering
  <2>2. proc[p] \in Registration
    BY <2>1 DEF FirstRunInv, RegistrationOK
  <2>3. \A at \in {"inside", "counted", "claimed"} : [proc[p] EXCEPT !.at = at].at = at
    BY <2>2 DEF Registration
  <2> QED
    BY <1>1, <1>2, <2>1, <2>3 DEF OfFirstRun, Registering
<1> QED
  BY <1>3, <1>4, <1>5 DEF FirstRun

LEMMA BackUpMoves ==
    ASSUME BackupInv, NEW p \in Procs, BackUp(p)
    PROVE  /\ \E new : proc' = [proc EXCEPT ![p] = new] /\ new.at \in OfBackup \cup {"idle"}
           /\ proc[p].at \in OfBackup \cup {"idle"}
           /\ UNCHANGED <<tables, executed, recorded, lock, firms, tokens, txlock>>
<1>1. Idle.at = "idle"
  BY DEF Idle
<1>2. UNCHANGED <<tables, executed, recorded, lock, firms, tokens, txlock>>
  BY DEF BackUp, StoreFile, StoreRow, StartBackup, DumpDatabase, ArchiveUploads, ArchiveSecrets, VerifyBackup,
     BackupFails, Rotate, BackupStep, schemaVars, firmVars
<1>3. CASE StoreFile(p)
  <2>1. PICK d \in Docs : proc[p] = Idle /\ proc' = [proc EXCEPT ![p] = [at |-> "stored", doc |-> d]]
    BY <1>3 DEF StoreFile, Begin
  <2>2. [at |-> "stored", doc |-> d].at = "stored"
    OBVIOUS
  <2> QED
    BY <1>1, <1>2, <2>1, <2>2 DEF OfBackup
<1>4. CASE StartBackup(p)
  <2>1. PICK r \in Runs, hosted \in BOOLEAN :
            proc[p] = Idle /\ proc' = [proc EXCEPT ![p] = [at |-> "dump", run |-> r, hosted |-> hosted]]
    BY <1>4 DEF StartBackup, Begin
  <2>2. [at |-> "dump", run |-> r, hosted |-> hosted].at = "dump"
    OBVIOUS
  <2> QED
    BY <1>1, <1>2, <2>1, <2>2 DEF OfBackup, SavingAt
<1>5. CASE StoreRow(p) \/ BackupFails(p) \/ Rotate(p)
  <2>1. proc' = [proc EXCEPT ![p] = Idle] /\ proc[p].at \in OfBackup
    BY <1>5 DEF StoreRow, BackupFails, Rotate, Goto, BackingUp, OfBackup, SavingAt
  <2> QED
    BY <1>1, <1>2, <2>1
<1>6. CASE DumpDatabase(p) \/ ArchiveUploads(p) \/ ArchiveSecrets(p) \/ VerifyBackup(p)
  <2>1. /\ proc[p].at \in SavingAt
        /\ \E at \in SavingAt : proc' = [proc EXCEPT ![p] = [proc[p] EXCEPT !.at = at]]
    BY <1>6 DEF DumpDatabase, ArchiveUploads, ArchiveSecrets, VerifyBackup, BackupStep, Goto, SavingAt
  <2>2. proc[p] \in SavingRun
    BY <2>1 DEF BackupInv, Saving, SavingOK
  <2>3. \A at \in SavingAt : [proc[p] EXCEPT !.at = at].at = at
    BY <2>2 DEF SavingRun
  <2> QED
    BY <1>2, <2>1, <2>3 DEF OfBackup
<1> QED
  BY <1>3, <1>4, <1>5, <1>6 DEF BackUp

\* The schema does not notice a step of another part.
LEMMA SchemaStandsBeside ==
    ASSUME SchemaInv, NEW p \in Procs, NEW new, proc' = [proc EXCEPT ![p] = new],
           new.at \in OfFirstRun \cup OfBackup \cup {"idle"},
           proc[p].at \in OfFirstRun \cup OfBackup \cup {"idle", "migrated"},
           UNCHANGED <<tables, executed, recorded, lock>>
    PROVE  SchemaInv'
<1>1. ~Working(p) /\ new.at \notin OfMigration
  BY DEF Working, OfFirstRun, OfBackup, OfMigration, Registering, SavingAt
<1>2. lock' = Without(lock, p)
  BY <1>1 DEF SchemaInv, RunOK, Without
<1> QED
  BY <1>1, <1>2, RunEnds

-----------------------------------------------------------------------------
(* The first firm                                                          *)

\* What a step does to the tables: nothing, or it makes them.
TablesStand == \/ tables = "none" /\ tables' = "matching" /\ executed'[Baseline] = executed[Baseline] + 1
               \/ tables' = tables /\ executed'[Baseline] = executed[Baseline]

LEMMA FirstRunStarts == Init => FirstRunInv
<1> SUFFICES ASSUME Init PROVE FirstRunInv
  OBVIOUS
<1>1. tokens = [t \in Tokens |-> "absent"] /\ txlock = None /\ Baseline \in Versions /\ None \notin Procs
  BY ImagesAreWellFormed DEF Init
<1>2. tokens \in [Tokens -> {"absent", "live", "consumed"}] /\ Consumed = {}
  BY <1>1 DEF Consumed
<1>3. \A q \in Procs : proc[q].at \notin Registering
  <2>1. CASE Untouched
    BY <2>1 DEF Untouched, Idle, Registering
  <2>2. CASE Installed
    <3>1. PICK img \in Images, p \in Procs :
              proc = [q \in Procs |-> IF q = p THEN [at |-> "migrated", img |-> img] ELSE Idle]
      BY <2>2, Zenon DEF Installed
    <3> QED
      BY <3>1 DEF Idle, Registering
  <2> QED
    BY <2>1, <2>2 DEF Init
<1>4. \A q \in Procs : RegistrationOK(q)
  BY <1>1, <1>3 DEF RegistrationOK, InsideFirstRun, Registering
<1>5. /\ firms \in {0, 1} /\ (tables = "none" => firms = 0) /\ (ByHand => firms = 1)
      /\ ~(executed[Baseline] > 0 /\ firms = 1)
  <2>1. CASE Untouched
    BY <1>1, <2>1 DEF Untouched, ByHand
  <2>2. CASE Installed
    <3>1. PICK img \in Images : /\ tables = "matching" /\ firms = 0
                                /\ executed = [v \in Versions |-> IF v \in AllOf(img) THEN 1 ELSE 0]
      BY <2>2, Zenon DEF Installed, AllOf
    <3>2. executed[Baseline] = 1
      BY <1>1, <3>1 DEF AllOf
    <3> QED
      BY <3>1, <3>2 DEF ByHand
  <2> QED
    BY <2>1, <2>2 DEF Init
<1> QED
  BY <1>2, <1>4, <1>5 DEF FirstRunInv, TokensSpent

\* A step of one process: no other registration loses what it knows.
LEMMA RegistrationSteps ==
    ASSUME SchemaInv, FirstRunInv, NEW p \in Procs, NEW new, proc' = [proc EXCEPT ![p] = new],
           firms' \in {0, 1}, tokens' \in [Tokens -> {"absent", "live", "consumed"}],
           tables' = "none" => firms' = 0, ByHand' => firms' = 1, tables # "none" => tables' # "none",
           TokensSpent',
           \A q \in Procs \ {p} : /\ txlock' = q <=> txlock = q
                                  /\ proc[q].at \in {"counted", "claimed"} => firms' = firms
                                  /\ proc[q].at = "claimed" => tokens'[proc[q].token] = tokens[proc[q].token],
           RegistrationOK(p)'
    PROVE  FirstRunInv'
<1>1. ASSUME NEW q \in Procs \ {p} PROVE RegistrationOK(q)'
  <2>1. proc'[q] = proc[q] /\ RegistrationOK(q)
    BY DEF FirstRunInv, SchemaInv, SchemaType
  <2> QED
    BY <2>1 DEF RegistrationOK, InsideFirstRun
<1> QED
  BY <1>1 DEF FirstRunInv

\* A registration ends, with its lock and without effect; or p registers nobody.
LEMMA RegistrationEnds ==
    ASSUME SchemaInv, FirstRunInv, NEW p \in Procs, NEW new, proc' = [proc EXCEPT ![p] = new],
           new.at \notin Registering, UNCHANGED <<firms, tokens>>, txlock' = Without(txlock, p), TablesStand
    PROVE  FirstRunInv'
<1>1. proc'[p] = new /\ None \notin Procs
  BY ImagesAreWellFormed DEF SchemaInv, SchemaType
<1>2. RegistrationOK(p)'
  BY <1>1 DEF RegistrationOK, InsideFirstRun, Registering, Without
<1>3. \A q \in Procs \ {p} : txlock' = q <=> txlock = q
  BY <1>1 DEF Without
<1>4. /\ executed[Baseline] \in {0, 1} /\ (tables = "none" => executed[Baseline] = 0)
  BY ImagesAreWellFormed DEF SchemaInv, VersionOK
<1>5. Consumed' = Consumed
  BY DEF Consumed
<1>6. CASE tables = "none" /\ tables' = "matching" /\ executed'[Baseline] = executed[Baseline] + 1
  <2>1. firms = 0 /\ Consumed = {}
    BY <1>4, <1>6 DEF FirstRunInv, TokensSpent
  <2>2. executed'[Baseline] = 1
    BY <1>4, <1>6
  <2>3. TokensSpent'
    BY <1>5, <2>1 DEF TokensSpent
  <2> QED
    BY <1>2, <1>3, <1>6, <2>1, <2>2, <2>3, RegistrationSteps DEF FirstRunInv, ByHand
<1>7. CASE tables' = tables /\ executed'[Baseline] = executed[Baseline]
  <2>1. TokensSpent'
    BY <1>5, <1>7 DEF TokensSpent, FirstRunInv
  <2> QED
    BY <1>2, <1>3, <1>7, <2>1, RegistrationSteps DEF FirstRunInv, ByHand
<1> QED
  BY <1>6, <1>7 DEF TablesStand

\* One lemma per operation on the token and the first firm.
LEMMA DropTokensKeeps ==
    ASSUME SchemaInv, FirstRunInv, NEW p \in Procs, DropTokens(p)
    PROVE  FirstRunInv'
<1>1. /\ proc[p].at = "checked" /\ \A q \in Procs : proc[q].at # "claimed"
      /\ tokens' = [t \in Tokens |-> IF tokens[t] = "live" THEN "absent" ELSE tokens[t]]
      /\ proc' = [proc EXCEPT ![p] = [at |-> "dropped"]] /\ UNCHANGED <<tables, executed, firms, txlock>>
  BY DEF DropTokens, Goto, schemaVars
<1>2. tokens' \in [Tokens -> {"absent", "live", "consumed"}] /\ Consumed' = Consumed
  BY <1>1 DEF FirstRunInv, Consumed
<1>3. proc'[p] = [at |-> "dropped"]
  BY <1>1 DEF SchemaInv, SchemaType
<1>4. RegistrationOK(p)'
  BY <1>1, <1>3 DEF RegistrationOK, InsideFirstRun, Registering, FirstRunInv
<1>5. TokensSpent'
  BY <1>1, <1>2 DEF TokensSpent, FirstRunInv
<1> QED
  BY <1>1, <1>2, <1>4, <1>5, RegistrationSteps DEF FirstRunInv, ByHand

LEMMA InsertTokenKeeps ==
    ASSUME SchemaInv, FirstRunInv, NEW p \in Procs, InsertToken(p)
    PROVE  FirstRunInv'
<1>1. PICK t \in Tokens : tokens[t] = "absent" /\ tokens' = [tokens EXCEPT ![t] = "live"]
  BY DEF InsertToken
<1>2. /\ proc[p].at = "dropped" /\ proc' = [proc EXCEPT ![p] = Idle]
      /\ UNCHANGED <<tables, executed, firms, txlock>>
  BY DEF InsertToken, Goto, schemaVars
<1>3. tokens' \in [Tokens -> {"absent", "live", "consumed"}] /\ Consumed' = Consumed
  BY <1>1 DEF FirstRunInv, Consumed
<1>4. proc'[p] = Idle
  BY <1>2 DEF SchemaInv, SchemaType
<1>5. RegistrationOK(p)'
  BY <1>2, <1>4 DEF RegistrationOK, InsideFirstRun, Registering, Idle, FirstRunInv
<1>6. ASSUME NEW q \in Procs, proc[q].at = "claimed"
      PROVE  tokens'[proc[q].token] = tokens[proc[q].token]
  <2>1. tokens[proc[q].token] = "live" /\ proc[q].token \in Tokens
    BY <1>6 DEF FirstRunInv, RegistrationOK, Registering, Registration
  <2> QED
    BY <1>1, <2>1 DEF FirstRunInv
<1>7. TokensSpent'
  BY <1>2, <1>3 DEF TokensSpent, FirstRunInv
<1> QED
  BY <1>2, <1>3, <1>5, <1>6, <1>7, RegistrationSteps DEF FirstRunInv, ByHand

LEMMA RegisterKeeps ==
    ASSUME SchemaInv, FirstRunInv, NEW p \in Procs, Register(p)
    PROVE  FirstRunInv'
<1>1. PICK t \in Tokens : proc[p] = Idle /\ proc' = [proc EXCEPT ![p] = [at |-> "knocking", token |-> t]]
  BY DEF Register, Begin
<1>2. PICK new : new = [at |-> "knocking", token |-> t]
  OBVIOUS
<1>3. UNCHANGED <<tables, executed, firms, tokens, txlock>> /\ tables # "none"
  BY DEF Register, schemaVars, firmVars, PortalIsUp, SchemaInv, RunOK, HasBaseline
<1>4. new \in Registration /\ new.at = "knocking"
  BY <1>2 DEF Registration, Registering
<1>5. proc'[p] = new /\ txlock # p
  BY <1>1, <1>2 DEF SchemaInv, SchemaType, FirstRunInv, RegistrationOK, InsideFirstRun, Idle
<1>6. RegistrationOK(p)'
  BY <1>3, <1>4, <1>5 DEF RegistrationOK, InsideFirstRun
<1>7. TokensSpent'
  BY <1>3 DEF Consumed, TokensSpent, FirstRunInv
<1> QED
  BY <1>1, <1>2, <1>3, <1>6, <1>7, RegistrationSteps DEF FirstRunInv, ByHand

LEMMA LockFirstRunKeeps ==
    ASSUME SchemaInv, FirstRunInv, NEW p \in Procs, LockFirstRun(p)
    PROVE  FirstRunInv'
<1>1. PICK run, new : run = proc[p] /\ new = [run EXCEPT !.at = "inside"]
  OBVIOUS
<1>2. /\ run.at = "knocking" /\ txlock = None /\ txlock' = p /\ proc' = [proc EXCEPT ![p] = new]
      /\ UNCHANGED <<tables, executed, firms, tokens>>
  BY <1>1 DEF LockFirstRun, Goto, schemaVars
<1>3. run \in Registration /\ tables # "none"
  BY <1>1, <1>2 DEF FirstRunInv, RegistrationOK, Registering
<1>4. new \in Registration /\ new.at = "inside"
  BY <1>1, <1>3 DEF Registration, Registering
<1>5. proc'[p] = new /\ None \notin Procs
  BY <1>2, ImagesAreWellFormed DEF SchemaInv, SchemaType
<1>6. RegistrationOK(p)'
  BY <1>2, <1>3, <1>4, <1>5 DEF RegistrationOK, InsideFirstRun
<1>7. TokensSpent'
  BY <1>2 DEF Consumed, TokensSpent, FirstRunInv
<1> QED
  BY <1>2, <1>5, <1>6, <1>7, RegistrationSteps DEF FirstRunInv, ByHand

LEMMA RollBackKeeps ==
    ASSUME SchemaInv, FirstRunInv, NEW p \in Procs, InsideFirstRun(p), RollBack(p), UNCHANGED <<tables, executed>>
    PROVE  FirstRunInv'
<1>1. /\ proc' = [proc EXCEPT ![p] = Idle] /\ UNCHANGED <<firms, tokens>> /\ Idle.at \notin Registering
      /\ txlock' = Without(txlock, p)
  BY DEF RollBack, Goto, Idle, Registering, Without, FirstRunInv, RegistrationOK
<1> QED
  BY <1>1, RegistrationEnds DEF TablesStand

LEMMA CountFirmsKeeps ==
    ASSUME SchemaInv, FirstRunInv, NEW p \in Procs, CountFirms(p)
    PROVE  FirstRunInv'
<1>1. CASE firms = 0
  <2>1. PICK run, new : run = proc[p] /\ new = [run EXCEPT !.at = "counted"]
    OBVIOUS
  <2>2. /\ run.at = "inside" /\ proc' = [proc EXCEPT ![p] = new]
        /\ UNCHANGED <<tables, executed, firms, tokens, txlock>>
    BY <1>1, <2>1 DEF CountFirms, Goto, schemaVars, firmVars
  <2>3. run \in Registration /\ tables # "none" /\ txlock = p
    BY <2>1, <2>2 DEF FirstRunInv, RegistrationOK, Registering, InsideFirstRun
  <2>4. new \in Registration /\ new.at = "counted"
    BY <2>1, <2>3 DEF Registration, Registering
  <2>5. proc'[p] = new
    BY <2>2 DEF SchemaInv, SchemaType
  <2>6. RegistrationOK(p)'
    BY <1>1, <2>2, <2>3, <2>4, <2>5 DEF RegistrationOK, InsideFirstRun
  <2>7. TokensSpent'
    BY <2>2 DEF Consumed, TokensSpent, FirstRunInv
  <2> QED
    BY <2>2, <2>6, <2>7, RegistrationSteps DEF FirstRunInv, ByHand
<1>2. CASE firms # 0
  BY <1>2, RollBackKeeps DEF CountFirms, schemaVars, InsideFirstRun
<1> QED
  BY <1>1, <1>2

LEMMA ClaimTokenKeeps ==
    ASSUME SchemaInv, FirstRunInv, NEW p \in Procs, ClaimToken(p)
    PROVE  FirstRunInv'
<1>1. CASE tokens[proc[p].token] = "live"
  <2>1. PICK run, new : run = proc[p] /\ new = [run EXCEPT !.at = "claimed"]
    OBVIOUS
  <2>2. /\ run.at = "counted" /\ proc' = [proc EXCEPT ![p] = new]
        /\ UNCHANGED <<tables, executed, firms, tokens, txlock>>
    BY <1>1, <2>1 DEF ClaimToken, Goto, schemaVars, firmVars
  <2>3. run \in Registration /\ tables # "none" /\ txlock = p /\ firms = 0
    BY <2>1, <2>2 DEF FirstRunInv, RegistrationOK, Registering, InsideFirstRun
  <2>4. new \in Registration /\ new.at = "claimed" /\ new.token = run.token
    BY <2>1, <2>3 DEF Registration, Registering
  <2>5. proc'[p] = new
    BY <2>2 DEF SchemaInv, SchemaType
  <2>6. RegistrationOK(p)'
    BY <1>1, <2>1, <2>2, <2>3, <2>4, <2>5 DEF RegistrationOK, InsideFirstRun
  <2>7. TokensSpent'
    BY <2>2 DEF Consumed, TokensSpent, FirstRunInv
  <2> QED
    BY <2>2, <2>6, <2>7, RegistrationSteps DEF FirstRunInv, ByHand
<1>2. CASE tokens[proc[p].token] # "live"
  BY <1>2, RollBackKeeps DEF ClaimToken, schemaVars, InsideFirstRun
<1> QED
  BY <1>1, <1>2

LEMMA CommitFirmKeeps ==
    ASSUME SchemaInv, FirstRunInv, NEW p \in Procs, CommitFirm(p)
    PROVE  FirstRunInv'
<1>1. PICK t : t = proc[p].token
  OBVIOUS
<1>2. /\ proc[p].at = "claimed" /\ firms' = firms + 1 /\ tokens' = [tokens EXCEPT ![t] = "consumed"]
      /\ txlock' = None /\ proc' = [proc EXCEPT ![p] = Idle] /\ UNCHANGED <<tables, executed>>
  BY <1>1 DEF CommitFirm, Goto, schemaVars
<1>3. t \in Tokens /\ tables # "none" /\ txlock = p /\ firms = 0
  BY <1>1, <1>2 DEF FirstRunInv, RegistrationOK, Registering, Registration, InsideFirstRun
<1>4. executed[Baseline] = 1 /\ Consumed = {}
  <2>1. executed[Baseline] # 0
    BY <1>3 DEF FirstRunInv, ByHand
  <2> QED
    BY <1>3, <2>1, ImagesAreWellFormed DEF SchemaInv, VersionOK, FirstRunInv, TokensSpent
<1>5. tokens' \in [Tokens -> {"absent", "live", "consumed"}] /\ Consumed' = {t}
  BY <1>2, <1>3, <1>4 DEF FirstRunInv, Consumed
<1>6. proc'[p] = Idle /\ None \notin Procs
  BY <1>2, ImagesAreWellFormed DEF SchemaInv, SchemaType
<1>7. RegistrationOK(p)'
  BY <1>2, <1>6 DEF RegistrationOK, InsideFirstRun, Registering, Idle
<1>8. \A q \in Procs \ {p} : proc[q].at \notin {"counted", "claimed"} /\ txlock # q
  BY <1>3 DEF FirstRunInv, RegistrationOK, InsideFirstRun
<1>9. firms' = 1 /\ TokensSpent'
  BY <1>2, <1>3, <1>4, <1>5 DEF TokensSpent
<1> QED
  BY <1>2, <1>3, <1>5, <1>6, <1>7, <1>8, <1>9, RegistrationSteps DEF ByHand

LEMMA FirstRunKeeps ==
    ASSUME SchemaInv, FirstRunInv, NEW p \in Procs, FirstRun(p)
    PROVE  FirstRunInv'
<1>1. CASE CheckNoFirm(p)
  <2>1. /\ proc[p] = Idle /\ proc' = [proc EXCEPT ![p] = [at |-> "checked"]]
        /\ UNCHANGED <<tables, executed, firms, tokens, txlock>>
    BY <1>1 DEF CheckNoFirm, Begin, schemaVars, firmVars
  <2>2. [at |-> "checked"].at \notin Registering /\ txlock' = Without(txlock, p)
    BY <2>1, ImagesAreWellFormed DEF Registering, Without, FirstRunInv, RegistrationOK, InsideFirstRun, Idle
  <2> QED
    BY <2>1, <2>2, RegistrationEnds DEF TablesStand
<1>2. CASE RegistrationFails(p)
  BY <1>2, RollBackKeeps DEF RegistrationFails, schemaVars
<1> QED
  BY <1>1, <1>2, DropTokensKeeps, InsertTokenKeeps, RegisterKeeps, LockFirstRunKeeps, CountFirmsKeeps,
     ClaimTokenKeeps, CommitFirmKeeps DEF FirstRun

-----------------------------------------------------------------------------
(* The backups                                                             *)

LEMMA NothingSaved == NoBackup.state = "absent" /\ NoBackup.age = 0 /\ Idle.at = "idle"
BY DEF NoBackup, Idle

LEMMA BackupStarts == Init => BackupInv
<1> SUFFICES ASSUME Init PROVE BackupInv
  OBVIOUS
<1>1. files = {} /\ rows = {} /\ backup = [r \in Runs |-> NoBackup]
  BY DEF Init
<1>2. \A q \in Procs : proc[q].at \notin OfBackup
  <2>1. CASE Untouched
    BY <2>1 DEF Untouched, Idle, OfBackup, SavingAt
  <2>2. CASE Installed
    <3>1. PICK img \in Images, p \in Procs :
              proc = [q \in Procs |-> IF q = p THEN [at |-> "migrated", img |-> img] ELSE Idle]
      BY <2>2, Zenon DEF Installed
    <3> QED
      BY <3>1 DEF Idle, OfBackup, SavingAt
  <2> QED
    BY <2>1, <2>2 DEF Init
<1> QED
  BY <1>1, <1>2, NothingSaved DEF BackupInv, Saving, OfBackup

\* A step of one process: the directories of the others, and what they know of
\* them, stay.
LEMMA SavingSteps ==
    ASSUME SchemaInv, BackupInv, NEW p \in Procs, NEW new, proc' = [proc EXCEPT ![p] = new],
           rows \subseteq rows', rows' \subseteq files', files \subseteq files', files' \subseteq Docs,
           DOMAIN backup' = Runs,
           \A r \in Runs : backup'[r] \in Directory \cup {NoBackup} /\ (backup'[r].state = "summed" => Restorable(r)'),
           \A q \in Procs \ {p} : Saving(q) => backup'[proc[q].run] = backup[proc[q].run],
           new.at = "stored" => new.doc \in files',
           Saving(p)' => SavingOK(p)' /\ \A q \in Procs \ {p} : Saving(q) => proc[q].run # new.run
    PROVE  BackupInv'
<1>1. \A q \in Procs \ {p} : proc'[q] = proc[q]
  BY DEF SchemaInv, SchemaType
<1>2. proc'[p] = new
  BY DEF SchemaInv, SchemaType
<1>3. ASSUME NEW q \in Procs \ {p}, Saving(q) PROVE SavingOK(q)'
  <2>1. Content(q)' = Content(q) /\ proc'[q] = proc[q] /\ SavingOK(q)
    BY <1>1, <1>3 DEF Content, BackupInv
  <2> QED
    BY <2>1 DEF SavingOK, BackingUp
<1>4. \A q \in Procs \ {p} : Saving(q)' <=> Saving(q)
  BY <1>1 DEF Saving
<1>5. \A q \in Procs : /\ proc'[q].at = "stored" => proc'[q].doc \in files'
                       /\ Saving(q)' => SavingOK(q)'
  BY <1>1, <1>2, <1>3, <1>4 DEF BackupInv
<1>6. \A q, s \in Procs : Saving(q)' /\ Saving(s)' /\ proc'[q].run = proc'[s].run => q = s
  <2>1. SUFFICES ASSUME NEW q \in Procs, NEW s \in Procs, Saving(q)', Saving(s)', proc'[q].run = proc'[s].run
                 PROVE  q = s
    OBVIOUS
  <2>2. CASE q # p /\ s # p
    BY <1>1, <1>4, <2>1, <2>2 DEF BackupInv
  <2>3. CASE q = p \/ s = p
    BY <1>1, <1>2, <1>4, <2>1, <2>3
  <2> QED
    BY <2>2, <2>3
<1> QED
  BY <1>5, <1>6 DEF BackupInv

\* The backups do not notice a step of another part.
LEMMA BackupStands ==
    ASSUME SchemaInv, BackupInv, NEW p \in Procs, NEW new, proc' = [proc EXCEPT ![p] = new],
           new.at \notin OfBackup, UNCHANGED <<files, rows, backup>>
    PROVE  BackupInv'
<1>1. ~Saving(p)' /\ new.at # "stored"
  BY DEF SchemaInv, SchemaType, Saving, OfBackup
<1>2. \A r \in Runs : Restorable(r)' <=> Restorable(r)
  BY DEF Restorable
<1> QED
  BY <1>1, <1>2, SavingSteps DEF BackupInv

\* A run writes its own directory.
LEMMA DirectorySteps ==
    ASSUME SchemaInv, BackupInv, NEW p \in Procs, Saving(p), NEW new, NEW content,
           proc' = [proc EXCEPT ![p] = new], backup' = [backup EXCEPT ![proc[p].run] = content],
           UNCHANGED <<files, rows>>, new \in SavingRun, new.run = proc[p].run, content \in Directory,
           content.state = "summed" => Restorable(new.run)', SavingOK(p)'
    PROVE  BackupInv'
<1>1. proc[p].run \in Runs /\ new.at # "stored"
  BY DEF BackupInv, SavingOK, SavingRun, SavingAt
<1>2. backup'[new.run] = content /\ \A r \in Runs \ {new.run} : backup'[r] = backup[r]
  BY <1>1 DEF BackupInv
<1>3. \A r \in Runs \ {new.run} : Restorable(r)' <=> Restorable(r)
  BY <1>2 DEF Restorable
<1>4. \A q \in Procs \ {p} : Saving(q) => proc[q].run \in Runs \ {new.run}
  BY DEF BackupInv, SavingOK, SavingRun
<1>5. \A r \in Runs : backup'[r] \in Directory \cup {NoBackup} /\ (backup'[r].state = "summed" => Restorable(r)')
  BY <1>2, <1>3 DEF BackupInv
<1>6. DOMAIN backup' = Runs /\ rows' \subseteq files' /\ files' \subseteq Docs
  BY DEF BackupInv
<1>7. \A q \in Procs \ {p} : Saving(q) => backup'[proc[q].run] = backup[proc[q].run] /\ proc[q].run # new.run
  BY <1>2, <1>4
<1> QED
  BY <1>1, <1>5, <1>6, <1>7, SavingSteps

\* One lemma per operation of an upload and of a backup.
LEMMA StoreFileKeeps ==
    ASSUME SchemaInv, BackupInv, NEW p \in Procs, StoreFile(p)
    PROVE  BackupInv'
<1>1. PICK d \in Docs : /\ files' = files \cup {d} /\ proc' = [proc EXCEPT ![p] = [at |-> "stored", doc |-> d]]
                        /\ UNCHANGED <<rows, backup>>
  BY DEF StoreFile, Begin
<1>2. PICK new : new = [at |-> "stored", doc |-> d]
  OBVIOUS
<1>3. new.at = "stored" /\ new.doc = d
  BY <1>2
<1>4. ~Saving(p)'
  BY <1>1, <1>2, <1>3 DEF SchemaInv, SchemaType, Saving, SavingAt
<1>5. \A r \in Runs : Restorable(r)' <=> Restorable(r)
  BY <1>1 DEF Restorable
<1> QED
  BY <1>1, <1>2, <1>3, <1>4, <1>5, SavingSteps DEF BackupInv

LEMMA StoreRowKeeps ==
    ASSUME SchemaInv, BackupInv, NEW p \in Procs, StoreRow(p)
    PROVE  BackupInv'
<1>1. /\ proc[p].at = "stored" /\ rows' = rows \cup {proc[p].doc} /\ proc' = [proc EXCEPT ![p] = Idle]
      /\ UNCHANGED <<files, backup>>
  BY DEF StoreRow, Goto
<1>2. proc[p].doc \in files
  BY <1>1 DEF BackupInv
<1>3. ~Saving(p)'
  BY <1>1 DEF SchemaInv, SchemaType, Saving, SavingAt, Idle
<1>4. \A r \in Runs : Restorable(r)' <=> Restorable(r)
  BY <1>1 DEF Restorable
<1> QED
  BY <1>1, <1>2, <1>3, <1>4, NothingSaved, SavingSteps DEF BackupInv

LEMMA StartBackupKeeps ==
    ASSUME SchemaInv, BackupInv, NEW p \in Procs, StartBackup(p)
    PROVE  BackupInv'
<1>1. PICK r \in Runs, hosted \in BOOLEAN :
          /\ backup[r] = NoBackup
          /\ proc' = [proc EXCEPT ![p] = [at |-> "dump", run |-> r, hosted |-> hosted]]
          /\ backup' = [backup EXCEPT ![r] = [state |-> "partial", age |-> 0, hosted |-> hosted,
                            dump |-> {}, rows |-> {}, files |-> {}, secrets |-> FALSE]]
          /\ UNCHANGED <<files, rows>>
  BY DEF StartBackup, Begin
<1>2. PICK new, content :
          /\ new = [at |-> "dump", run |-> r, hosted |-> hosted]
          /\ content = [state |-> "partial", age |-> 0, hosted |-> hosted,
                        dump |-> {}, rows |-> {}, files |-> {}, secrets |-> FALSE]
  OBVIOUS
<1>3. new \in SavingRun /\ new.at = "dump" /\ new.run = r /\ new.hosted = hosted
  BY <1>2 DEF SavingRun, SavingAt
<1>4. content \in Directory /\ content.state = "partial" /\ content.age = 0 /\ content.hosted = hosted
  BY <1>2 DEF Directory
<1>5. proc'[p] = new /\ Content(p)' = content
  BY <1>1, <1>2, <1>3 DEF SchemaInv, SchemaType, BackupInv, Content
<1>6. SavingOK(p)'
  BY <1>3, <1>4, <1>5 DEF SavingOK, BackingUp
<1>7. backup'[r] = content /\ \A s \in Runs \ {r} : backup'[s] = backup[s]
  BY <1>1, <1>2 DEF BackupInv
<1>8. \A q \in Procs : Saving(q) => proc[q].run \in Runs \ {r}
  <2>1. ASSUME NEW q \in Procs, Saving(q) PROVE proc[q].run \in Runs /\ backup[proc[q].run].state # "absent"
    BY <2>1 DEF BackupInv, SavingOK, SavingRun, Content, Directory
  <2> QED
    BY <1>1, <2>1, NothingSaved
<1>9. \A s \in Runs \ {r} : Restorable(s)' <=> Restorable(s)
  BY <1>7 DEF Restorable
<1>10. \A s \in Runs : backup'[s] \in Directory \cup {NoBackup} /\ (backup'[s].state = "summed" => Restorable(s)')
  BY <1>4, <1>7, <1>9 DEF BackupInv
<1>11. DOMAIN backup' = Runs /\ rows' \subseteq files' /\ files' \subseteq Docs
  BY <1>1 DEF BackupInv
<1>12. \A q \in Procs \ {p} : Saving(q) => backup'[proc[q].run] = backup[proc[q].run] /\ proc[q].run # new.run
  BY <1>3, <1>7, <1>8
<1> QED
  BY <1>1, <1>2, <1>3, <1>6, <1>10, <1>11, <1>12, SavingSteps

LEMMA DumpDatabaseKeeps ==
    ASSUME SchemaInv, BackupInv, NEW p \in Procs, DumpDatabase(p)
    PROVE  BackupInv'
<1>1. PICK run, dumped, old, new, content :
          /\ run = proc[p] /\ old = Content(p) /\ new = [run EXCEPT !.at = "uploads"]
          /\ dumped = {t \in {"invoices", "schema_migrations"} :
                         IF t = "invoices" THEN tables # "none" ELSE ~Untracked}
          /\ content = [old EXCEPT !.rows = rows, !.dump = dumped]
  OBVIOUS
<1>2. /\ run.at = "dump" /\ proc' = [proc EXCEPT ![p] = new] /\ backup' = [backup EXCEPT ![proc[p].run] = content]
      /\ UNCHANGED <<files, rows>>
  BY <1>1, Zenon DEF DumpDatabase, BackupStep, Goto
<1>3. Saving(p) /\ BackingUp(p)
  BY <1>1, <1>2 DEF Saving, SavingAt, BackingUp
<1>4. /\ run \in SavingRun /\ old \in Directory /\ old.age = 0 /\ old.hosted = run.hosted /\ old.state = "partial"
  BY <1>1, <1>3 DEF BackupInv, SavingOK
<1>5. new \in SavingRun /\ new.at = "uploads" /\ new.run = run.run /\ new.hosted = run.hosted
  BY <1>1, <1>4 DEF SavingRun, SavingAt
<1>6. dumped \subseteq {"invoices", "schema_migrations"} /\ rows \subseteq Docs
  BY <1>1 DEF BackupInv
<1>7. /\ content \in Directory /\ content.state = "partial" /\ content.age = 0 /\ content.hosted = old.hosted
      /\ content.rows = rows
  BY <1>1, <1>4, <1>6 DEF Directory
<1>8. proc'[p] = new /\ Content(p)' = content
  BY <1>1, <1>2, <1>4, <1>5 DEF SchemaInv, SchemaType, BackupInv, Content, SavingRun
<1>9. SavingOK(p)'
  BY <1>2, <1>4, <1>5, <1>7, <1>8 DEF SavingOK
<1> QED
  BY <1>1, <1>2, <1>3, <1>5, <1>7, <1>9, DirectorySteps

LEMMA ArchiveUploadsKeeps ==
    ASSUME SchemaInv, BackupInv, NEW p \in Procs, ArchiveUploads(p)
    PROVE  BackupInv'
<1>1. PICK run, old, new, content :
          /\ run = proc[p] /\ old = Content(p) /\ new = [run EXCEPT !.at = "secrets"]
          /\ content = [old EXCEPT !.files = files]
  OBVIOUS
<1>2. /\ run.at = "uploads" /\ proc' = [proc EXCEPT ![p] = new]
      /\ backup' = [backup EXCEPT ![proc[p].run] = content] /\ UNCHANGED <<files, rows>>
  BY <1>1 DEF ArchiveUploads, BackupStep, Goto
<1>3. Saving(p) /\ BackingUp(p)
  BY <1>1, <1>2 DEF Saving, SavingAt, BackingUp
<1>4. /\ run \in SavingRun /\ old \in Directory /\ old.age = 0 /\ old.hosted = run.hosted /\ old.state = "partial"
      /\ old.rows \subseteq rows
  BY <1>1, <1>2, <1>3 DEF BackupInv, SavingOK
<1>5. new \in SavingRun /\ new.at = "secrets" /\ new.run = run.run /\ new.hosted = run.hosted
  BY <1>1, <1>4 DEF SavingRun, SavingAt
<1>6. rows \subseteq files /\ files \subseteq Docs
  BY DEF BackupInv
<1>7. /\ content \in Directory /\ content.state = "partial" /\ content.age = 0 /\ content.hosted = old.hosted
      /\ content.rows = old.rows /\ content.files = files
  BY <1>1, <1>4, <1>6 DEF Directory
<1>8. proc'[p] = new /\ Content(p)' = content
  BY <1>1, <1>2, <1>4, <1>5 DEF SchemaInv, SchemaType, BackupInv, Content, SavingRun
<1>9. content.rows \subseteq content.files
  BY <1>4, <1>6, <1>7
<1>10. SavingOK(p)'
  BY <1>4, <1>5, <1>7, <1>8, <1>9 DEF SavingOK
<1> QED
  BY <1>1, <1>2, <1>3, <1>5, <1>7, <1>10, DirectorySteps

LEMMA ArchiveSecretsKeeps ==
    ASSUME SchemaInv, BackupInv, NEW p \in Procs, ArchiveSecrets(p)
    PROVE  BackupInv'
<1>1. PICK run, old, new, content :
          /\ run = proc[p] /\ old = Content(p) /\ new = [run EXCEPT !.at = "verify"]
          /\ content = [old EXCEPT !.secrets = TRUE]
  OBVIOUS
<1>2. /\ run.at = "secrets" /\ proc' = [proc EXCEPT ![p] = new]
      /\ backup' = [backup EXCEPT ![proc[p].run] = content] /\ UNCHANGED <<files, rows>>
  BY <1>1 DEF ArchiveSecrets, BackupStep, Goto
<1>3. Saving(p) /\ BackingUp(p)
  BY <1>1, <1>2 DEF Saving, SavingAt, BackingUp
<1>4. /\ run \in SavingRun /\ old \in Directory /\ old.age = 0 /\ old.hosted = run.hosted /\ old.state = "partial"
      /\ old.rows \subseteq old.files
  BY <1>1, <1>2, <1>3 DEF BackupInv, SavingOK
<1>5. new \in SavingRun /\ new.at = "verify" /\ new.run = run.run /\ new.hosted = run.hosted
  BY <1>1, <1>4 DEF SavingRun, SavingAt
<1>6. /\ content \in Directory /\ content.state = "partial" /\ content.age = 0 /\ content.hosted = old.hosted
      /\ content.rows = old.rows /\ content.files = old.files
  BY <1>1, <1>4 DEF Directory
<1>7. content.secrets
  BY <1>1, <1>4, Zenon DEF Directory
<1>8. proc'[p] = new /\ Content(p)' = content
  BY <1>1, <1>2, <1>4, <1>5 DEF SchemaInv, SchemaType, BackupInv, Content, SavingRun
<1>9. SavingOK(p)'
  BY <1>4, <1>5, <1>6, <1>7, <1>8 DEF SavingOK
<1> QED
  BY <1>1, <1>2, <1>3, <1>5, <1>6, <1>9, DirectorySteps

LEMMA VerifyBackupKeeps ==
    ASSUME SchemaInv, BackupInv, NEW p \in Procs, VerifyBackup(p)
    PROVE  BackupInv'
<1>1. PICK run, old, new, content :
          /\ run = proc[p] /\ old = Content(p) /\ new = [run EXCEPT !.at = "ship"]
          /\ content = [old EXCEPT !.state = "summed"]
  OBVIOUS
<1>2. /\ run.at = "verify" /\ proc' = [proc EXCEPT ![p] = new]
      /\ backup' = [backup EXCEPT ![proc[p].run] = content] /\ UNCHANGED <<files, rows>>
      /\ Required(p) \in old.dump
  BY <1>1 DEF VerifyBackup, BackupStep, Goto
<1>3. Saving(p) /\ BackingUp(p)
  BY <1>1, <1>2 DEF Saving, SavingAt, BackingUp
<1>4. /\ run \in SavingRun /\ old \in Directory /\ old.age = 0 /\ old.hosted = run.hosted /\ old.state = "partial"
      /\ old.rows \subseteq old.files /\ old.secrets
  BY <1>1, <1>2, <1>3 DEF BackupInv, SavingOK
<1>5. new \in SavingRun /\ new.at = "ship" /\ new.run = run.run /\ new.hosted = run.hosted
  BY <1>1, <1>4 DEF SavingRun, SavingAt
<1>6. /\ content \in Directory /\ content.state = "summed" /\ content.age = 0 /\ content.hosted = old.hosted
      /\ content.rows = old.rows /\ content.files = old.files /\ content.dump = old.dump
      /\ content.secrets = old.secrets
  BY <1>1, <1>4 DEF Directory
<1>7. proc'[p] = new /\ Content(p)' = content /\ backup'[new.run] = content
  BY <1>1, <1>2, <1>4, <1>5 DEF SchemaInv, SchemaType, BackupInv, Content, SavingRun
<1>8. SavingOK(p)'
  BY <1>4, <1>5, <1>6, <1>7 DEF SavingOK, BackingUp
<1>9. Restorable(new.run)'
  <2>1. ~old.hosted => "schema_migrations" \in old.dump
    BY <1>1, <1>2, <1>4, Zenon DEF Required
  <2> QED
    BY <1>4, <1>6, <1>7, <2>1, Zenon DEF Restorable
<1> QED
  BY <1>1, <1>2, <1>3, <1>5, <1>6, <1>8, <1>9, DirectorySteps

LEMMA BackupFailsKeeps ==
    ASSUME SchemaInv, BackupInv, NEW p \in Procs, BackupFails(p)
    PROVE  BackupInv'
<1>1. PICK r : r = proc[p].run
  OBVIOUS
<1>2. /\ BackingUp(p) /\ proc' = [proc EXCEPT ![p] = Idle] /\ UNCHANGED <<files, rows>>
      /\ backup' = [backup EXCEPT ![r] = NoBackup] \/ backup' = backup
  BY <1>1, Zenon DEF BackupFails, Goto
<1>3. CASE backup' = backup
  BY <1>2, <1>3, NothingSaved, BackupStands DEF OfBackup, SavingAt
<1>4. CASE backup' = [backup EXCEPT ![r] = NoBackup]
  <2>1. Saving(p) /\ r \in Runs
    BY <1>1, <1>2 DEF BackupInv, BackingUp, Saving, SavingAt, SavingOK, SavingRun
  <2>2. backup'[r] = NoBackup /\ \A s \in Runs \ {r} : backup'[s] = backup[s]
    BY <1>4, <2>1 DEF BackupInv
  <2>3. \A s \in Runs \ {r} : Restorable(s)' <=> Restorable(s)
    BY <2>2 DEF Restorable
  <2>4. \A q \in Procs \ {p} : Saving(q) => proc[q].run \in Runs \ {r}
    BY <1>1, <2>1 DEF BackupInv, SavingOK, SavingRun
  <2>5. ~Saving(p)'
    BY <1>2 DEF SchemaInv, SchemaType, Saving, SavingAt, Idle
  <2>6. \A s \in Runs : backup'[s] \in Directory \cup {NoBackup} /\ (backup'[s].state = "summed" => Restorable(s)')
    BY <2>2, <2>3, NothingSaved DEF BackupInv
  <2>7. DOMAIN backup' = Runs
    BY <1>4 DEF BackupInv
  <2> QED
    BY <1>2, <2>2, <2>4, <2>5, <2>6, <2>7, NothingSaved, SavingSteps DEF BackupInv
<1> QED
  BY <1>2, <1>3, <1>4

LEMMA RotateKeeps ==
    ASSUME SchemaInv, BackupInv, NEW p \in Procs, Rotate(p)
    PROVE  BackupInv'
<1>1. proc' = [proc EXCEPT ![p] = Idle] /\ UNCHANGED <<files, rows>> /\ Retention \in Nat
  BY ImagesAreWellFormed DEF Rotate, Goto
<1>2. CASE backup' = backup
  BY <1>1, <1>2, NothingSaved, BackupStands DEF OfBackup, SavingAt
<1>3. CASE backup' = [r \in Runs |-> IF proc[p].hosted /\ backup[r].age > Retention THEN NoBackup ELSE backup[r]]
  <2>1. \A r \in Runs : \/ backup'[r] = backup[r]
                        \/ backup'[r] = NoBackup /\ backup[r].age > Retention
    BY <1>3, Zenon
  <2>2. \A q \in Procs : Saving(q) => proc[q].run \in Runs /\ backup[proc[q].run].age = 0
    BY DEF BackupInv, SavingOK, SavingRun, Content
  <2>3. \A q \in Procs : Saving(q) => backup'[proc[q].run] = backup[proc[q].run]
    BY <1>1, <2>1, <2>2
  <2>4. \A r \in Runs : backup'[r] = backup[r] => (Restorable(r)' <=> Restorable(r))
    BY DEF Restorable
  <2>5. \A r \in Runs : backup'[r] \in Directory \cup {NoBackup} /\ (backup'[r].state = "summed" => Restorable(r)')
    BY <2>1, <2>4, NothingSaved DEF BackupInv
  <2>6. ~Saving(p)' /\ DOMAIN backup' = Runs
    BY <1>1, <1>3 DEF SchemaInv, SchemaType, Saving, SavingAt, Idle
  <2> QED
    BY <1>1, <2>3, <2>5, <2>6, NothingSaved, SavingSteps DEF BackupInv
<1> QED
  BY <1>2, <1>3, Zenon DEF Rotate

LEMMA BackUpKeeps ==
    ASSUME SchemaInv, BackupInv, NEW p \in Procs, BackUp(p)
    PROVE  BackupInv'
BY StoreFileKeeps, StoreRowKeeps, StartBackupKeeps, DumpDatabaseKeeps, ArchiveUploadsKeeps, ArchiveSecretsKeeps,
   VerifyBackupKeeps, BackupFailsKeeps, RotateKeeps DEF BackUp

LEMMA DayPassesKeeps ==
    ASSUME BackupInv, DayPasses
    PROVE  BackupInv'
<1>1. /\ \A p \in Procs : ~Saving(p) /\ UNCHANGED <<files, rows, proc>>
      /\ backup' = [r \in Runs |-> IF backup[r] = NoBackup \/ backup[r].age = MaxAge
                                   THEN backup[r] ELSE [backup[r] EXCEPT !.age = @ + 1]]
  BY DEF DayPasses, Saving, SavingAt, BackingUp
<1>2. UNCHANGED <<files, rows, proc>> /\ \A p \in Procs : Saving(p)' <=> Saving(p)
  BY DEF DayPasses, Saving
<1>3. ASSUME NEW r \in Runs
      PROVE  backup'[r] \in Directory \cup {NoBackup} /\ (backup'[r].state = "summed" => Restorable(r)')
  <2>1. PICK old, new : old = backup[r] /\ new = [old EXCEPT !.age = old.age + 1]
    OBVIOUS
  <2>2. \/ backup'[r] = old
        \/ backup'[r] = new /\ old # NoBackup
    BY <1>1, <2>1
  <2>3. CASE backup'[r] = old
    BY <2>1, <2>3 DEF BackupInv, Restorable
  <2>4. CASE backup'[r] = new /\ old # NoBackup
    <3>1. old \in Directory
      BY <2>1, <2>4 DEF BackupInv
    <3>2. /\ new \in Directory /\ new.state = old.state /\ new.secrets = old.secrets /\ new.rows = old.rows
          /\ new.files = old.files /\ new.hosted = old.hosted /\ new.dump = old.dump
      BY <2>1, <3>1 DEF Directory
    <3>3. old.state = "summed" => Restorable(r)
      BY <2>1 DEF BackupInv
    <3>4. Restorable(r) => Restorable(r)'
      BY <2>1, <2>4, <3>2, Zenon DEF Restorable
    <3> QED
      BY <2>4, <3>2, <3>3, <3>4
  <2> QED
    BY <2>2, <2>3, <2>4
<1>4. DOMAIN backup' = Runs
  BY <1>1
<1> QED
  BY <1>1, <1>2, <1>3, <1>4 DEF BackupInv

-----------------------------------------------------------------------------
(* The whole installation                                                  *)

LEMMA OutsideFirstRun ==
    ASSUME FirstRunInv, NEW p \in Procs, ~InsideFirstRun(p)
    PROVE  Without(txlock, p) = txlock
BY ImagesAreWellFormed DEF FirstRunInv, RegistrationOK, Without

LEMMA MigrateStep ==
    ASSUME IInv, NEW p \in Procs, Migrate(p)
    PROVE  IInv'
<1>1. PICK new : proc' = [proc EXCEPT ![p] = new] /\ new.at \in OfMigration \cup {"idle"}
  BY MigrateMoves DEF IInv
<1>2. /\ proc[p].at \in OfMigration \cup {"idle"} /\ UNCHANGED <<firms, tokens, txlock, files, rows, backup>>
      /\ TablesStand
  BY MigrateMoves DEF IInv, TablesStand
<1>3. SchemaInv'
  BY MigrateKeeps DEF IInv
<1>4. new.at \notin Registering /\ new.at \notin OfBackup /\ ~InsideFirstRun(p)
  BY <1>1, <1>2 DEF OfMigration, Registering, OfBackup, SavingAt, InsideFirstRun
<1>5. FirstRunInv'
  BY <1>1, <1>2, <1>4, OutsideFirstRun, RegistrationEnds DEF IInv
<1>6. BackupInv'
  BY <1>1, <1>2, <1>4, BackupStands DEF IInv
<1> QED
  BY <1>3, <1>5, <1>6 DEF IInv

LEMMA FirstRunStep ==
    ASSUME IInv, NEW p \in Procs, FirstRun(p)
    PROVE  IInv'
<1>1. PICK new : proc' = [proc EXCEPT ![p] = new] /\ new.at \in OfFirstRun \cup {"idle"}
  BY FirstRunMoves DEF IInv
<1>2. /\ proc[p].at \in OfFirstRun \cup {"idle"}
      /\ UNCHANGED <<tables, executed, recorded, lock, files, rows, backup>>
  BY FirstRunMoves DEF IInv
<1>3. SchemaInv'
  BY <1>1, <1>2, SchemaStandsBeside DEF IInv
<1>4. new.at \notin OfBackup
  BY <1>1 DEF OfFirstRun, Registering, OfBackup, SavingAt
<1>5. FirstRunInv' /\ BackupInv'
  BY <1>1, <1>2, <1>4, FirstRunKeeps, BackupStands DEF IInv
<1> QED
  BY <1>3, <1>5 DEF IInv

LEMMA BackUpStep ==
    ASSUME IInv, NEW p \in Procs, BackUp(p)
    PROVE  IInv'
<1>1. PICK new : proc' = [proc EXCEPT ![p] = new] /\ new.at \in OfBackup \cup {"idle"}
  BY BackUpMoves DEF IInv
<1>2. /\ proc[p].at \in OfBackup \cup {"idle"}
      /\ UNCHANGED <<tables, executed, recorded, lock, firms, tokens, txlock>>
  BY BackUpMoves DEF IInv
<1>3. SchemaInv'
  BY <1>1, <1>2, SchemaStandsBeside DEF IInv
<1>4. new.at \notin Registering /\ ~InsideFirstRun(p)
  BY <1>1, <1>2 DEF OfBackup, SavingAt, Registering, InsideFirstRun
<1>5. FirstRunInv'
  BY <1>1, <1>2, <1>4, OutsideFirstRun, RegistrationEnds DEF IInv, TablesStand
<1>6. BackupInv'
  BY BackUpKeeps DEF IInv
<1> QED
  BY <1>3, <1>5, <1>6 DEF IInv

\* A process that is gone leaves its part as it stood, without its locks.
LEMMA DepartureStep ==
    ASSUME IInv, NEW p \in Procs, Crash(p) \/ Leave(p)
    PROVE  IInv'
<1>1. /\ proc' = [proc EXCEPT ![p] = Idle]
      /\ UNCHANGED <<tables, executed, recorded, firms, tokens, files, rows, backup>>
      /\ Idle.at \notin OfMigration /\ Idle.at \notin Registering /\ Idle.at \notin OfBackup
  BY DEF Crash, Leave, Goto, schemaVars, firmVars, backupVars, Idle, OfMigration, Registering, OfBackup, SavingAt
<1>2. lock' = Without(lock, p) /\ txlock' = Without(txlock, p)
  <2>1. CASE Crash(p)
    BY <2>1 DEF Crash
  <2>2. CASE Leave(p)
    <3>1. proc[p].at = "migrated" /\ UNCHANGED <<lock, txlock>>
      BY <2>2 DEF Leave, schemaVars, firmVars
    <3>2. lock # p /\ txlock # p
      BY <3>1 DEF IInv, SchemaInv, RunOK, Working, FirstRunInv, RegistrationOK, InsideFirstRun
    <3> QED
      BY <3>1, <3>2 DEF Without
  <2> QED
    BY <2>1, <2>2
<1>3. SchemaInv' /\ FirstRunInv' /\ BackupInv'
  BY <1>1, <1>2, RunEnds, RegistrationEnds, BackupStands DEF IInv, TablesStand
<1> QED
  BY <1>3 DEF IInv

LEMMA DayStep ==
    ASSUME IInv, DayPasses
    PROVE  IInv'
<1>1. UNCHANGED <<tables, executed, recorded, lock, firms, tokens, txlock, proc>>
  BY DEF DayPasses, schemaVars, firmVars
<1>2. SchemaInv' /\ BackupInv'
  BY <1>1, SchemaStands, DayPassesKeeps DEF IInv
<1>3. FirstRunInv'
  BY <1>1 DEF IInv, FirstRunInv, ByHand, TokensSpent, Consumed, RegistrationOK, InsideFirstRun
<1> QED
  BY <1>2, <1>3 DEF IInv

LEMMA StutterStep ==
    ASSUME IInv, UNCHANGED vars
    PROVE  IInv'
<1>1. UNCHANGED <<tables, executed, recorded, lock, firms, tokens, txlock, files, rows, backup, proc>>
  BY DEF vars, schemaVars, firmVars, backupVars
<1>2. SchemaInv'
  BY <1>1, SchemaStands DEF IInv
<1>3. FirstRunInv'
  BY <1>1 DEF IInv, FirstRunInv, ByHand, TokensSpent, Consumed, RegistrationOK, InsideFirstRun
<1>4. BackupInv'
  BY <1>1 DEF IInv, BackupInv, Restorable, Saving, SavingOK, Content, BackingUp
<1> QED
  BY <1>2, <1>3, <1>4 DEF IInv

LEMMA Invariance == Spec => []IInv
<1>1. Init => IInv
  BY SchemaStarts, FirstRunStarts, BackupStarts DEF IInv
<1>2. IInv /\ [Next]_vars => IInv'
  BY MigrateStep, FirstRunStep, BackUpStep, DepartureStep, DayStep, StutterStep DEF Next
<1> QED
  BY <1>1, <1>2, PTL DEF Spec

-----------------------------------------------------------------------------
(* Theorems                                                                *)

\* Whatever fails, dies or runs beside another run, a migration that runs in a
\* transaction takes effect once, with its row, the baseline at most once, and
\* none before the ones its manifest lists before it (lib/migrations.mjs).
THEOREM MigrationsApplyOnce == Spec => []MigrationsApplyOnceInOrder
<1>1. IInv => MigrationsApplyOnceInOrder
  <2>1. SUFFICES ASSUME IInv PROVE MigrationsApplyOnceInOrder
    OBVIOUS
  <2>2. \A v \in Versions \ Plain : v # Baseline => executed[v] = IF recorded[v] = None THEN 0 ELSE 1
    BY <2>1 DEF IInv, SchemaInv, VersionOK
  <2>3. executed[Baseline] <= 1
    BY <2>1, ImagesAreWellFormed DEF IInv, SchemaInv, VersionOK
  <2>4. InOrder
    BY <2>1 DEF IInv, SchemaInv
  <2> QED
    BY <2>2, <2>3, <2>4 DEF MigrationsApplyOnceInOrder, InOrder
<1> QED
  BY <1>1, Invariance, PTL

\* A portal that compose has started finds the baseline and every migration of
\* its image applied and recorded, whatever other runs did meanwhile.
THEOREM PortalsServeMigrated == Spec => []ServesOnlyMigrated
<1>1. IInv => ServesOnlyMigrated
  <2>1. SUFFICES ASSUME IInv, NEW p \in Procs, proc[p].at = "migrated"
                 PROVE  /\ recorded[Baseline] # None /\ tables # "none"
                        /\ \A i \in DOMAIN Manifest[proc[p].img] :
                              /\ recorded[Manifest[proc[p].img][i]] # None
                              /\ executed[Manifest[proc[p].img][i]] > 0
    BY DEF ServesOnlyMigrated
  <2> QED
    BY <2>1 DEF IInv, SchemaInv, RunOK, HasBaseline, Applied
<1> QED
  BY <1>1, Invariance, PTL

\* A server gets one firm by registration, and one token is spent exactly when
\* it made it; a server adopted with its firm has none spent (lib/first-run.ts).
THEOREM OnlyOneFirstFirm == Spec => []OneFirstFirm
<1>1. IInv => OneFirstFirm
  <2>1. SUFFICES ASSUME IInv PROVE OneFirstFirm
    OBVIOUS
  <2>2. firms \in {0, 1} /\ TokensSpent
    BY <2>1 DEF IInv, FirstRunInv
  <2>3. CASE executed[Baseline] > 0 /\ firms = 1
    <3>1. PICK t \in Tokens : Consumed = {t}
      BY <2>2, <2>3 DEF TokensSpent
    <3>2. Cardinality(Consumed) = 1
      BY <3>1, FS_Singleton
    <3> QED
      BY <2>3, <3>2 DEF OneFirstFirm, Consumed
  <2>4. CASE ~(executed[Baseline] > 0 /\ firms = 1)
    <3>1. Cardinality(Consumed) = 0
      BY <2>2, <2>4, FS_EmptySet DEF TokensSpent
    <3> QED
      BY <2>2, <2>4, <3>1 DEF OneFirstFirm, Consumed
  <2> QED
    BY <2>3, <2>4
<1> QED
  BY <1>1, Invariance, PTL

\* Every run the cutover gate accepts, indeed every run with its checksums, has
\* the secrets and all documents the rows of its dump name, although uploads go
\* on while it is made (scripts/backup-*.sh).
THEOREM BackupsAreRestorable == Spec => []BackupIsRestorable
<1>1. IInv => BackupIsRestorable
  BY DEF IInv, BackupInv, BackupIsRestorable, GateAccepts
<1> QED
  BY <1>1, Invariance, PTL
=============================================================================
