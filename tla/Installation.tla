------------------------------ MODULE Installation ------------------------------
(***************************************************************************)
(* One installation on its server: ksef_migrate runs (scripts/migrate.mjs  *)
(* with lib/migrations.mjs), the one-time setup token and the registration *)
(* of the first firm (lib/first-run.ts), and backups of the database and   *)
(* the uploaded documents taken while the portal works.                    *)
(*                                                                         *)
(* A process p of Procs executes one operation at a time; proc[p].at names *)
(* the statement it executes next.  A process at "migrated" stands for the *)
(* portal compose starts once its ksef_migrate run has exited with 0.      *)
(* Bounds: MaxOps operations are begun, MaxFaults statements fail or       *)
(* processes die, MaxAge days pass.                                        *)
(***************************************************************************)
EXTENDS Naturals, Sequences, FiniteSets

CONSTANTS Procs, Images, Versions, Plain, Sums, Tokens, Docs, Runs,
          Baseline,          \* the version of the baseline
          TokenTable,        \* the migration that creates setup_token
          Manifest,          \* image -> its post-cutover migrations, in order
          SumOf,             \* image -> version -> checksum of its file
          AllowDrift,        \* images run with MIGRATIONS_ALLOW_CHECKSUM_DRIFT
          None, MaxOps, MaxFaults, MaxAge, Retention

\* loadManifest(): every entry has a version, and none is listed twice.
WellFormed(manifest) ==
    /\ manifest \in Seq(Versions \ {Baseline})
    /\ \A i, j \in DOMAIN manifest : manifest[i] = manifest[j] => i = j

\* The list is kept by hand and grows: a migration follows the same ones in
\* every image that has it (db/migrations/manifest.json).
Before(img, i) == {Manifest[img][k] : k \in 1..(i - 1)}
OnlyGrow(images) ==
    \A a, b \in images : \A i \in DOMAIN Manifest[a], j \in DOMAIN Manifest[b] :
        Manifest[a][i] = Manifest[b][j] => Before(a, i) = Before(b, j)

ASSUME ImagesAreWellFormed ==
    /\ None \notin Procs \cup Sums
    /\ {Baseline, TokenTable} \subseteq Versions /\ Plain \subseteq Versions \ {Baseline}
    /\ AllowDrift \subseteq Images
    /\ SumOf \in [Images -> [Versions -> Sums]]
    /\ \A img \in Images : WellFormed(Manifest[img])
    /\ OnlyGrow(Images)
    /\ {MaxOps, MaxFaults, MaxAge, Retention} \subseteq Nat

VARIABLES tables,     \* the tables of the database, as the audit sees them
          executed,   \* version -> how often its SQL took effect
          recorded,   \* version -> checksum in schema_migrations
          lock,       \* holder of the migration lock
          firms,      \* number of rows of firms
          tokens,     \* setup_token
          txlock,     \* holder of the first-run lock
          files, rows,     \* stored documents, rows that name one
          backup,     \* backup run directories
          proc, ops, faults
schemaVars == <<tables, executed, recorded, lock>>
firmVars == <<firms, tokens, txlock>>
backupVars == <<files, rows, backup>>
vars == <<schemaVars, firmVars, backupVars, proc, ops, faults>>

Idle == [at |-> "idle"]
NoBackup == [state |-> "absent", age |-> 0]

\* A server before its first ksef_migrate: a new one, or one whose tables were
\* made by hand, as the baseline says or not.
Untouched == /\ tables \in {"none", "matching", "differing"}
             /\ executed = [v \in Versions |-> 0] /\ recorded = [v \in Versions |-> None]
             /\ firms = (IF tables = "none" THEN 0 ELSE 1)
             /\ proc = [p \in Procs |-> Idle]

\* A new server on which an image was installed, its portal still without a firm.
Installed == \E img \in Images, p \in Procs :
    LET all == {Baseline} \cup {Manifest[img][i] : i \in DOMAIN Manifest[img]} IN
    /\ tables = "matching" /\ firms = 0
    /\ executed = [v \in Versions |-> IF v \in all THEN 1 ELSE 0]
    /\ recorded = [v \in Versions |-> IF v \in all THEN SumOf[img][v] ELSE None]
    /\ proc = [q \in Procs |-> IF q = p THEN [at |-> "migrated", img |-> img] ELSE Idle]

Init == /\ Untouched \/ Installed
        /\ tokens = [t \in Tokens |-> "absent"]
        /\ lock = None /\ txlock = None
        /\ files = {} /\ rows = {} /\ backup = [r \in Runs |-> NoBackup]
        /\ ops = 0 /\ faults = 0

Begin(p, record) == /\ proc[p] = Idle /\ ops < MaxOps
                    /\ ops' = ops + 1 /\ proc' = [proc EXCEPT ![p] = record]
                    /\ UNCHANGED faults

Goto(p, record) == /\ proc' = [proc EXCEPT ![p] = record] /\ UNCHANGED ops

Fault == faults < MaxFaults /\ faults' = faults + 1

\* The pg_advisory_lock of migrate() ends with the session, the one of
\* registerFirstFirm() with the transaction.
Without(holder, p) == IF holder = p THEN None ELSE holder

-----------------------------------------------------------------------------
(* migrate()                                                               *)

StartMigration(p) == \E img \in Images, confirmed \in BOOLEAN :
    /\ Begin(p, [at |-> "waiting", img |-> img, confirmed |-> confirmed])
    /\ UNCHANGED <<schemaVars, firmVars, backupVars>>

\* Mutant: a run that finds the lock taken leaves the work to the other one.
TakeLockOrPass(p) ==
    /\ proc[p].at = "waiting"
    /\ IF lock = None THEN lock' = p /\ Goto(p, [proc[p] EXCEPT !.at = "locked"])
       ELSE UNCHANGED lock /\ Goto(p, [at |-> "migrated", img |-> proc[p].img])
    /\ UNCHANGED <<tables, executed, recorded, firmVars, backupVars, faults>>

TakeLock(p) ==
    /\ proc[p].at = "waiting" /\ lock = None
    /\ lock' = p /\ Goto(p, [proc[p] EXCEPT !.at = "locked"])
    /\ UNCHANGED <<tables, executed, recorded, firmVars, backupVars, faults>>

Apply(p, i, pending) == [at |-> "applying", img |-> proc[p].img, i |-> i, pending |-> pending]

\* The run ends: the lock is released, whatever was found.
EndMigration(p, record) == lock' = None /\ Goto(p, record)

Refuse(p) == EndMigration(p, Idle)

Sum(p, v) == SumOf[proc[p].img][v]
Untracked == recorded[Baseline] = None

FreshInstall(p) ==
    /\ proc[p].at = "locked" /\ Untracked /\ tables = "none"
    /\ tables' = "matching"
    /\ executed' = [executed EXCEPT ![Baseline] = @ + 1]
    /\ recorded' = [recorded EXCEPT ![Baseline] = Sum(p, Baseline)]
    /\ Goto(p, Apply(p, 1, FALSE))
    /\ UNCHANGED <<lock, firmVars, backupVars, faults>>

\* snapshotSchema() and diffSnapshots(): nothing of the baseline is missing or
\* different; what a database has beyond it does not matter.
AuditPasses == tables = "matching"

\* An existing database whose audit finds nothing missing and nothing
\* different is recorded, once the operator confirms; no SQL is executed.
Adopt(p) ==
    /\ proc[p].at = "locked" /\ Untracked /\ AuditPasses /\ proc[p].confirmed
    /\ recorded' = [recorded EXCEPT ![Baseline] = Sum(p, Baseline)]
    /\ Goto(p, Apply(p, 1, FALSE))
    /\ UNCHANGED <<tables, executed, lock, firmVars, backupVars, faults>>

Drifted(p, v) == recorded[v] # Sum(p, v) /\ proc[p].img \notin AllowDrift

Upgrade(p) ==
    /\ proc[p].at = "locked" /\ ~Untracked /\ ~Drifted(p, Baseline)
    /\ Goto(p, Apply(p, 1, FALSE))
    /\ UNCHANGED <<schemaVars, firmVars, backupVars, faults>>

RefuseBaseline(p) ==
    /\ proc[p].at = "locked"
    /\ IF Untracked
       THEN tables # "none" /\ ~(AuditPasses /\ proc[p].confirmed)
       ELSE Drifted(p, Baseline)
    /\ Refuse(p)
    /\ UNCHANGED <<tables, executed, recorded, firmVars, backupVars, faults>>

AtVersion(p) == /\ proc[p].at = "applying"
                /\ proc[p].i <= Len(Manifest[proc[p].img])
Version(p) == Manifest[proc[p].img][proc[p].i]

SkipApplied(p) ==
    /\ AtVersion(p) /\ recorded[Version(p)] # None
    /\ ~proc[p].pending /\ ~Drifted(p, Version(p))
    /\ Goto(p, Apply(p, proc[p].i + 1, FALSE))
    /\ UNCHANGED <<schemaVars, firmVars, backupVars, faults>>

RefuseVersion(p) ==
    /\ AtVersion(p) /\ recorded[Version(p)] # None
    /\ proc[p].pending \/ Drifted(p, Version(p))
    /\ Refuse(p)
    /\ UNCHANGED <<tables, executed, recorded, firmVars, backupVars, faults>>

\* The SQL and its row in one transaction.  The answer to the COMMIT may be
\* lost: then the run fails although the migration took effect.
ApplyVersion(p) ==
    LET v == Version(p) IN
    /\ AtVersion(p) /\ recorded[v] = None /\ v \notin Plain
    /\ executed' = [executed EXCEPT ![v] = @ + 1]
    /\ recorded' = [recorded EXCEPT ![v] = Sum(p, v)]
    /\ \/ Goto(p, Apply(p, proc[p].i + 1, TRUE)) /\ UNCHANGED <<lock, faults>>
       \/ Refuse(p) /\ Fault
    /\ UNCHANGED <<tables, firmVars, backupVars>>

\* A migration declared non-transactional: its row is a second statement.
ExecutePlain(p) ==
    LET v == Version(p) IN
    /\ AtVersion(p) /\ recorded[v] = None /\ v \in Plain
    /\ executed' = [executed EXCEPT ![v] = @ + 1]
    /\ Goto(p, [proc[p] EXCEPT !.at = "executed"])
    /\ UNCHANGED <<tables, recorded, lock, firmVars, backupVars, faults>>

RecordPlain(p) ==
    /\ proc[p].at = "executed"
    /\ recorded' = [recorded EXCEPT ![Version(p)] = Sum(p, Version(p))]
    /\ Goto(p, Apply(p, proc[p].i + 1, TRUE))
    /\ UNCHANGED <<tables, executed, lock, firmVars, backupVars, faults>>

\* Mutant: the statements of a transactional migration that fails stay.
MigrationFailsHalfway(p) ==
    /\ AtVersion(p) /\ recorded[Version(p)] = None
    /\ executed' = [executed EXCEPT ![Version(p)] = @ + 1]
    /\ Fault /\ Refuse(p)
    /\ UNCHANGED <<tables, recorded, firmVars, backupVars>>

\* A statement fails; a transaction under way is rolled back.
MigrationFails(p) ==
    /\ proc[p].at \in {"locked", "applying", "executed"}
    /\ Fault /\ Refuse(p)
    /\ UNCHANGED <<tables, executed, recorded, firmVars, backupVars>>

FinishMigration(p) ==
    /\ proc[p].at = "applying" /\ proc[p].i > Len(Manifest[proc[p].img])
    /\ EndMigration(p, [at |-> "migrated", img |-> proc[p].img])
    /\ UNCHANGED <<tables, executed, recorded, firmVars, backupVars, faults>>

Migrate(p) ==
    \/ StartMigration(p) \/ TakeLock(p) \/ FreshInstall(p) \/ Adopt(p) \/ Upgrade(p)
    \/ RefuseBaseline(p) \/ SkipApplied(p) \/ RefuseVersion(p) \/ ApplyVersion(p)
    \/ ExecutePlain(p) \/ RecordPlain(p) \/ MigrationFails(p) \/ FinishMigration(p)

-----------------------------------------------------------------------------
(* The setup token and the first firm                                      *)

PortalIsUp == \E p \in Procs : proc[p].at = "migrated"
InsideFirstRun(p) == proc[p].at \in {"inside", "counted", "claimed"}

\* issueSetupToken(): three statements, no transaction.
CheckNoFirm(p) ==
    /\ executed[TokenTable] > 0 /\ firms = 0 /\ Begin(p, [at |-> "checked"])
    /\ UNCHANGED <<schemaVars, firmVars, backupVars>>

\* The DELETE waits for the row a registration has claimed.
DropTokens(p) ==
    /\ proc[p].at = "checked" /\ \A q \in Procs : proc[q].at # "claimed"
    /\ tokens' = [t \in Tokens |-> IF tokens[t] = "live" THEN "absent" ELSE tokens[t]]
    /\ Goto(p, [at |-> "dropped"])
    /\ UNCHANGED <<schemaVars, firms, txlock, backupVars, faults>>

InsertToken(p) ==
    /\ proc[p].at = "dropped"
    /\ \E t \in Tokens : tokens[t] = "absent" /\ tokens' = [tokens EXCEPT ![t] = "live"]
    /\ Goto(p, Idle)
    /\ UNCHANGED <<schemaVars, firms, txlock, backupVars, faults>>

\* registerFirstFirm(), reached through POST /api/auth/register.
Register(p) ==
    /\ PortalIsUp
    /\ \E t \in Tokens : Begin(p, [at |-> "knocking", token |-> t])
    /\ UNCHANGED <<schemaVars, firmVars, backupVars>>

LockFirstRun(p) ==
    /\ proc[p].at = "knocking" /\ txlock = None
    /\ txlock' = p /\ Goto(p, [proc[p] EXCEPT !.at = "inside"])
    /\ UNCHANGED <<schemaVars, firms, tokens, backupVars, faults>>

RollBack(p) == txlock' = None /\ Goto(p, Idle) /\ UNCHANGED <<firms, tokens>>

CountFirms(p) ==
    /\ proc[p].at = "inside"
    /\ IF firms = 0 THEN Goto(p, [proc[p] EXCEPT !.at = "counted"]) /\ UNCHANGED firmVars
                    ELSE RollBack(p)
    /\ UNCHANGED <<schemaVars, backupVars, faults>>

\* Mutant: the token is consumed on a connection of its own.
ClaimTokenAtOnce(p) ==
    /\ proc[p].at = "counted" /\ tokens[proc[p].token] = "live"
    /\ tokens' = [tokens EXCEPT ![proc[p].token] = "consumed"]
    /\ Goto(p, [proc[p] EXCEPT !.at = "claimed"])
    /\ UNCHANGED <<schemaVars, firms, txlock, backupVars, faults>>

ClaimToken(p) ==
    /\ proc[p].at = "counted"
    /\ IF tokens[proc[p].token] = "live"
       THEN Goto(p, [proc[p] EXCEPT !.at = "claimed"]) /\ UNCHANGED firmVars
       ELSE RollBack(p)
    /\ UNCHANGED <<schemaVars, backupVars, faults>>

\* The insert, each try under its savepoint, and the COMMIT.
CommitFirm(p) ==
    /\ proc[p].at = "claimed"
    /\ firms' = firms + 1 /\ tokens' = [tokens EXCEPT ![proc[p].token] = "consumed"]
    /\ txlock' = None /\ Goto(p, Idle)
    /\ UNCHANGED <<schemaVars, backupVars, faults>>

RegistrationFails(p) ==
    /\ InsideFirstRun(p) /\ Fault /\ RollBack(p)
    /\ UNCHANGED <<schemaVars, backupVars>>

FirstRun(p) ==
    \/ CheckNoFirm(p) \/ DropTokens(p) \/ InsertToken(p) \/ Register(p)
    \/ LockFirstRun(p) \/ CountFirms(p) \/ ClaimToken(p) \/ CommitFirm(p)
    \/ RegistrationFails(p)

-----------------------------------------------------------------------------
(* Backups                                                                 *)

\* An upload writes its file (saveUploadedFile) before the row that names it.
StoreFile(p) == \E d \in Docs \ files :
    /\ PortalIsUp /\ Begin(p, [at |-> "stored", doc |-> d])
    /\ files' = files \cup {d}
    /\ UNCHANGED <<schemaVars, firmVars, rows, backup>>
StoreRow(p) == /\ proc[p].at = "stored"
               /\ rows' = rows \cup {proc[p].doc} /\ Goto(p, Idle)
               /\ UNCHANGED <<schemaVars, firmVars, files, backup, faults>>

\* hosted: backup-ksef.sh, otherwise backup-local.sh.
StartBackup(p) == \E r \in Runs, hosted \in BOOLEAN :
    /\ backup[r] = NoBackup
    /\ Begin(p, [at |-> "dump", run |-> r, hosted |-> hosted])
    /\ backup' = [backup EXCEPT ![r] = [state |-> "partial", age |-> 0, hosted |-> hosted,
                      dump |-> {}, rows |-> {}, files |-> {}, secrets |-> FALSE]]
    /\ UNCHANGED <<schemaVars, firmVars, files, rows>>

BackingUp(p) == proc[p].at \in {"dump", "uploads", "secrets", "verify"}
Content(p) == backup[proc[p].run]
BackupStep(p, from, to, content) ==
    /\ proc[p].at = from
    /\ backup' = [backup EXCEPT ![proc[p].run] = content]
    /\ Goto(p, [proc[p] EXCEPT !.at = to])
    /\ UNCHANGED <<schemaVars, firmVars, files, rows, faults>>

DumpDatabase(p) == BackupStep(p, "dump", "uploads",
    [Content(p) EXCEPT !.rows = rows,
        !.dump = {t \in {"invoices", "schema_migrations"} :
                    IF t = "invoices" THEN tables # "none" ELSE ~Untracked}])
ArchiveUploads(p) == BackupStep(p, "uploads", "secrets", [Content(p) EXCEPT !.files = files])

\* Mutant: the database is dumped after the uploads.
ArchiveSecretsThenDump(p) == BackupStep(p, "secrets", "verify",
    [Content(p) EXCEPT !.secrets = TRUE, !.rows = rows])

ArchiveSecrets(p) == BackupStep(p, "secrets", "verify", [Content(p) EXCEPT !.secrets = TRUE])

\* The archives are read back and the dump must hold a table everybody needs;
\* then SHA256SUMS is written.
Required(p) == IF proc[p].hosted THEN "invoices" ELSE "schema_migrations"
VerifyBackup(p) ==
    /\ proc[p].at = "verify" /\ Required(p) \in Content(p).dump
    /\ BackupStep(p, "verify", "ship", [Content(p) EXCEPT !.state = "summed"])

\* A run that fails, or whose dump is refused, is removed (hosted) or left
\* without its checksums (local).
BackupFails(p) ==
    /\ BackingUp(p)
    /\ \/ proc[p].at = "verify" /\ Required(p) \notin Content(p).dump /\ UNCHANGED faults
       \/ Fault
    /\ backup' = IF proc[p].hosted THEN [backup EXCEPT ![proc[p].run] = NoBackup] ELSE backup
    /\ Goto(p, Idle)
    /\ UNCHANGED <<schemaVars, firmVars, files, rows>>

\* Only a hosted run that was shipped as well removes old ones.
Rotate(p) ==
    /\ proc[p].at = "ship"
    /\ \/ backup' = [r \in Runs |-> IF proc[p].hosted /\ backup[r].age > Retention
                                    THEN NoBackup ELSE backup[r]]
          /\ UNCHANGED faults
       \/ Fault /\ UNCHANGED backup
    /\ Goto(p, Idle)
    /\ UNCHANGED <<schemaVars, firmVars, files, rows>>

\* Days; a backup takes less than one.
DayPasses ==
    /\ \E r \in Runs : backup[r] # NoBackup /\ backup[r].age < MaxAge
    /\ \A p \in Procs : ~BackingUp(p) /\ proc[p].at # "ship"
    /\ backup' = [r \in Runs |-> IF backup[r] = NoBackup \/ backup[r].age = MaxAge
                                 THEN backup[r] ELSE [backup[r] EXCEPT !.age = @ + 1]]
    /\ UNCHANGED <<schemaVars, firmVars, files, rows, proc, ops, faults>>

\* backupDecision() of the cutover gate: a recent run with checksums of a dump
\* and of the secrets.
GateAccepts(r) == backup[r].state = "summed" /\ backup[r].age = 0

\* What verify-local-backup.sh needs of a run to restore it.
Restorable(r) == /\ backup[r].secrets
                 /\ backup[r].rows \subseteq backup[r].files
                 /\ ~backup[r].hosted => "schema_migrations" \in backup[r].dump

BackUp(p) ==
    \/ StoreFile(p) \/ StoreRow(p)
    \/ StartBackup(p) \/ DumpDatabase(p) \/ ArchiveUploads(p) \/ ArchiveSecrets(p)
    \/ VerifyBackup(p) \/ BackupFails(p) \/ Rotate(p)

-----------------------------------------------------------------------------
\* A process dies, or loses its database session: its locks and its open
\* transaction go with it.
Crash(p) ==
    /\ proc[p] # Idle /\ Fault
    /\ lock' = Without(lock, p) /\ txlock' = Without(txlock, p) /\ Goto(p, Idle)
    /\ UNCHANGED <<tables, executed, recorded, firms, tokens, backupVars>>

\* A portal is replaced.
Leave(p) == /\ proc[p].at = "migrated" /\ Goto(p, Idle)
            /\ UNCHANGED <<schemaVars, firmVars, backupVars, faults>>

Next == \/ \E p \in Procs : Migrate(p) \/ FirstRun(p) \/ BackUp(p) \/ Crash(p) \/ Leave(p)
        \/ DayPasses

Spec == Init /\ [][Next]_vars

-----------------------------------------------------------------------------
(* Properties                                                              *)

Places == {"idle", "waiting", "locked", "applying", "executed", "migrated",
           "checked", "dropped", "knocking", "inside", "counted", "claimed",
           "stored", "dump", "uploads", "secrets", "verify", "ship"}

\* Types of the state; the migration lock is held exactly while a run works
\* under it, the first-run lock exactly while a registration does.
TypeOK ==
    /\ tables \in {"none", "matching", "differing"}
    /\ executed \in [Versions -> Nat] /\ recorded \in [Versions -> Sums \cup {None}]
    /\ firms \in Nat /\ tokens \in [Tokens -> {"absent", "live", "consumed"}]
    /\ rows \subseteq files /\ files \subseteq Docs
    /\ \A r \in Runs : backup[r].state \in {"absent", "partial", "summed"} /\ backup[r].age \in 0..MaxAge
    /\ \A p \in Procs :
          /\ proc[p].at \in Places
          /\ lock = p <=> proc[p].at \in {"locked", "applying", "executed"}
          /\ txlock = p <=> InsideFirstRun(p)
    /\ ops \in 0..MaxOps /\ faults \in 0..MaxFaults

\* A migration and its row commit together or not at all (migrations.mjs:363):
\* whatever fails, dies or runs twice, the SQL of a transactional migration
\* takes effect exactly once, and of no migration before the ones listed
\* before it.
MigrationsApplyOnceInOrder ==
    /\ \A v \in Versions \ Plain : v # Baseline =>
          executed[v] = IF recorded[v] = None THEN 0 ELSE 1
    /\ executed[Baseline] <= 1
    /\ \A img \in Images : \A i, j \in DOMAIN Manifest[img] :
          i < j /\ executed[Manifest[img][j]] > 0 => recorded[Manifest[img][i]] # None

\* A run that ends well, and so lets its portal start, leaves the whole schema
\* of its image applied, also when it started beside another run that failed
\* half-way ("never skip ahead and serve against a half-migrated database",
\* migrations.mjs:25).
ServesOnlyMigrated ==
    \A p \in Procs : proc[p].at = "migrated" =>
        /\ recorded[Baseline] # None /\ tables # "none"
        /\ \A i \in DOMAIN Manifest[proc[p].img] :
              LET v == Manifest[proc[p].img][i] IN recorded[v] # None /\ executed[v] > 0

\* There is one first firm, and a token is spent exactly when it created it:
\* not burned by a failed attempt, not usable beside a firm although the
\* script that issues tokens checks and writes in separate statements.
OneFirstFirm ==
    /\ firms <= 1
    /\ Cardinality({t \in Tokens : tokens[t] = "consumed"}) =
          IF executed[Baseline] > 0 THEN firms ELSE 0

\* A backup the cutover gate accepts can be restored: the secrets are there and
\* every document a row of its dump names is in its archive of the uploads,
\* although the portal stores documents while the backup runs.
BackupIsRestorable == \A r \in Runs : GateAccepts(r) => Restorable(r)
=============================================================================
