--------------------------------- MODULE Schema ---------------------------------
(***************************************************************************)
(* The schema of the database and what the repository has to change, save   *)
(* and restore it: the migrate command of the server binary over the        *)
(* migrations of db/migrations, deploy/backup.sh and deploy/restore.sh.     *)
(* Nothing keeps these processes apart: any of them may run beside another, *)
(* fail, or be killed between two of its steps.                            *)
(***************************************************************************)
EXTENDS Integers, FiniteSets

CONSTANTS
  Migrators,   \* migrate processes that may run at a time
  Retention,   \* for so many days a local dump is kept
  MaxId,       \* BOUND: the ids of the version table
  MaxFiles,    \* BOUND: the dumps in BACKUP_DIR
  None

ASSUME SchemaAssumption ==
  /\ Retention \in Nat /\ MaxId \in Nat /\ MaxFiles \in Nat
  /\ None \notin [up : BOOLEAN, plan : SUBSET (1..3), at : {"between", "changed", "recorded"},
                  holds : BOOLEAN, ids : SUBSET (1..MaxId), orphan : BOOLEAN]

(* The migrations, in their order.                                         *)
Baseline == 1
ClipsTable == 2
Autovacuum == 3
Versions == {Baseline, ClipsTable, Autovacuum}

VARIABLES
  db,       \* the database
  run,      \* the migrate processes: what each has left to do and has open, or None
  doubt,    \* history: what has happened to the database beside migrations
  dumps,    \* the files in BACKUP_DIR
  remote,   \* those at BACKUP_REMOTE: are they whole
  backup,   \* the stage backup.sh is at, and the dump it makes
  kept      \* history: a run of backup.sh has succeeded

schemaVars == <<db, run, doubt, dumps, remote, backup, kept>>

backupVars == <<dumps, remote, backup, kept>>

(* What is committed: the clips table, its autovacuum settings, and goose's *)
(* version table, which may lack the row it is made with ("bare"), with the *)
(* ids of each version's rows, of which there may be several.              *)
Databases == [table : BOOLEAN, tuned : BOOLEAN, versioned : {"no", "bare", "yes"},
              rows : [Versions -> SUBSET (1..MaxId)]]

EmptyDb == [table |-> FALSE, tuned |-> FALSE, versioned |-> "no",
            rows |-> [v \in Versions |-> {}]]

(* The migrate processes ran one at a time; some overlapped, all of them    *)
(* up; others overlapped; a restore was not whole, or met a database that   *)
(* was not empty and left alone.                                           *)
Doubts == {"none", "ups", "overlap", "restore"}

(* Up goes through the versions that are left, Down takes back one.  A      *)
(* process is between two transactions, or has one open, in which it has    *)
(* changed the schema, or written or deleted the rows ids as well; it may   *)
(* hold the lock on clips. When it is gone with its transaction open, its  *)
(* session is left at the database.                                        *)
Runs == {r \in [up : BOOLEAN, plan : SUBSET Versions, at : {"between", "changed", "recorded"},
                holds : BOOLEAN, ids : SUBSET (1..MaxId), orphan : BOOLEAN] :
           ~r.up => \E v \in Versions : r.plan \subseteq {v}}

(* A dump: the database it was taken of, whether all of it was written, and *)
(* its days.                                                               *)
Files == [of : Databases, whole : BOOLEAN, age : 0..Retention + 1]

Stages == {"dumping", "copying", "pruning"}

Applied(d) == {v \in Versions : d.rows[v] # {}}

SchemaTypeOK ==
  /\ db \in Databases
  /\ run \in [Migrators -> Runs \cup {None}]
  /\ doubt \in Doubts
  /\ dumps \subseteq Files
  /\ remote \subseteq BOOLEAN
  /\ backup \in [stage : Stages \cup {"none"}, of : Databases, whole : BOOLEAN]
  /\ kept \in BOOLEAN

NoBackup == [stage |-> "none", of |-> EmptyDb, whole |-> FALSE]

SchemaInit ==
  /\ db = EmptyDb /\ doubt = "none"
  /\ run = [m \in Migrators |-> None]
  /\ dumps = {} /\ remote = {} /\ backup = NoBackup /\ kept = FALSE

--------------------------------------------------------------------------------
(* migrate. *)

Touched == [db EXCEPT !.versioned = IF @ = "no" THEN "yes" ELSE @]

(* CheckPending, of a server's startup or its health endpoint, and migrate  *)
(* status read, but goose makes its version table first.                   *)
Check ==
  /\ db' = Touched
  /\ UNCHANGED <<run, doubt, backupVars>>

(* A version that was passed over makes goose refuse.                      *)
PassedOver(d) == \E v \in Versions \ Applied(d) : \E w \in Applied(d) : v < w

(* One more process, beside those that are there.                          *)
DoubtWith(up) ==
  LET others == {n \in Migrators : run[n] # None}
  IN IF others = {} \/ doubt = "restore" THEN doubt
     ELSE IF up /\ doubt # "overlap" /\ \A n \in others : run[n].up THEN "ups" ELSE "overlap"

(* The process reads what has been applied and plans by it; goose refuses a *)
(* version table without its first row.                                    *)
Starts(m, up, plan) ==
  /\ run[m] = None /\ db.versioned # "bare"
  /\ run' = [run EXCEPT ![m] = [up |-> up, plan |-> plan, at |-> "between",
                                holds |-> FALSE, ids |-> {}, orphan |-> FALSE]]
  /\ db' = Touched
  /\ doubt' = DoubtWith(up)
  /\ UNCHANGED backupVars

Up(m) == ~PassedOver(db) /\ Starts(m, TRUE, Versions \ Applied(db))

(* The version whose row is the last, not the highest.                     *)
Latest(v) == \E id \in db.rows[v] : \A w \in Versions : \A i \in db.rows[w] : i <= id

(* Mutant: everything is rolled back.                                       *)
DownToZero(m) == \E v \in Applied(db) : Latest(v) /\ Starts(m, FALSE, Applied(db))

Down(m) == \E v \in Applied(db) : Latest(v) /\ Starts(m, FALSE, {v})

(* Mutant: CREATE TABLE IF NOT EXISTS.                                      *)
UpFitsAgain(v) == v = Autovacuum => db.table

(* The Up section of a migration; CREATE TABLE fails on a table that        *)
(* exists, ALTER TABLE on one that does not.                               *)
UpFits(v) == (v = ClipsTable => ~db.table) /\ (v = Autovacuum => db.table)

UpSection(v) ==
  [db EXCEPT !.table = @ \/ v = ClipsTable, !.tuned = @ \/ v = Autovacuum]

(* The Down section: DROP TABLE IF EXISTS never fails.                     *)
DownFits(v) == v = Autovacuum => db.table

DownSection(v) ==
  [db EXCEPT !.table = @ /\ v # ClipsTable, !.tuned = @ /\ v \notin {ClipsTable, Autovacuum}]

(* The migrations of the plan are done in order.                           *)
NextOf(m, v) == run[m] # None /\ v \in run[m].plan /\ \A w \in run[m].plan : v <= w

Fits(m, v) == IF run[m].up THEN UpFits(v) ELSE DownFits(v)

(* A DROP TABLE IF EXISTS that finds no table locks nothing, and neither    *)
(* does the baseline.                                                      *)
Locks(m, v) == v # Baseline /\ (run[m].up \/ db.table)

Unlocked == \A n \in Migrators : run[n] # None => ~run[n].holds

(* A transaction is begun with the section of the next migration, which     *)
(* meets what others have committed, and waits while clips is locked.      *)
Change(m) ==
  \E v \in Versions :
    /\ NextOf(m, v) /\ run[m].at = "between" /\ Fits(m, v)
    /\ Locks(m, v) => Unlocked
    /\ run' = [run EXCEPT ![m].at = "changed", ![m].holds = Locks(m, v)]
    /\ UNCHANGED <<db, doubt, backupVars>>

(* The serial gives every row an id above those before it, committed or not. *)
NextId(id) ==
  LET given == UNION {db.rows[v] : v \in Versions}
                 \cup UNION {run[n].ids : n \in {k \in Migrators : run[k] # None}}
  IN (\A i \in given : i < id) /\ (id = 1 \/ id - 1 \in given)

(* INSERT of the version's row, or DELETE of those that are committed when  *)
(* it begins: a row that comes later is not deleted.  Two deletes of a row  *)
(* wait for each other; which is first makes no difference.                *)
Record(m) ==
  \E v \in Versions, ids \in SUBSET (1..MaxId) :
    /\ NextOf(m, v) /\ run[m].at = "changed" /\ ~run[m].orphan
    /\ IF run[m].up THEN \E id \in 1..MaxId : NextId(id) /\ ids = {id}
                    ELSE ids = db.rows[v]
    /\ run' = [run EXCEPT ![m].at = "recorded", ![m].ids = ids]
    /\ UNCHANGED <<db, doubt, backupVars>>

Changed(m, v) ==
  IF ~run[m].holds THEN db ELSE IF run[m].up THEN UpSection(v) ELSE DownSection(v)

(* COMMIT, the last thing an orphaned session may do.                      *)
Commit(m) ==
  \E v \in Versions :
    /\ NextOf(m, v) /\ run[m].at = "recorded"
    /\ db' = [Changed(m, v) EXCEPT
                !.rows[v] = IF run[m].up THEN @ \cup run[m].ids ELSE @ \ run[m].ids]
    /\ run' = [run EXCEPT ![m] =
                 IF run[m].orphan THEN None
                 ELSE [up |-> run[m].up, plan |-> run[m].plan \ {v}, at |-> "between",
                       holds |-> FALSE, ids |-> {}, orphan |-> FALSE]]
    /\ UNCHANGED <<doubt, backupVars>>

(* The process is killed, or loses its connection, in a transaction: until  *)
(* the database notices, the session keeps its lock, and a COMMIT that was  *)
(* sent may still be carried out.                                          *)
Killed(m) ==
  /\ run[m] # None /\ run[m].at # "between" /\ ~run[m].orphan
  /\ run' = [run EXCEPT ![m].orphan = TRUE]
  /\ UNCHANGED <<db, doubt, backupVars>>

(* The plan is done, a migration fails, the process is killed between two   *)
(* transactions, the database ends an orphaned session: a transaction that  *)
(* is open is rolled back, what was committed stays.                       *)
Ends(m) ==
  /\ run[m] # None
  /\ run' = [run EXCEPT ![m] = None]
  /\ UNCHANGED <<db, doubt, backupVars>>

--------------------------------------------------------------------------------
(* backup.sh. *)

At(stage) == backup.stage = stage

BackupGoesTo(stage) == backup' = [backup EXCEPT !.stage = stage]

(* pg_dump takes its snapshot.                                             *)
(* BOUND: it is of a database out of doubt, and finds room for a file.     *)
BackupBegins ==
  /\ At("none") /\ doubt = "none" /\ Cardinality(dumps) < MaxFiles
  /\ backup' = [stage |-> "dumping", of |-> db, whole |-> FALSE]
  /\ UNCHANGED <<db, run, doubt, dumps, remote, kept>>

Filed(whole) == dumps' = dumps \cup {[of |-> backup.of, whole |-> whole, age |-> 0]}

DumpEnds ==
  /\ At("dumping")
  /\ Filed(TRUE)
  /\ backup' = [backup EXCEPT !.stage = "copying", !.whole = TRUE]
  /\ UNCHANGED <<db, run, doubt, remote, kept>>

(* Mutant: without pipefail the script goes on.                            *)
AfterFailedDumpGoesOn == [backup EXCEPT !.stage = "copying"]

(* pg_dump fails and gzip does not: pipefail and set -e end the script.     *)
AfterFailedDump == NoBackup

(* A part of the dump is left in the file, here and when the script is      *)
(* killed meanwhile.                                                       *)
DumpFails ==
  /\ At("dumping")
  /\ Filed(FALSE)
  /\ backup' = AfterFailedDump
  /\ UNCHANGED <<db, run, doubt, remote, kept>>

(* rsync makes the file appear there as it is, or not at all.              *)
Copy ==
  /\ At("copying")
  /\ remote' = remote \cup {backup.whole}
  /\ BackupGoesTo("pruning")
  /\ UNCHANGED <<db, run, doubt, dumps, kept>>

(* No BACKUP_REMOTE is set.                                                *)
CopySkipped ==
  /\ At("copying")
  /\ BackupGoesTo("pruning")
  /\ UNCHANGED <<db, run, doubt, dumps, remote, kept>>

(* rsync fails, or the script is killed.                                   *)
BackupFails ==
  /\ At("copying") \/ At("pruning")
  /\ backup' = NoBackup
  /\ UNCHANGED <<db, run, doubt, dumps, remote, kept>>

(* find: the files that are older than Retention days, and no others.      *)
Prune ==
  /\ At("pruning")
  /\ dumps' = {f \in dumps : f.age <= Retention}
  /\ kept' = TRUE
  /\ backup' = NoBackup
  /\ UNCHANGED <<db, run, doubt, remote>>

(* BOUND: a backup ends on the day it began, and a file too old to be kept  *)
(* grows no older.                                                         *)
Day ==
  /\ At("none")
  /\ dumps' = {[f EXCEPT !.age = IF @ > Retention THEN @ ELSE @ + 1] : f \in dumps}
  /\ UNCHANGED <<db, run, doubt, remote, backup, kept>>

--------------------------------------------------------------------------------
(* restore.sh. *)

(* The operator empties the database for it, or does not.                  *)
NewDatabase ==
  /\ \A m \in Migrators : run[m] = None
  /\ db' = EmptyDb /\ doubt' = "none"
  /\ UNCHANGED <<run, backupVars>>

(* psql goes on after an error: a table that exists stays as it is.        *)
TablesOf(of) ==
  IF of.table /\ ~db.table THEN [db EXCEPT !.table = TRUE, !.tuned = of.tuned] ELSE db

(* Every version table has a first row of its own, when goose has made it:  *)
(* the rows of the dump collide with it, and none is restored.             *)
BareOf(of) ==
  IF of.versioned = "yes" /\ db.versioned = "no"
    THEN [TablesOf(of) EXCEPT !.versioned = "bare"] ELSE TablesOf(of)

AllOf(of) ==
  IF of.versioned = "yes" /\ db.versioned # "yes"
    THEN [TablesOf(of) EXCEPT !.versioned = "yes", !.rows = of.rows] ELSE TablesOf(of)

Empty == ~db.table /\ db.versioned = "no"

(* CREATE TABLE waits for one of the same name that is not committed.       *)
Waits(of) == of.table /\ ~db.table /\ ~Unlocked

(* "restore complete", of a database that is empty and left alone; or of    *)
(* another, which psql and the script do not tell from the first.          *)
Restored(f) ==
  /\ f.whole /\ ~Waits(f.of)
  /\ db' = AllOf(f.of)
  /\ doubt' = IF Empty /\ \A m \in Migrators : run[m] = None THEN "none" ELSE "restore"
  /\ UNCHANGED <<run, backupVars>>

(* The dump ends early, the connection is lost, the script is killed: what  *)
(* psql has done stays.                                                    *)
RestoreFails(f) ==
  /\ db' \in {db} \cup (IF Waits(f.of) THEN {} ELSE {TablesOf(f.of), BareOf(f.of), AllOf(f.of)})
  /\ doubt' = "restore"
  /\ UNCHANGED <<run, backupVars>>

--------------------------------------------------------------------------------
Migration(m) == \/ Up(m) \/ Down(m) \/ Change(m) \/ Record(m) \/ Commit(m)
                \/ Killed(m) \/ Ends(m)

Backup == \/ BackupBegins \/ DumpEnds \/ DumpFails \/ Copy \/ CopySkipped \/ BackupFails
          \/ Prune \/ Day

Restore == \/ \E f \in dumps : Restored(f) \/ RestoreFails(f)
           \/ NewDatabase

SchemaNext == (\E m \in Migrators : Migration(m)) \/ Check \/ Backup \/ Restore

SchemaSpec == SchemaInit /\ [][SchemaNext]_schemaVars

--------------------------------------------------------------------------------
(* Properties. *)

(* The clips table exists exactly when its migration is recorded, and so do *)
(* its settings, as long as no down ran beside another process: however     *)
(* many ups overlap, fail and die, and whatever a session they leave behind *)
(* still commits, DDL and row are one transaction, the table's lock and     *)
(* CREATE TABLE's failure keep the ups apart, and a down takes back what    *)
(* was recorded last.  If moreover each process had the database to itself  *)
(* no version is passed over, the next migration of a plan fits the schema  *)
(* it meets, and an up that has come to the end of its plan leaves nothing  *)
(* pending.  All this holds of a database that was restored whole, in peace *)
(* and from a dump of a sound one (Runner.Up, Runner.Down, the migrations,  *)
(* pg_dump's snapshot, restore.sh).                                        *)
SchemaRecorded ==
  /\ doubt \in {"none", "ups"} =>
       /\ db.table <=> ClipsTable \in Applied(db)
       /\ db.tuned <=> Autovacuum \in Applied(db)
  /\ doubt = "none" =>
       /\ ~PassedOver(db)
       /\ \A m \in Migrators, v \in Versions : NextOf(m, v) => Fits(m, v)
       /\ \A m \in Migrators :
            run[m] # None /\ run[m].up /\ run[m].plan = {} => Applied(db) = Versions

(* After the first backup that succeeded there is always a whole dump at    *)
(* hand, however many later ones fail or are killed and however much time   *)
(* goes by; and no part of a dump is ever copied away (backup.sh: set -euo  *)
(* pipefail, and the pruning at its end).                                  *)
BackupKept ==
  /\ kept => \E f \in dumps : f.whole
  /\ FALSE \notin remote
================================================================================
