------------------------------ MODULE SchemaProofs ------------------------------
(***************************************************************************)
(* What TLC checks of Schema on small instances, for any migrate processes, *)
(* retention and bounds.                                                   *)
(***************************************************************************)
EXTENDS Schema, TLAPS

(* What is there is what is recorded.                                       *)
Sound(d) ==
  /\ d.table <=> ClipsTable \in Applied(d)
  /\ d.tuned <=> Autovacuum \in Applied(d)

Before(d, v, w) == \A i \in d.rows[v], j \in d.rows[w] : i < j

(* A database whose migrations always ran one at a time: no version is      *)
(* passed over, and the later the version, the later its rows.             *)
Orderly(d) ==
  /\ Sound(d)
  /\ ~PassedOver(d)
  /\ \A v, w \in Versions : v < w => Before(d, v, w)
  /\ d.versioned # "bare" /\ (d.versioned = "no" => Applied(d) = {})

(* What holds of the database after anything that can happen to it.         *)
DbShape ==
  /\ db.tuned => db.table
  /\ db.versioned # "yes" => Applied(db) = {}
  /\ \A m \in Migrators : run[m] # None => db.versioned = "yes"

(* Whoever holds the lock on clips is alone with it and has a section open  *)
(* that still fits; whoever needed it has it.                              *)
LockOf(m) ==
  /\ run[m].holds => run[m].at # "between"
  /\ run[m].up /\ run[m].at = "recorded" => run[m].ids # {}
  /\ \A v \in Versions : NextOf(m, v) =>
       /\ run[m].holds => v # Baseline /\ (db.table <=> ~(run[m].up /\ v = ClipsTable))
       /\ run[m].at # "between" /\ (v = Autovacuum \/ (run[m].up /\ v = ClipsTable)) => run[m].holds

Locking ==
  /\ \A m \in Migrators : run[m] # None => LockOf(m)
  /\ \A m, n \in Migrators :
       run[m] # None /\ run[n] # None /\ run[m].holds /\ run[n].holds => m = n

(* No down was ever beside another process. An up records the settings     *)
(* after the table; a down is alone, takes the settings first, and deletes  *)
(* all the rows of its version.                                            *)
UpQuiet(m) ==
  run[m].at = "recorded" /\ NextOf(m, Autovacuum) =>
    \A i \in db.rows[ClipsTable], j \in run[m].ids : i < j

DownQuiet(m) ==
  /\ \A n \in Migrators : run[n] # None => n = m
  /\ ClipsTable \in run[m].plan =>
       Autovacuum \notin Applied(db) /\ (run[m].at # "between" => (run[m].holds <=> db.table))
  /\ run[m].at = "recorded" => \A v \in run[m].plan : run[m].ids = db.rows[v]

Quiet ==
  doubt \in {"none", "ups"} =>
    /\ Sound(db) /\ Before(db, ClipsTable, Autovacuum) /\ db.versioned # "bare"
    /\ \A m \in Migrators : run[m] # None => IF run[m].up THEN UpQuiet(m) ELSE DownQuiet(m)

(* The only process has planned by the table as it still is.                *)
PlanStands(m) ==
  IF run[m].up
    THEN /\ run[m].plan = Versions \ Applied(db)
         /\ run[m].at = "recorded" => \A v \in Versions : \A i \in db.rows[v], j \in run[m].ids : i < j
    ELSE \A v \in run[m].plan : v \in Applied(db) /\ \A w \in Applied(db) : w <= v

OneAtATime ==
  doubt = "none" =>
    /\ Orderly(db)
    /\ \A m, n \in Migrators : run[m] # None /\ run[n] # None => m = n
    /\ \A m \in Migrators : run[m] # None => PlanStands(m)

(* The file of the backup that is past its dump is whole, and of today.     *)
BackupOrder ==
  /\ \A f \in dumps : Orderly(f.of)
  /\ backup.stage # "none" => Orderly(backup.of)
  /\ backup.stage \in {"copying", "pruning"} =>
       backup.whole /\ \E f \in dumps : f.whole /\ f.age = 0

SchemaInv ==
  /\ SchemaTypeOK
  /\ DbShape
  /\ Locking
  /\ Quiet
  /\ OneAtATime
  /\ BackupOrder
  /\ BackupKept

--------------------------------------------------------------------------------
LEMMA EmptyIsOrderly == EmptyDb \in Databases /\ Orderly(EmptyDb) /\ Applied(EmptyDb) = {}
<1>1. /\ EmptyDb \in Databases /\ ~EmptyDb.table /\ ~EmptyDb.tuned /\ EmptyDb.versioned = "no"
      /\ \A v \in Versions : EmptyDb.rows[v] = {}
  BY DEF EmptyDb, Databases
<1>2. Applied(EmptyDb) = {}
  BY <1>1 DEF Applied
<1>3. QED
  BY <1>1, <1>2 DEF Orderly, Sound, PassedOver, Before

LEMMA InitSchemaInv == SchemaInit => SchemaInv
<1> SUFFICES ASSUME SchemaInit PROVE SchemaInv
  OBVIOUS
<1>1. SchemaTypeOK /\ BackupKept
  BY EmptyIsOrderly DEF SchemaInit, SchemaTypeOK, BackupKept, Doubts, NoBackup
<1>2. DbShape /\ Locking
  BY EmptyIsOrderly DEF SchemaInit, DbShape, Locking, EmptyDb
<1>3. Quiet /\ OneAtATime
  BY EmptyIsOrderly DEF SchemaInit, Quiet, OneAtATime, Orderly, Versions, ClipsTable, Autovacuum
<1>4. BackupOrder
  BY DEF SchemaInit, BackupOrder, NoBackup
<1>5. QED
  BY <1>1, <1>2, <1>3, <1>4 DEF SchemaInv

(* The version table is made, and nothing else is different.               *)
LEMMA TouchedIsSame ==
  ASSUME db \in Databases
  PROVE  /\ Touched \in Databases /\ Touched.versioned # "no"
         /\ db.versioned # "bare" => Touched.versioned = "yes"
         /\ db.versioned # "no" => Touched = db
         /\ Touched.table = db.table /\ Touched.tuned = db.tuned
         /\ Touched.rows = db.rows /\ Applied(Touched) = Applied(db)
         /\ Sound(db) => Sound(Touched)
         /\ Orderly(db) => Orderly(Touched)
<1>1. Touched \in Databases /\ Touched.table = db.table /\ Touched.tuned = db.tuned /\ Touched.rows = db.rows
  BY DEF Touched, Databases
<1>2. Touched.versioned = IF db.versioned = "no" THEN "yes" ELSE db.versioned
  BY DEF Touched, Databases
<1>3. db.versioned # "no" => Touched = db
  BY DEF Touched, Databases
<1>4. Applied(Touched) = Applied(db)
  BY <1>1 DEF Applied
<1>5. Sound(db) => Sound(Touched)
  BY <1>1, <1>4 DEF Sound
<1>6. Orderly(db) => Orderly(Touched)
  BY <1>1, <1>2, <1>4, <1>5 DEF Orderly, PassedOver, Before
<1>7. Touched.versioned # "no" /\ (db.versioned # "bare" => Touched.versioned = "yes")
  BY <1>2 DEF Databases
<1>8. QED
  BY <1>1, <1>3, <1>4, <1>5, <1>6, <1>7

LEMMA CheckKeeps == SchemaInv /\ Check => SchemaInv'
<1> SUFFICES ASSUME SchemaInv, Check PROVE SchemaInv'
  OBVIOUS
<1>1. db \in Databases /\ db' = Touched /\ UNCHANGED <<run, doubt, dumps, remote, backup, kept>>
  BY DEF SchemaInv, SchemaTypeOK, Check, backupVars
<1>2. SchemaTypeOK'
  BY <1>1, TouchedIsSame DEF SchemaInv, SchemaTypeOK
<1>3. DbShape'
  BY <1>1, TouchedIsSame DEF SchemaInv, DbShape
<1>4. Locking'
  BY <1>1, TouchedIsSame DEF SchemaInv, Locking, LockOf, NextOf
<1>5. Quiet'
  BY <1>1, TouchedIsSame DEF SchemaInv, Quiet, UpQuiet, DownQuiet, NextOf, Before
<1>6. OneAtATime'
  BY <1>1, TouchedIsSame DEF SchemaInv, OneAtATime, PlanStands
<1>7. BackupOrder' /\ BackupKept'
  BY <1>1 DEF SchemaInv, BackupOrder, BackupKept
<1>8. QED
  BY <1>2, <1>3, <1>4, <1>5, <1>6, <1>7 DEF SchemaInv

(* The version that goose takes back: none that is applied has a later row, *)
(* so it is the highest where the rows are in order.                       *)
LEMMA LatestIsAbove ==
  ASSUME db \in Databases, NEW v \in Versions, Latest(v),
         NEW w \in Versions, w \in Applied(db), Before(db, v, w)
  PROVE  FALSE
<1>1. PICK id \in db.rows[v] : \A i \in db.rows[w] : i <= id
  BY DEF Latest
<1>2. PICK j \in db.rows[w] : TRUE
  BY DEF Applied
<1>3. id < j /\ j <= id
  BY <1>1, <1>2 DEF Before
<1>4. id \in Nat /\ j \in Nat
  BY <1>1, <1>2, SchemaAssumption DEF Databases
<1>5. QED
  BY <1>3, <1>4

(* A process plans, alone or not.                                           *)
LEMMA StartsKeep ==
  ASSUME SchemaInv, NEW m \in Migrators, Up(m) \/ Down(m)
  PROVE  SchemaInv'
<1>1. PICK up \in BOOLEAN, plan \in SUBSET Versions :
         /\ Starts(m, up, plan)
         /\ up => plan = Versions \ Applied(db)
         /\ ~up => \E v \in Applied(db) : Latest(v) /\ plan = {v}
  BY DEF Up, Down, Applied
<1> DEFINE r == [up |-> up, plan |-> plan, at |-> "between", holds |-> FALSE, ids |-> {}, orphan |-> FALSE]
<1>2. /\ db \in Databases /\ db' = Touched /\ db.versioned # "bare"
      /\ run[m] = None /\ run' = [run EXCEPT ![m] = r]
      /\ run \in [Migrators -> Runs \cup {None}]
      /\ doubt' = DoubtWith(up) /\ doubt \in Doubts
      /\ UNCHANGED <<dumps, remote, backup, kept>>
  BY <1>1 DEF SchemaInv, SchemaTypeOK, Starts, backupVars
<1>3. /\ r \in Runs /\ r.up = up /\ r.plan = plan /\ r.at = "between" /\ r.holds = FALSE
  BY <1>1 DEF Runs, Applied
<1> HIDE DEF r
<1>4. /\ run'[m] = r /\ \A n \in Migrators \ {m} : run'[n] = run[n]
      /\ run' \in [Migrators -> Runs \cup {None}]
  BY <1>2, <1>3
<1>5. /\ doubt' \in Doubts
      /\ doubt' = "none" => doubt = "none" /\ \A n \in Migrators : run[n] = None
      /\ doubt' \in {"none", "ups"} =>
           /\ doubt \in {"none", "ups"}
           /\ \/ \A n \in Migrators : run[n] = None
              \/ up /\ \A n \in Migrators : run[n] # None => run[n].up
  BY <1>2 DEF DoubtWith, Doubts
<1>6. SchemaTypeOK'
  BY <1>2, <1>4, <1>5, TouchedIsSame DEF SchemaInv, SchemaTypeOK
<1>7. DbShape'
  BY <1>2, TouchedIsSame DEF SchemaInv, DbShape
<1>8. Locking'
  BY <1>2, <1>3, <1>4, TouchedIsSame DEF SchemaInv, Locking, LockOf, NextOf
<1>9. Quiet'
  <2> SUFFICES ASSUME doubt' \in {"none", "ups"} PROVE Quiet'
    BY DEF Quiet
  <2>1. /\ Sound(db) /\ Before(db, ClipsTable, Autovacuum)
        /\ \A n \in Migrators : run[n] # None => IF run[n].up THEN UpQuiet(n) ELSE DownQuiet(n)
    BY <1>5 DEF SchemaInv, Quiet
  <2>2. Sound(db') /\ Before(db', ClipsTable, Autovacuum) /\ db'.versioned # "bare"
    BY <1>2, <2>1, TouchedIsSame DEF Before
  <2>3. CASE \A n \in Migrators : run[n] = None
    <3>1. up => UpQuiet(m)'
      BY <1>3, <1>4 DEF UpQuiet
    <3>2. ASSUME ~up PROVE DownQuiet(m)'
      <4>1. PICK v \in Applied(db) : Latest(v) /\ plan = {v}
        BY <1>1, <3>2
      <4>2. v = ClipsTable => Autovacuum \notin Applied(db)
        BY <1>2, <2>1, <4>1, LatestIsAbove DEF Applied, Versions
      <4>3. QED
        BY <1>2, <1>3, <1>4, <2>3, <4>1, <4>2, TouchedIsSame DEF DownQuiet
    <3>3. QED
      BY <1>3, <1>4, <2>2, <2>3, <3>1, <3>2 DEF Quiet
  <2>4. CASE up /\ \A n \in Migrators : run[n] # None => run[n].up
    <3>1. UpQuiet(m)'
      BY <1>3, <1>4 DEF UpQuiet
    <3>2. ASSUME NEW n \in Migrators, n # m, run'[n] # None
          PROVE  run'[n].up /\ UpQuiet(n)'
      BY <1>2, <1>4, <2>1, <2>4, <3>2, TouchedIsSame DEF UpQuiet, NextOf
    <3>3. QED
      BY <1>3, <1>4, <2>2, <2>4, <3>1, <3>2 DEF Quiet
  <2>5. QED
    BY <1>5, <2>3, <2>4
<1>10. OneAtATime'
  <2> SUFFICES ASSUME doubt' = "none" PROVE OneAtATime'
    BY DEF OneAtATime
  <2>1. doubt = "none" /\ \A n \in Migrators : run[n] = None
    BY <1>5
  <2>2. Orderly(db) /\ Orderly(db') /\ Applied(db') = Applied(db)
    BY <1>2, <2>1, TouchedIsSame DEF SchemaInv, OneAtATime
  <2>3. ASSUME ~up, NEW v \in plan, NEW w \in Applied(db)
        PROVE  v \in Applied(db) /\ w <= v
    <3>1. v \in Applied(db) /\ Latest(v)
      BY <1>1, <2>3
    <3>2. ~(v < w)
      BY <1>2, <2>2, <2>3, <3>1, LatestIsAbove DEF Orderly, Applied
    <3>3. QED
      BY <2>3, <3>1, <3>2 DEF Applied, Versions, Baseline, ClipsTable, Autovacuum
  <2>4. ~up => \A v \in plan : v \in Applied(db)
    BY <1>1
  <2>5. PlanStands(m)'
    BY <1>1, <1>3, <1>4, <2>2, <2>3, <2>4 DEF PlanStands
  <2>6. QED
    BY <1>4, <2>1, <2>2, <2>5 DEF OneAtATime
<1>11. BackupOrder' /\ BackupKept'
  BY <1>2 DEF SchemaInv, BackupOrder, BackupKept
<1>12. QED
  BY <1>6, <1>7, <1>8, <1>9, <1>10, <1>11 DEF SchemaInv

(* The fields of a process.                                                 *)
LEMMA RunFields ==
  ASSUME SchemaTypeOK, NEW m \in Migrators, run[m] # None
  PROVE  /\ run[m] \in Runs
         /\ run[m] \in [up : BOOLEAN, plan : SUBSET Versions, at : {"between", "changed", "recorded"},
                        holds : BOOLEAN, ids : SUBSET (1..MaxId), orphan : BOOLEAN]
         /\ ~run[m].up => \E v \in Versions : run[m].plan \subseteq {v}
BY DEF SchemaTypeOK, Runs

(* None is no process.                                                      *)
LEMMA NoneIsNoRun == None \notin Runs
BY SchemaAssumption DEF Runs, Versions, Baseline, ClipsTable, Autovacuum

(* The database and the plans stay, one process moves within its           *)
(* transaction.                                                            *)
LEMMA MoveKeeps ==
  ASSUME SchemaInv, NEW m \in Migrators, NEW r \in Runs,
         run[m] # None, run' = [run EXCEPT ![m] = r],
         r.up = run[m].up, r.plan = run[m].plan,
         UNCHANGED <<db, doubt, dumps, remote, backup, kept>>,
         LockOf(m)',
         r.holds => run[m].holds \/ Unlocked,
         doubt \in {"none", "ups"} => IF r.up THEN UpQuiet(m)' ELSE DownQuiet(m)',
         doubt = "none" => PlanStands(m)'
  PROVE  SchemaInv'
<1>1. /\ run'[m] = r /\ \A n \in Migrators \ {m} : run'[n] = run[n]
      /\ run' \in [Migrators -> Runs \cup {None}]
      /\ \A n \in Migrators : run'[n] = None <=> run[n] = None
      /\ \A n \in Migrators : run[n] # None => run'[n].up = run[n].up
  BY NoneIsNoRun DEF SchemaInv, SchemaTypeOK
<1>2. SchemaTypeOK' /\ DbShape'
  BY <1>1 DEF SchemaInv, SchemaTypeOK, DbShape
<1>3. Locking'
  <2>1. \A n \in Migrators : run'[n] # None => LockOf(n)'
    BY <1>1 DEF SchemaInv, Locking, LockOf, NextOf
  <2>2. ASSUME NEW k \in Migrators, NEW n \in Migrators,
               run'[k] # None, run'[n] # None, run'[k].holds, run'[n].holds
        PROVE  k = n
    BY <1>1, <2>2 DEF SchemaInv, Locking, Unlocked
  <2>3. QED
    BY <2>1, <2>2 DEF Locking
<1>4. Quiet'
  <2> SUFFICES ASSUME doubt \in {"none", "ups"} PROVE Quiet'
    BY DEF Quiet
  <2>1. ASSUME NEW n \in Migrators, n # m, run'[n] # None
        PROVE  IF run'[n].up THEN UpQuiet(n)' ELSE DownQuiet(n)'
    <3>1. run[n] # None /\ run'[n] = run[n]
      BY <1>1, <2>1
    <3>2. IF run[n].up THEN UpQuiet(n) ELSE DownQuiet(n)
      BY <3>1 DEF SchemaInv, Quiet
    <3>3. CASE run[n].up
      BY <3>1, <3>2, <3>3 DEF UpQuiet, NextOf
    <3>4. CASE ~run[n].up
      BY <1>1, <3>1, <3>2, <3>4 DEF DownQuiet
    <3>5. QED
      BY <3>3, <3>4
  <2>2. QED
    BY <1>1, <2>1 DEF SchemaInv, Quiet
<1>5. OneAtATime'
  BY <1>1 DEF SchemaInv, OneAtATime
<1>6. BackupOrder' /\ BackupKept'
  BY DEF SchemaInv, BackupOrder, BackupKept
<1>7. QED
  BY <1>2, <1>3, <1>4, <1>5, <1>6 DEF SchemaInv

LEMMA ChangeKeeps ==
  ASSUME SchemaInv, NEW m \in Migrators, Change(m)
  PROVE  SchemaInv'
<1>1. PICK v \in Versions :
         /\ NextOf(m, v) /\ run[m].at = "between" /\ Fits(m, v)
         /\ Locks(m, v) => Unlocked
         /\ run' = [run EXCEPT ![m].at = "changed", ![m].holds = Locks(m, v)]
         /\ UNCHANGED <<db, doubt, dumps, remote, backup, kept>>
  BY DEF Change, backupVars
<1> DEFINE r == [run[m] EXCEPT !.at = "changed", !.holds = Locks(m, v)]
<1>2. /\ run[m] # None /\ run \in [Migrators -> Runs \cup {None}]
      /\ db \in Databases /\ Locks(m, v) \in BOOLEAN
  BY <1>1 DEF NextOf, SchemaInv, SchemaTypeOK, Locks
<1>3. /\ r \in Runs /\ r.up = run[m].up /\ r.plan = run[m].plan /\ r.at = "changed"
      /\ r.holds = Locks(m, v) /\ (r.holds <=> v # Baseline /\ (r.up \/ db.table))
  <2>1. /\ r \in Runs /\ r.up = run[m].up /\ r.plan = run[m].plan /\ r.at = "changed"
        /\ r.holds = Locks(m, v)
    BY <1>2, RunFields DEF SchemaInv, Runs
  <2>2. r.holds <=> Locks(m, v)
    BY <2>1
  <2>3. QED
    BY <2>1, <2>2 DEF Locks
<1>4. run' = [run EXCEPT ![m] = r]
  BY <1>1, <1>2
<1> HIDE DEF r
<1>5. run'[m] = r
  BY <1>2, <1>4
<1>6. ASSUME NEW w \in Versions, NextOf(m, w)'
      PROVE  w = v
  <2>1. w \in run[m].plan /\ \A x \in run[m].plan : w <= x
    BY <1>3, <1>5, <1>6 DEF NextOf
  <2>2. v \in run[m].plan /\ v <= w
    BY <1>1, <2>1 DEF NextOf
  <2>3. QED
    BY <1>6, <2>1, <2>2 DEF Versions, Baseline, ClipsTable, Autovacuum
<1>7. LockOf(m)'
  <2>1. r.holds => v # Baseline /\ (db.table <=> ~(r.up /\ v = ClipsTable))
    BY <1>1, <1>3 DEF Fits, UpFits, DownFits, Versions
  <2>2. v = Autovacuum \/ (r.up /\ v = ClipsTable) => r.holds
    BY <1>1, <1>3 DEF Fits, UpFits, DownFits, Baseline, ClipsTable, Autovacuum
  <2>3. QED
    BY <1>1, <1>3, <1>5, <1>6, <2>1, <2>2 DEF LockOf
<1>8. ASSUME doubt \in {"none", "ups"}
      PROVE  IF r.up THEN UpQuiet(m)' ELSE DownQuiet(m)'
  <2>1. r.up => UpQuiet(m)'
    BY <1>3, <1>5 DEF UpQuiet
  <2>2. ASSUME ~r.up PROVE DownQuiet(m)'
    <3>1. DownQuiet(m)
      BY <1>2, <1>3, <1>8, <2>2 DEF SchemaInv, Quiet
    <3>2. \A n \in Migrators : run'[n] # None => n = m
      BY <1>2, <1>4, <3>1 DEF DownQuiet
    <3>3. ClipsTable \in r.plan => v = ClipsTable
      <4>1. \E w \in Versions : r.plan \subseteq {w}
        BY <1>2, <1>3, <2>2, RunFields DEF SchemaInv
      <4>2. QED
        BY <1>1, <1>3, <4>1 DEF NextOf
    <3>4. ClipsTable \in r.plan => (r.holds <=> db.table)
      BY <1>3, <2>2, <3>3 DEF Baseline, ClipsTable
    <3>5. QED
      BY <1>1, <1>3, <1>5, <3>1, <3>2, <3>4 DEF DownQuiet
  <2>3. QED
    BY <2>1, <2>2
<1>9. doubt = "none" => PlanStands(m)'
  BY <1>1, <1>2, <1>3, <1>5 DEF SchemaInv, OneAtATime, PlanStands
<1>10. QED
  BY <1>1, <1>2, <1>3, <1>4, <1>7, <1>8, <1>9, MoveKeeps

(* A new row comes after all that are committed.                            *)
LEMMA NextIdIsAbove ==
  ASSUME NEW id, NextId(id), NEW w \in Versions, NEW i \in db.rows[w]
  PROVE  i < id
BY DEF NextId

LEMMA RecordKeeps ==
  ASSUME SchemaInv, NEW m \in Migrators, Record(m)
  PROVE  SchemaInv'
<1>1. PICK v \in Versions, ids \in SUBSET (1..MaxId) :
         /\ NextOf(m, v) /\ run[m].at = "changed"
         /\ IF run[m].up THEN \E id \in 1..MaxId : NextId(id) /\ ids = {id}
                         ELSE ids = db.rows[v]
         /\ run' = [run EXCEPT ![m].at = "recorded", ![m].ids = ids]
         /\ UNCHANGED <<db, doubt, dumps, remote, backup, kept>>
  BY DEF Record, backupVars
<1> DEFINE r == [run[m] EXCEPT !.at = "recorded", !.ids = ids]
<1>2. run[m] # None /\ run \in [Migrators -> Runs \cup {None}] /\ LockOf(m)
  BY <1>1 DEF NextOf, SchemaInv, SchemaTypeOK, Locking
<1>3. /\ r \in Runs /\ r.up = run[m].up /\ r.plan = run[m].plan /\ r.at = "recorded"
      /\ r.holds = run[m].holds /\ r.ids = ids
  BY <1>2, RunFields DEF SchemaInv, Runs
<1>4. run' = [run EXCEPT ![m] = r]
  BY <1>1, <1>2
<1> HIDE DEF r
<1>5. run'[m] = r /\ r # None
  BY <1>2, <1>3, <1>4, NoneIsNoRun
<1>6. \A w \in Versions : NextOf(m, w)' => NextOf(m, w)
  BY <1>2, <1>3, <1>5 DEF NextOf
<1>7. LockOf(m)'
  BY <1>1, <1>2, <1>3, <1>5, <1>6 DEF LockOf
<1>8. r.up => \A w \in Versions : \A i \in db.rows[w], j \in r.ids : i < j
  BY <1>1, <1>3, NextIdIsAbove
<1>9. ASSUME doubt \in {"none", "ups"}
      PROVE  IF r.up THEN UpQuiet(m)' ELSE DownQuiet(m)'
  <2>1. r.up => UpQuiet(m)'
    BY <1>1, <1>3, <1>5, <1>8 DEF UpQuiet, Versions
  <2>2. ASSUME ~r.up PROVE DownQuiet(m)'
    <3>1. DownQuiet(m)
      BY <1>2, <1>3, <1>9, <2>2 DEF SchemaInv, Quiet
    <3>2. \A n \in Migrators : run'[n] # None => n = m
      BY <1>2, <1>4, <3>1 DEF DownQuiet
    <3>3. \A w \in r.plan : w = v
      <4>1. \E w \in Versions : r.plan \subseteq {w}
        BY <1>2, <1>3, <2>2, RunFields DEF SchemaInv
      <4>2. QED
        BY <1>1, <1>3, <4>1 DEF NextOf
    <3>4. ids = db.rows[v]
      BY <1>1, <1>3, <2>2
    <3>5. QED
      BY <1>1, <1>3, <1>5, <3>1, <3>2, <3>3, <3>4 DEF DownQuiet
  <2>3. QED
    BY <2>1, <2>2
<1>10. doubt = "none" => PlanStands(m)'
  BY <1>1, <1>2, <1>3, <1>5, <1>8 DEF SchemaInv, OneAtATime, PlanStands
<1>11. QED
  BY <1>1, <1>2, <1>3, <1>4, <1>7, <1>9, <1>10, MoveKeeps

LEMMA KilledKeeps ==
  ASSUME SchemaInv, NEW m \in Migrators, Killed(m)
  PROVE  SchemaInv'
<1> DEFINE r == [run[m] EXCEPT !.orphan = TRUE]
<1>1. /\ run[m] # None /\ run \in [Migrators -> Runs \cup {None}] /\ LockOf(m)
      /\ run' = [run EXCEPT ![m] = r]
      /\ UNCHANGED <<db, doubt, dumps, remote, backup, kept>>
  BY DEF Killed, backupVars, SchemaInv, SchemaTypeOK, Locking
<1>2. /\ r \in Runs /\ r.up = run[m].up /\ r.plan = run[m].plan /\ r.at = run[m].at
      /\ r.holds = run[m].holds /\ r.ids = run[m].ids
  BY <1>1, RunFields DEF SchemaInv, Runs
<1> HIDE DEF r
<1>3. run'[m] = r /\ r # None
  BY <1>1, <1>2, NoneIsNoRun
<1>4. \A w \in Versions : NextOf(m, w)' <=> NextOf(m, w)
  BY <1>1, <1>2, <1>3 DEF NextOf
<1>5. LockOf(m)'
  BY <1>1, <1>2, <1>3, <1>4 DEF LockOf
<1>6. ASSUME doubt \in {"none", "ups"}
      PROVE  IF r.up THEN UpQuiet(m)' ELSE DownQuiet(m)'
  <2>1. IF run[m].up THEN UpQuiet(m) ELSE DownQuiet(m)
    BY <1>1, <1>6 DEF SchemaInv, Quiet
  <2>2. r.up => UpQuiet(m)'
    BY <1>1, <1>2, <1>3, <1>4, <2>1 DEF UpQuiet, Versions
  <2>3. ~r.up => DownQuiet(m)'
    BY <1>1, <1>2, <1>3, <2>1 DEF DownQuiet
  <2>4. QED
    BY <2>2, <2>3
<1>7. doubt = "none" => PlanStands(m)'
  BY <1>1, <1>2, <1>3 DEF SchemaInv, OneAtATime, PlanStands
<1>8. QED
  BY <1>1, <1>2, <1>5, <1>6, <1>7, MoveKeeps

LEMMA EndsKeeps ==
  ASSUME SchemaInv, NEW m \in Migrators, Ends(m)
  PROVE  SchemaInv'
<1>1. /\ run' = [run EXCEPT ![m] = None] /\ run \in [Migrators -> Runs \cup {None}]
      /\ UNCHANGED <<db, doubt, dumps, remote, backup, kept>>
  BY DEF Ends, backupVars, SchemaInv, SchemaTypeOK
<1>2. \A n \in Migrators : run'[n] # None => run'[n] = run[n] /\ run[n] # None
  BY <1>1
<1>3. SchemaTypeOK' /\ DbShape'
  BY <1>1, <1>2 DEF SchemaInv, SchemaTypeOK, DbShape
<1>4. Locking'
  BY <1>1, <1>2 DEF SchemaInv, Locking, LockOf, NextOf
<1>5. Quiet'
  <2> SUFFICES ASSUME doubt \in {"none", "ups"} PROVE Quiet'
    BY <1>1 DEF Quiet
  <2>1. ASSUME NEW n \in Migrators, run'[n] # None
        PROVE  IF run'[n].up THEN UpQuiet(n)' ELSE DownQuiet(n)'
    <3>1. IF run[n].up THEN UpQuiet(n) ELSE DownQuiet(n)
      BY <1>2, <2>1 DEF SchemaInv, Quiet
    <3>2. CASE run[n].up
      BY <1>1, <1>2, <2>1, <3>1, <3>2 DEF UpQuiet, NextOf
    <3>3. CASE ~run[n].up
      BY <1>1, <1>2, <2>1, <3>1, <3>3 DEF DownQuiet
    <3>4. QED
      BY <3>2, <3>3
  <2>2. QED
    BY <1>1, <2>1 DEF SchemaInv, Quiet
<1>6. OneAtATime'
  BY <1>1, <1>2 DEF SchemaInv, OneAtATime, PlanStands
<1>7. BackupOrder' /\ BackupKept'
  BY <1>1 DEF SchemaInv, BackupOrder, BackupKept
<1>8. QED
  BY <1>3, <1>4, <1>5, <1>6, <1>7 DEF SchemaInv

(* What a COMMIT makes of the database.                                     *)
LEMMA CommittedDb ==
  ASSUME db \in Databases, NEW m \in Migrators, run[m] \in Runs, NEW v \in Versions,
         db' = [Changed(m, v) EXCEPT
                 !.rows[v] = IF run[m].up THEN @ \cup run[m].ids ELSE @ \ run[m].ids]
  PROVE  /\ db' \in Databases /\ db'.versioned = db.versioned
         /\ ~run[m].holds => db'.table = db.table /\ db'.tuned = db.tuned
         /\ run[m].holds /\ run[m].up =>
              (db'.table <=> db.table \/ v = ClipsTable) /\ (db'.tuned <=> db.tuned \/ v = Autovacuum)
         /\ run[m].holds /\ ~run[m].up =>
              (db'.table <=> db.table /\ v # ClipsTable)
              /\ (db'.tuned <=> db.tuned /\ v \notin {ClipsTable, Autovacuum})
         /\ \A w \in Versions \ {v} : db'.rows[w] = db.rows[w]
         /\ db'.rows[v] = IF run[m].up THEN db.rows[v] \cup run[m].ids ELSE db.rows[v] \ run[m].ids
         /\ \A w \in Versions \ {v} : w \in Applied(db') <=> w \in Applied(db)
         /\ v \in Applied(db') <=> db'.rows[v] # {}
<1> DEFINE c == Changed(m, v)
           rs == IF run[m].up THEN c.rows[v] \cup run[m].ids ELSE c.rows[v] \ run[m].ids
<1>1. run[m].ids \in SUBSET (1..MaxId) /\ run[m].up \in BOOLEAN /\ run[m].holds \in BOOLEAN
  BY DEF Runs
<1>2. /\ c \in Databases /\ c.versioned = db.versioned /\ c.rows = db.rows
      /\ ~run[m].holds => c.table = db.table /\ c.tuned = db.tuned
      /\ run[m].holds /\ run[m].up =>
           (c.table <=> db.table \/ v = ClipsTable) /\ (c.tuned <=> db.tuned \/ v = Autovacuum)
      /\ run[m].holds /\ ~run[m].up =>
           (c.table <=> db.table /\ v # ClipsTable)
           /\ (c.tuned <=> db.tuned /\ v \notin {ClipsTable, Autovacuum})
  <2>1. CASE ~run[m].holds
    BY <2>1 DEF Changed
  <2>2. CASE run[m].holds /\ run[m].up
    BY <2>2 DEF Changed, UpSection, Databases
  <2>3. CASE run[m].holds /\ ~run[m].up
    BY <2>3 DEF Changed, DownSection, Databases
  <2>4. QED
    BY <1>1, <2>1, <2>2, <2>3
<1>3. db' = [c EXCEPT !.rows = [c.rows EXCEPT ![v] = rs]]
  BY <1>2
<1>4. rs \in SUBSET (1..MaxId)
  BY <1>1, <1>2 DEF Databases
<1> HIDE DEF c, rs
<1>5. /\ db' \in Databases /\ db'.versioned = c.versioned /\ db'.table = c.table
      /\ db'.tuned = c.tuned /\ db'.rows = [c.rows EXCEPT ![v] = rs]
  <2>1. [c.rows EXCEPT ![v] = rs] \in [Versions -> SUBSET (1..MaxId)]
    BY <1>2, <1>4 DEF Databases
  <2>2. QED
    BY <1>2, <1>3, <2>1 DEF Databases
<1>6. /\ \A w \in Versions \ {v} : db'.rows[w] = db.rows[w]
      /\ db'.rows[v] = rs
  BY <1>2, <1>5 DEF Databases
<1>7. rs = IF run[m].up THEN db.rows[v] \cup run[m].ids ELSE db.rows[v] \ run[m].ids
  BY <1>2 DEF rs
<1>8. /\ \A w \in Versions \ {v} : w \in Applied(db') <=> w \in Applied(db)
      /\ v \in Applied(db') <=> db'.rows[v] # {}
  BY <1>6 DEF Applied
<1>9. QED
  BY <1>2, <1>5, <1>6, <1>7, <1>8

LEMMA CommitKeeps ==
  ASSUME SchemaInv, NEW m \in Migrators, Commit(m)
  PROVE  SchemaInv'
<1> DEFINE r(v) == [up |-> run[m].up, plan |-> run[m].plan \ {v}, at |-> "between",
                    holds |-> FALSE, ids |-> {}, orphan |-> FALSE]
<1>1. PICK v \in Versions :
         /\ NextOf(m, v) /\ run[m].at = "recorded"
         /\ db' = [Changed(m, v) EXCEPT
                    !.rows[v] = IF run[m].up THEN @ \cup run[m].ids ELSE @ \ run[m].ids]
         /\ run' = [run EXCEPT ![m] = IF run[m].orphan THEN None ELSE r(v)]
         /\ UNCHANGED <<doubt, dumps, remote, backup, kept>>
  BY DEF Commit, backupVars
<1>2. /\ run[m] # None /\ run \in [Migrators -> Runs \cup {None}] /\ run[m] \in Runs
      /\ db \in Databases /\ DbShape /\ LockOf(m)
      /\ v \in run[m].plan /\ \A w \in run[m].plan : v <= w
      /\ run[m].up \in BOOLEAN /\ run[m].plan \subseteq Versions
      /\ ~run[m].up => \E w \in Versions : run[m].plan \subseteq {w}
  BY <1>1, RunFields DEF NextOf, SchemaInv, SchemaTypeOK, Locking
<1>3. /\ r(v) \in Runs /\ r(v).up = run[m].up /\ r(v).plan = run[m].plan \ {v}
      /\ r(v).at = "between" /\ r(v).holds = FALSE
  BY <1>2 DEF Runs
<1> HIDE DEF r
<1>4. /\ run' \in [Migrators -> Runs \cup {None}]
      /\ run'[m] = None \/ run'[m] = r(v)
      /\ \A n \in Migrators \ {m} : run'[n] = run[n]
      /\ \A n \in Migrators : run'[n] # None => run[n] # None
      /\ \A n \in Migrators \ {m}, w \in Versions : NextOf(n, w)' <=> NextOf(n, w)
  BY <1>1, <1>2, <1>3 DEF NextOf
<1>5. /\ run[m].holds => v # Baseline /\ (db.table <=> ~(run[m].up /\ v = ClipsTable))
      /\ v = Autovacuum \/ (run[m].up /\ v = ClipsTable) => run[m].holds
      /\ run[m].up => run[m].ids # {}
  BY <1>1, <1>2 DEF LockOf
<1>6. /\ db' \in Databases /\ db'.versioned = db.versioned
      /\ ~run[m].holds => db'.table = db.table /\ db'.tuned = db.tuned
      /\ run[m].holds /\ run[m].up =>
           (db'.table <=> db.table \/ v = ClipsTable) /\ (db'.tuned <=> db.tuned \/ v = Autovacuum)
      /\ run[m].holds /\ ~run[m].up =>
           (db'.table <=> db.table /\ v # ClipsTable)
           /\ (db'.tuned <=> db.tuned /\ v \notin {ClipsTable, Autovacuum})
      /\ \A w \in Versions \ {v} : db'.rows[w] = db.rows[w]
      /\ db'.rows[v] = IF run[m].up THEN db.rows[v] \cup run[m].ids ELSE db.rows[v] \ run[m].ids
      /\ \A w \in Versions \ {v} : w \in Applied(db') <=> w \in Applied(db)
      /\ v \in Applied(db') <=> db'.rows[v] # {}
  BY <1>1, <1>2, CommittedDb
<1>7. SchemaTypeOK'
  BY <1>1, <1>4, <1>6 DEF SchemaInv, SchemaTypeOK
<1>8. DbShape'
  <2>1. db'.tuned => db'.table
    BY <1>2, <1>5, <1>6 DEF DbShape, Baseline, ClipsTable, Autovacuum
  <2>2. db.versioned = "yes"
    BY <1>2 DEF DbShape
  <2>3. QED
    BY <1>4, <1>6, <2>1, <2>2 DEF DbShape
<1>9. Locking'
  <2>1. run'[m] # None => LockOf(m)'
    BY <1>3, <1>4 DEF LockOf
  <2>2. ASSUME NEW n \in Migrators, n # m, run'[n] # None
        PROVE  LockOf(n)'
    <3>1. run[n] # None /\ run'[n] = run[n] /\ LockOf(n)
      BY <1>4, <2>2 DEF SchemaInv, Locking
    <3>2. run[n].holds => ~run[m].holds
      BY <1>2, <2>2, <3>1 DEF SchemaInv, Locking
    <3>3. run[n].holds => db'.table = db.table
      BY <1>6, <3>2
    <3>4. QED
      BY <1>4, <2>2, <3>1, <3>3 DEF LockOf
  <2>3. \A n \in Migrators : run'[n] # None /\ run'[n].holds => n # m
    BY <1>3, <1>4
  <2>4. ASSUME NEW k \in Migrators, NEW n \in Migrators,
               run'[k] # None, run'[n] # None, run'[k].holds, run'[n].holds
        PROVE  k = n
    BY <1>4, <2>3, <2>4 DEF SchemaInv, Locking
  <2>5. QED
    BY <2>1, <2>2, <2>4 DEF Locking
<1>10. Quiet'
  <2> SUFFICES ASSUME doubt \in {"none", "ups"} PROVE Quiet'
    BY <1>1 DEF Quiet
  <2>1. /\ Sound(db) /\ Before(db, ClipsTable, Autovacuum) /\ db.versioned # "bare"
        /\ \A n \in Migrators : run[n] # None => IF run[n].up THEN UpQuiet(n) ELSE DownQuiet(n)
    BY DEF SchemaInv, Quiet
  <2>2. CASE run[m].up
    <3>1. UpQuiet(m)
      BY <1>2, <2>1, <2>2
    <3>2. v \in Applied(db')
      BY <1>5, <1>6, <2>2
    <3>3. Sound(db')
      <4>1. CASE v = Baseline
        BY <1>5, <1>6, <2>1, <4>1 DEF Sound, Versions, Baseline, ClipsTable, Autovacuum
      <4>2. CASE v = ClipsTable
        BY <1>5, <1>6, <2>1, <2>2, <3>2, <4>2 DEF Sound, Versions, Baseline, ClipsTable, Autovacuum
      <4>3. CASE v = Autovacuum
        BY <1>5, <1>6, <2>1, <2>2, <3>2, <4>3 DEF Sound, Versions, Baseline, ClipsTable, Autovacuum
      <4>4. QED
        BY <4>1, <4>2, <4>3 DEF Versions
    <3>4. v = ClipsTable => db.rows[Autovacuum] = {}
      <4>1. ASSUME v = ClipsTable PROVE Autovacuum \notin Applied(db)
        BY <1>2, <1>5, <2>1, <2>2, <4>1 DEF DbShape, Sound
      <4>2. QED
        BY <4>1 DEF Applied, Versions
    <3>5. Before(db', ClipsTable, Autovacuum)
      <4>1. CASE v = Baseline
        BY <1>6, <2>1, <4>1 DEF Before, Versions, Baseline, ClipsTable, Autovacuum
      <4>2. CASE v = ClipsTable
        BY <1>6, <3>4, <4>2 DEF Before, Versions, Baseline, ClipsTable, Autovacuum
      <4>3. CASE v = Autovacuum
        <5>1. \A i \in db.rows[ClipsTable], j \in run[m].ids : i < j
          BY <1>1, <3>1, <4>3 DEF UpQuiet
        <5>2. db'.rows[ClipsTable] = db.rows[ClipsTable]
              /\ db'.rows[Autovacuum] = db.rows[Autovacuum] \cup run[m].ids
          BY <1>6, <2>2, <4>3 DEF Versions, Baseline, ClipsTable, Autovacuum
        <5>3. QED
          BY <2>1, <5>1, <5>2 DEF Before
      <4>4. QED
        BY <4>1, <4>2, <4>3 DEF Versions
    <3>6. \A n \in Migrators : run[n] # None => run[n].up
      BY <1>2, <2>1, <2>2 DEF DownQuiet
    <3>7. ASSUME NEW n \in Migrators, run'[n] # None
          PROVE  run'[n].up /\ UpQuiet(n)'
      <4>1. CASE n = m
        BY <1>3, <1>4, <2>2, <3>7, <4>1 DEF UpQuiet
      <4>2. CASE n # m
        <5>1. run[n] # None /\ run'[n] = run[n] /\ run[n].up /\ UpQuiet(n) /\ LockOf(n)
          BY <1>4, <2>1, <3>6, <3>7, <4>2 DEF SchemaInv, Locking
        <5>2. ASSUME NextOf(n, Autovacuum), run[n].at = "recorded"
              PROVE  db'.rows[ClipsTable] = db.rows[ClipsTable]
          <6>1. run[n].holds
            BY <5>1, <5>2 DEF LockOf, Versions
          <6>2. ~run[m].holds
            BY <1>2, <4>2, <5>1, <6>1 DEF SchemaInv, Locking
          <6>3. v # ClipsTable
            BY <1>5, <2>2, <6>2
          <6>4. QED
            BY <1>6, <6>3 DEF Versions
        <5>3. QED
          BY <1>4, <4>2, <5>1, <5>2 DEF UpQuiet, Versions
      <4>3. QED
        BY <4>1, <4>2
    <3>8. QED
      BY <1>6, <2>1, <3>3, <3>5, <3>7 DEF Quiet
  <2>3. CASE ~run[m].up
    <3>1. DownQuiet(m) /\ run[m].ids = db.rows[v]
      BY <1>1, <1>2, <2>1, <2>3 DEF DownQuiet
    <3>2. v \notin Applied(db') /\ db'.rows[v] = {}
      BY <1>6, <2>3, <3>1
    <3>3. v = ClipsTable => Autovacuum \notin Applied(db) /\ (run[m].holds <=> db.table)
      BY <1>1, <1>2, <3>1 DEF DownQuiet
    <3>4. Sound(db')
      <4>1. CASE v = Baseline
        BY <1>5, <1>6, <2>1, <4>1 DEF Sound, Versions, Baseline, ClipsTable, Autovacuum
      <4>2. CASE v = ClipsTable
        <5>1. Autovacuum \notin Applied(db') /\ ~db.tuned
          BY <1>6, <2>1, <3>3, <4>2 DEF Sound, Versions, ClipsTable, Autovacuum
        <5>2. ~db'.table /\ ~db'.tuned
          BY <1>6, <2>3, <3>3, <4>2, <5>1
        <5>3. QED
          BY <3>2, <4>2, <5>1, <5>2 DEF Sound
      <4>3. CASE v = Autovacuum
        BY <1>5, <1>6, <2>1, <2>3, <3>2, <4>3 DEF Sound, Versions, Baseline, ClipsTable, Autovacuum
      <4>4. QED
        BY <4>1, <4>2, <4>3 DEF Versions
    <3>5. Before(db', ClipsTable, Autovacuum)
      BY <1>6, <2>1, <3>2 DEF Before, Versions
    <3>6. \A n \in Migrators : run'[n] # None => n = m
      BY <1>4, <3>1 DEF DownQuiet
    <3>7. run'[m] # None => ~run'[m].up /\ DownQuiet(m)'
      <4>1. run[m].plan \ {v} = {}
        BY <1>2, <2>3
      <4>2. QED
        BY <1>3, <1>4, <2>3, <3>6, <4>1 DEF DownQuiet
    <3>8. QED
      BY <1>6, <2>1, <3>4, <3>5, <3>6, <3>7 DEF Quiet
  <2>4. QED
    BY <1>2, <2>2, <2>3
<1>11. OneAtATime'
  <2> SUFFICES ASSUME doubt = "none" PROVE OneAtATime'
    BY <1>1 DEF OneAtATime
  <2>1. /\ Orderly(db) /\ PlanStands(m) /\ Sound(db')
        /\ \A n \in Migrators : run[n] # None => n = m
    BY <1>1, <1>2, <1>10 DEF SchemaInv, OneAtATime, Quiet
  <2>2. CASE run[m].up
    <3>1. /\ run[m].plan = Versions \ Applied(db)
          /\ \A w \in Versions : \A i \in db.rows[w], j \in run[m].ids : i < j
      BY <1>1, <2>1, <2>2 DEF PlanStands
    <3>2. v \notin Applied(db) /\ \A w \in Versions : w < v => w \in Applied(db)
      BY <1>2, <3>1 DEF Versions, Baseline, ClipsTable, Autovacuum
    <3>3. \A w \in Versions : v < w => w \notin Applied(db)
      BY <2>1, <3>2 DEF Orderly, PassedOver
    <3>4. Applied(db') = Applied(db) \cup {v}
      BY <1>5, <1>6, <2>2 DEF Applied
    <3>5. ~PassedOver(db')
      BY <3>2, <3>3, <3>4 DEF PassedOver, Applied, Versions, Baseline, ClipsTable, Autovacuum
    <3>6. ASSUME NEW x \in Versions, NEW y \in Versions, x < y
          PROVE  Before(db', x, y)
      <4>1. Before(db, x, y)
        BY <2>1, <3>6 DEF Orderly
      <4>2. CASE x = v
        <5>1. db.rows[y] = {} /\ y # v
          BY <3>3, <3>6, <4>2 DEF Applied, Versions, Baseline, ClipsTable, Autovacuum
        <5>2. QED
          BY <1>6, <5>1 DEF Before
      <4>3. CASE x # v /\ y = v
        <5>1. db.rows[v] = {}
          BY <3>2 DEF Applied
        <5>2. QED
          BY <1>6, <2>2, <3>1, <4>3, <5>1 DEF Before
      <4>4. CASE x # v /\ y # v
        BY <1>6, <4>1, <4>4 DEF Before
      <4>5. QED
        BY <4>2, <4>3, <4>4
    <3>7. Orderly(db')
      BY <1>2, <1>6, <2>1, <3>5, <3>6 DEF Orderly, DbShape
    <3>8. run'[m] # None => PlanStands(m)'
      BY <1>3, <1>4, <2>2, <3>1, <3>4 DEF PlanStands
    <3>9. QED
      BY <1>4, <2>1, <3>7, <3>8 DEF OneAtATime
  <2>3. CASE ~run[m].up
    <3>1. v \in Applied(db) /\ \A w \in Applied(db) : w <= v
      BY <1>2, <2>1, <2>3 DEF PlanStands
    <3>2. run[m].ids = db.rows[v]
      BY <1>1, <1>2, <2>3 DEF SchemaInv, Quiet, DownQuiet
    <3>3. Applied(db') = Applied(db) \ {v} /\ db'.rows[v] = {}
      BY <1>6, <2>3, <3>2 DEF Applied
    <3>4. ~PassedOver(db')
      BY <2>1, <3>1, <3>3 DEF Orderly, PassedOver, Applied, Versions, Baseline, ClipsTable, Autovacuum
    <3>5. \A x, y \in Versions : x < y => Before(db', x, y)
      BY <1>6, <2>1, <3>3 DEF Orderly, Before
    <3>6. Orderly(db')
      BY <1>2, <1>6, <2>1, <3>4, <3>5 DEF Orderly, DbShape
    <3>7. run[m].plan \ {v} = {}
      BY <1>2, <2>3
    <3>8. run'[m] # None => PlanStands(m)'
      BY <1>3, <1>4, <2>3, <3>7 DEF PlanStands
    <3>9. QED
      BY <1>4, <2>1, <3>6, <3>8 DEF OneAtATime
  <2>4. QED
    BY <1>2, <2>2, <2>3
<1>12. BackupOrder' /\ BackupKept'
  BY <1>1 DEF SchemaInv, BackupOrder, BackupKept
<1>13. QED
  BY <1>7, <1>8, <1>9, <1>10, <1>11, <1>12 DEF SchemaInv

--------------------------------------------------------------------------------
(* backup.sh leaves the database and its processes alone.                   *)
LEMMA BackupKeeps == SchemaInv /\ Backup => SchemaInv'
<1> SUFFICES ASSUME SchemaInv, Backup PROVE SchemaInv'
  OBVIOUS
<1>1. UNCHANGED <<db, run, doubt>>
  BY DEF Backup, BackupBegins, DumpEnds, DumpFails, Copy, CopySkipped, BackupFails, Prune, Day
<1>2. DbShape' /\ Locking' /\ Quiet' /\ OneAtATime'
  BY <1>1 DEF SchemaInv, DbShape, Locking, LockOf, NextOf, Quiet, UpQuiet, DownQuiet,
              OneAtATime, PlanStands
<1>3. /\ db \in Databases /\ dumps \subseteq Files /\ remote \subseteq BOOLEAN
      /\ backup \in [stage : Stages \cup {"none"}, of : Databases, whole : BOOLEAN]
      /\ kept \in BOOLEAN /\ Retention \in Nat
      /\ NoBackup \in [stage : Stages \cup {"none"}, of : Databases, whole : BOOLEAN]
      /\ BackupOrder /\ BackupKept /\ NoBackup.stage = "none"
  BY EmptyIsOrderly, SchemaAssumption DEF SchemaInv, SchemaTypeOK, NoBackup
<1>4. SchemaTypeOK' /\ BackupOrder' /\ BackupKept'
  <2> SUFFICES /\ dumps' \subseteq Files /\ remote' \subseteq BOOLEAN
               /\ backup' \in [stage : Stages \cup {"none"}, of : Databases, whole : BOOLEAN]
               /\ kept' \in BOOLEAN
               /\ BackupOrder' /\ BackupKept'
    BY <1>1 DEF SchemaInv, SchemaTypeOK
  <2>1. CASE BackupBegins
    <3>1. Orderly(db)
      BY <2>1 DEF BackupBegins, SchemaInv, OneAtATime
    <3>2. backup' = [stage |-> "dumping", of |-> db, whole |-> FALSE]
          /\ UNCHANGED <<dumps, remote, kept>>
      BY <2>1 DEF BackupBegins
    <3>3. QED
      BY <1>3, <3>1, <3>2 DEF Stages, BackupOrder, BackupKept
  <2>2. CASE DumpEnds \/ DumpFails
    <3>1. PICK whole \in BOOLEAN :
            /\ dumps' = dumps \cup {[of |-> backup.of, whole |-> whole, age |-> 0]}
            /\ backup' = IF whole THEN [backup EXCEPT !.stage = "copying", !.whole = TRUE] ELSE NoBackup
      BY <2>2 DEF DumpEnds, DumpFails, Filed, AfterFailedDump
    <3>2. [of |-> backup.of, whole |-> whole, age |-> 0] \in Files
      BY <1>3 DEF Files
    <3>3. backup.stage = "dumping" /\ UNCHANGED <<remote, kept>>
      BY <2>2 DEF DumpEnds, DumpFails, At
    <3>4. Orderly(backup.of)
      BY <1>3, <3>3 DEF BackupOrder
    <3>5. whole => backup'.whole /\ backup'.of = backup.of
      BY <1>3, <3>1
    <3>6. backup' \in [stage : Stages \cup {"none"}, of : Databases, whole : BOOLEAN]
      BY <1>3, <3>1 DEF Stages
    <3>7. ~whole => backup'.stage = "none"
      BY <1>3, <3>1
    <3>8. BackupOrder'
      <4> DEFINE file == [of |-> backup.of, whole |-> whole, age |-> 0]
      <4>1. file.of = backup.of /\ file.whole = whole /\ file.age = 0
        OBVIOUS
      <4> HIDE DEF file
      <4>2. dumps' = dumps \cup {file}
        BY <3>1 DEF file
      <4>3. \A f \in dumps' : Orderly(f.of)
        BY <1>3, <3>4, <4>1, <4>2 DEF BackupOrder
      <4>4. backup'.stage # "none" => Orderly(backup'.of)
        BY <3>4, <3>5, <3>7
      <4>5. whole => \E f \in dumps' : f.whole /\ f.age = 0
        BY <4>1, <4>2
      <4>6. QED
        BY <3>5, <3>7, <4>3, <4>4, <4>5 DEF BackupOrder
    <3>9. BackupKept'
      BY <1>3, <3>1, <3>3 DEF BackupKept
    <3>10. dumps' \subseteq Files
      BY <1>3, <3>1, <3>2
    <3>11. QED
      BY <1>3, <3>3, <3>6, <3>8, <3>9, <3>10
  <2>3. CASE Copy \/ CopySkipped
    <3>1. /\ backup.stage = "copying" /\ backup' = [backup EXCEPT !.stage = "pruning"]
          /\ remote' = remote \/ remote' = remote \cup {backup.whole}
          /\ UNCHANGED <<dumps, kept>>
      BY <2>3 DEF Copy, CopySkipped, At, BackupGoesTo
    <3>2. backup.whole /\ backup.whole \in BOOLEAN
      BY <1>3, <3>1 DEF BackupOrder
    <3>3. backup'.of = backup.of /\ backup'.whole = backup.whole /\ backup'.stage = "pruning"
      BY <1>3, <3>1
    <3>4. remote' \subseteq BOOLEAN /\ FALSE \notin remote'
      BY <1>3, <3>1, <3>2 DEF BackupKept
    <3>5. BackupOrder'
      BY <1>3, <3>1, <3>3 DEF BackupOrder
    <3>6. QED
      BY <1>3, <3>1, <3>4, <3>5 DEF BackupKept, Stages
  <2>4. CASE BackupFails
    BY <1>3, <2>4 DEF BackupFails, BackupOrder, BackupKept
  <2>5. CASE Prune
    <3>1. /\ backup.stage = "pruning" /\ backup' = NoBackup /\ kept' = TRUE
          /\ dumps' = {f \in dumps : f.age <= Retention} /\ remote' = remote
      BY <2>5 DEF Prune, At
    <3>2. \E f \in dumps' : f.whole
      BY <1>3, <3>1 DEF BackupOrder
    <3>3. QED
      BY <1>3, <3>1, <3>2 DEF BackupOrder, BackupKept
  <2>6. CASE Day
    <3> DEFINE Older(f) == [f EXCEPT !.age = IF @ > Retention THEN @ ELSE @ + 1]
    <3>1. /\ backup.stage = "none" /\ dumps' = {Older(f) : f \in dumps}
          /\ UNCHANGED <<backup, remote, kept>>
      BY <2>6 DEF Day, At
    <3>2. ASSUME NEW f \in dumps
          PROVE  Older(f) \in Files /\ Older(f).of = f.of /\ Older(f).whole = f.whole
      BY <1>3, <3>2 DEF Files
    <3> HIDE DEF Older
    <3>3. dumps' \subseteq Files /\ \A f \in dumps' : Orderly(f.of)
      BY <1>3, <3>1, <3>2 DEF BackupOrder
    <3>4. BackupOrder'
      BY <1>3, <3>1, <3>3 DEF BackupOrder
    <3>5. ASSUME NEW f \in dumps, f.whole
          PROVE  \E g \in dumps' : g.whole
      BY <3>1, <3>2, <3>5
    <3>6. BackupKept'
      BY <1>3, <3>1, <3>5 DEF BackupKept
    <3>7. QED
      BY <1>3, <3>1, <3>3, <3>4, <3>6
  <2>7. QED
    BY <2>1, <2>2, <2>3, <2>4, <2>5, <2>6 DEF Backup
<1>5. QED
  BY <1>2, <1>4 DEF SchemaInv

(* Whatever a restore does to tables, it does not change the schema under a *)
(* lock.                                                                   *)
LEMMA RestoreStages ==
  ASSUME db \in Databases, DbShape, NEW of \in Databases, Orderly(of),
         NEW d \in {TablesOf(of), BareOf(of), AllOf(of)}
  PROVE  /\ d \in Databases
         /\ d.tuned => d.table
         /\ d.versioned # "yes" => Applied(d) = {}
         /\ db.versioned = "yes" => d.versioned = "yes"
         /\ db.table => d.table
         /\ d.table # db.table => of.table /\ ~db.table
<1>1. of.tuned => of.table
  BY DEF Orderly, Sound, PassedOver, Applied, Versions, Baseline, ClipsTable, Autovacuum
<1>2. /\ TablesOf(of) \in Databases
      /\ TablesOf(of).tuned => TablesOf(of).table
      /\ TablesOf(of).versioned = db.versioned /\ TablesOf(of).rows = db.rows
      /\ db.table => TablesOf(of).table
      /\ TablesOf(of).table # db.table => of.table /\ ~db.table
  <2>1. CASE of.table /\ ~db.table
    BY <1>1, <2>1 DEF TablesOf, Databases
  <2>2. CASE ~(of.table /\ ~db.table)
    BY <2>2 DEF TablesOf, DbShape
  <2>3. QED
    BY <2>1, <2>2
<1>3. CASE d = TablesOf(of)
  BY <1>2, <1>3 DEF DbShape, Applied
<1>4. CASE d = BareOf(of)
  <2>1. /\ d \in Databases /\ d.table = TablesOf(of).table /\ d.tuned = TablesOf(of).tuned
        /\ d.rows = db.rows /\ (db.versioned = "yes" => d.versioned = "yes")
        /\ d.versioned = "yes" => db.versioned = "yes"
    BY <1>2, <1>4 DEF BareOf, Databases
  <2>2. QED
    BY <1>2, <2>1 DEF DbShape, Applied
<1>5. CASE d = AllOf(of)
  <2>1. CASE of.versioned = "yes" /\ db.versioned # "yes"
    BY <1>2, <1>5, <2>1 DEF AllOf, Databases
  <2>2. CASE ~(of.versioned = "yes" /\ db.versioned # "yes")
    BY <1>2, <1>3, <1>5, <2>2 DEF AllOf, DbShape, Applied
  <2>3. QED
    BY <2>1, <2>2
<1>6. QED
  BY <1>3, <1>4, <1>5

(* A whole restore of an empty database gives the one that was dumped.      *)
LEMMA WholeRestore ==
  ASSUME db \in Databases, DbShape, Empty, NEW of \in Databases, Orderly(of)
  PROVE  Orderly(AllOf(of))
<1>1. ~db.table /\ ~db.tuned /\ db.versioned = "no" /\ Applied(db) = {}
  BY DEF Empty, DbShape
<1>2. of.tuned => of.table
  BY DEF Orderly, Sound, PassedOver, Applied, Versions, Baseline, ClipsTable, Autovacuum
<1>3. /\ TablesOf(of) \in Databases
      /\ TablesOf(of).table <=> of.table
      /\ TablesOf(of).tuned <=> of.tuned
      /\ TablesOf(of).versioned = db.versioned /\ TablesOf(of).rows = db.rows
  <2>1. CASE of.table
    BY <1>1, <2>1 DEF TablesOf, Databases
  <2>2. CASE ~of.table
    BY <1>1, <1>2, <2>2 DEF TablesOf
  <2>3. QED
    BY <2>1, <2>2
<1>4. CASE of.versioned = "yes"
  <2>1. /\ AllOf(of).table <=> of.table
        /\ AllOf(of).tuned <=> of.tuned
        /\ AllOf(of).versioned = "yes" /\ AllOf(of).rows = of.rows
    BY <1>1, <1>3, <1>4 DEF AllOf, Databases
  <2>2. QED
    BY <2>1 DEF Orderly, Sound, PassedOver, Applied, Before
<1>5. CASE of.versioned # "yes"
  <2>1. AllOf(of) = TablesOf(of)
    BY <1>5 DEF AllOf
  <2>2. of.versioned = "no" /\ Applied(of) = {}
    BY <1>5 DEF Orderly, Databases
  <2>3. Applied(AllOf(of)) = {} /\ \A w \in Versions : AllOf(of).rows[w] = {}
    BY <1>1, <1>3, <2>1 DEF Applied
  <2>4. ~AllOf(of).table /\ ~AllOf(of).tuned /\ AllOf(of).versioned = "no"
    BY <1>1, <1>3, <2>1, <2>2 DEF Orderly, Sound
  <2>5. QED
    BY <2>3, <2>4 DEF Orderly, Sound, PassedOver, Before
<1>6. QED
  BY <1>4, <1>5

(* A restore, whole or not, of a database as it is meant or of another.     *)
LEMMA RestoreKeeps == SchemaInv /\ Restore => SchemaInv'
<1> SUFFICES ASSUME SchemaInv, Restore PROVE SchemaInv'
  OBVIOUS
<1>1. UNCHANGED <<run, dumps, remote, backup, kept>>
  BY DEF Restore, Restored, RestoreFails, NewDatabase, backupVars
<1>2. BackupOrder' /\ BackupKept'
  BY <1>1 DEF SchemaInv, BackupOrder, BackupKept
<1>3. db \in Databases /\ DbShape /\ \A f \in dumps : f.of \in Databases /\ Orderly(f.of)
  BY DEF SchemaInv, SchemaTypeOK, Files, BackupOrder
<1>4. CASE NewDatabase
  <2>1. /\ \A m \in Migrators : run'[m] = None
        /\ db' \in Databases /\ Orderly(db') /\ Applied(db') = {} /\ ~db'.tuned
        /\ doubt' = "none"
    BY <1>1, <1>4, EmptyIsOrderly DEF NewDatabase, EmptyDb
  <2>2. SchemaTypeOK'
    BY <1>1, <2>1 DEF SchemaInv, SchemaTypeOK, Doubts
  <2>3. DbShape' /\ Locking' /\ Quiet' /\ OneAtATime'
    BY <2>1 DEF DbShape, Locking, Quiet, OneAtATime, Orderly, Versions, ClipsTable, Autovacuum
  <2>4. QED
    BY <1>2, <2>2, <2>3 DEF SchemaInv
<1>5. ASSUME NEW f \in dumps,
             db' = db \/ (~Waits(f.of) /\ db' \in {TablesOf(f.of), BareOf(f.of), AllOf(f.of)})
      PROVE  db' \in Databases /\ DbShape' /\ Locking'
  <2>1. CASE db' = db
    BY <1>1, <1>3, <2>1 DEF SchemaInv, DbShape, Locking, LockOf, NextOf
  <2>2. CASE ~Waits(f.of) /\ db' \in {TablesOf(f.of), BareOf(f.of), AllOf(f.of)}
    <3>1. /\ db' \in Databases
          /\ db'.tuned => db'.table
          /\ db'.versioned # "yes" => Applied(db') = {}
          /\ db.versioned = "yes" => db'.versioned = "yes"
          /\ db'.table # db.table => f.of.table /\ ~db.table
      BY <1>3, <2>2, RestoreStages
    <3>2. DbShape'
      BY <1>1, <1>3, <3>1 DEF DbShape
    <3>3. \A m \in Migrators : run[m] # None /\ run[m].holds => db'.table = db.table
      BY <2>2, <3>1 DEF Waits, Unlocked
    <3>4. \A m \in Migrators : run'[m] # None => LockOf(m)'
      BY <1>1, <3>3 DEF SchemaInv, Locking, LockOf, NextOf
    <3>5. QED
      BY <1>1, <3>1, <3>2, <3>4 DEF SchemaInv, Locking
  <2>3. QED
    BY <1>5, <2>1, <2>2
<1>6. ASSUME NEW f \in dumps, RestoreFails(f)
      PROVE  SchemaInv'
  <2>1. db' \in Databases /\ DbShape' /\ Locking' /\ doubt' = "restore"
    BY <1>5, <1>6 DEF RestoreFails
  <2>2. SchemaTypeOK' /\ Quiet' /\ OneAtATime'
    BY <1>1, <2>1 DEF SchemaInv, SchemaTypeOK, Doubts, Quiet, OneAtATime
  <2>3. QED
    BY <1>2, <2>1, <2>2 DEF SchemaInv
<1>7. ASSUME NEW f \in dumps, Restored(f)
      PROVE  SchemaInv'
  <2>1. db' = AllOf(f.of) /\ db' \in Databases /\ DbShape' /\ Locking'
    BY <1>5, <1>7 DEF Restored
  <2>2. CASE ~(Empty /\ \A m \in Migrators : run[m] = None)
    BY <1>1, <1>2, <1>7, <2>1, <2>2
       DEF Restored, SchemaInv, SchemaTypeOK, Doubts, Quiet, OneAtATime
  <2>3. CASE Empty /\ \A m \in Migrators : run[m] = None
    <3>1. Orderly(db') /\ doubt' = "none" /\ \A m \in Migrators : run'[m] = None
      BY <1>1, <1>3, <1>7, <2>1, <2>3, WholeRestore DEF Restored
    <3>2. Quiet' /\ OneAtATime'
      BY <3>1 DEF Quiet, OneAtATime, Orderly, Versions, ClipsTable, Autovacuum
    <3>3. SchemaTypeOK'
      BY <1>1, <2>1, <3>1 DEF SchemaInv, SchemaTypeOK, Doubts
    <3>4. QED
      BY <1>2, <2>1, <3>2, <3>3 DEF SchemaInv
  <2>4. QED
    BY <2>2, <2>3
<1>8. QED
  BY <1>4, <1>6, <1>7 DEF Restore

--------------------------------------------------------------------------------
LEMMA SchemaStep == SchemaInv /\ [SchemaNext]_schemaVars => SchemaInv'
<1> SUFFICES ASSUME SchemaInv, [SchemaNext]_schemaVars PROVE SchemaInv'
  OBVIOUS
<1>1. ASSUME NEW m \in Migrators, Migration(m) PROVE SchemaInv'
  BY <1>1, StartsKeep, ChangeKeeps, RecordKeeps, CommitKeeps, KilledKeeps, EndsKeeps DEF Migration
<1>2. CASE UNCHANGED schemaVars
  <2>1. UNCHANGED <<db, run, doubt, dumps, remote, backup, kept>>
    BY <1>2 DEF schemaVars
  <2>2. SchemaTypeOK' /\ DbShape' /\ BackupOrder' /\ BackupKept'
    BY <2>1 DEF SchemaInv, SchemaTypeOK, DbShape, BackupOrder, BackupKept
  <2>3. Locking'
    BY <2>1 DEF SchemaInv, Locking, LockOf, NextOf
  <2>4. Quiet' /\ OneAtATime'
    BY <2>1 DEF SchemaInv, NextOf, Quiet, UpQuiet, DownQuiet, OneAtATime, PlanStands
  <2>5. QED
    BY <2>2, <2>3, <2>4 DEF SchemaInv
<1>3. QED
  BY <1>1, <1>2, CheckKeeps, BackupKeeps, RestoreKeeps DEF SchemaNext

THEOREM SchemaInvariance == SchemaSpec => []SchemaInv
BY InitSchemaInv, SchemaStep, PTL DEF SchemaSpec

(* What a process that has the database to itself does next fits the schema *)
(* it meets: its plan starts where the version table ends.                  *)
LEMMA PlanFits ==
  ASSUME SchemaInv, doubt = "none", NEW m \in Migrators, NEW v \in Versions, NextOf(m, v)
  PROVE  Fits(m, v)
<1>1. Orderly(db) /\ PlanStands(m) /\ run[m] # None
  BY DEF SchemaInv, OneAtATime, NextOf
<1>2. CASE run[m].up
  <2>1. v \notin Applied(db) /\ \A w \in Versions : w < v => w \in Applied(db)
    BY <1>1, <1>2 DEF PlanStands, NextOf, Versions, Baseline, ClipsTable, Autovacuum
  <2>2. QED
    BY <1>1, <1>2, <2>1
       DEF Fits, UpFits, Orderly, Sound, Versions, Baseline, ClipsTable, Autovacuum
<1>3. CASE ~run[m].up
  <2>1. v \in Applied(db)
    BY <1>1, <1>3 DEF PlanStands, NextOf
  <2>2. v = Autovacuum => ClipsTable \in Applied(db)
    BY <1>1, <2>1 DEF Orderly, PassedOver, Versions, Baseline, ClipsTable, Autovacuum
  <2>3. QED
    BY <1>1, <1>3, <2>2 DEF Fits, DownFits, Orderly, Sound
<1>4. QED
  BY <1>2, <1>3

(* While no down runs beside another process, schema and version table     *)
(* agree, whatever any number of ups do to each other, where they fail, die *)
(* and what their sessions still commit, and across a backup and a whole    *)
(* restore; and while each has the database to itself migrate up can always *)
(* go on, to the end, where nothing is pending (Runner.Up, Runner.Down).    *)
THEOREM SchemaIsRecorded == SchemaSpec => []SchemaRecorded
<1>1. SchemaInv => SchemaRecorded
  <2> SUFFICES ASSUME SchemaInv PROVE SchemaRecorded
    OBVIOUS
  <2>1. /\ doubt \in {"none", "ups"} =>
             (db.table <=> ClipsTable \in Applied(db)) /\ (db.tuned <=> Autovacuum \in Applied(db))
        /\ doubt = "none" => ~PassedOver(db)
    BY DEF SchemaInv, Quiet, Sound, OneAtATime, Orderly
  <2>2. ASSUME doubt = "none", NEW m \in Migrators, run[m] # None, run[m].up, run[m].plan = {}
        PROVE  Applied(db) = Versions
    <3>1. PlanStands(m)
      BY <2>2 DEF SchemaInv, OneAtATime
    <3>2. QED
      BY <2>2, <3>1 DEF PlanStands, Applied
  <2>3. QED
    BY <2>1, <2>2, PlanFits DEF SchemaRecorded
<1>2. QED
  BY <1>1, SchemaInvariance, PTL

(* After a first backup there is always a whole dump, and no other is ever  *)
(* copied away, for every retention (backup.sh).                            *)
THEOREM BackupIsKept == SchemaSpec => []BackupKept
<1>1. SchemaInv => BackupKept
  BY DEF SchemaInv
<1>2. QED
  BY <1>1, SchemaInvariance, PTL

(* The types of the state; and that Down takes back one version (Runner.Down). *)
THEOREM SchemaTypeCorrect == SchemaSpec => []SchemaTypeOK
<1>1. SchemaInv => SchemaTypeOK
  BY DEF SchemaInv
<1>2. QED
  BY <1>1, SchemaInvariance, PTL
================================================================================
