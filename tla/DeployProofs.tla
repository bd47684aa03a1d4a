------------------------------ MODULE DeployProofs ------------------------------
(***************************************************************************)
(* For any images, migrations and runs: one run at a time is past the lock, *)
(* what serves stays healthy, what is replaced is what was read, and        *)
(* deployed-sha names what serves; and what that is worth where the order   *)
(* of releases is concerned.                                               *)
(***************************************************************************)
EXTENDS Deploy, TLAPS

(* Past the comparison, and up to the swap, what it found remains true: the *)
(* lock keeps every other run from recording.                              *)
Compared == {"migrating", "gating", "waitingPrevious", "starting", "waitingCandidate", "swapping"}

DeployInv ==
  /\ DeployTypeOK
  /\ ServedStaysHealthy
  /\ \A r \in Runs : pc[r] = "swapping" => Healthy(image[r])
  /\ \A r \in Runs : pc[r] \in Compared => MayReplace(r)
  /\ \A r \in Runs : pc[r] = "recording" => served = image[r]
  /\ StateNamesServed

LEMMA DeployInitInv == DeployInit => DeployInv
  BY DeployAssumption
     DEF DeployInit, DeployInv, DeployTypeOK, ServedStaysHealthy, StateNamesServed,
         ImageOrNone, Locked, Compared

(* A schema that only grows takes nobody's health away.                    *)
LEMMA MigratedGrows ==
  ASSUME DeployTypeOK, NEW r \in Runs, pc[r] = "migrating"
  PROVE  Migrated(r) \in Nat /\ schema <= Migrated(r)
<1>1. image[r] \in Images /\ schema \in Nat
  BY DEF DeployTypeOK
<1>2. Need[image[r]] \in Nat
  BY <1>1, DeployAssumption
<1>3. QED
  BY <1>1, <1>2 DEF Migrated

LEMMA HealthyLater ==
  ASSUME DeployTypeOK, NEW i \in Images, Healthy(i), schema' \in Nat, schema <= schema'
  PROVE  Healthy(i)'
  BY DeployAssumption DEF DeployTypeOK, Healthy

(* Steps before and at the lock.                                           *)
LEMMA BeforeLockKeeps ==
  ASSUME DeployInv, NEW r \in Runs,
         \/ \E i \in Images : \/ StartJob(r, i)
                              \/ \E p \in ImageOrNone : StartByHand(r, i, p)
         \/ TakeLock(r) \/ Compare(r)
  PROVE  DeployInv'
<1> USE DeployAssumption DEF DeployInv, DeployTypeOK, ImageOrNone, Locked, Compared, Goes,
        ServedStaysHealthy, StateNamesServed, Healthy, MayReplace, hostVars
<1>1. ASSUME NEW i \in Images, StartJob(r, i)
      PROVE  DeployInv'
  BY <1>1 DEF StartJob, Read
<1>2. ASSUME NEW i \in Images, NEW p \in ImageOrNone, StartByHand(r, i, p)
      PROVE  DeployInv'
  BY <1>2 DEF StartByHand
<1>3. CASE TakeLock(r)
  BY <1>3 DEF TakeLock, LockFree, inputs
<1>4. CASE Compare(r)
  BY <1>4 DEF Compare, Leaves, inputs
<1>5. QED
  BY <1>1, <1>2, <1>3, <1>4

(* The steps between the comparison and the swap.                          *)
LEMMA GatesKeep ==
  ASSUME DeployInv, NEW r \in Runs,
         \/ GateSkipped(r) \/ GatePrevious(r) \/ PreviousHealthy(r) \/ PreviousUnhealthy(r)
         \/ StartCandidate(r) \/ CandidateHealthy(r) \/ CandidateUnhealthy(r)
  PROVE  DeployInv'
<1> USE DeployAssumption DEF DeployInv, DeployTypeOK, ImageOrNone, Locked, Compared, Goes,
        Leaves, ServedStaysHealthy, StateNamesServed, Healthy, MayReplace, hostVars, inputs
<1>1. CASE GateSkipped(r)
  BY <1>1 DEF GateSkipped
<1>2. CASE GatePrevious(r)
  BY <1>2 DEF GatePrevious
<1>3. CASE PreviousHealthy(r)
  BY <1>3 DEF PreviousHealthy
<1>4. CASE PreviousUnhealthy(r)
  BY <1>4 DEF PreviousUnhealthy
<1>5. CASE StartCandidate(r)
  BY <1>5 DEF StartCandidate
<1>6. CASE CandidateHealthy(r)
  BY <1>6 DEF CandidateHealthy
<1>7. CASE CandidateUnhealthy(r)
  BY <1>7 DEF CandidateUnhealthy
<1>8. QED
  BY <1>1, <1>2, <1>3, <1>4, <1>5, <1>6, <1>7

(* The steps that change the schema.                                       *)
LEMMA MigrationKeeps ==
  ASSUME DeployInv, NEW r \in Runs, Migrate(r) \/ MigrateFails(r)
  PROVE  DeployInv'
<1>1. /\ schema' \in Nat /\ schema <= schema'
      /\ UNCHANGED <<state, served, gated, candidate, inputs>>
      /\ \/ Goes(r, "gating") /\ UNCHANGED lock
         \/ Leaves(r, "refused")
      /\ pc[r] = "migrating"
  BY MigratedGrows DEF Migrate, MigrateFails, DeployInv, DeployTypeOK
<1>2. \A i \in Images : Healthy(i) => Healthy(i)'
  BY <1>1, HealthyLater DEF DeployInv
<1>3. DeployTypeOK'
  BY <1>1 DEF DeployInv, DeployTypeOK, ImageOrNone, Locked, Goes, Leaves, inputs
<1>4. /\ ServedStaysHealthy'
      /\ \A q \in Runs : pc'[q] = "swapping" => Healthy(image[q])'
  BY <1>1, <1>2 DEF DeployInv, DeployTypeOK, ImageOrNone, ServedStaysHealthy, Goes, Leaves, inputs,
                    Healthy
<1>5. /\ \A q \in Runs : pc'[q] \in Compared => MayReplace(q)'
      /\ \A q \in Runs : pc'[q] = "recording" => served' = image'[q]
      /\ StateNamesServed'
  BY <1>1 DEF DeployInv, DeployTypeOK, MayReplace, StateNamesServed, Goes, Leaves, inputs, Compared
<1>6. QED
  BY <1>3, <1>4, <1>5 DEF DeployInv

(* The steps that change the app or what is recorded of it, and deaths.    *)
LEMMA SwapKeeps ==
  ASSUME DeployInv, NEW r \in Runs, Swap(r) \/ SwapFails(r) \/ Record(r) \/ Killed(r)
  PROVE  DeployInv'
<1> USE DeployAssumption DEF DeployInv, DeployTypeOK, ImageOrNone, Locked, Compared, Goes,
        Leaves, ServedStaysHealthy, StateNamesServed, Healthy, MayReplace, hostVars, inputs
<1>1. CASE Swap(r)
  BY <1>1 DEF Swap
<1>2. CASE SwapFails(r)
  BY <1>2 DEF SwapFails
<1>3. CASE Record(r)
  BY <1>3 DEF Record, Recorded
<1>4. CASE Killed(r)
  BY <1>4 DEF Killed
<1>5. QED
  BY <1>1, <1>2, <1>3, <1>4

LEMMA DeployStep == DeployInv /\ [DeployNext]_deployVars => DeployInv'
<1> SUFFICES ASSUME DeployInv, [DeployNext]_deployVars
             PROVE  DeployInv'
  OBVIOUS
<1>1. ASSUME NEW r \in Runs, Script(r)
      PROVE  DeployInv'
  BY <1>1, BeforeLockKeeps, GatesKeep, MigrationKeeps, SwapKeeps DEF Script
<1>2. ASSUME NEW r \in Runs, NEW i \in Images,
             StartJob(r, i) \/ StartByHand(r, i, None) \/ StartByHand(r, i, served)
      PROVE  DeployInv'
  <2>1. None \in ImageOrNone /\ served \in ImageOrNone
    BY DEF ImageOrNone, DeployInv, DeployTypeOK
  <2>2. QED
    BY <1>2, <2>1, BeforeLockKeeps
<1>3. CASE UNCHANGED deployVars
  BY <1>3 DEF deployVars, DeployInv, DeployTypeOK, ServedStaysHealthy, StateNamesServed, Healthy,
              MayReplace
<1>4. QED
  BY <1>1, <1>2, <1>3 DEF DeployNext

(* The invariant of a release, by induction over its steps.                *)
THEOREM DeployInvariance == DeploySpec => []DeployInv
  BY DeployInitInv, DeployStep, PTL DEF DeploySpec

(* However many releases, rollbacks and deaths: the lock admits one run,   *)
(* and the types hold (flock in deploy.sh).                                *)
THEOREM OneRunPastLock == DeploySpec => []DeployTypeOK
<1>1. DeployInv => DeployTypeOK
  BY DEF DeployInv
<1>2. QED
  BY <1>1, DeployInvariance, PTL

(* What serves has all its migrations and is not broken (migrate before    *)
(* the swap, candidate gate).                                              *)
THEOREM ServingIsHealthy == DeploySpec => []ServedStaysHealthy
<1>1. DeployInv => ServedStaysHealthy
  BY DEF DeployInv
<1>2. QED
  BY <1>1, DeployInvariance, PTL

(* deployed-sha is right unless a run was torn apart (the write after the  *)
(* swap).                                                                  *)
THEOREM RecordIsRight == DeploySpec => []StateNamesServed
<1>1. DeployInv => StateNamesServed
  BY DEF DeployInv
<1>2. QED
  BY <1>1, DeployInvariance, PTL

(* No job replaces anything but what it has read (EXPECTED_PREVIOUS_SHA).  *)
THEOREM ReplacementIsExpected == DeploySpec => ReplacesWhatItRead
<1>1. DeployInv /\ [DeployNext]_deployVars
        => [\A r \in Jobs :
              Replaces(r) => \/ state \in {expected[r], image[r]}
                             \/ expected[r] = None \/ state = None]_deployVars
  BY DeployAssumption DEF DeployInv, Replaces, MayReplace, Compared
<1>2. QED
  BY <1>1, DeployInvariance, PTL DEF DeploySpec, ReplacesWhatItRead

(* A job that found an image deployed, and brings a commit no older.       *)
BringsLater(r) == expected[r] # None /\ expected[r] <= image[r]

(* The app that such a job replaces is no newer than its own.              *)
LaterReplacesEarlier ==
  [][\A r \in Jobs :
       NoneTorn /\ Replaces(r) /\ served # None /\ BringsLater(r) => served <= image[r]]_deployVars

(* What the lock and the comparison are worth where the order of releases   *)
(* is concerned: while no run is torn apart, an older image replaces a      *)
(* newer one only when the job itself had read the newer one, or nothing,   *)
(* in deployed-sha.  No other job, operator, failure or kill in between     *)
(* brings it about, and a job that compared the commits it has read would   *)
(* need nothing else (the comparison in deploy.sh, the job of ci.yml).     *)
THEOREM OlderOnlyByItsOwnReading == DeploySpec => LaterReplacesEarlier
<1>1. ASSUME DeployInv, [DeployNext]_deployVars, NEW r \in Jobs,
             NoneTorn, Replaces(r), served # None, BringsLater(r)
      PROVE  served <= image[r]
  <2>1. r \in Runs /\ pc[r] = "swapping" /\ lock = r
    BY <1>1, DeployAssumption DEF Replaces, DeployInv, DeployTypeOK, Locked
  <2>2. \A q \in Runs : pc[q] \notin {"recording", "torn"}
    BY <1>1, <2>1 DEF NoneTorn, DeployInv, DeployTypeOK, Locked
  <2>3. state = served
    BY <1>1, <2>2 DEF DeployInv, StateNamesServed
  <2>4. served \in {expected[r], image[r]}
    BY <1>1, <2>1, <2>3 DEF DeployInv, MayReplace, Compared, BringsLater
  <2>5. image[r] \in Nat
    BY <1>1, <2>1, DeployAssumption DEF DeployInv, DeployTypeOK
  <2>6. QED
    BY <1>1, <2>4, <2>5 DEF BringsLater
<1>2. DeployInv /\ [DeployNext]_deployVars
        => [\A r \in Jobs :
              NoneTorn /\ Replaces(r) /\ served # None /\ BringsLater(r)
                => served <= image[r]]_deployVars
  BY <1>1
<1>3. QED
  BY <1>2, DeployInvariance, PTL DEF DeploySpec, LaterReplacesEarlier
================================================================================
