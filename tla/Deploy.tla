--------------------------------- MODULE Deploy ---------------------------------
(***************************************************************************)
(* Releases: the deploy job of ci.yml and deploy/deploy.sh on the host.    *)
(* The job reads deployed-sha over ssh and then starts the script; the     *)
(* script takes the lock, compares, migrates, gates the previous image and *)
(* a candidate on /api/health, swaps the app and writes deployed-sha.  An  *)
(* operator may run the script by hand at any time, and a run may be killed *)
(* between any two of its commands.                                        *)
(***************************************************************************)
EXTENDS Integers

CONSTANTS
  Images,     \* a commit's image is its number: a later commit, a larger one
  Need,       \* the migrations an image carries: versions 1..Need[i]
  Broken,     \* images that never become healthy
  Runs,       \* runs of the script
  Jobs,       \* those of them a deploy job of CI starts, the others are by hand
  Blank,      \* what a deployed-sha holds that was emptied and not written
  None        \* no image, no file, nothing read, nobody

ASSUME DeployAssumption ==
  /\ Images \subseteq Nat \ {0}
  /\ Need \in [Images -> Nat]
  /\ Broken \subseteq Images
  /\ Jobs \subseteq Runs
  /\ None \notin Images /\ None \notin Runs /\ Blank \notin Images \cup {None}

VARIABLES
  lock,       \* the run that holds the flock
  state,      \* the image deployed-sha names
  served,     \* the image the app container runs
  schema,     \* the version of the database
  gated,      \* the image of the prevcheck container
  candidate,  \* the image of the candidate container
  pc,         \* where each run is
  image,      \* what it deploys
  expected,   \* EXPECTED_PREVIOUS_SHA
  previous    \* the previous-image argument

deployVars == <<lock, state, served, schema, gated, candidate,
                pc, image, expected, previous>>
hostVars   == <<state, served, schema, gated, candidate>>
inputs     == <<image, expected, previous>>

(* The points of the script between taking and giving back the lock.       *)
Locked == {"comparing", "migrating", "gating", "waitingPrevious", "starting",
           "waitingCandidate", "swapping", "recording"}

ImageOrNone == Images \cup {None}

DeployTypeOK ==
  /\ lock \in Runs \cup {None}
  /\ state \in ImageOrNone \cup {Blank} /\ served \in ImageOrNone
  /\ gated \in ImageOrNone /\ candidate \in ImageOrNone
  /\ schema \in Nat
  /\ pc \in [Runs -> {"none", "ready", "done", "refused", "killed", "torn"} \cup Locked]
  /\ image \in [Runs -> ImageOrNone]
  /\ expected \in [Runs -> ImageOrNone]
  /\ previous \in [Runs -> ImageOrNone]
  /\ \A r \in Runs : pc[r] # "none" => image[r] \in Images
  /\ \A r \in Runs : pc[r] \in Locked => lock = r

DeployInit ==
  /\ lock = None /\ state = None /\ served = None /\ schema = 0
  /\ gated = None /\ candidate = None
  /\ pc = [r \in Runs |-> "none"]
  /\ image = [r \in Runs |-> None]
  /\ expected = [r \in Runs |-> None]
  /\ previous = [r \in Runs |-> None]

--------------------------------------------------------------------------------
Goes(r, to) == pc' = [pc EXCEPT ![r] = to]

(* The script ends, and the kernel gives the lock back.                    *)
Leaves(r, to) == Goes(r, to) /\ lock' = None

(* What cat gives the job: nothing of an empty file or of none.             *)
Read == IF state = Blank THEN None ELSE state

(* The deploy jobs of one concurrency group run one at a time; which of    *)
(* the waiting ones is next, or that an old one is run again, is open.  A   *)
(* job reads deployed-sha, and deploys the image it has built.             *)
StartJob(r, i) ==
  /\ pc[r] = "none" /\ r \in Jobs
  /\ \A q \in Jobs : pc[q] \notin {"ready"} \cup Locked
  /\ Goes(r, "ready")
  /\ image' = [image EXCEPT ![r] = i]
  /\ expected' = [expected EXCEPT ![r] = Read]
  /\ previous' = [previous EXCEPT ![r] = Read]
  /\ UNCHANGED <<lock, hostVars>>

(* deploy.sh <image-ref> [previous-image-ref] on the host.                 *)
StartByHand(r, i, p) ==
  /\ pc[r] = "none" /\ r \notin Jobs
  /\ Goes(r, "ready")
  /\ image' = [image EXCEPT ![r] = i]
  /\ previous' = [previous EXCEPT ![r] = p]
  /\ UNCHANGED <<lock, hostVars, expected>>

(* Mutant: the answer of flock is not looked at.                           *)
LockIgnored == TRUE

LockFree == lock = None

TakeLock(r) ==
  /\ pc[r] = "ready"
  /\ IF LockFree THEN Goes(r, "comparing") /\ lock' = r
                 ELSE Goes(r, "refused") /\ UNCHANGED lock
  /\ UNCHANGED <<hostVars, inputs>>

(* Mutant: whatever is deployed may be replaced.                           *)
MayReplaceAny(r) == TRUE

(* What is deployed is what the run expects to replace, or is its image;   *)
(* who expects something refuses an empty file.                            *)
MayReplace(r) ==
  \/ expected[r] = None \/ state = None
  \/ state \in {expected[r], image[r]}

Compare(r) ==
  /\ pc[r] = "comparing"
  /\ IF MayReplace(r) THEN Goes(r, "migrating") /\ UNCHANGED lock ELSE Leaves(r, "refused")
  /\ UNCHANGED <<hostVars, inputs>>

(* Mutant: migrate goes to the version of the image, up or down.           *)
MigratedExactly(r) == Need[image[r]]

(* migrate up with the image's own migrations: those missing are applied,   *)
(* none is taken back.                                                     *)
Migrated(r) == IF schema < Need[image[r]] THEN Need[image[r]] ELSE schema

Migrate(r) ==
  /\ pc[r] = "migrating"
  /\ schema' = Migrated(r)
  /\ Goes(r, "gating")
  /\ UNCHANGED <<lock, state, served, gated, candidate, inputs>>

(* Pull or migration fails: each migration is a transaction of its own.    *)
MigrateFails(r) ==
  /\ pc[r] = "migrating"
  /\ \E v \in schema..Migrated(r) : schema' = v
  /\ Leaves(r, "refused")
  /\ UNCHANGED <<state, served, gated, candidate, inputs>>

GateSkipped(r) ==
  /\ pc[r] = "gating"
  /\ previous[r] \in {None, image[r]}
  /\ Goes(r, "starting")
  /\ UNCHANGED <<lock, hostVars, inputs>>

GatePrevious(r) ==
  /\ pc[r] = "gating"
  /\ previous[r] \notin {None, image[r]}
  /\ gated' = previous[r]
  /\ Goes(r, "waitingPrevious")
  /\ UNCHANGED <<lock, state, served, schema, candidate, inputs>>

(* /api/health answers 200: the image runs, the database answers and none  *)
(* of the image's migrations is pending.                                   *)
Healthy(i) == i \notin Broken /\ Need[i] <= schema

PreviousHealthy(r) ==
  /\ pc[r] = "waitingPrevious" /\ Healthy(previous[r])
  /\ gated' = None
  /\ Goes(r, "starting")
  /\ UNCHANGED <<lock, state, served, schema, candidate, inputs>>

(* Nothing became healthy in HEALTH_TIMEOUT_SEC, as may happen to a good   *)
(* image as well.                                                          *)
PreviousUnhealthy(r) ==
  /\ pc[r] = "waitingPrevious"
  /\ gated' = None
  /\ Leaves(r, "refused")
  /\ UNCHANGED <<state, served, schema, candidate, inputs>>

StartCandidate(r) ==
  /\ pc[r] = "starting"
  /\ candidate' = image[r]
  /\ Goes(r, "waitingCandidate")
  /\ UNCHANGED <<lock, state, served, schema, gated, inputs>>

CandidateHealthy(r) ==
  /\ pc[r] = "waitingCandidate" /\ Healthy(image[r])
  /\ candidate' = None
  /\ Goes(r, "swapping")
  /\ UNCHANGED <<lock, state, served, schema, gated, inputs>>

CandidateUnhealthy(r) ==
  /\ pc[r] = "waitingCandidate"
  /\ candidate' = None
  /\ Leaves(r, "refused")
  /\ UNCHANGED <<state, served, schema, gated, inputs>>

(* compose up recreates the app; its health is not looked at again.        *)
Swap(r) ==
  /\ pc[r] = "swapping"
  /\ served' = image[r]
  /\ Goes(r, "recording")
  /\ UNCHANGED <<lock, state, schema, gated, candidate, inputs>>

(* compose up fails: before, between or after the two containers.          *)
SwapFails(r) ==
  /\ pc[r] = "swapping"
  /\ served' \in {served, None, image[r]}
  /\ Leaves(r, "torn")
  /\ UNCHANGED <<state, schema, gated, candidate, inputs>>

(* Mutant: what was there before is recorded.                              *)
RecordedStale(r) == previous[r]

Recorded(r) == image[r]

Record(r) ==
  /\ pc[r] = "recording"
  /\ state' = Recorded(r)
  /\ Leaves(r, "done")
  /\ UNCHANGED <<served, schema, gated, candidate, inputs>>

(* A run dies with its ssh session or of a command that fails (set -e); the *)
(* containers it started stay. The shell empties deployed-sha before echo    *)
(* writes it.                                                              *)
Killed(r) ==
  /\ pc[r] \in {"ready"} \cup Locked
  /\ Goes(r, IF pc[r] = "recording" THEN "torn" ELSE "killed")
  /\ lock' = IF lock = r THEN None ELSE lock
  /\ state' \in {state} \cup (IF pc[r] = "recording" THEN {Blank} ELSE {})
  /\ UNCHANGED <<served, schema, gated, candidate, inputs>>

--------------------------------------------------------------------------------
Script(r) == \/ TakeLock(r) \/ Compare(r) \/ Migrate(r) \/ MigrateFails(r)
             \/ GateSkipped(r) \/ GatePrevious(r) \/ PreviousHealthy(r) \/ PreviousUnhealthy(r)
             \/ StartCandidate(r) \/ CandidateHealthy(r) \/ CandidateUnhealthy(r)
             \/ Swap(r) \/ SwapFails(r) \/ Record(r) \/ Killed(r)

DeployNext ==
  \E r \in Runs :
    \/ Script(r)
    \/ \E i \in Images : StartJob(r, i) \/ StartByHand(r, i, None) \/ StartByHand(r, i, served)

DeploySpec == DeployInit /\ [][DeployNext]_deployVars

--------------------------------------------------------------------------------
(* Properties. *)

(* Whatever serves was healthy when it was swapped in, and no release,     *)
(* rollback, failure or kill since then has taken from the schema what it  *)
(* needs (migrate up before the swap, the candidate gate, no migrate down).*)
ServedStaysHealthy == served # None => Healthy(served)

Replaces(r) == pc[r] = "swapping" /\ pc'[r] = "recording"

(* A run that replaces the app replaces what it has read to be deployed:   *)
(* what happened between the job's reading of deployed-sha and the lock is *)
(* noticed, and nothing happens after (EXPECTED_PREVIOUS_SHA, flock).      *)
ReplacesWhatItRead ==
  [][\A r \in Jobs :
       Replaces(r) => \/ state \in {expected[r], image[r]}
                      \/ expected[r] = None \/ state = None]_deployVars

(* deployed-sha names the image that serves whenever no run is between     *)
(* swapping and recording, unless one was torn apart there.                *)
StateNamesServed ==
  (\A r \in Runs : pc[r] \notin {"recording", "torn"}) => state = served

(* No run so far was torn apart between swapping and recording.            *)
NoneTorn == \A r \in Runs : pc[r] # "torn"

(* What the pipeline's specification asks of the lock and the comparison:  *)
(* a job of an older commit that has read what is deployed never replaces   *)
(* the image of a newer one.                                               *)
OlderNeverReplacesNewer ==
  [][\A r \in Jobs :
       NoneTorn /\ Replaces(r) /\ expected[r] # None /\ served # None
         => served <= image[r]]_deployVars

================================================================================
