--------------------------------- MODULE Health ---------------------------------
(***************************************************************************)
(* GET /api/health, internal/httpapi/health.go: one answer put together     *)
(* from four queries of a database that may come, go, hang and be migrated  *)
(* by another process between any two of them; and its two readers, the     *)
(* gate of a release and the status page.                                  *)
(***************************************************************************)
EXTENDS Naturals, FiniteSets

CONSTANTS
  Latest,      \* the last migration that this image has
  MaxVersion,  \* the last one that any image has
  MaxChanges,  \* BOUND: changes of the database
  None

Known      == BOOLEAN \cup {None}
Migrations == [pending : BOOLEAN, currentVersion : 0..MaxVersion]
Databases  == [db : {"up", "down", "hung"}, version : 0..MaxVersion]
Bodies     == [status : {"ok", "degraded"}, reachable : BOOLEAN,
               migrations : Migrations \cup {None}, serverTime : BOOLEAN]
Stages     == {"probe", "pending", "version", "time", "answer"}
Checks     == [at : Stages, for : {"gate", "page", "nobody"}, gone : BOOLEAN,
               pending : Known, body : Bodies]

ASSUME HealthAssumption ==
  /\ Latest \in Nat /\ MaxVersion \in Nat /\ Latest <= MaxVersion /\ MaxChanges \in Nat
  /\ None \notin BOOLEAN \cup Migrations \cup Checks

VARIABLES
  db,        \* "up", "down" (it refuses), or "hung" (it does not answer)
  version,   \* of the schema
  changes,
  runner,    \* the migration runner could be built
  check,     \* the check under way, or None
  response,  \* the last answer, or None
  page,      \* LoadState of the status page, or "closed"
  seen,      \* history: the states of the database during the last check
  erred      \* history: the readings of it that failed

database   == <<db, version, changes>>
history    == <<seen, erred>>
healthVars == <<database, runner, check, response, page, history>>

HealthTypeOK ==
  /\ [db |-> db, version |-> version] \in Databases /\ changes \in 0..MaxChanges
  /\ runner \in BOOLEAN
  /\ check \in Checks \cup {None}
  /\ response \in [code : {200, 503}, body : Bodies] \cup {None}
  /\ page \in {"closed", "loading", "ready", "error"}
  /\ seen \subseteq Databases /\ erred \subseteq {"probe", "migrations", "time"}
  /\ page = "loading" <=> check # None /\ check.for = "page"

HealthInit ==
  /\ db \in {"up", "down", "hung"} /\ version \in 0..MaxVersion /\ changes = 0
  /\ runner \in BOOLEAN
  /\ check = None /\ response = None /\ page = "closed"
  /\ seen = {} /\ erred = {}

--------------------------------------------------------------------------------
(* The database. *)

Changed ==
  /\ changes < MaxChanges /\ changes' = changes + 1
  /\ seen' = IF check = None THEN seen ELSE seen \cup {[db |-> db', version |-> version']}
  /\ UNCHANGED <<runner, check, response, page, erred>>

DbBecomes(d) == d # db /\ db' = d /\ version' = version /\ Changed

(* `migrate up` and `migrate down` of any image.                           *)
MigratedTo(v) == db = "up" /\ v # version /\ version' = v /\ db' = db /\ Changed

Pending(v) == v < Latest

--------------------------------------------------------------------------------
(* The check. *)

Fresh == [status |-> "ok", reachable |-> FALSE, migrations |-> None, serverTime |-> FALSE]

Begin(for) ==
  /\ check = None
  /\ for = "page" => page = "closed"
  /\ check' = [at |-> "probe", for |-> for, gone |-> FALSE, pending |-> None, body |-> Fresh]
  /\ page' = IF for = "page" THEN "loading" ELSE page
  /\ seen' = {[db |-> db, version |-> version]} /\ erred' = {}
  /\ response' = None
  /\ UNCHANGED <<database, runner>>

(* A reading came out well; the next is at.                                *)
Reads(at, body) ==
  /\ check' = [check EXCEPT !.at = at, !.body = body]
  /\ UNCHANGED <<database, runner, response, page, history>>

(* A reading failed, and the body says degraded.                           *)
Misses(kind, at) ==
  /\ check' = [check EXCEPT !.at = at, !.body.status = "degraded"]
  /\ erred' = erred \cup {kind}
  /\ UNCHANGED <<database, runner, response, page, seen>>

At(stage) == check # None /\ check.at = stage

(* A query goes wrong when the database refuses, or with its context.      *)
QueryFails == db = "down" \/ check.gone

ProbeAnswers ==
  /\ At("probe") /\ db = "up" /\ ~check.gone
  /\ Reads("pending", [check.body EXCEPT !.reachable = TRUE])

(* Mutant: the ping is not bounded.                                        *)
ProbeTimeoutNone == FALSE

(* The ping has waited three seconds.                                      *)
ProbeTimeout == db = "hung"

ProbeFails == At("probe") /\ (QueryFails \/ ProbeTimeout) /\ Misses("probe", "pending")

AfterMigrations == IF check.body.reachable THEN "time" ELSE "answer"

(* Without a runner nothing is asked, and the check is degraded.           *)
NoRunner == At("pending") /\ ~runner /\ Misses("migrations", AfterMigrations)

(* HasPending, the first of the two queries of CheckPending.               *)
HasPending ==
  /\ At("pending") /\ runner /\ db = "up" /\ ~check.gone
  /\ check' = [check EXCEPT !.at = "version", !.pending = Pending(version)]
  /\ UNCHANGED <<database, runner, response, page, history>>

(* GetDBVersion, the second.                                               *)
GetDBVersion ==
  /\ At("version") /\ db = "up" /\ ~check.gone
  /\ Reads(AfterMigrations,
           [check.body EXCEPT !.migrations = [pending |-> check.pending, currentVersion |-> version],
                              !.status = IF check.pending THEN "degraded" ELSE @])

(* Mutant: a check that could not run reports a schema that is current.    *)
MigrationsZero == [pending |-> FALSE, currentVersion |-> 0]

(* What the body says of migrations when they could not be asked about.    *)
MigrationsUnknown == None

CheckPendingFails ==
  /\ At("version") \/ (At("pending") /\ runner)
  /\ QueryFails
  /\ check' = [check EXCEPT !.at = AfterMigrations, !.body.status = "degraded",
                            !.body.migrations = MigrationsUnknown]
  /\ erred' = erred \cup {"migrations"}
  /\ UNCHANGED <<database, runner, response, page, seen>>

ServerTime ==
  /\ At("time") /\ db = "up" /\ ~check.gone
  /\ Reads("answer", [check.body EXCEPT !.serverTime = TRUE])

ServerTimeFails == At("time") /\ QueryFails /\ Misses("time", "answer")

(* Mutant: an absent migrations block is taken for none pending.           *)
HealthyIfUnknown(body) ==
  body.reachable /\ (body.migrations = None \/ ~body.migrations.pending)

(* What healthHTTPStatus calls healthy; the status of the body is another. *)
HealthyBody(body) ==
  body.reachable /\ body.migrations # None /\ ~body.migrations.pending

HealthHTTPStatus(body) == IF HealthyBody(body) THEN 200 ELSE 503

(* Mutant: the page has no use for an error.                               *)
PageAfterErrorIgnored == page

(* A call that failed shows as an error, if the page still waits for it.   *)
PageAfterError == IF check.for = "page" THEN "error" ELSE page

(* The status page reads the body of a 200 and of a 503 alike.             *)
Answer ==
  /\ At("answer") /\ ~check.gone
  /\ response' = [code |-> HealthHTTPStatus(check.body), body |-> check.body]
  /\ page' = IF check.for = "page" THEN "ready" ELSE page
  /\ check' = None
  /\ UNCHANGED <<database, runner, history>>

(* The client's connection breaks, or the gate gives up: the context of    *)
(* the request is cancelled, and its end finds nobody.                     *)
ClientGone ==
  /\ check # None /\ ~check.gone
  /\ check' = [check EXCEPT !.gone = TRUE, !.for = "nobody"]
  /\ page' = PageAfterError
  /\ UNCHANGED <<database, runner, response, history>>

AnswerUnread ==
  /\ At("answer") /\ check.gone
  /\ check' = None
  /\ UNCHANGED <<database, runner, response, page, history>>

(* The page is left: its fetch goes on, and nobody heeds it.               *)
ClosePage ==
  /\ page # "closed" /\ page' = "closed"
  /\ check' = IF check # None /\ check.for = "page" THEN [check EXCEPT !.for = "nobody"] ELSE check
  /\ UNCHANGED <<database, runner, response, history>>

--------------------------------------------------------------------------------
Handler ==
  \/ ProbeAnswers \/ ProbeFails \/ NoRunner \/ HasPending \/ GetDBVersion \/ CheckPendingFails
  \/ ServerTime \/ ServerTimeFails \/ Answer \/ AnswerUnread

HealthNext ==
  \/ \E d \in {"up", "down", "hung"} : DbBecomes(d)
  \/ \E v \in 0..MaxVersion : MigratedTo(v)
  \/ \E for \in {"gate", "page"} : Begin(for)
  \/ ProbeAnswers \/ ProbeFails \/ NoRunner \/ HasPending \/ GetDBVersion \/ CheckPendingFails
  \/ ServerTime \/ ServerTimeFails \/ Answer \/ AnswerUnread \/ ClientGone \/ ClosePage

HealthSpec == HealthInit /\ [][HealthNext]_healthVars

(* A query that can be answered, or has timed out, comes back.             *)
FairHealth == HealthSpec /\ WF_healthVars(Handler)

--------------------------------------------------------------------------------
(* A success is deserved: at some instant of the check the database was up *)
(* and nothing was pending, whatever happened to it between the queries;   *)
(* and a body that says ok has met no failure.  So is the refusal that     *)
(* holds a release up, and a body that says degraded: a reading failed, or *)
(* a migration was pending at an instant of the check (healthHTTPStatus,    *)
(* buildHealthResponse).                                                   *)
VerdictDeserved ==
  response # None =>
    LET behind == \E s \in seen : s.db = "up" /\ Pending(s.version)
    IN /\ response.code = 200 => \E s \in seen : s.db = "up" /\ ~Pending(s.version)
       /\ response.body.status = "ok" => erred = {} /\ response.code = 200
       /\ response.code # 200 => erred \cap {"probe", "migrations"} # {} \/ behind
       /\ response.body.status # "ok" => erred # {} \/ behind

(* What the body says of the schema was so at an instant of the check, and  *)
(* a reading that failed says nothing (buildHealthResponse).               *)
ValuesObserved ==
  response # None /\ response.body.migrations # None =>
    /\ "migrations" \notin erred
    /\ \E s \in seen : s.db = "up" /\ s.version = response.body.migrations.currentVersion
    /\ \E s \in seen : s.db = "up" /\ Pending(s.version) = response.body.migrations.pending

(* A database that never answers does not hold the check at its ping.      *)
ProbeEnds == At("probe") ~> ~At("probe")

(* A status page that stays open does not load for ever, unless the         *)
(* database hangs for good: only the ping is bounded (StatusView).         *)
PageSettles == <>[](db # "hung") => (page = "loading" ~> page # "loading")

(* What the deployment's contract asks of the gate: a check that met a      *)
(* database error is no success.                                           *)
ErrorIsNoSuccess == response # None /\ response.code = 200 => erred = {}
================================================================================
