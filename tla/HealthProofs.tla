------------------------------ MODULE HealthProofs ------------------------------
(***************************************************************************)
(* Whatever the database does between the queries of a check, and for any   *)
(* migrations: a success is deserved, what is reported was observed, and    *)
(* the gate of a release judges by the schema.                             *)
(***************************************************************************)
EXTENDS Health, TLAPS

Now == [db |-> db, version |-> version]

(* What a body says of the schema is so in one of the states S, if no       *)
(* reading of it is among the failures E.                                  *)
Truthful(body, S, E) ==
  body.migrations # None =>
    /\ "migrations" \notin E
    /\ \E s \in S : s.db = "up" /\ s.version = body.migrations.currentVersion
    /\ \E s \in S : s.db = "up" /\ Pending(s.version) = body.migrations.pending

(* A body that still says ok at a stage has met no failure up to there.    *)
OkSoFar(at, body, E) ==
  body.status = "ok" =>
    /\ E = {}
    /\ at # "probe" => body.reachable
    /\ at \in {"time", "answer"} => body.migrations # None /\ ~body.migrations.pending

(* What a body lacks at a stage, or says against the database, has a cause. *)
Caused(at, body, E) ==
  /\ at # "probe" => body.reachable \/ "probe" \in E
  /\ at \in {"time", "answer"} => body.migrations # None \/ "migrations" \in E
  /\ body.status # "ok" => E # {} \/ (body.migrations # None /\ body.migrations.pending)

(* The check under way is true as far as it goes.                          *)
CheckTrue(c, S, E) ==
  /\ Truthful(c.body, S, E)
  /\ OkSoFar(c.at, c.body, E)
  /\ Caused(c.at, c.body, E)
  /\ c.at \in {"probe", "pending", "version"} => c.body.migrations = None /\ "migrations" \notin E
  /\ c.at = "version" =>
       c.pending \in BOOLEAN /\ \E s \in S : s.db = "up" /\ Pending(s.version) = c.pending

CheckInv ==
  check # None => response = None /\ Now \in seen /\ CheckTrue(check, seen, erred)

ResponseInv ==
  response # None =>
    /\ Truthful(response.body, seen, erred)
    /\ Caused("answer", response.body, erred)
    /\ response.code = HealthHTTPStatus(response.body)
    /\ response.body.status = "ok" => erred = {} /\ HealthyBody(response.body)

(* The part of the type invariant that the argument needs.                 *)
Typed ==
  /\ version \in 0..MaxVersion
  /\ check \in Checks \cup {None}

Inv == Typed /\ CheckInv /\ ResponseInv

(* What a failed reading writes into the record of the check.              *)
LEMMA CheckDegraded ==
  ASSUME NEW c \in Checks, NEW at \in Stages
  PROVE  LET d == [c EXCEPT !.at = at, !.body.status = "degraded"]
         IN  /\ d \in Checks /\ d.at = at
             /\ d.body.status = "degraded" /\ d.body.migrations = c.body.migrations
             /\ d.body.reachable = c.body.reachable
<1>1. c.body \in Bodies
  BY DEF Checks
<1>2. PICK b : b = [c.body EXCEPT !.status = "degraded"]
  OBVIOUS
<1>3. /\ b \in Bodies /\ b.status = "degraded" /\ b.migrations = c.body.migrations
      /\ b.reachable = c.body.reachable
  BY <1>1, <1>2 DEF Bodies
<1>4. [c EXCEPT !.at = at, !.body.status = "degraded"] = [c EXCEPT !.at = at, !.body = b]
  BY <1>2
<1>5. QED
  BY <1>3, <1>4 DEF Checks

(* More seen instants, and the same failures, leave a body truthful.       *)
LEMMA TruthfulGrows ==
  ASSUME NEW body, NEW S, NEW T, S \subseteq T, NEW E, Truthful(body, S, E)
  PROVE  Truthful(body, T, E)
BY DEF Truthful

LEMMA CheckTrueGrows ==
  ASSUME NEW c, NEW S, NEW T, S \subseteq T, NEW E, CheckTrue(c, S, E)
  PROVE  CheckTrue(c, T, E)
BY TruthfulGrows DEF CheckTrue

(* A failed reading leaves the rest of the body as true as it was.         *)
LEMMA DegradedTrue ==
  ASSUME NEW c \in Checks, NEW S, NEW E, CheckTrue(c, S, E), NEW kind, NEW at \in Stages,
         at # "version",
         at = "pending" => kind # "migrations" /\ c.at = "probe",
         kind = "migrations" => c.body.migrations = None,
         c.at = "probe" => kind = "probe",
         at \in {"time", "answer"} => c.at = "time" \/ kind = "migrations",
         at # "probe"
  PROVE  LET d == [c EXCEPT !.at = at, !.body.status = "degraded"]
         IN  d \in Checks /\ CheckTrue(d, S, E \cup {kind})
<1> DEFINE d == [c EXCEPT !.at = at, !.body.status = "degraded"]
<1>1. /\ d \in Checks /\ d.at = at
      /\ d.body.status = "degraded" /\ d.body.migrations = c.body.migrations
      /\ d.body.reachable = c.body.reachable
  BY CheckDegraded
<1> HIDE DEF d
<1>2. Truthful(d.body, S, E \cup {kind})
  BY <1>1 DEF CheckTrue, Truthful
<1>3. OkSoFar(d.at, d.body, E \cup {kind})
  BY <1>1 DEF OkSoFar
<1>4. Caused(d.at, d.body, E \cup {kind})
  BY <1>1 DEF CheckTrue, Caused
<1>5. d \in Checks /\ CheckTrue(d, S, E \cup {kind})
  BY <1>1, <1>2, <1>3, <1>4 DEF CheckTrue
<1>6. QED
  BY <1>5 DEF d

LEMMA InitInv == HealthInit => Inv
BY DEF HealthInit, Inv, Typed, CheckInv, ResponseInv

(* What a change of the database adds leaves the seen instants seen.       *)
LEMMA ChangeKeeps ==
  ASSUME Inv, Changed, version' \in 0..MaxVersion PROVE Inv'
<1>1. seen \subseteq seen' /\ UNCHANGED <<check, response, erred>>
  BY DEF Changed
<1>2. Typed'
  BY <1>1 DEF Inv, Typed
<1>3. check # None => Now' \in seen'
  BY DEF Changed, Now
<1>4. CheckInv'
  BY <1>1, <1>3, CheckTrueGrows DEF Inv, CheckInv
<1>5. ResponseInv'
  BY <1>1, TruthfulGrows DEF Inv, ResponseInv
<1>6. QED
  BY <1>2, <1>4, <1>5 DEF Inv

LEMMA BeginKeeps ==
  ASSUME Inv, NEW for \in {"gate", "page"}, Begin(for) PROVE Inv'
<1>1. /\ check' = [at |-> "probe", for |-> for, gone |-> FALSE, pending |-> None, body |-> Fresh]
      /\ response' = None /\ seen' = {Now} /\ erred' = {} /\ UNCHANGED <<db, version>>
  BY DEF Begin, database, Now
<1>2. Fresh \in Bodies /\ Fresh.migrations = None
  BY DEF Fresh, Bodies
<1>3. check' \in Checks /\ check'.body = Fresh /\ check'.at = "probe"
  BY <1>1, <1>2 DEF Checks, Stages, Known
<1>4. CheckTrue(check', seen', erred')
  BY <1>1, <1>2, <1>3 DEF CheckTrue, Truthful, OkSoFar, Caused, Fresh
<1>5. CheckInv'
  BY <1>1, <1>4 DEF CheckInv, Now
<1>6. QED
  BY <1>1, <1>3, <1>5 DEF Inv, Typed, ResponseInv

(* A step of the handler that is no answer: another check, no response.    *)
LEMMA CheckMoves ==
  ASSUME Inv, check # None, UNCHANGED <<db, version, seen, response>>,
         check' \in Checks, CheckTrue(check', seen, erred')
  PROVE  Inv' /\ check' # None
BY HealthAssumption DEF Inv, Typed, CheckInv, ResponseInv, Now

LEMMA ProbeAnswersKeeps == ASSUME Inv, ProbeAnswers PROVE Inv' /\ check' # None
<1>1. PICK b : b = [check.body EXCEPT !.reachable = TRUE]
  OBVIOUS
<1>2. /\ check # None /\ check.at = "probe" /\ check' = [check EXCEPT !.at = "pending", !.body = b]
      /\ UNCHANGED <<db, version, seen, erred, response>>
  BY <1>1 DEF ProbeAnswers, At, Reads, database, history
<1>3. check \in Checks /\ check.body \in Bodies /\ CheckTrue(check, seen, erred)
  BY <1>2 DEF Inv, Typed, CheckInv, Checks
<1>4. b \in Bodies /\ b.reachable /\ b.status = check.body.status /\ b.migrations = check.body.migrations
  BY <1>1, <1>3 DEF Bodies
<1>5. check' \in Checks /\ check'.at = "pending" /\ check'.body = b
  BY <1>2, <1>3, <1>4 DEF Checks, Stages
<1>6. CheckTrue(check', seen, erred')
  BY <1>2, <1>3, <1>4, <1>5 DEF CheckTrue, Truthful, OkSoFar, Caused
<1>7. QED
  BY <1>2, <1>5, <1>6, CheckMoves

LEMMA MissesKeeps ==
  ASSUME Inv, check # None, NEW kind, NEW at \in Stages, Misses(kind, at),
         at \notin {"probe", "version"},
         at = "pending" => kind # "migrations" /\ check.at = "probe",
         kind = "migrations" => check.body.migrations = None,
         check.at = "probe" => kind = "probe",
         at \in {"time", "answer"} => check.at = "time" \/ kind = "migrations"
  PROVE  Inv' /\ check' # None
<1>1. /\ check' = [check EXCEPT !.at = at, !.body.status = "degraded"]
      /\ erred' = erred \cup {kind} /\ UNCHANGED <<db, version, seen, response>>
  BY DEF Misses, database
<1>2. check \in Checks /\ CheckTrue(check, seen, erred)
  BY DEF Inv, Typed, CheckInv
<1>3. LET d == [check EXCEPT !.at = at, !.body.status = "degraded"]
      IN  d \in Checks /\ CheckTrue(d, seen, erred \cup {kind})
  BY <1>2, DegradedTrue
<1>4. QED
  BY <1>1, <1>3, CheckMoves

LEMMA HasPendingKeeps == ASSUME Inv, HasPending PROVE Inv' /\ check' # None
<1>1. /\ check # None /\ check.at = "pending" /\ db = "up"
      /\ check' = [check EXCEPT !.at = "version", !.pending = Pending(version)]
      /\ UNCHANGED <<db, version, seen, erred, response>>
  BY DEF HasPending, At, database, history
<1>2. check \in Checks /\ CheckTrue(check, seen, erred) /\ Now \in seen
  BY <1>1 DEF Inv, Typed, CheckInv
<1>3. Pending(version) \in BOOLEAN /\ Pending(version) \in Known
  BY DEF Pending, Known
<1>4. PICK answer \in BOOLEAN : answer = Pending(version) /\ answer \in Known
  BY <1>3
<1>5. /\ check' \in Checks /\ check'.at = "version"
      /\ check'.pending = answer /\ check'.body = check.body
  BY <1>1, <1>2, <1>4 DEF Checks, Stages
<1>6. Now.db = "up" /\ Pending(Now.version) = answer
  BY <1>1, <1>4 DEF Now
<1>7. CheckTrue(check', seen, erred')
  BY <1>1, <1>2, <1>5, <1>6 DEF CheckTrue, OkSoFar, Caused
<1>8. QED
  BY <1>1, <1>5, <1>7, CheckMoves

(* What the second query of CheckPending is told is so at that instant; of  *)
(* what the first was told, the check has remembered an instant.           *)
LEMMA GetDBVersionKeeps == ASSUME Inv, GetDBVersion PROVE Inv' /\ check' # None
<1>1. PICK m : m = [pending |-> check.pending, currentVersion |-> version]
  OBVIOUS
<1>2. PICK b : b = [check.body EXCEPT !.migrations = m,
                                      !.status = IF check.pending THEN "degraded" ELSE @]
  OBVIOUS
<1>3. PICK at : at = AfterMigrations
  OBVIOUS
<1>4. /\ check # None /\ check.at = "version" /\ db = "up"
      /\ check' = [check EXCEPT !.at = at, !.body = b]
      /\ UNCHANGED <<db, version, seen, erred, response>>
  BY <1>1, <1>2, <1>3 DEF GetDBVersion, At, Reads, database, history
<1>5. /\ check \in Checks /\ CheckTrue(check, seen, erred) /\ Now \in seen
      /\ version \in 0..MaxVersion
  BY <1>4 DEF Inv, Typed, CheckInv
<1>6. check.body \in Bodies /\ check.pending \in BOOLEAN
  BY <1>4, <1>5 DEF Checks, CheckTrue
<1>7. /\ m \in Migrations /\ m # None
      /\ m.pending = check.pending /\ m.currentVersion = version
  BY <1>1, <1>5, <1>6, HealthAssumption DEF Migrations
<1>8. /\ b \in Bodies /\ b.migrations = m /\ b.reachable = check.body.reachable
      /\ b.status = IF check.pending THEN "degraded" ELSE check.body.status
  BY <1>2, <1>6, <1>7 DEF Bodies
<1>9. at \in Stages /\ at \in {"time", "answer"}
  BY <1>3 DEF AfterMigrations, Stages
<1>10. check' \in Checks /\ check'.at = at /\ check'.body = b
  BY <1>4, <1>5, <1>8, <1>9 DEF Checks
<1>11. Now.db = "up" /\ Now.version = m.currentVersion
  BY <1>4, <1>7 DEF Now
<1>12. Truthful(b, seen, erred)
  BY <1>4, <1>5, <1>7, <1>8, <1>11 DEF CheckTrue, Truthful
<1>13. OkSoFar(at, b, erred)
  BY <1>4, <1>5, <1>7, <1>8 DEF CheckTrue, OkSoFar
<1>14. Caused(at, b, erred)
  BY <1>4, <1>5, <1>7, <1>8, <1>9 DEF CheckTrue, Caused
<1>15. CheckTrue(check', seen, erred')
  BY <1>4, <1>9, <1>10, <1>12, <1>13, <1>14 DEF CheckTrue
<1>16. QED
  BY <1>4, <1>10, <1>15, CheckMoves

LEMMA CheckPendingFailsKeeps == ASSUME Inv, CheckPendingFails PROVE Inv' /\ check' # None
<1>1. PICK b : b = [check.body EXCEPT !.status = "degraded", !.migrations = None]
  OBVIOUS
<1>2. PICK at : at = AfterMigrations
  OBVIOUS
<1>3. /\ check # None /\ UNCHANGED <<db, version, seen, response>>
      /\ check' = [check EXCEPT !.at = at, !.body = b]
      /\ check.at # "probe" /\ erred' = erred \cup {"migrations"}
  BY <1>1, <1>2 DEF CheckPendingFails, MigrationsUnknown, At, database
<1>4. check \in Checks /\ CheckTrue(check, seen, erred)
  BY <1>3 DEF Inv, Typed, CheckInv
<1>5. check.body \in Bodies
  BY <1>4 DEF Checks
<1>6. /\ b \in Bodies /\ b.status = "degraded" /\ b.migrations = None
      /\ b.reachable = check.body.reachable
  BY <1>1, <1>5 DEF Bodies
<1>7. at \in Stages /\ at \in {"time", "answer"}
  BY <1>2 DEF AfterMigrations, Stages
<1>8. check' \in Checks /\ check'.at = at /\ check'.body = b
  BY <1>3, <1>4, <1>6, <1>7 DEF Checks
<1>9. CheckTrue(check', seen, erred')
  BY <1>3, <1>4, <1>6, <1>7, <1>8 DEF CheckTrue, Truthful, OkSoFar, Caused
<1>10. QED
  BY <1>3, <1>8, <1>9, CheckMoves

LEMMA ServerTimeKeeps == ASSUME Inv, ServerTime PROVE Inv' /\ check' # None
<1>1. PICK b : b = [check.body EXCEPT !.serverTime = TRUE]
  OBVIOUS
<1>2. /\ check # None /\ check.at = "time" /\ check' = [check EXCEPT !.at = "answer", !.body = b]
      /\ UNCHANGED <<db, version, seen, erred, response>>
  BY <1>1 DEF ServerTime, At, Reads, database, history
<1>3. check \in Checks /\ check.body \in Bodies /\ CheckTrue(check, seen, erred)
  BY <1>2 DEF Inv, Typed, CheckInv, Checks
<1>4. /\ b \in Bodies /\ b.reachable = check.body.reachable
      /\ b.status = check.body.status /\ b.migrations = check.body.migrations
  BY <1>1, <1>3 DEF Bodies
<1>5. check' \in Checks /\ check'.at = "answer" /\ check'.body = b
  BY <1>2, <1>3, <1>4 DEF Checks, Stages
<1>6. CheckTrue(check', seen, erred')
  BY <1>2, <1>3, <1>4, <1>5 DEF CheckTrue, Truthful, OkSoFar, Caused
<1>7. QED
  BY <1>2, <1>5, <1>6, CheckMoves

(* The three readings whose failure leaves the rest of the body alone.     *)
LEMMA FailuresKeep ==
  ASSUME Inv, ProbeFails \/ NoRunner \/ ServerTimeFails PROVE Inv' /\ check' # None
<1>1. CASE ProbeFails
  <2>1. check # None /\ check.at = "probe" /\ Misses("probe", "pending") /\ "pending" \in Stages
    BY <1>1 DEF ProbeFails, At, Stages
  <2>2. QED
    BY <2>1, MissesKeeps
<1>2. CASE NoRunner
  <2>1. PICK at : at = AfterMigrations
    OBVIOUS
  <2>2. check # None /\ check.at = "pending" /\ Misses("migrations", at)
    BY <1>2, <2>1 DEF NoRunner, At
  <2>3. at \in Stages /\ at \in {"time", "answer"}
    BY <2>1 DEF AfterMigrations, Stages
  <2>4. check.body.migrations = None
    BY <2>2 DEF Inv, CheckInv, CheckTrue
  <2>5. QED
    BY <2>2, <2>3, <2>4, MissesKeeps
<1>3. CASE ServerTimeFails
  <2>1. check # None /\ check.at = "time" /\ Misses("time", "answer") /\ "answer" \in Stages
    BY <1>3 DEF ServerTimeFails, At, Stages
  <2>2. QED
    BY <2>1, MissesKeeps
<1>4. QED
  BY <1>1, <1>2, <1>3

LEMMA AnswerKeeps == ASSUME Inv, Answer PROVE Inv'
<1>1. PICK b : b = check.body
  OBVIOUS
<1>2. /\ check' = None /\ UNCHANGED <<db, version, seen, erred>>
      /\ response' = [code |-> HealthHTTPStatus(b), body |-> b]
      /\ check # None /\ check.at = "answer"
  BY <1>1 DEF Answer, At, database, history
<1>3. Truthful(b, seen, erred) /\ OkSoFar("answer", b, erred) /\ Caused("answer", b, erred)
  BY <1>1, <1>2 DEF Inv, CheckInv, CheckTrue
<1>4. b.status = "ok" => erred = {} /\ HealthyBody(b)
  BY <1>3 DEF OkSoFar, HealthyBody
<1>5. response'.body = b /\ response'.code = HealthHTTPStatus(b)
  BY <1>2
<1>6. ResponseInv'
  BY <1>2, <1>3, <1>4, <1>5 DEF ResponseInv
<1>7. QED
  BY <1>2, <1>6 DEF Inv, Typed, CheckInv

(* The readers come and go without a change to what is read.               *)
LEMMA ReaderKeeps ==
  ASSUME Inv, ClientGone \/ AnswerUnread \/ ClosePage PROVE Inv'
<1>1. UNCHANGED <<db, version, response, seen, erred>>
  BY DEF ClientGone, AnswerUnread, ClosePage, database, history
<1>2. ResponseInv'
  BY <1>1 DEF Inv, ResponseInv
<1>3. CASE check' = None
  BY <1>1, <1>2, <1>3 DEF Inv, Typed, CheckInv
<1>4. CASE check' = check
  BY <1>1, <1>2, <1>4 DEF Inv, Typed, CheckInv, Now
<1>5. CASE \/ check # None /\ check' = [check EXCEPT !.for = "nobody"]
           \/ check # None /\ check' = [check EXCEPT !.gone = TRUE, !.for = "nobody"]
  <2>1. check \in Checks /\ CheckTrue(check, seen, erred)
    BY <1>5 DEF Inv, Typed, CheckInv
  <2>2. /\ check' \in Checks /\ check'.at = check.at
        /\ check'.body = check.body /\ check'.pending = check.pending
    BY <1>5, <2>1 DEF Checks
  <2>3. CheckTrue(check', seen, erred')
    BY <1>1, <2>1, <2>2 DEF CheckTrue
  <2>4. QED
    BY <1>1, <1>5, <2>2, <2>3, CheckMoves
<1>6. QED
  BY <1>3, <1>4, <1>5 DEF ClientGone, AnswerUnread, ClosePage

LEMMA StepInv == Inv /\ [HealthNext]_healthVars => Inv'
<1>1. SUFFICES ASSUME Inv, [HealthNext]_healthVars PROVE Inv'
  OBVIOUS
<1>2. CASE \E d \in {"up", "down", "hung"} : DbBecomes(d)
  BY <1>1, <1>2, ChangeKeeps DEF DbBecomes, Inv, Typed
<1>3. CASE \E v \in 0..MaxVersion : MigratedTo(v)
  BY <1>1, <1>3, ChangeKeeps DEF MigratedTo
<1>4. CASE \E for \in {"gate", "page"} : Begin(for)
  BY <1>1, <1>4, BeginKeeps
<1>5. CASE ProbeAnswers \/ HasPending \/ GetDBVersion \/ ServerTime
  BY <1>1, <1>5, ProbeAnswersKeeps, HasPendingKeeps, GetDBVersionKeeps, ServerTimeKeeps
<1>6. CASE ProbeFails \/ NoRunner \/ ServerTimeFails
  BY <1>1, <1>6, FailuresKeep
<1>7. CASE CheckPendingFails \/ Answer
  BY <1>1, <1>7, CheckPendingFailsKeeps, AnswerKeeps
<1>8. CASE ClientGone \/ AnswerUnread \/ ClosePage
  BY <1>1, <1>8, ReaderKeeps
<1>9. CASE UNCHANGED healthVars
  BY <1>1, <1>9 DEF healthVars, database, history, Inv, Typed, CheckInv, ResponseInv, Now
<1>10. QED
  BY <1>1, <1>2, <1>3, <1>4, <1>5, <1>6, <1>7, <1>8, <1>9 DEF HealthNext

(* The check under way, and the answer it ends in, are true to what the     *)
(* database was while they were made (handleHealth, buildHealthResponse).  *)
THEOREM HealthInvariance == HealthSpec => []Inv
  BY InitInv, StepInv, PTL DEF HealthSpec

(* A 200 has an instant of the check in which the database was up with      *)
(* nothing pending, and a body that says ok has met no failure; any other   *)
(* code, and a body that says degraded, has a failed reading or an instant  *)
(* with a migration pending (handleHealth).                                *)
THEOREM VerdictIsDeserved == HealthSpec => []VerdictDeserved
<1>1. Inv => VerdictDeserved
  <2>1. SUFFICES ASSUME ResponseInv, response # None PROVE VerdictDeserved
    BY DEF Inv, VerdictDeserved
  <2>2. response.code = 200 <=> HealthyBody(response.body)
    BY <2>1 DEF ResponseInv, HealthHTTPStatus
  <2>3. response.code = 200 => \E s \in seen : s.db = "up" /\ ~Pending(s.version)
    BY <2>1, <2>2 DEF ResponseInv, HealthyBody, Truthful
  <2>4. response.body.migrations # None /\ response.body.migrations.pending
          => \E s \in seen : s.db = "up" /\ Pending(s.version)
    <3>1. SUFFICES ASSUME response.body.migrations # None, response.body.migrations.pending
                   PROVE  \E s \in seen : s.db = "up" /\ Pending(s.version)
      OBVIOUS
    <3>2. PICK s \in seen : s.db = "up" /\ Pending(s.version) = response.body.migrations.pending
      BY <2>1, <3>1 DEF ResponseInv, Truthful
    <3>3. QED
      BY <3>1, <3>2
  <2>5. response.code # 200 => \/ "probe" \in erred \/ "migrations" \in erred
                              \/ \E s \in seen : s.db = "up" /\ Pending(s.version)
    BY <2>1, <2>2, <2>4 DEF ResponseInv, Caused, HealthyBody
  <2>6. response.body.status # "ok" => \/ erred # {}
                                      \/ \E s \in seen : s.db = "up" /\ Pending(s.version)
    BY <2>1, <2>4 DEF ResponseInv, Caused
  <2>7. QED
    BY <2>1, <2>2, <2>3, <2>5, <2>6 DEF VerdictDeserved, ResponseInv
<1>2. QED
  BY <1>1, HealthInvariance, PTL

(* What a release takes the gate for: if no reading failed, and the database *)
(* was the same from beginning to end of the check, the answer is 200 just  *)
(* when the schema has what the image needs.                               *)
GateDecides ==
  response # None /\ erred = {} =>
    \A s \in seen : seen = {s} => s.db = "up" /\ (response.code = 200 <=> ~Pending(s.version))

(* Deploy compares an image's migrations with the schema (its Healthy) for  *)
(* the whole of a check.  Four queries come to the same as long as nobody   *)
(* migrates meanwhile, and no other release does under the lock of          *)
(* deploy.sh (wait_healthy, handleHealth).                                 *)
THEOREM GateDecidesBySchema == HealthSpec => []GateDecides
<1>1. VerdictDeserved => GateDecides
  BY DEF VerdictDeserved, GateDecides
<1>2. QED
  BY <1>1, VerdictIsDeserved, PTL

(* What an answer says of the schema was observed during the check, and is  *)
(* left out when a reading failed.                                         *)
THEOREM ReportsAreObserved == HealthSpec => []ValuesObserved
<1>1. Inv => ValuesObserved
  BY DEF Inv, ResponseInv, Truthful, ValuesObserved
<1>2. QED
  BY <1>1, HealthInvariance, PTL
--------------------------------------------------------------------------------
(* The types of what surrounds the check; Typed has those of the check.     *)
(* A check that was given up is nobody's.                                  *)
Surroundings ==
  /\ db \in {"up", "down", "hung"} /\ changes \in 0..MaxChanges
  /\ runner \in BOOLEAN
  /\ response \in [code : {200, 503}, body : Bodies] \cup {None}
  /\ page \in {"closed", "loading", "ready", "error"}
  /\ seen \subseteq Databases /\ erred \subseteq {"probe", "migrations", "time"}
  /\ page = "loading" <=> check # None /\ check.for = "page"
  /\ check # None /\ check.gone => check.for = "nobody"

(* A change of the database is seen by the check under way.                *)
LEMMA ChangedKeepsTypes ==
  ASSUME Inv, Inv', Surroundings, Changed, db' \in {"up", "down", "hung"}
  PROVE  Surroundings'
<1>1. [db |-> db', version |-> version'] \in Databases
  BY DEF Inv, Typed, Databases
<1>2. changes' \in 0..MaxChanges
  BY HealthAssumption DEF Changed, Surroundings
<1>3. QED
  BY <1>1, <1>2 DEF Changed, Surroundings

LEMMA BeginKeepsTypes ==
  ASSUME Inv, Surroundings, NEW for \in {"gate", "page"}, Begin(for)
  PROVE  Surroundings'
<1>1. Now \in Databases /\ seen' = {Now} /\ erred' = {} /\ response' = None
  BY DEF Begin, Now, Inv, Typed, Surroundings, Databases
<1>2. check = None /\ UNCHANGED <<db, version, changes, runner>>
  BY DEF Begin, database
<1>3. check' \in Checks /\ check'.for = for /\ ~check'.gone
  <2>1. Fresh \in Bodies
    BY DEF Fresh, Bodies
  <2>2. check' = [at |-> "probe", for |-> for, gone |-> FALSE, pending |-> None, body |-> Fresh]
    BY DEF Begin
  <2>3. QED
    BY <2>1, <2>2 DEF Checks, Stages, Known
<1>4. check' # None
  BY <1>3, HealthAssumption
<1>5. page # "loading"
  BY <1>2 DEF Surroundings
<1>6. page' = IF for = "page" THEN "loading" ELSE page
  BY DEF Begin
<1>7. QED
  BY <1>1, <1>2, <1>3, <1>4, <1>5, <1>6 DEF Surroundings

(* A reading leaves the reader alone, and fails in one of three ways.      *)
LEMMA ReadingKeepsTypes ==
  ASSUME Inv, Inv', Surroundings,
         \/ ProbeAnswers \/ ProbeFails \/ NoRunner \/ HasPending \/ GetDBVersion
         \/ CheckPendingFails \/ ServerTime \/ ServerTimeFails
  PROVE  Surroundings'
<1>1. /\ UNCHANGED <<db, changes, runner, response, page, seen>>
      /\ erred' \subseteq {"probe", "migrations", "time"}
  BY DEF ProbeAnswers, ProbeFails, NoRunner, HasPending, GetDBVersion, CheckPendingFails,
         ServerTime, ServerTimeFails, Reads, Misses, database, history, Surroundings
<1>2. check \in Checks
  BY DEF ProbeAnswers, ProbeFails, NoRunner, HasPending, GetDBVersion, CheckPendingFails,
         ServerTime, ServerTimeFails, At, Inv, Typed
<1>3. check'.for = check.for /\ check'.gone = check.gone
  <2>1. CASE HasPending
    <3>1. PICK p : check' = [check EXCEPT !.at = "version", !.pending = p]
      BY <2>1 DEF HasPending
    <3>2. QED
      BY <1>2, <3>1 DEF Checks
  <2>2. CASE ~HasPending
    <3>1. PICK at, b : check' = [check EXCEPT !.at = at, !.body = b]
      <4>1. CASE CheckPendingFails
        BY <4>1 DEF CheckPendingFails
      <4>2. CASE ProbeAnswers \/ GetDBVersion \/ ServerTime
        BY <4>2 DEF ProbeAnswers, GetDBVersion, ServerTime, Reads
      <4>3. CASE ProbeFails \/ NoRunner \/ ServerTimeFails
        BY <4>3 DEF ProbeFails, NoRunner, ServerTimeFails, Misses
      <4>4. QED
        BY <2>2, <4>1, <4>2, <4>3
    <3>2. QED
      BY <1>2, <3>1 DEF Checks
  <2>3. QED
    BY <2>1, <2>2
<1>4. check' # None
  BY ProbeAnswersKeeps, FailuresKeep, HasPendingKeeps, GetDBVersionKeeps,
     CheckPendingFailsKeeps, ServerTimeKeeps
<1>5. QED
  BY <1>1, <1>2, <1>3, <1>4, HealthAssumption DEF Surroundings

(* An answer reaches the page that waits for it, or nobody.                *)
LEMMA AnswerKeepsTypes ==
  ASSUME Inv, Surroundings, Answer
  PROVE  Surroundings'
<1>1. /\ check # None /\ check' = None /\ UNCHANGED <<db, changes, runner, seen, erred>>
      /\ response' = [code |-> HealthHTTPStatus(check.body), body |-> check.body]
      /\ page' = IF check.for = "page" THEN "ready" ELSE page
  BY DEF Answer, At, database, history
<1>2. check.body \in Bodies /\ HealthHTTPStatus(check.body) \in {200, 503}
  BY <1>1 DEF Inv, Typed, Checks, HealthHTTPStatus
<1>3. response' \in [code : {200, 503}, body : Bodies]
  BY <1>1, <1>2
<1>4. QED
  BY <1>1, <1>3 DEF Surroundings

(* Whoever goes, the page does not load for a check that is not its own.    *)
LEMMA ReaderKeepsTypes ==
  ASSUME Inv, Surroundings, ClientGone \/ AnswerUnread \/ ClosePage
  PROVE  Surroundings'
<1>1. UNCHANGED <<db, changes, runner, response, seen, erred>>
  BY DEF ClientGone, AnswerUnread, ClosePage, database, history
<1>2. CASE ClientGone
  <2>1. check \in Checks /\ check' = [check EXCEPT !.gone = TRUE, !.for = "nobody"]
    BY <1>2 DEF ClientGone, Inv, Typed
  <2>2. check'.for = "nobody"
    BY <2>1 DEF Checks
  <2>3. page' = IF check.for = "page" THEN "error" ELSE page
    BY <1>2 DEF ClientGone, PageAfterError
  <2>4. QED
    BY <1>1, <1>2, <2>2, <2>3 DEF ClientGone, Surroundings
<1>3. CASE AnswerUnread
  <2>1. QED
    BY <1>1, <1>3 DEF AnswerUnread, At, Surroundings
<1>4. CASE ClosePage
  <2>1. page' = "closed"
    BY <1>4 DEF ClosePage
  <2>2. check' # None => check'.for # "page" /\ (check'.gone => check'.for = "nobody")
    <3>1. CASE check # None /\ check.for = "page"
      <4>1. check \in Checks /\ check' = [check EXCEPT !.for = "nobody"]
        BY <1>4, <3>1 DEF ClosePage, Inv, Typed
      <4>2. check'.for = "nobody"
        BY <4>1 DEF Checks
      <4>3. QED
        BY <4>2
    <3>2. CASE ~(check # None /\ check.for = "page")
      BY <1>4, <3>2 DEF ClosePage, Surroundings
    <3>3. QED
      BY <3>1, <3>2
  <2>3. QED
    BY <1>1, <2>1, <2>2 DEF Surroundings
<1>5. QED
  BY <1>2, <1>3, <1>4

LEMMA SurroundingsStep ==
  Inv /\ Surroundings /\ [HealthNext]_healthVars => (Inv /\ Surroundings)'
<1> SUFFICES ASSUME Inv, Surroundings, [HealthNext]_healthVars
             PROVE  Inv' /\ Surroundings'
  OBVIOUS
<1>1. Inv'
  BY StepInv
<1>2. CASE \E d \in {"up", "down", "hung"} : DbBecomes(d)
  BY <1>1, <1>2, ChangedKeepsTypes DEF DbBecomes
<1>3. CASE \E v \in 0..MaxVersion : MigratedTo(v)
  BY <1>1, <1>3, ChangedKeepsTypes DEF MigratedTo
<1>4. CASE \E for \in {"gate", "page"} : Begin(for)
  BY <1>1, <1>4, BeginKeepsTypes
<1>5. CASE \/ ProbeAnswers \/ ProbeFails \/ NoRunner \/ HasPending \/ GetDBVersion
           \/ CheckPendingFails \/ ServerTime \/ ServerTimeFails
  BY <1>1, <1>5, ReadingKeepsTypes
<1>6. CASE Answer \/ ClientGone \/ AnswerUnread \/ ClosePage
  BY <1>1, <1>6, AnswerKeepsTypes, ReaderKeepsTypes
<1>7. CASE UNCHANGED healthVars
  BY <1>1, <1>7 DEF healthVars, database, history, Surroundings
<1>8. QED
  BY <1>2, <1>3, <1>4, <1>5, <1>6, <1>7 DEF HealthNext

(* Every variable keeps its type, and the status page loads exactly while   *)
(* a check of its own is under way (handleHealth, StatusView).             *)
THEOREM HealthTypeCorrect == HealthSpec => []HealthTypeOK
<1>1. HealthInit => Inv /\ Surroundings
  BY InitInv, HealthAssumption DEF HealthInit, Surroundings
<1>2. Inv /\ Surroundings => HealthTypeOK
  BY DEF Inv, Typed, Surroundings, HealthTypeOK, Databases
<1>3. QED
  BY <1>1, <1>2, SurroundingsStep, PTL DEF HealthSpec
================================================================================
