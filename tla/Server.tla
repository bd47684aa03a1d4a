--------------------------------- MODULE Server ---------------------------------
(***************************************************************************)
(* The life of one server process of cmd/server: its startup, the main      *)
(* goroutine with the deferred calls of runServe in their order, the HTTP   *)
(* handlers, the sweeper goroutine and the connection pool that handlers    *)
(* and sweeper share.  The two timeouts of ten seconds may run out at any   *)
(* moment of the waits they bound; the waits of the startup have none.     *)
(***************************************************************************)
EXTENDS Config, Routes, FiniteSets

CONSTANTS
  Environments, \* the environments the process may be started in
  Requests,     \* the requests clients send to this process
  PoolSize      \* connections of the pool

ASSUME ServerAssumption ==
  /\ PoolSize \in Nat \ {0}
  /\ \A env \in Environments : Environment(env)
  /\ {Unset, Empty, Malformed} \cap Int = {} /\ Unset # Empty /\ Malformed # Empty
  /\ {Unset, Empty, Malformed} \cap {"", "127.0.0.1", "clip.example", "db/migrations"} = {}

VARIABLES
  main,       \* where the main goroutine is
  conf,       \* the configuration it loaded
  mux,        \* what becomes of a request, as NewServer has registered it
  result,     \* how serveHTTP returned, or runServe before it
  listener,
  signalled,  \* runCtx is cancelled
  req,        \* how far each request is
  sweeper     \* where the sweeper goroutine is

serverVars == <<main, conf, mux, result, listener, signalled, req, sweeper>>

Active == {"accepted", "querying", "answering"}

(* main: about to load its configuration, to make the pool, in the ping, in *)
(* the check of the migrations, past it.                                   *)
Starting == {"loading", "pooling", "pinging", "checking", "wiring"}

(* In the select of waitAndShutdown, in Shutdown, in waitSweeper, past it,  *)
(* in pool.Close.                                                          *)
Mains == Starting \cup {"serving", "draining", "joining", "releasing", "closingPool",
                       "exited", "killed"}

Over == main \in {"exited", "killed"}

ServerTypeOK ==
  /\ main \in Mains
  /\ main \notin {"loading", "exited", "killed"} => Usable(conf)
  /\ result \in {"none", "start_error", "drained", "timeout", "listen_error"}
  /\ listener \in {"off", "starting", "open", "failed", "closed"}
  /\ signalled \in BOOLEAN
  /\ req \in [Requests -> {"absent", "answered", "failed", "gone", "cut"} \cup Active]
  /\ sweeper \in {"off", "idle", "acquiring", "deleting", "done"}
  /\ main \in Starting \cup {"serving", "draining"} => result = "none"
  /\ main \in Starting => listener = "off" /\ sweeper = "off" /\ ~signalled
  /\ main \in {"joining", "releasing", "closingPool", "exited"} => result # "none"
  /\ main \notin {"serving", "killed"} => listener # "open"

ServerInit ==
  /\ main = "loading" /\ conf = Unset /\ mux = Unset /\ result = "none"
  /\ listener = "off"
  /\ signalled = FALSE
  /\ req = [r \in Requests |-> "absent"]
  /\ sweeper = "off"

--------------------------------------------------------------------------------
(* The startup: runServe up to the goroutines it starts. *)

(* The main goroutine goes on to its next point.                           *)
Starts(from, to) ==
  /\ main = from
  /\ main' = to
  /\ UNCHANGED <<conf, mux, result, listener, signalled, req, sweeper>>

Load ==
  /\ main = "loading"
  /\ \E env \in Environments :
       IF LoadFails(env)
         THEN main' = "exited" /\ result' = "start_error" /\ UNCHANGED conf
         ELSE main' = "pooling" /\ conf' = LoadFromEnv(env) /\ UNCHANGED result
  /\ UNCHANGED <<mux, listener, signalled, req, sweeper>>

(* The pool connects to nothing yet.                                       *)
NewPool == Starts("pooling", "pinging")

(* The URL of the database does not parse.                                 *)
NewPoolFails ==
  /\ main = "pooling"
  /\ main' = "exited" /\ result' = "start_error"
  /\ UNCHANGED <<conf, mux, listener, signalled, req, sweeper>>

(* The database has answered the ping, or refused it: both are logged.      *)
VerifyConnectivity == Starts("pinging", "checking")

(* No runner for the migrations, or its check has ended, either way.       *)
LogMigrationStatus == Starts("checking", "wiring")

(* The frontend, which only a public server has, the routes, the signals,   *)
(* the two goroutines: no step of these waits, and in this program none of  *)
(* them fails.                                                             *)
Wire ==
  /\ main = "wiring"
  /\ main' = "serving"
  /\ mux' = [r \in Methods \X Paths |-> Routed(conf.tlsHostname # Empty, r[1], r[2])]
  /\ listener' = "starting" /\ sweeper' = "idle"
  /\ UNCHANGED <<conf, result, signalled, req>>

--------------------------------------------------------------------------------
(* The listener. *)

(* Shutdown was called: a server that listens only now is refused.         *)
ShutdownBegun == main # "serving" /\ result # "listen_error"

Listen ==
  /\ listener = "starting" /\ ~Over
  /\ listener' = IF ShutdownBegun THEN "closed" ELSE "open"
  /\ UNCHANGED <<main, conf, mux, result, signalled, req, sweeper>>

(* The port is taken, or Accept fails for good.                            *)
ListenFails ==
  /\ listener \in {"starting", "open"} /\ ~ShutdownBegun /\ ~Over
  /\ listener' = "failed"
  /\ UNCHANGED <<main, conf, mux, result, signalled, req, sweeper>>

(* SIGINT or SIGTERM while NotifyContext catches them: the first cancels   *)
(* runCtx, the others do nothing.                                          *)
Signal ==
  /\ main \in {"serving", "draining", "joining", "releasing"}
  /\ ~signalled
  /\ signalled' = TRUE
  /\ UNCHANGED <<main, conf, mux, result, listener, req, sweeper>>

--------------------------------------------------------------------------------
(* The pool. *)

PoolClosed == main \in {"closingPool", "exited"}

Holders == {r \in Requests : req[r] = "querying"}

InUse == Cardinality(Holders) + (IF sweeper = "deleting" THEN 1 ELSE 0)

ConnFree == ~PoolClosed /\ InUse < PoolSize

--------------------------------------------------------------------------------
(* The handlers. *)

Arrive(r) ==
  /\ listener = "open" /\ ~Over
  /\ req[r] = "absent"
  /\ req' = [req EXCEPT ![r] = "accepted"]
  /\ UNCHANGED <<main, conf, mux, result, listener, signalled, sweeper>>

(* A request moves on from one point of its handler to another.            *)
Moves(r, from, to) ==
  /\ ~Over
  /\ req[r] = from
  /\ req' = [req EXCEPT ![r] = to]
  /\ UNCHANGED <<main, conf, mux, result, listener, signalled, sweeper>>

Acquire(r) == ConnFree /\ Moves(r, "accepted", "querying")

(* A static file, a refusal: no connection is needed.                      *)
AnswerWithoutQuery(r) == Moves(r, "accepted", "answering")

(* The pool refuses with its closed error: the client gets a 500.          *)
MeetClosedPool(r) == PoolClosed /\ Moves(r, "accepted", "failed")

QueryEnds(r) == Moves(r, "querying", "answering")

Respond(r) == Moves(r, "answering", "answered")

(* The client's disconnect cancels the request's context, and its query;    *)
(* or a deadline of http.Server has closed the connection under it.        *)
ClientGone(r) == \E from \in Active : Moves(r, from, "gone")

--------------------------------------------------------------------------------
(* The sweeper goroutine. *)

(* Mutant: the sweeper is given the background context.                    *)
SweepCancelledNever == FALSE

(* sweepCtx is done: with runCtx, or by waitSweeper.                       *)
SweepCancelled == signalled \/ main \notin {"serving", "draining"}

(* A step of the goroutine, between two of its points.                     *)
SweeperMoves(from, to) ==
  /\ ~Over
  /\ sweeper = from
  /\ sweeper' = to
  /\ UNCHANGED <<main, conf, mux, result, listener, signalled, req>>

(* The ticker fires; select may prefer it to a context that is done too.   *)
SweepTick == SweeperMoves("idle", "acquiring")

SweepAcquires == ConnFree /\ ~SweepCancelled /\ SweeperMoves("acquiring", "deleting")

SweepEnds == SweeperMoves("deleting", "idle")

(* The database fails the sweep: the loop goes to its next tick.           *)
SweepFails == SweeperMoves("acquiring", "idle") \/ SweeperMoves("deleting", "idle")

(* The cancelled context ends the wait for a connection or for the DELETE. *)
SweepAborts ==
  /\ SweepCancelled
  /\ SweeperMoves("acquiring", "idle") \/ SweeperMoves("deleting", "idle")

SweeperReturns == SweepCancelled /\ SweeperMoves("idle", "done")

--------------------------------------------------------------------------------
(* The main goroutine. *)

(* ListenAndServe failed: serveHTTP returns, nothing is drained, and       *)
(* waitSweeper begins with its cancel.                                     *)
SelectListenError ==
  /\ main = "serving" /\ listener = "failed"
  /\ main' = "joining" /\ result' = "listen_error"
  /\ UNCHANGED <<conf, mux, listener, signalled, req, sweeper>>

(* Mutant: the select waits for the listener alone.                        *)
StopAskedNever == FALSE

StopAsked == signalled

(* Shutdown begins: it closes the listener.                                *)
SelectSignal ==
  /\ main = "serving" /\ StopAsked
  /\ main' = "draining"
  /\ listener' = IF listener = "open" THEN "closed" ELSE listener
  /\ UNCHANGED <<conf, mux, result, signalled, req, sweeper>>

(* Mutant: Shutdown does not wait for the handlers.                        *)
AllIdleAtOnce == TRUE

AllIdle == \A r \in Requests : req[r] \notin Active

Drained ==
  /\ main = "draining" /\ AllIdle
  /\ main' = "joining" /\ result' = "drained"
  /\ UNCHANGED <<conf, mux, listener, signalled, req, sweeper>>

DrainTimeout ==
  /\ main = "draining"
  /\ main' = "joining" /\ result' = "timeout"
  /\ UNCHANGED <<conf, mux, listener, signalled, req, sweeper>>

SweeperJoined ==
  /\ main = "joining" /\ sweeper = "done"
  /\ main' = "releasing"
  /\ UNCHANGED <<conf, mux, result, listener, signalled, req, sweeper>>

(* Ten seconds are over: the sweeper is left behind.                       *)
JoinTimeout ==
  /\ main = "joining"
  /\ main' = "releasing"
  /\ UNCHANGED <<conf, mux, result, listener, signalled, req, sweeper>>

(* stop, runner.Close and the start of pool.Close: no step waits.          *)
Release ==
  /\ main = "releasing"
  /\ main' = "closingPool"
  /\ UNCHANGED <<conf, mux, result, listener, signalled, req, sweeper>>

(* What was in progress in the process ends with it.                       *)
Cut == [r \in Requests |-> IF req[r] \in Active THEN "cut" ELSE req[r]]

(* pool.Close returns when every connection has come back.                 *)
Exit ==
  /\ main = "closingPool" /\ InUse = 0
  /\ main' = "exited"
  /\ req' = Cut
  /\ UNCHANGED <<conf, mux, result, listener, signalled, sweeper>>

(* SIGKILL, a crash, or any signal while nobody catches it: during the      *)
(* startup, and after stop.                                                *)
Kill ==
  /\ ~Over
  /\ main' = "killed"
  /\ req' = Cut
  /\ UNCHANGED <<conf, mux, result, listener, signalled, sweeper>>

--------------------------------------------------------------------------------
Startup == Load \/ NewPool \/ NewPoolFails \/ VerifyConnectivity \/ LogMigrationStatus \/ Wire

Main == \/ SelectListenError \/ SelectSignal \/ Drained \/ DrainTimeout
        \/ SweeperJoined \/ JoinTimeout \/ Release \/ Exit

Handler(r) == \/ Arrive(r) \/ Acquire(r) \/ AnswerWithoutQuery(r) \/ MeetClosedPool(r)
              \/ QueryEnds(r) \/ Respond(r) \/ ClientGone(r)

Sweeping == SweepTick \/ SweepAcquires \/ SweepEnds \/ SweepFails \/ SweepAborts
            \/ SweeperReturns

ServerNext == \/ Startup \/ Main \/ Sweeping \/ Listen \/ ListenFails \/ Signal \/ Kill
              \/ \E r \in Requests : Handler(r)

ServerSpec == ServerInit /\ [][ServerNext]_serverVars

(* The goroutines of the process run, its timers fire, a cancelled context *)
(* ends what it governs, and select does not prefer the ticker for ever.   *)
FairServer ==
  /\ ServerSpec
  /\ WF_serverVars(Load) /\ WF_serverVars(NewPool) /\ WF_serverVars(Wire)
  /\ WF_serverVars(Main) /\ WF_serverVars(Listen)
  /\ WF_serverVars(SweepAborts) /\ SF_serverVars(SweeperReturns)
  /\ \A r \in Requests : /\ WF_serverVars(Respond(r))
                         /\ WF_serverVars(MeetClosedPool(r))

--------------------------------------------------------------------------------
(* Properties. *)

(* A shutdown that reports success has lost nobody: no request it had      *)
(* accepted is unanswered, cut off or refused by the closed pool, and none *)
(* comes in afterwards (waitAndShutdown, the order of runServe's defers).  *)
SuccessLosesNobody ==
  result = "drained" => \A r \in Requests : req[r] \notin Active \cup {"failed", "cut"}

(* The mux of a process that serves, which picks among overlapping          *)
(* patterns, separates a wrong method on a path that exists, an unknown     *)
(* path of the API and, with PUBLIC_BASE_URL set, the frontend's paths: no   *)
(* path of the API ever yields a page, no page a JSON refusal.  The Allow   *)
(* header of a 405 lists the methods that would be served there, and no    *)
(* others (NewServer).                                                     *)
RoutesSeparated ==
  main = "serving" =>
    /\ \A path \in ApiPaths, method \in Methods :
         mux[<<method, path>>] =
           IF Registered(path) = {} THEN "not_found"
           ELSE IF \E r \in Registered(path) : MethodMatches(r.method, method) THEN "handled"
           ELSE "method_not_allowed"
    /\ \A path \in Paths \ ApiPaths, method \in {"GET", "HEAD"} :
         mux[<<method, path>>] \in IF conf.tlsHostname # Empty THEN {"asset", "index"} ELSE {"not_found"}
    /\ \A path \in ApiPaths :
         Registered(path) # {} => Allow405(path) = {m \in Methods : mux[<<m, path>>] = "handled"}

(* Told to stop, the sweeper stops, though the database may never answer   *)
(* the DELETE it has in flight (sweepCtx, waitSweeper).                    *)
SweeperStops == (signalled \/ main = "joining") ~> (sweeper = "done" \/ Over)

(* What the server's specification asks of every shutdown: a signal, or a  *)
(* listener that failed, ends the process.                                 *)
StopEndsProcess == (signalled \/ listener = "failed") ~> Over

(* Every statement of this process gets its answer from the database,       *)
(* however late.                                                           *)
DbAnswers ==
  /\ WF_serverVars(VerifyConnectivity) /\ WF_serverVars(LogMigrationStatus)
  /\ \A r \in Requests : WF_serverVars(QueryEnds(r))

(* Then the process gets somewhere: from its startup to serving or to an    *)
(* error, whether the database was up or not; and from a signal, or from a  *)
(* listener that failed with requests in flight, to its exit, whatever the  *)
(* two timeouts left behind (runServe, waitAndShutdown, pool.Close).       *)
ProgressWhenDbAnswers ==
  DbAnswers => /\ main \in Starting ~> main = "serving" \/ Over
               /\ StopEndsProcess
================================================================================
