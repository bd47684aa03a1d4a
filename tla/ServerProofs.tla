------------------------------ MODULE ServerProofs ------------------------------
(***************************************************************************)
(* For any number of requests and connections: a shutdown that reports      *)
(* success has lost no request; whatever the environment, what is loaded    *)
(* from it is usable; and the mux keeps the routes apart.                  *)
(***************************************************************************)
EXTENDS Server, TLAPS

(* The pool is not closed, and nothing is cut off, while the process       *)
(* starts, serves or drains.                                               *)
NoneLostYet ==
  main \in Starting \cup {"serving", "draining"} => \A r \in Requests : req[r] \notin {"failed", "cut"}

(* The listener's part of the type invariant carries the induction too:    *)
(* once the drain has begun nobody arrives.                                *)
ServerInv ==
  /\ ServerTypeOK
  /\ NoneLostYet
  /\ result = "listen_error" => listener = "failed"
  /\ SuccessLosesNobody

LEMMA ServerInitInv == ServerInit => ServerInv
  BY DEF ServerInit, ServerInv, ServerTypeOK, NoneLostYet, SuccessLosesNobody, Active, Starting, Mains

(* No environment that loads gives a configuration the program fails on.   *)
LEMMA LoadedIsUsable ==
  ASSUME NEW env \in Environments, ~LoadFails(env)
  PROVE  Usable(LoadFromEnv(env))
<1>1. ASSUME NEW s \in Numeric
      PROVE  Number(env, s) \in Int /\ InRange(s, Number(env, s))
  <2>1. CASE Left(env, s)
    <3>1. Default(s) \in Int /\ InRange(s, Default(s))
      BY DEF Default, InRange, MaxPort
    <3>2. QED
      BY <2>1, <3>1 DEF Number
  <2>2. CASE ~Left(env, s)
    <3>1. env[s] \in Int
      BY <2>2, ServerAssumption DEF Environment, Left, LoadFails, NumberRefused
    <3>2. QED
      BY <2>2, <3>1 DEF Number, LoadFails, NumberRefused
  <2>3. QED
    BY <2>1, <2>2
<1>2. \A s \in Numeric \ {"IPV6_PREFIX"} : Number(env, s) > 0
  BY <1>1 DEF InRange
<1>3. "PORT" \in Numeric /\ "IPV6_PREFIX" \in Numeric
  BY DEF Numeric
<1>4. Number(env, "PORT") <= MaxPort
  BY <1>1, <1>3 DEF InRange
<1>5. Number(env, "IPV6_PREFIX") \in 0..128
  <2>1. Number(env, "IPV6_PREFIX") \in Int /\ InRange("IPV6_PREFIX", Number(env, "IPV6_PREFIX"))
    BY <1>1, <1>3
  <2>2. \A n \in Int : InRange("IPV6_PREFIX", n) => n \in 0..128
    BY DEF InRange
  <2>3. QED
    BY <2>1, <2>2
<1>6. loadTrustedProxy(env) \notin {Unset, Malformed}
  BY ServerAssumption DEF LoadFails, loadTrustedProxy
<1>7. TLSHostname(env) # ""
  BY ServerAssumption DEF LoadFails, TLSHostname, BaseURLRefused
<1>8. MigrationsDir(env) \notin {Unset, Empty}
  BY ServerAssumption DEF MigrationsDir, Left
<1>9. \A s \in Numeric : LoadFromEnv(env).numbers[s] = Number(env, s)
  BY DEF LoadFromEnv
<1>10. /\ LoadFromEnv(env).migrationsDir = MigrationsDir(env)
      /\ LoadFromEnv(env).trustedProxy = loadTrustedProxy(env)
      /\ LoadFromEnv(env).tlsHostname = TLSHostname(env)
  BY DEF LoadFromEnv
<1>11. QED
  BY <1>2, <1>3, <1>4, <1>5, <1>6, <1>7, <1>8, <1>9, <1>10 DEF Usable

LEMMA StartupKeeps ==
  ASSUME ServerInv, Startup
  PROVE  ServerInv'
<1> USE DEF ServerInv, ServerTypeOK, NoneLostYet, SuccessLosesNobody, Active, Starting, Mains
<1>1. CASE Load
  BY <1>1, LoadedIsUsable DEF Load
<1>2. CASE NewPool \/ VerifyConnectivity \/ LogMigrationStatus
  BY <1>2 DEF NewPool, VerifyConnectivity, LogMigrationStatus, Starts
<1>3. CASE NewPoolFails
  BY <1>3 DEF NewPoolFails
<1>4. CASE Wire
  BY <1>4 DEF Wire
<1>5. QED
  BY <1>1, <1>2, <1>3, <1>4 DEF Startup

LEMMA MainKeeps ==
  ASSUME ServerInv, Main
  PROVE  ServerInv'
<1> USE DEF ServerInv, ServerTypeOK, NoneLostYet, SuccessLosesNobody,
            Active, Starting, Mains, SweepCancelled, Over
<1>1. CASE SelectListenError
  BY <1>1 DEF SelectListenError
<1>2. CASE SelectSignal
  BY <1>2 DEF SelectSignal, StopAsked
<1>3. CASE Drained
  BY <1>3 DEF Drained, AllIdle
<1>4. CASE DrainTimeout
  BY <1>4 DEF DrainTimeout
<1>5. CASE SweeperJoined \/ JoinTimeout \/ Release
  BY <1>5 DEF SweeperJoined, JoinTimeout, Release
<1>6. CASE Exit
  BY <1>6 DEF Exit, Cut
<1>7. QED
  BY <1>1, <1>2, <1>3, <1>4, <1>5, <1>6 DEF Main

LEMMA HandlerKeeps ==
  ASSUME ServerInv, NEW r \in Requests, Handler(r)
  PROVE  ServerInv'
<1> USE DEF ServerInv, ServerTypeOK, NoneLostYet, SuccessLosesNobody,
            Active, Starting, SweepCancelled, Over
<1>1. CASE Arrive(r)
  BY <1>1 DEF Arrive
<1>2. CASE MeetClosedPool(r)
  BY <1>2 DEF MeetClosedPool, PoolClosed, Moves
<1>3. ASSUME NEW from \in Active, NEW to \in Active \cup {"answered", "gone"}, Moves(r, from, to)
      PROVE  ServerInv'
  BY <1>3 DEF Moves
<1>4. QED
  BY <1>1, <1>2, <1>3
     DEF Handler, Acquire, AnswerWithoutQuery, QueryEnds, Respond, ClientGone

LEMMA SweeperMoveKeeps ==
  ASSUME ServerInv, NEW from \in {"idle", "acquiring", "deleting"},
         NEW to \in {"idle", "acquiring", "deleting"}, SweeperMoves(from, to)
  PROVE  ServerInv'
  BY DEF ServerInv, ServerTypeOK, NoneLostYet, SuccessLosesNobody, Starting, Mains, Over,
         SweeperMoves

LEMMA SweepingKeeps ==
  ASSUME ServerInv, Sweeping
  PROVE  ServerInv'
<1>1. CASE SweeperReturns
  BY <1>1 DEF SweeperReturns, SweeperMoves, ServerInv, ServerTypeOK, NoneLostYet,
              SuccessLosesNobody, SweepCancelled, Over
<1>2. CASE ~SweeperReturns
  <2>1. \/ SweeperMoves("idle", "acquiring") \/ SweeperMoves("acquiring", "deleting")
        \/ SweeperMoves("deleting", "idle") \/ SweeperMoves("acquiring", "idle")
    BY <1>2 DEF Sweeping, SweepTick, SweepAcquires, SweepEnds, SweepFails, SweepAborts
  <2>2. QED
    BY <2>1, SweeperMoveKeeps
<1>3. QED
  BY <1>1, <1>2

LEMMA OthersKeep ==
  ASSUME ServerInv, Listen \/ ListenFails \/ Signal \/ Kill
  PROVE  ServerInv'
<1> USE DEF ServerInv, ServerTypeOK, NoneLostYet, SuccessLosesNobody,
            Active, Starting, Mains, SweepCancelled, Over
<1>1. CASE Listen
  BY <1>1 DEF Listen, ShutdownBegun
<1>2. CASE ListenFails
  BY <1>2 DEF ListenFails
<1>3. CASE Signal
  BY <1>3 DEF Signal
<1>4. CASE Kill
  BY <1>4 DEF Kill, Cut
<1>5. QED
  BY <1>1, <1>2, <1>3, <1>4

(* The invariant of the process, by induction over its steps.              *)
THEOREM ServerInvariance == ServerSpec => []ServerInv
<1>1. ServerInv /\ [ServerNext]_serverVars => ServerInv'
  <2> SUFFICES ASSUME ServerInv, [ServerNext]_serverVars
               PROVE  ServerInv'
    OBVIOUS
  <2>1. CASE ServerNext
    BY <2>1, StartupKeeps, MainKeeps, HandlerKeeps, SweepingKeeps, OthersKeep DEF ServerNext
  <2>2. CASE UNCHANGED serverVars
    BY <2>2 DEF serverVars, ServerInv, ServerTypeOK, NoneLostYet, SuccessLosesNobody, SweepCancelled, Over
  <2>3. QED
    BY <2>1, <2>2
<1>2. QED
  BY <1>1, ServerInitInv, PTL DEF ServerSpec

(* A shutdown that reports success has lost nobody (waitAndShutdown and the *)
(* order of runServe's deferred calls).                                    *)
THEOREM ShutdownLosesNobody == ServerSpec => []SuccessLosesNobody
<1>1. ServerInv => SuccessLosesNobody
  BY DEF ServerInv
<1>2. QED
  BY <1>1, ServerInvariance, PTL

(* Whatever environment it is started in, the process that runs has a        *)
(* configuration its parts can work with, and serves only once its startup  *)
(* is over (LoadFromEnv, runServe).                                        *)
THEOREM ServerTypeCorrect == ServerSpec => []ServerTypeOK
<1>1. ServerInv => ServerTypeOK
  BY DEF ServerInv
<1>2. QED
  BY <1>1, ServerInvariance, PTL

--------------------------------------------------------------------------------
(* The routes: each path is registered once, none is a fallback's, and no   *)
(* method of a request is the one that stands for all.                     *)
LEMMA RoutesOnce ==
  /\ \A r, q \in routes : r.path = q.path => r = q
  /\ \A r \in routes : r.method \in {"GET", "POST"} /\ r.path \in ApiPaths \ {"/api/", "/"}
  /\ AnyMethod \notin Methods /\ {"GET", "POST", "HEAD"} \subseteq Methods
  /\ ApiPaths \subseteq Paths /\ "/" \notin ApiPaths /\ "/api/" \in ApiPaths
  BY DEF routes, Route, ApiPaths, Paths, AnyMethod, Methods

(* A pattern is a route, a route's path with any method, or a fallback.     *)
LEMMA PatternKinds ==
  ASSUME NEW p \in Patterns
  PROVE  \/ p \in routes
         \/ /\ p = Route(AnyMethod, p.path) /\ p.method = AnyMethod
            /\ \/ p.path \in {"/api/", "/"}
               \/ \E r \in routes : r.path = p.path
  BY DEF Patterns, Route

(* The mux picks the pattern that beats every other one it could pick.     *)
LEMMA ChosenIs ==
  ASSUME NEW method, NEW path, NEW p \in Matching(method, path),
         \A q \in Matching(method, path) \ {p} : MoreSpecific(p, q) /\ ~MoreSpecific(q, p)
  PROVE  Chosen(method, path) = p
<1> DEFINE Unbeaten(c) == \A q \in Matching(method, path) : ~MoreSpecific(q, c)
<1>1. Unbeaten(p)
  BY DEF MoreSpecific
<1>2. \A c \in Matching(method, path) : Unbeaten(c) => c = p
  OBVIOUS
<1>3. Chosen(method, path) = CHOOSE c \in Matching(method, path) : Unbeaten(c)
  BY DEF Chosen
<1> HIDE DEF Unbeaten
<1>4. QED
  BY <1>1, <1>2, <1>3

(* A method that a route of the path takes goes to the route.              *)
LEMMA RouteChosen ==
  ASSUME NEW method \in Methods, NEW r \in routes, MethodMatches(r.method, method)
  PROVE  Chosen(method, r.path) = r
<1>1. r \in Matching(method, r.path)
  BY DEF Matching, PathMatches, Patterns
<1>2. ASSUME NEW q \in Matching(method, r.path) \ {r}
      PROVE  MoreSpecific(r, q) /\ ~MoreSpecific(q, r)
  <2>1. q \in Patterns /\ PathMatches(q.path, r.path)
    BY DEF Matching
  <2>2. q.path = r.path => q.method = AnyMethod
    BY <1>2, <2>1, PatternKinds, RoutesOnce
  <2>3. MoreSpecific(r, q)
    BY <1>2, <2>1, <2>2 DEF MoreSpecific, MethodMatches
  <2>4. PathMatches(r.path, q.path) => q.path = r.path
    BY RoutesOnce DEF PathMatches
  <2>5. ~MethodMatches(r.method, AnyMethod)
    BY RoutesOnce DEF MethodMatches, Methods
  <2>6. QED
    BY <2>2, <2>3, <2>4, <2>5 DEF MoreSpecific
<1>3. QED
  BY <1>1, <1>2, ChosenIs

(* A method that none takes goes to the path's own pattern for any method.  *)
LEMMA AnyMethodChosen ==
  ASSUME NEW method \in Methods, NEW r \in routes, ~MethodMatches(r.method, method)
  PROVE  Chosen(method, r.path) = Route(AnyMethod, r.path)
<1> DEFINE p == Route(AnyMethod, r.path)
<1>1. p.method = AnyMethod /\ p.path = r.path /\ p \in Patterns
  BY DEF Route, Patterns
<1>2. p \in Matching(method, r.path)
  BY <1>1 DEF Matching, PathMatches, MethodMatches
<1> HIDE DEF p
<1>3. ASSUME NEW q \in Matching(method, r.path) \ {p}
      PROVE  MoreSpecific(p, q) /\ ~MoreSpecific(q, p)
  <2>1. q \in Patterns /\ PathMatches(q.path, r.path) /\ MethodMatches(q.method, method)
    BY DEF Matching
  <2>2. q.path # r.path
    <3>1. ASSUME q.path = r.path PROVE q \notin routes
      BY <2>1, <3>1, RoutesOnce
    <3>2. ASSUME q.path = r.path PROVE q = p
      BY <2>1, <3>1, <3>2, PatternKinds DEF p
    <3>3. QED
      BY <1>3, <3>2
  <2>3. MoreSpecific(p, q)
    BY <1>1, <1>3, <2>1, <2>2 DEF MoreSpecific
  <2>4. ~PathMatches(r.path, q.path)
    BY <2>2, RoutesOnce DEF PathMatches
  <2>5. QED
    BY <1>1, <2>3, <2>4 DEF MoreSpecific
<1>4. QED
  BY <1>2, <1>3, ChosenIs DEF p

(* A path that no route has goes to the fallback of the API or of the rest. *)
LEMMA FallbackChosen ==
  ASSUME NEW method \in Methods, NEW path \in Paths, Registered(path) = {}
  PROVE  Chosen(method, path) = Route(AnyMethod, IF path \in ApiPaths THEN "/api/" ELSE "/")
<1> DEFINE base == IF path \in ApiPaths THEN "/api/" ELSE "/"
           p == Route(AnyMethod, base)
<1>1. /\ p.method = AnyMethod /\ p.path = base /\ p \in Patterns
      /\ base \in {"/api/", "/"} /\ PathMatches(base, path)
  BY DEF Route, Patterns, PathMatches
<1>2. p \in Matching(method, path)
  BY <1>1 DEF Matching, MethodMatches
<1>3. \A r \in routes : r.path # path
  BY DEF Registered
<1>4. ASSUME NEW q \in Matching(method, path) \ {p}
      PROVE  MoreSpecific(p, q) /\ ~MoreSpecific(q, p)
  <2>1. q \in Patterns /\ PathMatches(q.path, path)
    BY DEF Matching
  <2>2. q.path \in {"/api/", "/"}
    BY <1>3, <2>1, PatternKinds, RoutesOnce DEF PathMatches
  <2>3. q = Route(AnyMethod, q.path)
    BY <2>1, <2>2, PatternKinds, RoutesOnce
  <2>4. q.path # base
    BY <1>4, <2>3
  <2>5. path \in ApiPaths /\ base = "/api/" /\ q.path = "/"
    BY <2>1, <2>2, <2>4, RoutesOnce DEF PathMatches
  <2>6. MoreSpecific(p, q)
    BY <1>1, <1>4, <2>4, <2>5 DEF MoreSpecific, PathMatches
  <2>7. ~PathMatches(base, q.path)
    BY <2>5, RoutesOnce DEF PathMatches
  <2>8. QED
    BY <1>1, <2>6, <2>7 DEF MoreSpecific
<1>5. QED
  BY <1>2, <1>4, ChosenIs

(* What a path of the API comes to, whatever pattern is written last.      *)
LEMMA ApiRouted ==
  ASSUME NEW public, NEW method \in Methods, NEW path \in ApiPaths
  PROVE  Routed(public, method, path) =
           IF Registered(path) = {} THEN "not_found"
           ELSE IF \E r \in Registered(path) : MethodMatches(r.method, method) THEN "handled"
           ELSE "method_not_allowed"
<1>1. CASE Registered(path) = {}
  <2> DEFINE p == Route(AnyMethod, "/api/")
  <2>1. Chosen(method, path) = p
    BY <1>1, FallbackChosen, RoutesOnce
  <2>2. p.path = "/api/" /\ p \notin routes
    <3>1. p.path = "/api/" /\ p.method = AnyMethod
      BY DEF Route
    <3>2. QED
      BY <3>1, RoutesOnce
  <2> HIDE DEF p
  <2>3. QED
    BY <1>1, <2>1, <2>2 DEF Routed
<1>2. ASSUME NEW r \in Registered(path), MethodMatches(r.method, method)
      PROVE  Routed(public, method, path) = "handled"
  <2>1. r \in routes /\ r.path = path /\ Chosen(method, path) = r
    BY <1>2, RouteChosen DEF Registered
  <2>2. r.path \notin {"/api/", "/"}
    BY <2>1, RoutesOnce
  <2>3. QED
    BY <2>1, <2>2 DEF Routed
<1>3. ASSUME NEW r \in Registered(path), ~MethodMatches(r.method, method)
      PROVE  Routed(public, method, path) = "method_not_allowed"
  <2> DEFINE p == Route(AnyMethod, r.path)
  <2>1. r \in routes /\ r.path = path /\ Chosen(method, path) = p
    BY <1>3, AnyMethodChosen DEF Registered
  <2>2. p.path = path /\ p.method = AnyMethod
    BY <2>1 DEF Route
  <2>3. p \notin routes /\ p.path \notin {"/api/", "/"}
    BY <2>1, <2>2, RoutesOnce
  <2> HIDE DEF p
  <2>4. QED
    BY <2>1, <2>2, <2>3 DEF Routed
<1>4. \A r, q \in Registered(path) : r = q
  BY RoutesOnce DEF Registered
<1>5. QED
  BY <1>1, <1>2, <1>3, <1>4

(* What the rest comes to: the frontend, where there is one.               *)
LEMMA RestRouted ==
  ASSUME NEW public, NEW method \in Methods, NEW path \in Paths \ ApiPaths
  PROVE  Routed(public, method, path) =
           IF public THEN spaFileServer(method, path) ELSE "not_found"
<1> DEFINE p == Route(AnyMethod, "/")
<1>1. Registered(path) = {}
  BY RoutesOnce DEF Registered
<1>2. Chosen(method, path) = p
  BY <1>1, FallbackChosen
<1>3. p.path = "/" /\ p.method = AnyMethod
  BY DEF Route
<1>4. p \notin routes
  BY <1>3, RoutesOnce
<1> HIDE DEF p
<1>5. QED
  BY <1>2, <1>3, <1>4 DEF Routed

(* The Allow header of a registered path lists what its route takes.       *)
LEMMA AllowIsTaken ==
  ASSUME NEW path \in ApiPaths, Registered(path) # {}
  PROVE  Allow405(path) =
           {m \in Methods : \E r \in Registered(path) : MethodMatches(r.method, m)}
<1>1. PICK r \in routes : r.path = path /\ Registered(path) = {r}
  BY RoutesOnce DEF Registered
<1>2. RegisteredMethods(path) = {r.method}
  BY <1>1 DEF RegisteredMethods, Registered
<1>3. r.method \in Methods /\ r.method # AnyMethod /\ "HEAD" \in Methods
  BY RoutesOnce
<1>4. QED
  BY <1>1, <1>2, <1>3 DEF Allow405, MethodMatches

(* A process that serves has the mux that NewServer registered.            *)
MuxWired ==
  main = "serving" =>
    mux = [r \in Methods \X Paths |-> Routed(conf.tlsHostname # Empty, r[1], r[2])]

LEMMA WiredSeparates == MuxWired => RoutesSeparated
<1> SUFFICES ASSUME MuxWired, main = "serving" PROVE RoutesSeparated
  BY DEF RoutesSeparated
<1> DEFINE public == conf.tlsHostname # Empty
<1>1. \A method \in Methods, path \in Paths : mux[<<method, path>>] = Routed(public, method, path)
  BY DEF MuxWired
<1> HIDE DEF public
<1>2. ApiPaths \subseteq Paths /\ {"GET", "HEAD"} \subseteq Methods
  BY RoutesOnce
<1>3. \A path \in ApiPaths, method \in Methods :
        mux[<<method, path>>] =
          IF Registered(path) = {} THEN "not_found"
          ELSE IF \E r \in Registered(path) : MethodMatches(r.method, method) THEN "handled"
          ELSE "method_not_allowed"
  BY <1>1, <1>2, ApiRouted
<1>4. \A path \in Paths \ ApiPaths, method \in {"GET", "HEAD"} :
        mux[<<method, path>>] \in IF public THEN {"asset", "index"} ELSE {"not_found"}
  <2> SUFFICES ASSUME NEW path \in Paths \ ApiPaths, NEW method \in {"GET", "HEAD"}
               PROVE  mux[<<method, path>>] \in IF public THEN {"asset", "index"} ELSE {"not_found"}
    OBVIOUS
  <2>1. mux[<<method, path>>] = IF public THEN spaFileServer(method, path) ELSE "not_found"
    BY <1>1, <1>2, RestRouted
  <2>2. spaFileServer(method, path) \in {"asset", "index"}
    BY DEF spaFileServer
  <2>3. QED
    BY <2>1, <2>2
<1>5. ASSUME NEW path \in ApiPaths, Registered(path) # {}
      PROVE  Allow405(path) = {m \in Methods : mux[<<m, path>>] = "handled"}
  <2>1. \A m \in Methods :
          mux[<<m, path>>] = "handled" <=> \E r \in Registered(path) : MethodMatches(r.method, m)
    BY <1>3, <1>5
  <2>2. QED
    BY <1>5, <2>1, AllowIsTaken
<1>6. QED
  BY <1>3, <1>4, <1>5 DEF RoutesSeparated, public

(* Only the wiring makes the mux, from the configuration of the process.   *)
LEMMA MuxStays ==
  ASSUME ServerInv, MuxWired, [ServerNext]_serverVars
  PROVE  MuxWired'
<1> USE DEF MuxWired
<1>1. CASE Wire
  BY <1>1 DEF Wire
<1>2. CASE Startup /\ ~Wire
  BY <1>2 DEF Startup, Load, NewPool, NewPoolFails, VerifyConnectivity, LogMigrationStatus, Starts
<1>3. CASE Main
  BY <1>3 DEF Main, SelectListenError, SelectSignal, Drained, DrainTimeout, SweeperJoined,
              JoinTimeout, Release, Exit
<1>4. ASSUME NEW r \in Requests, Handler(r)
      PROVE  MuxWired'
  BY <1>4 DEF Handler, Arrive, Acquire, AnswerWithoutQuery, MeetClosedPool, QueryEnds, Respond,
              ClientGone, Moves
<1>5. CASE Sweeping
  BY <1>5 DEF Sweeping, SweepTick, SweepAcquires, SweepEnds, SweepFails, SweepAborts,
              SweeperReturns, SweeperMoves
<1>6. CASE Listen \/ ListenFails \/ Signal \/ Kill \/ UNCHANGED serverVars
  BY <1>6 DEF Listen, ListenFails, Signal, Kill, serverVars
<1>7. QED
  BY <1>1, <1>2, <1>3, <1>4, <1>5, <1>6 DEF ServerNext

(* Of every request the mux of a serving process makes what RoutesSeparated *)
(* says, public or not (NewServer, spaFileServer).                         *)
THEOREM RoutesAreSeparated == ServerSpec => []RoutesSeparated
<1>1. ServerInit => MuxWired
  BY DEF ServerInit, MuxWired
<1>2. ServerInv /\ MuxWired /\ [ServerNext]_serverVars => MuxWired'
  BY MuxStays
<1>3. QED
  BY <1>1, <1>2, ServerInvariance, WiredSeparates, PTL DEF ServerSpec
================================================================================
