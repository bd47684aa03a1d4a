--------------------------------- MODULE Routes ---------------------------------
(***************************************************************************)
(* The routes of internal/httpapi: the patterns NewServer registers, which  *)
(* of them the mux picks for a request, and what becomes of it there.      *)
(***************************************************************************)

AnyMethod == "any method"
Methods   == {"GET", "HEAD", "POST", "DELETE"}

(* A path is named by the pattern that describes it, if there is one: a     *)
(* file of the frontend, a directory of it and a clip's page have none.    *)
ApiPaths == {"/api/health", "/api/clips", "/api/clips/{slug}",
             "/api/clips/{slug}/availability", "/api/", "/api/other"}
Files    == {"/assets/file.js"}
Paths    == ApiPaths \cup Files \cup {"/", "/assets", "/{slug}"}

Route(method, path) == [method |-> method, path |-> path]

routes == {Route("GET", "/api/health"), Route("POST", "/api/clips"),
           Route("GET", "/api/clips/{slug}"),
           Route("GET", "/api/clips/{slug}/availability")}

(* Mutant: a path is registered with its method only.                      *)
PatternsWithMethod == routes \cup {Route(AnyMethod, "/api/"), Route(AnyMethod, "/")}

(* A route is registered once with its method and once without; then the   *)
(* two fallbacks.                                                          *)
Patterns ==
  routes \cup {Route(AnyMethod, r.path) : r \in routes} \cup {Route(AnyMethod, "/api/"), Route(AnyMethod, "/")}

PathMatches(p, path) == p = path \/ p = "/" \/ (p = "/api/" /\ path \in ApiPaths)

MethodMatches(m, method) == m \in {AnyMethod, method} \/ (m = "GET" /\ method = "HEAD")

Matching(method, path) ==
  {p \in Patterns : PathMatches(p.path, path) /\ MethodMatches(p.method, method)}

(* q beats p: the mux takes the pattern that matches less.                 *)
MoreSpecific(q, p) ==
  /\ q # p /\ PathMatches(p.path, q.path)
  /\ p.path # q.path \/ MethodMatches(p.method, q.method)

Chosen(method, path) ==
  CHOOSE p \in Matching(method, path) : \A q \in Matching(method, path) : ~MoreSpecific(q, p)

RegisteredMethods(path) == {r.method : r \in {q \in routes : q.path = path}}

(* The Allow header of a registered path.                                  *)
Allow405(path) ==
  RegisteredMethods(path) \cup (IF "GET" \in RegisteredMethods(path) THEN {"HEAD"} ELSE {})

(* The frontend is read, and every path that is no file of it is its own    *)
(* to route: it is given index.html.                                       *)
spaFileServer(method, path) ==
  IF method \notin {"GET", "HEAD"} THEN "method_not_allowed"
  ELSE IF path \in Files THEN "asset" ELSE "index"

(* What becomes of a request at the mux of a server that is public or not. *)
Routed(public, method, path) ==
  LET p == Chosen(method, path) IN
  CASE p \in routes     -> "handled"
    [] p.path = "/api/" -> "not_found"
    [] p.path = "/"     -> IF public THEN spaFileServer(method, path) ELSE "not_found"
    [] OTHER            -> "method_not_allowed"

Served == {"handled", "not_found", "method_not_allowed", "asset", "index"}

Registered(path) == {r \in routes : r.path = path}
================================================================================
