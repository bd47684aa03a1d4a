-------------------------------- MODULE SlugPage --------------------------------
(***************************************************************************)
(* The read page of the web client, web/src/routes/$slug.tsx: React's       *)
(* render and effect cycle, the reads it has in flight and the interval    *)
(* that counts down, against a server whose clips come and go.             *)
(*                                                                         *)
(* A setState is not seen at once.  `state` is what useState will hold,     *)
(* `shown` what the last render committed, `effects` the effects that      *)
(* render still owes; their closures see `shown`, not `state`.  Answers    *)
(* and ticks may come between a render and its effects.                    *)
(***************************************************************************)
EXTENDS Integers, FiniteSets

CONSTANTS
  Slugs,
  Lives,       \* for each slug, the lifetimes its clips may have
  Period,      \* of the interval: one second
  MaxDelay,    \* no answer is longer under way to the browser than this
  Offsets,     \* the browser's clock minus the server's
  MaxClock,    \* BOUND: the clock stops here
  LastCreate,  \* BOUND: no clip is created later than this
  MaxReads,    \* BOUND: the page is not left for another with so many reads
  None

ASSUME SlugPageAssumption ==
  /\ Lives \in [Slugs -> SUBSET (Nat \ {0})]
  /\ Period \in Nat \ {0} /\ MaxDelay \in Nat
  /\ Offsets \subseteq Int
  /\ MaxClock \in Nat /\ LastCreate \in Nat /\ MaxReads \in Nat
  /\ None \notin [expires : Nat, skew : Int, slug : Slugs, of : Slugs \cup {None}, next : Nat]

VARIABLES
  clock,      \* the server's
  offset,
  expires,    \* for each slug when its last clip expires; 0: never had one
  route,      \* the slug of the URL
  state,      \* LoadState
  remaining,  \* remainingMs
  shown,      \* slug and state of the last render
  effects,    \* effects of it that have not run
  reads,      \* calls of readClip that have not returned
  ticker      \* the interval, or None

pageVars == <<clock, offset, expires, route, state, remaining, shown, effects, reads, ticker>>
server   == <<clock, offset, expires>>

--------------------------------------------------------------------------------
(* The state of the page; `of` is the slug whose read or countdown said so. *)
Loading        == [kind |-> "loading", of |-> None, expires |-> 0, skew |-> 0]
Ready(s, e, k) == [kind |-> "ready", of |-> s, expires |-> e, skew |-> k]
ExpiredAs(s)   == [kind |-> "expired", of |-> s, expires |-> 0, skew |-> 0]
Failed(s)      == [kind |-> "error", of |-> s, expires |-> 0, skew |-> 0]

ReadOf(kind, s, cancelled) ==
  [kind |-> kind, slug |-> s, cancelled |-> cancelled,
   at |-> "server", expires |-> 0, serverTime |-> 0]

(* Mutant: the loads share one flag, and nobody resets it.                 *)
AskedShared(kind, s) == ReadOf(kind, s, reads # {})

(* A read as it leaves the page: the "load" of a slug, or "again" when its  *)
(* countdown is over.                                                      *)
Asked(kind, s) == ReadOf(kind, s, FALSE)

DateNow == clock + offset

(* A render is owed, or the effects of the last one are.                   *)
RenderOwed == shown # [slug |-> route, state |-> state]
Busy       == RenderOwed \/ effects # {}

--------------------------------------------------------------------------------
PageStates == [kind : {"loading", "ready", "expired", "error"}, of : Slugs \cup {None},
               expires : Nat, skew : Int]
Reads      == [kind : {"load", "again"}, slug : Slugs, cancelled : BOOLEAN,
               at : {"server", "found", "stamped", "missing", "failed"},
               expires : Nat, serverTime : Nat]
Tickers    == [expires : Nat, skew : Int, slug : Slugs, of : Slugs \cup {None}, next : Nat]

(* An interval runs on a settled page exactly while it counts down.        *)
PageTypeOK ==
  /\ clock \in Nat /\ offset \in Int
  /\ expires \in [Slugs -> Nat]
  /\ route \in Slugs
  /\ state \in PageStates /\ remaining \in Int \cup {None}
  /\ shown \in [slug : Slugs, state : PageStates]
  /\ effects \subseteq {"load", "tick"}
  /\ reads \subseteq Reads
  /\ ticker \in Tickers \cup {None}
  /\ ~Busy => (ticker # None <=> state.kind = "ready")

(* The page is opened under some slug, and both effects are to run.        *)
PageInit ==
  /\ clock = 0 /\ offset \in Offsets
  /\ expires = [s \in Slugs |-> 0]
  /\ route \in Slugs
  /\ state = Loading /\ remaining = None
  /\ shown = [slug |-> route, state |-> Loading]
  /\ effects = {"load", "tick"}
  /\ reads = {} /\ ticker = None

--------------------------------------------------------------------------------
(* The server and the network. *)

(* Somebody claims a name that is free.                                    *)
Create(s, life) ==
  /\ clock <= LastCreate /\ expires[s] <= clock
  /\ expires' = [expires EXCEPT ![s] = clock + life]
  /\ UNCHANGED <<clock, offset, route, state, remaining, shown, effects, reads, ticker>>

ReadBecomes(r, r2) ==
  /\ reads' = (reads \ {r}) \cup {r2}
  /\ UNCHANGED <<server, route, state, remaining, shown, effects, ticker>>

(* The statement of a read.  No request is so fast that it is answered     *)
(* before React has rendered what its page had set when it was sent.       *)
Query(r) ==
  /\ r.at = "server" /\ ~Busy
  /\ IF expires[r.slug] > clock
       THEN ReadBecomes(r, [r EXCEPT !.at = "found", !.expires = expires[r.slug]])
       ELSE ReadBecomes(r, [r EXCEPT !.at = "missing"])

(* The answer is written, with the server's time as it is by then.         *)
Stamp(r) ==
  /\ r.at = "found"
  /\ ReadBecomes(r, [r EXCEPT !.at = "stamped", !.serverTime = clock])

(* The network fails, or the server answers with an error.                 *)
ReadFails(r) ==
  /\ r.at \in {"server", "found"} /\ ~Busy
  /\ ReadBecomes(r, [r EXCEPT !.at = "failed"])

Advance ==
  /\ clock < MaxClock
  /\ ~Busy
  /\ ticker # None => clock < ticker.next
  /\ \A r \in reads : r.at = "stamped" => clock < r.serverTime + MaxDelay
  /\ clock' = clock + 1
  /\ UNCHANGED <<offset, expires, route, state, remaining, shown, effects, reads, ticker>>

--------------------------------------------------------------------------------
(* The countdown. *)

(* Mutant: the browser's clock is trusted.                                 *)
SkewNone(serverTime) == 0

Skew(serverTime) == serverTime - DateNow

(* Time left, by the server's clock as the page reckons it.                *)
Left(e, skew) == e - (DateNow + skew)

(* A tick: the countdown goes on, or is over and the page asks once more.   *)
(* `base` are the reads and `was` the state this tick finds.               *)
Ticks(e, skew, slug, of, base, was) ==
  IF Left(e, skew) <= 0
    THEN /\ state' = ExpiredAs(of) /\ remaining' = 0
         /\ reads' = base \cup {Asked("again", slug)}
    ELSE /\ state' = was /\ remaining' = Left(e, skew)
         /\ reads' = base

(* Mutant: the interval is a single timeout.                               *)
NextTickNever == MaxClock + 1

NextTick == clock + Period

Tick ==
  /\ ticker # None /\ ticker.next <= clock
  /\ Ticks(ticker.expires, ticker.skew, ticker.slug, ticker.of, reads, state)
  /\ ticker' = [ticker EXCEPT !.next = NextTick]
  /\ UNCHANGED <<server, route, shown, effects>>

--------------------------------------------------------------------------------
(* Answers reach the page. *)

(* Mutant: an answer that comes too late is taken.                         *)
HeedsAll(r) == TRUE

(* The page still listens to the call.                                     *)
Heeds(r) == ~r.cancelled

DeliverClip(r) ==
  /\ r.at = "stamped"
  /\ reads' = reads \ {r}
  /\ IF r.kind = "load" /\ Heeds(r)
       THEN LET skew == Skew(r.serverTime) IN
            IF Left(r.expires, skew) <= 0
              THEN state' = ExpiredAs(r.slug) /\ UNCHANGED remaining
              ELSE state' = Ready(r.slug, r.expires, skew) /\ remaining' = Left(r.expires, skew)
       ELSE UNCHANGED <<state, remaining>>
  /\ UNCHANGED <<server, route, shown, effects, ticker>>

(* Not found is shown as expired; the second read's failure, of whatever   *)
(* kind, changes nothing but expired to expired.                           *)
DeliverError(r) ==
  /\ r.at \in {"missing", "failed"}
  /\ reads' = reads \ {r}
  /\ state' = IF ~Heeds(r) THEN state
              ELSE IF r.kind = "again" \/ r.at = "missing" THEN ExpiredAs(r.slug)
              ELSE Failed(r.slug)
  /\ UNCHANGED <<server, route, remaining, shown, effects, ticker>>

--------------------------------------------------------------------------------
(* React and the router. *)

(* A jump in the history to another clip: the page stays mounted, and gets *)
(* one slug per render.                                                    *)
Navigate(s) ==
  /\ s # route /\ route = shown.slug /\ Cardinality(reads) < MaxReads
  /\ route' = s
  /\ UNCHANGED <<server, state, remaining, shown, effects, reads, ticker>>

(* What changed since the last render decides which effects run: the load  *)
(* depends on the slug, the tick on slug and state.                        *)
Render ==
  /\ RenderOwed /\ effects = {}
  /\ effects' = (IF route # shown.slug THEN {"load"} ELSE {}) \cup {"tick"}
  /\ shown' = [slug |-> route, state |-> state]
  /\ UNCHANGED <<server, route, state, remaining, reads, ticker>>

(* Mutant: the cleanup of the load forgets its flag.                       *)
CancelledNone(kinds) == reads

(* The reads after the cleanup of the effects that started them.           *)
Cancelled(kinds) ==
  {[r EXCEPT !.cancelled = @ \/ r.kind \in kinds] : r \in reads}

(* Mutant: the interval is not cleared.                                    *)
TickerKept == ticker

(* The interval after a cleanup that no effect replaces.                   *)
NoTicker == None

(* The cleanups of the effects that are owed, and the effects, in order.   *)
RunEffects ==
  LET loads == "load" \in effects
      kept  == Cancelled({"again"} \cup (IF loads THEN {"load"} ELSE {}))
      base  == IF loads THEN kept \cup {Asked("load", shown.slug)} ELSE kept
      was   == IF loads THEN Loading ELSE state
      page  == shown.state
  IN /\ effects # {}
     /\ effects' = {}
     /\ IF page.kind = "ready"
          THEN /\ Ticks(page.expires, page.skew, shown.slug, page.of, base, was)
               /\ ticker' = [expires |-> page.expires, skew |-> page.skew,
                             slug |-> shown.slug, of |-> page.of, next |-> NextTick]
          ELSE /\ state' = was /\ reads' = base
               /\ remaining' = IF loads THEN None ELSE remaining
               /\ ticker' = NoTicker
     /\ UNCHANGED <<server, route, shown>>
--------------------------------------------------------------------------------
Network == \E r \in reads :
  Query(r) \/ Stamp(r) \/ ReadFails(r) \/ DeliverClip(r) \/ DeliverError(r)

PageNext ==
  \/ \E s \in Slugs : Navigate(s) \/ \E life \in Lives[s] : Create(s, life)
  \/ Network \/ Advance \/ Tick \/ Render \/ RunEffects

PageSpec == PageInit /\ [][PageNext]_pageVars

(* The browser renders and keeps its intervals, every call returns in the  *)
(* end, as an answer or as an error, and time passes.                      *)
FairPage ==
  /\ PageSpec
  /\ WF_pageVars(Network) /\ WF_pageVars(Advance) /\ WF_pageVars(Tick)
  /\ WF_pageVars(Render) /\ WF_pageVars(RunEffects)

--------------------------------------------------------------------------------
(* Properties. *)

(* A settled page never shows the body, or the error, of another slug than *)
(* the one in its URL, in whatever order the answers to its reads come     *)
(* (the cancelled flag of the load effect).                                *)
ShowsItsOwn ==
  ~Busy /\ state.kind \in {"ready", "error"} => state.of = route

(* However wrong the browser's clock is, the body is gone within a delay   *)
(* and a period of its expiry (skewMs, tick).                              *)
HiddenInTime ==
  state.kind = "ready" => clock < state.expires + MaxDelay + Period

(* And it is not taken away before (skewMs, tick).                         *)
HiddenNotEarly ==
  [][state.kind = "ready" /\ state'.kind = "expired" => clock >= state.expires]_pageVars

(* No countdown gets stuck: every clip on show is taken away in the end    *)
(* (the tick effect is set up again for every new state).                  *)
CountdownEnds == state.kind = "ready" ~> state.kind # "ready"

(* A page that stays open under a slug does not load for ever, whatever     *)
(* reads of earlier slugs are still under way (the load effect).           *)
LoadEnds ==
  \A s \in Slugs :
    (route = s /\ state.kind = "loading") ~> (route # s \/ state.kind # "loading")

(* What the client's specification says of the expired state: a page that  *)
(* shows it does so on account of its own slug's countdown or load.        *)
ExpiredIsItsOwn ==
  ~Busy /\ state.kind = "expired" => state.of = route
================================================================================
