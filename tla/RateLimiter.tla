------------------------------ MODULE RateLimiter ------------------------------
(***************************************************************************)
(* The fixed-window limiter of internal/ratelimit and the middleware of    *)
(* internal/httpapi that answers for it.  Allow runs under one mutex and   *)
(* reads the clock inside it, so a call is one step; time passes between    *)
(* calls in ticks finer than a second.                                     *)
(***************************************************************************)
EXTENDS Integers, FiniteSets

CONSTANTS
  Keys,       \* the client keys ClientIP derives
  Rate,       \* requests per window; the configuration refuses less than 1
  Window,     \* length of a window in ticks
  MaxKeys,    \* hard cap on tracked keys; 0 or less: no cap
  Second,     \* ticks in a second
  MaxClock,   \* BOUND: the clock stops here
  None        \* a key that is not tracked, no decision

Entries   == [count : Nat, windowStart : Nat]
Decisions == [key : Keys, allowed : BOOLEAN, retryAfter : Nat]

ASSUME LimiterAssumption ==
  /\ Rate \in Nat \ {0} /\ Window \in Nat \ {0} /\ Second \in Nat \ {0}
  /\ MaxKeys \in Int /\ MaxClock \in Nat
  /\ None \notin Entries /\ None \notin Decisions

VARIABLES
  keys,       \* for each key its entry in the map, or None
  clock,
  decision    \* what the call that just returned decided, or None

limiterVars == <<keys, clock, decision>>

Tracked == {k \in Keys : keys[k] # None}

LimiterTypeOK ==
  /\ keys \in [Keys -> Entries \cup {None}]
  /\ clock \in Nat
  /\ decision \in Decisions \cup {None}
  /\ \A k \in Tracked : keys[k].count \in 1..Rate /\ keys[k].windowStart <= clock

LimiterInit ==
  /\ keys = [k \in Keys |-> None]
  /\ clock = 0
  /\ decision = None

--------------------------------------------------------------------------------
(* The window of an entry has run out.                                     *)
WindowOver(e) == clock - e.windowStart >= Window

(* Mutant: room is made only when the cap has been passed.                 *)
FullLate == MaxKeys > 0 /\ Cardinality(Tracked) > MaxKeys

Full == MaxKeys > 0 /\ Cardinality(Tracked) >= MaxKeys

(* Mutant: the youngest window is thrown out.                              *)
Youngest == {v \in Tracked : \A u \in Tracked : keys[v].windowStart >= keys[u].windowStart}

(* The keys makeRoom may evict: the map is walked in any order and the      *)
(* first of the oldest windows met goes.                                   *)
Oldest == {v \in Tracked : \A u \in Tracked : keys[v].windowStart <= keys[u].windowStart}

(* The map after a new key was given its room.                             *)
RoomMade == IF Full THEN {[keys EXCEPT ![v] = None] : v \in Oldest} ELSE {keys}

Decided(k, allowed, wait) ==
  decision' = [key |-> k, allowed |-> allowed, retryAfter |-> wait]

(* A key that is not tracked is given room and begins a window.            *)
AdmitNew(k) ==
  /\ keys[k] = None
  /\ \E room \in RoomMade :
       keys' = [room EXCEPT ![k] = [count |-> 1, windowStart |-> clock]]
  /\ Decided(k, TRUE, 0)
  /\ UNCHANGED clock

(* A tracked key whose window is over begins another one in its place.     *)
AdmitAgain(k) ==
  /\ keys[k] # None /\ WindowOver(keys[k])
  /\ keys' = [keys EXCEPT ![k] = [count |-> 1, windowStart |-> clock]]
  /\ Decided(k, TRUE, 0)
  /\ UNCHANGED clock

(* Mutant: the rate is passed by one before it refuses.                    *)
UsedUpLate(e) == e.count > Rate

(* Mutant: the last request of the rate is refused.                        *)
UsedUpEarly(e) == e.count >= Rate - 1

UsedUp(e) == e.count >= Rate

AdmitCounted(k) ==
  /\ keys[k] # None /\ ~WindowOver(keys[k]) /\ ~UsedUp(keys[k])
  /\ keys' = [keys EXCEPT ![k].count = @ + 1]
  /\ Decided(k, TRUE, 0)
  /\ UNCHANGED clock

(* Mutant: the wait is what has gone by of the window.                     *)
ElapsedWait(e) ==
  LET elapsed == clock - e.windowStart IN IF elapsed < Second THEN Second ELSE elapsed

(* The rest of the window, and never less than a second.                   *)
RetryAfter(e) ==
  LET remaining == Window - (clock - e.windowStart)
  IN IF remaining < Second THEN Second ELSE remaining

Refuse(k) ==
  /\ keys[k] # None /\ ~WindowOver(keys[k]) /\ UsedUp(keys[k])
  /\ Decided(k, FALSE, RetryAfter(keys[k]))
  /\ UNCHANGED <<keys, clock>>

(* The seconds the middleware puts into Retry-After: the wait, truncated.  *)
RetryAfterHeader(wait) == IF wait \div Second < 1 THEN 1 ELSE wait \div Second

--------------------------------------------------------------------------------
Tick ==
  /\ clock < MaxClock
  /\ clock' = clock + 1
  /\ decision' = None
  /\ UNCHANGED keys

(* The process restarts, and the limiter with it.                          *)
Restart ==
  /\ keys' = [k \in Keys |-> None]
  /\ decision' = None
  /\ UNCHANGED clock

Allow(k) == AdmitNew(k) \/ AdmitAgain(k) \/ AdmitCounted(k) \/ Refuse(k)

LimiterNext == (\E k \in Keys : Allow(k)) \/ Tick \/ Restart

LimiterSpec == LimiterInit /\ [][LimiterNext]_limiterVars

--------------------------------------------------------------------------------
(* However many clients there are, the limiter tracks at most MaxKeys of   *)
(* them (makeRoom runs before every insertion).                            *)
KeysBounded == MaxKeys > 0 => Cardinality(Tracked) <= MaxKeys

(* A client in an open window is forgotten only when every other tracked   *)
(* client is in one too: the cap never costs a limit while an entry that   *)
(* limits nobody could go instead (makeRoom's choice of the oldest).       *)
StaleEvictedFirst ==
  [][\A k \in Tracked \ Tracked' :
       ~WindowOver(keys[k]) => \/ Tracked' = {}
                               \/ \A u \in Tracked : ~WindowOver(keys[u])]_limiterVars

(* A window that began in the past is over after so many more ticks.       *)
OverAfter(e, ticks) == clock + ticks - e.windowStart >= Window

Refused == decision # None /\ ~decision.allowed

(* The wait that comes with a refusal reaches the end of the window: a     *)
(* caller who waits that long and sends nothing more meanwhile is admitted *)
(* (Decision.RetryAfter).  What the client is told, the header in whole    *)
(* seconds, is short of it by less than a second: the division truncates   *)
(* (RateLimit).                                                            *)
WaitSuffices ==
  Refused =>
    LET wait == decision.retryAfter
    IN /\ OverAfter(keys[decision.key], wait)
       /\ OverAfter(keys[decision.key], Second * (RetryAfterHeader(wait) + 1) - 1)
================================================================================
