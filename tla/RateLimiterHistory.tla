--------------------------- MODULE RateLimiterHistory ---------------------------
(***************************************************************************)
(* RateLimiter with a history variable: for each key, the requests that    *)
(* were admitted since it was last inserted in the map, each with its time *)
(* and the window it was counted in.                                       *)
(***************************************************************************)
EXTENDS RateLimiter, Sequences

VARIABLE admits

historyVars == <<limiterVars, admits>>

Admissions == [at : Nat, window : Nat]

HistoryInit == LimiterInit /\ admits = [k \in Keys |-> <<>>]

(* What a step of the limiter adds.                                        *)
Recorded ==
  admits' = [k \in Keys |->
    IF keys'[k] = None THEN <<>>
    ELSE IF decision' # None /\ decision'.key = k /\ decision'.allowed
         THEN Append(admits[k], [at |-> clock, window |-> keys'[k].windowStart])
    ELSE admits[k]]

HistorySpec == HistoryInit /\ [][LimiterNext /\ Recorded]_historyVars

(* Nobody is refused on account of others: a refused key was itself        *)
(* admitted Rate times within the last window's length, whatever was       *)
(* evicted and inserted around it (Allow, makeRoom).                       *)
RefusalDeserved ==
  Refused =>
    LET a == admits[decision.key]
    IN /\ Len(a) >= Rate
       /\ \A i \in Len(a) - Rate + 1..Len(a) : clock - a[i].at < Window

(* A key that stays tracked never gets more than twice the rate through in *)
(* a window's length, however its requests straddle the windows: from any  *)
(* admission to the one 2 * Rate later, more than that length goes by      *)
(* (Allow).                                                                *)
AtMostTwiceTheRate ==
  \A k \in Keys : \A i \in 1..Len(admits[k]) - 2 * Rate :
    admits[k][i + 2 * Rate].at - admits[k][i].at > Window
================================================================================
