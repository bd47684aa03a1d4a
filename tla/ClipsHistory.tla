------------------------------ MODULE ClipsHistory ------------------------------
(***************************************************************************)
(* Clips with two history variables: when each waiting client asked, and    *)
(* what it could have seen since under the name it asked for.  An answer is *)
(* honest when it fits something its client could have seen.               *)
(***************************************************************************)
EXTENDS Clips

VARIABLES
  asked,  \* for each client, the database's clock when its request arrived
  seen    \* the leases (None: free) that held its name since then

historyVars == <<vars, asked, seen>>

HistoryInit ==
  /\ Init
  /\ asked = [c \in Clients |-> 0]
  /\ seen = [c \in Clients |-> {}]

Waiting(c) == pc[c] \notin {"idle", "orphaned"}

(* What a name is worth now; and a lease that ran out between the request   *)
(* and a create which stored it late: it was worth something in between.   *)
SeenBy(c) ==
  {Held(name[c])} \cup {r \in {rows[name[c]]} : Live(r, asked[c])}

HistoryNext ==
  /\ Next
  /\ asked' = [c \in Clients |->
       IF ~Waiting(c)' THEN 0 ELSE IF Waiting(c) THEN asked[c] ELSE dbClock]
  /\ seen' = [c \in Clients |-> IF Waiting(c)' THEN seen[c] \cup SeenBy(c)' ELSE {}]

HistorySpec == HistoryInit /\ [][HistoryNext]_historyVars

(* With the fairness of FairSpec.                                          *)
FairHistorySpec ==
  /\ HistorySpec
  /\ \A s \in Sweepers : WF_vars(SweepBegins(s)) /\ SF_vars(SweepEnds(s))

Answered(c, status) == pc[c] = "answering" /\ answer[c].status = status

(* The clip an answer carries is stored under its name while it lives: what *)
(* two clients are told of one live name is the same clip.                 *)
StillThere(c) == Live(answer[c].clip, dbClock) => rows[name[c]] = answer[c].clip

(* A client that is told its clip was created, and whose clip lives.       *)
Owns(c) == Answered(c, "created") /\ Live(answer[c].clip, dbClock)

(* A create is refused as in use only if somebody held the name while it   *)
(* waited: an expired row nobody has swept refuses nobody.  It succeeds     *)
(* only if the name was free and then became its own, unless its lease had  *)
(* run out before its statement took effect; and nothing done since, by     *)
(* anybody, has taken the name from it.  No two that are told so own one    *)
(* name (Service.Create).                                                  *)
ClaimHonest ==
  /\ \A c \in Clients :
       /\ Answered(c, "in_use") => seen[c] \ {None} # {}
       /\ Answered(c, "created") =>
            /\ None \in seen[c]
            /\ answer[c].clip \in seen[c] \/ answer[c].clip.expires <= dbClock
            /\ StillThere(c)
  /\ \A c, d \in Clients : c # d /\ Owns(c) /\ Owns(d) => name[c] # name[d]

(* What a look at a name reports was true at some instant while the client *)
(* waited: a read serves a clip that was live, never a dead one, swept or   *)
(* not, and misses none that was live all the while (Service.Read); the     *)
(* availability hint agrees with the table, and a name that can never be   *)
(* claimed is never called available (Service.Availability).               *)
LooksHonest ==
  \A c \in Clients :
    /\ Answered(c, "found") => answer[c].clip \in seen[c] /\ StillThere(c)
    /\ Answered(c, "not_found") => None \in seen[c]
    /\ Answered(c, "available") => None \in seen[c] /\ name[c] \in Claimable
    /\ Answered(c, "unavailable") => seen[c] \ {None} # {}
================================================================================
