------------------------------- MODULE NameLease -------------------------------
(***************************************************************************)
(* What the clipboard promises about its flat pool of names, with no       *)
(* database, no sweeper and no request in sight: a name is either free or  *)
(* held under one lease; a lease is granted only on a free name, runs to   *)
(* the expiry fixed when it was granted, never longer than Ceiling, and    *)
(* nothing but the passing of time ends it.                                *)
(***************************************************************************)
EXTENDS Naturals

CONSTANTS Names,     \* the names of the pool
          Bodies,    \* what a lease may store under a name
          Ceiling,   \* the longest a lease may still have to run
          Free       \* the value of a name nobody holds

VARIABLES now,    \* the one clock leases are judged by
          held    \* for each name its lease [body, expires], or Free

leaseVars == <<now, held>>

Init == now = 0 /\ held = [n \in Names |-> Free]

(* A free name is granted to a caller until some instant after now.        *)
Grant(n) ==
  /\ held[n] = Free
  /\ \E b \in Bodies, e \in (now + 1)..(now + Ceiling) :
       held' = [held EXCEPT ![n] = [body |-> b, expires |-> e]]
  /\ UNCHANGED now

(* Time passes, and every lease that has run out lapses by itself.         *)
Pass ==
  /\ now' = now + 1
  /\ held' = [n \in Names |-> IF held[n] # Free /\ held[n].expires <= now + 1
                                THEN Free ELSE held[n]]

Next == Pass \/ \E n \in Names : Grant(n)

Spec == Init /\ [][Next]_leaseVars
================================================================================
