------------------------------ MODULE ClipsProofs ------------------------------
(***************************************************************************)
(* What TLC checks of Clips on small instances, for any names, bodies,     *)
(* clients, sweepers, presets and skew: types, that live clips are never   *)
(* touched, and that the service implements the pool of NameLease.         *)
(***************************************************************************)
EXTENDS ClipsHistory, TLAPS

(* No statement runs on a clock that is ahead of the database's: this is    *)
(* what makes a row that is expired to a statement expired to everybody.   *)
StatementsInPast ==
  /\ \A c \in Clients : txNow[c] <= dbClock
  /\ \A s \in Sweepers : sweep[s] # None => sweep[s].now <= dbClock

(* However long a create waits, its lease only gets shorter.               *)
LeasesBounded ==
  /\ appClock <= dbClock + MaxSkew
  /\ \A c \in Clients :
       pc[c] \in Creating => lease[c].expires <= dbClock + AnonCeiling + MaxSkew

IInv == TypeOK /\ StatementsInPast /\ LeasesBounded

--------------------------------------------------------------------------------
(* The initial state satisfies the invariant.                              *)
LEMMA InitIInv == Init => IInv
BY ClipsAssumption
   DEF Init, IInv, TypeOK, StatementsInPast, LeasesBounded, Answers, NoAnswer,
       Statuses, Creating

(* Settling and leaving keep the types of the request variables.           *)
LEMMA SettleType ==
  ASSUME TypeOK, NEW c \in Clients, NEW status \in Statuses,
         NEW clip \in Leases \cup {None}, Settle(c, status, clip), pc[c] # "idle"
  PROVE  /\ pc' \in [Clients -> {"idle", "reading", "checking", "answering"} \cup Creating]
         /\ name' = name
         /\ lease' \in [Clients -> Leases \cup {None}]
         /\ txNow' \in [Clients -> Nat]
         /\ answer' \in [Clients -> Answers]
         /\ \A d \in Clients : pc'[d] # "idle" => name'[d] \in Names
         /\ \A d \in Clients : pc'[d] \in Creating => pc[d] \in Creating /\ lease'[d] = lease[d] /\ name'[d] = name[d]
         /\ \A d \in Clients : txNow'[d] = txNow[d] \/ txNow'[d] = 0
BY DEF TypeOK, Settle, Answers, Creating

LEMMA LeaveType ==
  ASSUME TypeOK, NEW c \in Clients, Leave(c)
  PROVE  /\ pc' \in [Clients -> {"idle", "reading", "checking", "answering"} \cup Creating]
         /\ name' \in [Clients -> Names \cup {None}]
         /\ lease' \in [Clients -> Leases \cup {None}]
         /\ txNow' \in [Clients -> Nat]
         /\ answer' \in [Clients -> Answers]
         /\ \A d \in Clients : pc'[d] # "idle" => name'[d] \in Names
         /\ \A d \in Clients : pc'[d] \in Creating => pc[d] \in Creating /\ lease'[d] = lease[d] /\ name'[d] = name[d]
         /\ \A d \in Clients : txNow'[d] = txNow[d] \/ txNow'[d] = 0
BY DEF TypeOK, Leave, Answers, NoAnswer, Statuses, Creating

(* What a claim does to the table: it writes its own row under its own     *)
(* name, and only over a row that is expired by the database's clock.      *)
LEMMA ClaimEffect ==
  ASSUME IInv, NEW c \in Clients, pc[c] \in {"claiming", "orphaned"},
         rows' \in {rows, Claimed(c)}
  PROVE  /\ rows' \in [Names -> Leases \cup {None}]
         /\ \A n \in Names : rows'[n] # None => n \in Claimable
         /\ \A n \in Names : \/ rows'[n] = rows[n]
                             \/ /\ ~Live(rows[n], dbClock)
                                /\ rows' = [rows EXCEPT ![n] = lease[c]]
                                /\ n = name[c]
<1>1. /\ name[c] \in Names /\ lease[c] \in Leases /\ name[c] \in Claimable
      /\ rows \in [Names -> Leases \cup {None}]
      /\ \A n \in Names : rows[n] # None => n \in Claimable
  BY DEF IInv, TypeOK, Creating
<1>2. CASE rows' = rows
  BY <1>1, <1>2
<1>3. CASE ClaimWins(c) /\ rows' = [rows EXCEPT ![name[c]] = lease[c]]
  <2>1. ~Live(rows[name[c]], dbClock)
    BY <1>1, <1>3 DEF ClaimWins, Live, Leases, IInv, StatementsInPast, TypeOK
  <2>2. QED
    BY <1>1, <1>3, <2>1
<1>4. QED
  BY <1>2, <1>3 DEF Claimed

(* A sweep removes only rows that are expired by the database's clock.     *)
LEMMA SweepEffect ==
  ASSUME IInv, NEW s \in Sweepers, SweepEnds(s)
  PROVE  /\ rows' \in [Names -> Leases \cup {None}]
         /\ \A n \in Names : rows'[n] # None => n \in Claimable
         /\ \A n \in Names : \/ rows'[n] = rows[n]
                             \/ ~Live(rows[n], dbClock) /\ rows'[n] = None
<1>1. /\ rows \in [Names -> Leases \cup {None}] /\ dbClock \in Nat
      /\ \A n \in Names : rows[n] # None => n \in Claimable
      /\ rows' = [n \in Names |-> IF n \in Swept(s) THEN None ELSE rows[n]]
      /\ sweep[s] \in [now : Nat, due : SUBSET Names] /\ sweep[s].now <= dbClock
  BY DEF IInv, TypeOK, SweepEnds, StatementsInPast
<1>2. ASSUME NEW n \in Names, n \in Swept(s)
      PROVE  ~Live(rows[n], dbClock)
  BY <1>1, <1>2 DEF Swept, Expired, Live, Leases
<1>3. QED
  BY <1>1, <1>2

--------------------------------------------------------------------------------
(* A request that arrives keeps the invariant: a create's lease is bounded *)
(* by its preset, a statement that begins reads the current clock.         *)
LEMMA StartsKeep ==
  ASSUME IInv, NEW c \in Clients, NEW n \in Names,
         \/ \E b \in Bodies, t \in TtlInputs :
              CreateRefused(c, n, b, t) \/ CreateStamped(c, n, b, t)
         \/ ReadBegins(c, n) \/ CheckRefused(c, n) \/ CheckBegins(c, n)
  PROVE  IInv'
<1> USE DEF IInv, TypeOK, Creating
<1>1. ASSUME NEW b \in Bodies, NEW t \in TtlInputs, CreateRefused(c, n, b, t)
      PROVE  IInv'
  BY <1>1 DEF CreateRefused, clocks, StatementsInPast, LeasesBounded, Answers, Statuses, SlugCode
<1>2. ASSUME NEW b \in Bodies, NEW t \in TtlInputs, CreateStamped(c, n, b, t)
      PROVE  IInv'
  <2>1. ResolveTTL(t) \in 1..AnonCeiling
    BY <1>2, ClipsAssumption DEF CreateStamped, TtlRefused, ResolveTTL
  <2>2. [body |-> b, expires |-> appClock + ResolveTTL(t)] \in Leases
    BY <2>1 DEF Leases
  <2>3. appClock + ResolveTTL(t) <= dbClock + AnonCeiling + MaxSkew
    BY <2>1, ClipsAssumption DEF LeasesBounded
  <2>4. n \in Claimable
    BY <1>2 DEF CreateStamped, SlugRefused
  <2>5. TypeOK'
    BY <1>2, <2>2, <2>4 DEF CreateStamped, clocks
  <2>6. LeasesBounded'
    BY <1>2, <2>3 DEF CreateStamped, clocks, LeasesBounded
  <2>7. QED
    BY <1>2, <2>5, <2>6 DEF CreateStamped, clocks, StatementsInPast
<1>3. CASE ReadBegins(c, n)
  BY <1>3 DEF ReadBegins, clocks, StatementsInPast, LeasesBounded
<1>4. CASE CheckRefused(c, n)
  BY <1>4 DEF CheckRefused, clocks, StatementsInPast, LeasesBounded, Answers, Statuses, SlugCode
<1>5. CASE CheckBegins(c, n)
  BY <1>5 DEF CheckBegins, clocks, StatementsInPast, LeasesBounded
<1>6. QED
  BY <1>1, <1>2, <1>3, <1>4, <1>5

(* A statement begins; a request settles, is answered or is abandoned.     *)
LEMMA RequestKeeps ==
  ASSUME IInv, NEW c \in Clients,
         \/ ClaimBegins(c) \/ ClaimEnds(c) \/ ClaimFails(c) \/ OrphanEnds(c)
         \/ ReadEnds(c) \/ CheckEnds(c) \/ QueryFails(c)
         \/ Respond(c) \/ ClientGone(c)
  PROVE  IInv'
<1>1. ASSUME NEW status \in Statuses, NEW clip \in Leases \cup {None},
             Settle(c, status, clip), pc[c] # "idle",
             rows' \in [Names -> Leases \cup {None}],
             \A n \in Names : rows'[n] # None => n \in Claimable,
             UNCHANGED <<clocks, sweep>>
      PROVE  IInv'
  BY <1>1, SettleType DEF IInv, TypeOK, StatementsInPast, LeasesBounded, clocks
<1>2. ASSUME Leave(c),
             rows' \in [Names -> Leases \cup {None}],
             \A n \in Names : rows'[n] # None => n \in Claimable,
             UNCHANGED <<clocks, sweep>>
      PROVE  IInv'
  BY <1>2, LeaveType DEF IInv, TypeOK, StatementsInPast, LeasesBounded, clocks
<1>3. /\ rows \in [Names -> Leases \cup {None}]
      /\ \A n \in Names : rows[n] # None => n \in Claimable
      /\ None \in Leases \cup {None}
  BY DEF IInv, TypeOK
<1>4. CASE ClaimBegins(c)
  BY <1>4 DEF ClaimBegins, IInv, TypeOK, StatementsInPast, LeasesBounded, clocks, Creating
<1>5. CASE ClaimEnds(c)
  <2>1. lease[c] \in Leases /\ pc[c] \in {"claiming", "orphaned"} /\ pc[c] # "idle"
    BY <1>5 DEF ClaimEnds, IInv, TypeOK, Creating
  <2>2. /\ rows' \in [Names -> Leases \cup {None}]
        /\ \A n \in Names : rows'[n] # None => n \in Claimable
    BY <1>5, <2>1, ClaimEffect DEF ClaimEnds
  <2>3. CASE Settle(c, "created", lease[c])
    BY <1>1, <1>5, <2>1, <2>2, <2>3 DEF ClaimEnds, Statuses
  <2>4. CASE Settle(c, "in_use", None)
    BY <1>1, <1>5, <2>1, <2>2, <2>4 DEF ClaimEnds, Statuses
  <2>5. QED
    BY <1>5, <2>3, <2>4 DEF ClaimEnds
<1>6. CASE ClaimFails(c)
  <2>1. pc[c] \in {"claiming", "orphaned"} /\ pc[c] # "idle"
    BY <1>6 DEF ClaimFails
  <2>2. /\ rows' \in [Names -> Leases \cup {None}]
        /\ \A n \in Names : rows'[n] # None => n \in Claimable
    BY <1>6, <2>1, ClaimEffect DEF ClaimFails
  <2>3. QED
    BY <1>1, <1>6, <2>1, <2>2 DEF ClaimFails, Statuses
<1>7. CASE OrphanEnds(c)
  <2>1. pc[c] \in {"claiming", "orphaned"}
    BY <1>7 DEF OrphanEnds
  <2>2. /\ rows' \in [Names -> Leases \cup {None}]
        /\ \A n \in Names : rows'[n] # None => n \in Claimable
    BY <1>7, <2>1, ClaimEffect DEF OrphanEnds
  <2>3. QED
    BY <1>2, <1>7, <2>2 DEF OrphanEnds
<1>8. CASE ReadEnds(c)
  <2>1. name[c] \in Names /\ rows[name[c]] \in Leases \cup {None} /\ pc[c] # "idle"
    BY <1>8 DEF ReadEnds, IInv, TypeOK
  <2>2. CASE Settle(c, "found", rows[name[c]])
    BY <1>1, <1>3, <1>8, <2>1, <2>2 DEF ReadEnds, Statuses
  <2>3. CASE Settle(c, "not_found", None)
    BY <1>1, <1>3, <1>8, <2>1, <2>3 DEF ReadEnds, Statuses
  <2>4. QED
    BY <1>8, <2>2, <2>3 DEF ReadEnds
<1>9. CASE CheckEnds(c)
  <2>1. pc[c] # "idle" /\ "available" \in Statuses /\ "unavailable" \in Statuses
    BY <1>9 DEF CheckEnds, Statuses
  <2>2. Settle(c, "unavailable", None) \/ Settle(c, "available", None)
    BY <1>9 DEF CheckEnds
  <2>3. QED
    BY <1>1, <1>3, <1>9, <2>1, <2>2 DEF CheckEnds
<1>10. CASE QueryFails(c)
  <2>1. pc[c] # "idle" /\ "internal_error" \in Statuses
    BY <1>10 DEF QueryFails, Statuses
  <2>2. QED
    BY <1>1, <1>3, <1>10, <2>1 DEF QueryFails
<1>11. CASE Respond(c)
  BY <1>2, <1>3, <1>11 DEF Respond
<1>12. CASE ClientGone(c)
  <2>1. CASE pc[c] = "claiming"
    BY <1>12, <2>1 DEF ClientGone, IInv, TypeOK, StatementsInPast, LeasesBounded, clocks,
                       Creating
  <2>2. CASE pc[c] # "claiming"
    BY <1>2, <1>3, <1>12, <2>2 DEF ClientGone
  <2>3. QED
    BY <2>1, <2>2
<1>13. QED
  BY <1>4, <1>5, <1>6, <1>7, <1>8, <1>9, <1>10, <1>11, <1>12

(* The steps of the server, the sweepers and the clocks.                   *)
LEMMA OtherStepsKeep ==
  ASSUME IInv,
         \/ Crash \/ TickDb \/ TickApp
         \/ \E s \in Sweepers : Sweep(s)
  PROVE  IInv'
<1>1. CASE Crash
  BY <1>1 DEF Crash, IInv, TypeOK, StatementsInPast, LeasesBounded, clocks, Creating,
              Answers, NoAnswer, Statuses
<1>2. CASE TickDb
  BY <1>2, ClipsAssumption
     DEF TickDb, IInv, TypeOK, StatementsInPast, LeasesBounded, reqVars, Leases
<1>3. CASE TickApp
  BY <1>3, ClipsAssumption
     DEF TickApp, Skewed, IInv, TypeOK, StatementsInPast, LeasesBounded, reqVars
<1>4. ASSUME NEW s \in Sweepers, SweepBegins(s)
      PROVE  IInv'
  <2>1. [now |-> dbClock, due |-> {n \in Names : Expired(rows[n], dbClock)}]
          \in [now : Nat, due : SUBSET Names]
    BY DEF IInv, TypeOK
  <2>2. QED
    BY <1>4, <2>1
       DEF SweepBegins, IInv, TypeOK, StatementsInPast, LeasesBounded, reqVars, clocks
<1>5. ASSUME NEW s \in Sweepers, SweepEnds(s)
      PROVE  IInv'
  BY <1>5, SweepEffect
     DEF SweepEnds, IInv, TypeOK, StatementsInPast, LeasesBounded, reqVars, clocks
<1>6. ASSUME NEW s \in Sweepers, SweepFails(s)
      PROVE  IInv'
  BY <1>6 DEF SweepFails, IInv, TypeOK, StatementsInPast, LeasesBounded,
              reqVars, clocks
<1>7. QED
  BY <1>1, <1>2, <1>3, <1>4, <1>5, <1>6 DEF Sweep

LEMMA StepIInv == IInv /\ [Next]_vars => IInv'
<1> SUFFICES ASSUME IInv, [Next]_vars
             PROVE  IInv'
  OBVIOUS
<1>1. ASSUME NEW c \in Clients, Request(c)
      PROVE  IInv'
  BY <1>1, StartsKeep, RequestKeeps DEF Request
<1>2. CASE UNCHANGED vars
  BY <1>2 DEF vars, IInv, TypeOK, StatementsInPast, LeasesBounded
<1>3. QED
  BY <1>1, <1>2, OtherStepsKeep DEF Next

(* The inductive invariant holds in every reachable state.                 *)
THEOREM Invariance == Spec => []IInv
BY InitIInv, StepIInv, PTL DEF Spec

(* Every variable keeps its type, every stored clip has a claimable name.  *)
THEOREM TypeCorrect == Spec => []TypeOK
<1>1. IInv => TypeOK
  BY DEF IInv
<1>2. QED
  BY <1>1, Invariance, PTL

--------------------------------------------------------------------------------
(* Only a claim and a sweep write the table, and neither writes a row that *)
(* is live.                                                                *)
LEMMA RowsStep ==
  ASSUME IInv, [Next]_vars
  PROVE  \/ rows' = rows
         \/ /\ dbClock' = dbClock
            /\ \E n \in Names, l \in Leases :
                 /\ ~Live(rows[n], dbClock)
                 /\ rows' = [rows EXCEPT ![n] = l]
                 /\ l.expires <= dbClock + AnonCeiling + MaxSkew
         \/ /\ dbClock' = dbClock
            /\ rows' \in [Names -> Leases \cup {None}]
            /\ \A n \in Names : \/ rows'[n] = rows[n]
                                \/ ~Live(rows[n], dbClock) /\ rows'[n] = None
<1> DEFINE Writes == \E n \in Names, l \in Leases :
                       /\ ~Live(rows[n], dbClock)
                       /\ rows' = [rows EXCEPT ![n] = l]
                       /\ l.expires <= dbClock + AnonCeiling + MaxSkew
<1>1. ASSUME NEW c \in Clients, pc[c] \in {"claiming", "orphaned"},
             rows' \in {rows, Claimed(c)}
      PROVE  rows' = rows \/ Writes
  <2>1. /\ lease[c] \in Leases /\ name[c] \in Names
        /\ lease[c].expires <= dbClock + AnonCeiling + MaxSkew
    BY <1>1 DEF IInv, TypeOK, LeasesBounded, Creating
  <2>2. \/ rows'[name[c]] = rows[name[c]]
        \/ /\ ~Live(rows[name[c]], dbClock)
           /\ rows' = [rows EXCEPT ![name[c]] = lease[c]]
    BY <1>1, <2>1, ClaimEffect
  <2>3. rows' = rows \/ rows' = [rows EXCEPT ![name[c]] = lease[c]]
    BY <1>1 DEF Claimed
  <2>4. CASE rows'[name[c]] = rows[name[c]]
    BY <2>1, <2>3, <2>4 DEF IInv, TypeOK
  <2>5. QED
    BY <2>1, <2>2, <2>4
<1>2. ASSUME NEW c \in Clients, Request(c)
      PROVE  rows' = rows \/ (dbClock' = dbClock /\ Writes)
  <2>1. CASE ClaimEnds(c) \/ ClaimFails(c) \/ OrphanEnds(c)
    BY <1>1, <2>1 DEF ClaimEnds, ClaimFails, OrphanEnds, clocks
  <2>2. CASE ~(ClaimEnds(c) \/ ClaimFails(c) \/ OrphanEnds(c))
    BY <1>2, <2>2 DEF Request, CreateRefused, CreateStamped, ClaimBegins, ReadBegins,
                      CheckRefused, CheckBegins, ReadEnds, CheckEnds, QueryFails, Respond,
                      ClientGone
  <2>3. QED
    BY <2>1, <2>2
<1>3. ASSUME NEW s \in Sweepers, Sweep(s)
      PROVE  \/ rows' = rows
             \/ /\ dbClock' = dbClock
                /\ rows' \in [Names -> Leases \cup {None}]
                /\ \A n \in Names : \/ rows'[n] = rows[n]
                                    \/ ~Live(rows[n], dbClock) /\ rows'[n] = None
  BY <1>3, SweepEffect DEF Sweep, SweepBegins, SweepEnds, SweepFails, clocks
<1>4. CASE Crash \/ TickDb \/ TickApp \/ UNCHANGED vars
  BY <1>4 DEF Crash, TickDb, TickApp, vars
<1>5. QED
  BY <1>2, <1>3, <1>4 DEF Next

(* No step touches a live clip.                                            *)
LEMMA LiveStays ==
  ASSUME IInv, [Next]_vars, NEW n \in Names, Live(rows[n], dbClock)
  PROVE  rows'[n] = rows[n]
<1>1. rows \in [Names -> Leases \cup {None}]
  BY DEF IInv, TypeOK
<1>2. QED
  BY <1>1, RowsStep

(* The action property of the runs.                                        *)
THEOREM LiveClipsSafe == Spec => LiveClipUntouched
<1>1. IInv /\ [Next]_vars =>
        [\A n \in Names : Live(rows[n], dbClock) => rows'[n] = rows[n]]_vars
  BY LiveStays
<1>2. QED
  BY <1>1, Invariance, PTL DEF Spec, LiveClipUntouched

--------------------------------------------------------------------------------
(* The clock moves only without the table: every lease that runs out       *)
(* lapses, nothing else changes.                                           *)
LEMMA TickIsPass ==
  ASSUME IInv, TickDb
  PROVE  Pool!Pass
<1>1. /\ rows' = rows /\ dbClock' = dbClock + 1 /\ dbClock \in Nat
      /\ rows \in [Names -> Leases \cup {None}]
  BY DEF TickDb, IInv, TypeOK
<1>2. ASSUME NEW n \in Names
      PROVE  Held(n)' = IF Held(n) # None /\ Held(n).expires <= dbClock + 1
                          THEN None ELSE Held(n)
  BY <1>1, ClipsAssumption DEF Held, Live, Leases
<1>3. QED
  BY <1>1, <1>2 DEF Pool!Pass

(* A claim that wins grants a free name; one that stores a lease already   *)
(* run out grants nothing.                                                 *)
LEMMA WriteIsGrant ==
  ASSUME IInv, NEW n \in Names, NEW l \in Leases,
         dbClock' = dbClock, ~Live(rows[n], dbClock), rows' = [rows EXCEPT ![n] = l],
         l.expires <= dbClock + AnonCeiling + MaxSkew
  PROVE  Pool!Grant(n) \/ UNCHANGED Pool!leaseVars
<1>1. rows \in [Names -> Leases \cup {None}] /\ dbClock \in Nat
  BY DEF IInv, TypeOK
<1>2. Held(n) = None /\ \A m \in Names \ {n} : Held(m)' = Held(m)
  BY <1>1 DEF Held, Live
<1>3. CASE l.expires > dbClock
  <2>1. Held(n)' = l
    BY <1>1, <1>3, ClipsAssumption DEF Held, Live
  <2>2. /\ l.body \in Bodies
        /\ l.expires \in (dbClock + 1)..(dbClock + (AnonCeiling + MaxSkew))
        /\ l = [body |-> l.body, expires |-> l.expires]
    BY <1>1, <1>3, ClipsAssumption DEF Leases
  <2>3. [m \in Names |-> Held(m)]' = [[m \in Names |-> Held(m)] EXCEPT ![n] = l]
    BY <1>2, <2>1
  <2>4. Pool!Grant(n)
    BY <1>2, <2>2, <2>3 DEF Pool!Grant
  <2>5. QED
    BY <2>4
<1>4. CASE ~(l.expires > dbClock)
  <2>1. Held(n)' = None
    BY <1>1, <1>4 DEF Held, Live
  <2>2. QED
    BY <1>2, <2>1 DEF Pool!leaseVars
<1>5. QED
  BY <1>3, <1>4

(* The detailed service implements the pool of names.                      *)
THEOREM ImplementsPool == Spec => PoolOfNames
<1>1. Init => Pool!Init
  BY DEF Init, Pool!Init, Held, Live
<1>2. IInv /\ [Next]_vars => [Pool!Next]_(Pool!leaseVars)
  <2> SUFFICES ASSUME IInv, [Next]_vars
               PROVE  [Pool!Next]_(Pool!leaseVars)
    OBVIOUS
  <2>1. CASE TickDb
    BY <2>1, TickIsPass DEF Pool!Next
  <2>2. CASE rows' = rows /\ dbClock' = dbClock
    BY <2>2 DEF Pool!leaseVars, Held, Live
  <2>3. ASSUME NEW n \in Names, NEW l \in Leases, dbClock' = dbClock,
               ~Live(rows[n], dbClock), rows' = [rows EXCEPT ![n] = l],
               l.expires <= dbClock + AnonCeiling + MaxSkew
        PROVE  [Pool!Next]_(Pool!leaseVars)
    BY <2>3, WriteIsGrant DEF Pool!Next
  <2>4. TickDb \/ dbClock' = dbClock
    BY DEF Next, vars, clocks, Request, CreateRefused, CreateStamped, ClaimBegins, ClaimEnds,
           ClaimFails, OrphanEnds, ReadBegins, CheckRefused, CheckBegins, ReadEnds, CheckEnds,
           QueryFails, Respond, ClientGone, Sweep, SweepBegins, SweepEnds, SweepFails, Crash,
           TickApp
  <2>5. CASE /\ dbClock' = dbClock
             /\ \E n \in Names, l \in Leases :
                  /\ ~Live(rows[n], dbClock)
                  /\ rows' = [rows EXCEPT ![n] = l]
                  /\ l.expires <= dbClock + AnonCeiling + MaxSkew
    BY <2>3, <2>5
  <2>6. CASE /\ dbClock' = dbClock
             /\ rows' \in [Names -> Leases \cup {None}]
             /\ \A n \in Names : \/ rows'[n] = rows[n]
                                 \/ ~Live(rows[n], dbClock) /\ rows'[n] = None
    BY <2>6 DEF Pool!leaseVars, Held, Live
  <2>7. CASE rows' = rows
    BY <2>1, <2>2, <2>4, <2>7
  <2>8. QED
    BY <2>5, <2>6, <2>7, RowsStep
<1>3. QED
  BY <1>1, <1>2, Invariance, PTL DEF Spec, PoolOfNames, Pool!Spec

--------------------------------------------------------------------------------
(* What a step can do to a client's request: nothing, end it or begin it,   *)
(* begin its statement, answer it with what reports nothing of the table,   *)
(* or end its statement.                                                   *)
Idles(c) ==
  /\ pc'[c] = pc[c] /\ name'[c] = name[c] /\ txNow'[c] = txNow[c] /\ answer'[c] = answer[c]
  /\ dbClock <= dbClock'

Arrives(c) ==
  /\ ~Waiting(c) /\ dbClock' = dbClock
  /\ \/ pc'[c] = "stamped"
     \/ pc'[c] \in {"reading", "checking"} /\ txNow'[c] = dbClock
  /\ pc'[c] = "checking" => name'[c] \in Claimable

Claims(c) ==
  /\ pc[c] = "stamped" /\ pc'[c] = "claiming" /\ txNow'[c] = dbClock /\ dbClock' = dbClock

Reported == {"created", "in_use", "found", "not_found", "available", "unavailable"}

Refuses(c) == pc'[c] = "answering" /\ answer'[c].status \notin Reported /\ dbClock' = dbClock

(* A step of one client is none of another's.                              *)
LEMMA OthersIdle ==
  ASSUME IInv, NEW c \in Clients, NEW d \in Clients \ {c}, Request(d)
  PROVE  Idles(c)
<1>1. /\ pc = [e \in Clients |-> pc[e]] /\ name = [e \in Clients |-> name[e]]
      /\ txNow = [e \in Clients |-> txNow[e]] /\ answer = [e \in Clients |-> answer[e]]
      /\ dbClock \in Nat
  BY DEF IInv, TypeOK
<1>2. CASE \E n \in Names, b \in Bodies, t \in TtlInputs :
             CreateRefused(d, n, b, t) \/ CreateStamped(d, n, b, t)
  BY <1>1, <1>2 DEF CreateRefused, CreateStamped, Idles, clocks
<1>3. CASE \E n \in Names : ReadBegins(d, n) \/ CheckRefused(d, n) \/ CheckBegins(d, n)
  BY <1>1, <1>3 DEF ReadBegins, CheckRefused, CheckBegins, Idles, clocks
<1>4. CASE \/ ClaimBegins(d) \/ ClaimEnds(d) \/ ClaimFails(d) \/ OrphanEnds(d)
           \/ ReadEnds(d) \/ CheckEnds(d) \/ QueryFails(d)
  BY <1>1, <1>4 DEF ClaimBegins, ClaimEnds, ClaimFails, OrphanEnds, ReadEnds, CheckEnds,
                    QueryFails, Settle, Leave, Idles, clocks
<1>5. CASE Respond(d) \/ ClientGone(d)
  BY <1>1, <1>5 DEF Respond, ClientGone, Leave, Idles, clocks
<1>6. QED
  BY <1>2, <1>3, <1>4, <1>5 DEF Request

LEMMA OwnStep ==
  ASSUME IInv, NEW c \in Clients, Request(c), Waiting(c)'
  PROVE  Arrives(c) \/ Claims(c) \/ Refuses(c) \/ ClaimEnds(c) \/ ReadEnds(c) \/ CheckEnds(c)
<1>1. /\ pc = [e \in Clients |-> pc[e]] /\ name = [e \in Clients |-> name[e]]
      /\ txNow = [e \in Clients |-> txNow[e]] /\ answer = [e \in Clients |-> answer[e]]
  BY DEF IInv, TypeOK
<1>2. ASSUME NEW n \in Names, NEW b \in Bodies, NEW t \in TtlInputs, CreateRefused(c, n, b, t)
      PROVE  Refuses(c)
  BY <1>1, <1>2 DEF CreateRefused, Refuses, Reported, SlugCode, clocks
<1>3. ASSUME NEW n \in Names, NEW b \in Bodies, NEW t \in TtlInputs, CreateStamped(c, n, b, t)
      PROVE  Arrives(c)
  BY <1>1, <1>3 DEF CreateStamped, Arrives, Waiting, clocks
<1>4. ASSUME NEW n \in Names, ReadBegins(c, n) \/ CheckBegins(c, n)
      PROVE  Arrives(c)
  BY <1>1, <1>4 DEF ReadBegins, CheckBegins, SlugRefused, Arrives, Waiting, clocks
<1>5. ASSUME NEW n \in Names, CheckRefused(c, n)
      PROVE  Refuses(c)
  BY <1>1, <1>5 DEF CheckRefused, Refuses, Reported, SlugCode, clocks
<1>6. CASE ClaimBegins(c)
  BY <1>1, <1>6 DEF ClaimBegins, Claims, clocks
<1>7. CASE ClaimFails(c) \/ QueryFails(c)
  BY <1>1, <1>7 DEF ClaimFails, QueryFails, Settle, Refuses, Reported, clocks
<1>8. CASE OrphanEnds(c) \/ Respond(c) \/ ClientGone(c)
  BY <1>1, <1>8 DEF OrphanEnds, Respond, ClientGone, Leave, Waiting
<1>9. QED
  BY <1>2, <1>3, <1>4, <1>5, <1>6, <1>7, <1>8 DEF Request

LEMMA ClientStep ==
  ASSUME IInv, [Next]_vars, NEW c \in Clients, Waiting(c)'
  PROVE  \/ Idles(c) \/ Arrives(c) \/ Claims(c) \/ Refuses(c)
         \/ ClaimEnds(c) \/ ReadEnds(c) \/ CheckEnds(c)
<1>1. dbClock \in Nat
  BY DEF IInv, TypeOK
<1>2. CASE \E d \in Clients : Request(d)
  BY <1>2, OthersIdle, OwnStep
<1>3. CASE \E s \in Sweepers : Sweep(s)
  BY <1>1, <1>3 DEF Sweep, SweepBegins, SweepEnds, SweepFails, reqVars, clocks, Idles
<1>4. CASE Crash
  BY <1>4 DEF Crash, Waiting
<1>5. CASE TickDb \/ TickApp \/ UNCHANGED vars
  BY <1>1, <1>5 DEF TickDb, TickApp, vars, reqVars, Idles
<1>6. QED
  BY <1>2, <1>3, <1>4, <1>5 DEF Next
--------------------------------------------------------------------------------
(* A waiting client has seen what its name is worth now, and its statement *)
(* runs on a clock no older than its request.                              *)
Attentive(c) ==
  Waiting(c) =>
    /\ asked[c] \in Nat /\ asked[c] <= dbClock
    /\ pc[c] \in {"claiming", "reading", "checking"} => asked[c] <= txNow[c]
    /\ SeenBy(c) \subseteq seen[c]
    /\ pc[c] = "checking" => name[c] \in Claimable

(* ClaimHonest and LooksHonest, of one client; what was created is a lease. *)
Honest(c) ==
  /\ Answered(c, "in_use") => seen[c] \ {None} # {}
  /\ Answered(c, "created") =>
       /\ answer[c].clip \in Leases
       /\ None \in seen[c] /\ (answer[c].clip \in seen[c] \/ answer[c].clip.expires <= dbClock)
       /\ StillThere(c)
  /\ Answered(c, "found") =>
       /\ answer[c].clip \in Leases
       /\ answer[c].clip \in seen[c] /\ StillThere(c)
  /\ Answered(c, "not_found") => None \in seen[c]
  /\ Answered(c, "available") => None \in seen[c] /\ name[c] \in Claimable
  /\ Answered(c, "unavailable") => seen[c] \ {None} # {}

HonestInv == IInv /\ \A c \in Clients : Attentive(c) /\ Honest(c)

(* What the history of a client that waits is after any step.              *)
LEMMA HistoryOf ==
  ASSUME HistoryNext, NEW c \in Clients, Waiting(c)'
  PROVE  /\ SeenBy(c)' \subseteq seen'[c]
         /\ Waiting(c) => asked'[c] = asked[c] /\ seen'[c] = seen[c] \cup SeenBy(c)'
         /\ ~Waiting(c) => asked'[c] = dbClock
BY DEF HistoryNext

(* Its history is as attentive as it was.                                  *)
LEMMA AttentiveStep ==
  ASSUME HonestInv, IInv', HistoryNext, NEW c \in Clients
  PROVE  Attentive(c)'
<1> SUFFICES ASSUME Waiting(c)'
             PROVE  Attentive(c)'
  BY DEF Attentive
<1>1. dbClock \in Nat /\ dbClock' \in Nat /\ Next
  BY DEF HonestInv, IInv, TypeOK, HistoryNext
<1>2. SeenBy(c)' \subseteq seen'[c]
  BY HistoryOf
<1>3. CASE Idles(c)
  <2>1. Waiting(c)
    BY <1>3 DEF Idles, Waiting
  <2>2. asked'[c] = asked[c]
    BY <2>1, HistoryOf
  <2>3. QED
    BY <1>1, <1>2, <1>3, <2>1, <2>2 DEF Idles, HonestInv, Attentive
<1>4. CASE Arrives(c)
  <2>1. asked'[c] = dbClock
    BY <1>4, HistoryOf DEF Arrives
  <2>2. QED
    BY <1>1, <1>2, <1>4, <2>1 DEF Arrives, Attentive
<1>5. CASE Claims(c)
  <2>1. Waiting(c)
    BY <1>5 DEF Claims, Waiting
  <2>2. asked'[c] = asked[c]
    BY <2>1, HistoryOf
  <2>3. QED
    BY <1>1, <1>2, <1>5, <2>1, <2>2 DEF Claims, HonestInv, Attentive
<1>6. CASE Refuses(c) \/ ClaimEnds(c) \/ ReadEnds(c) \/ CheckEnds(c)
  <2>1. pc'[c] = "answering" /\ dbClock' = dbClock
    BY <1>6 DEF Refuses, ClaimEnds, ReadEnds, CheckEnds, Settle, clocks, HonestInv, IInv, TypeOK
  <2>2. asked'[c] \in Nat /\ asked'[c] <= dbClock
    BY <1>1, HistoryOf DEF HonestInv, Attentive
  <2>3. QED
    BY <1>2, <2>1, <2>2 DEF Attentive
<1>7. QED
  BY <1>1, <1>3, <1>4, <1>5, <1>6, ClientStep DEF HonestInv

(* A row that is live when the statement's clock was read has been seen     *)
(* since the client asked; one that was not shows that the name is free.   *)
LEMMA SeenAtStatement ==
  ASSUME HonestInv, NEW c \in Clients, pc[c] \in {"claiming", "reading", "checking"}
  PROVE  /\ Waiting(c) /\ name[c] \in Names
         /\ Live(rows[name[c]], txNow[c]) => rows[name[c]] \in SeenBy(c) /\ rows[name[c]] # None
         /\ ~Live(rows[name[c]], txNow[c]) => None \in SeenBy(c)
<1> DEFINE row == rows[name[c]]
<1>1. /\ Waiting(c) /\ asked[c] \in Nat /\ asked[c] <= txNow[c] /\ txNow[c] <= dbClock
      /\ txNow[c] \in Nat /\ dbClock \in Nat
  BY DEF HonestInv, IInv, TypeOK, Attentive, Waiting, StatementsInPast
<1>2. name[c] \in Names /\ row \in Leases \cup {None}
  BY DEF HonestInv, IInv, TypeOK
<1>3. ASSUME Live(row, txNow[c])
      PROVE  row # None /\ Live(row, asked[c])
  BY <1>1, <1>2, <1>3 DEF Live, Leases
<1>4. ASSUME ~Live(row, txNow[c])
      PROVE  Held(name[c]) = None
  BY <1>1, <1>2, <1>4 DEF Live, Leases, Held
<1>5. QED
  BY <1>1, <1>2, <1>3, <1>4 DEF SeenBy

(* Whoever is told nothing new stays honestly answered: what was seen is    *)
(* seen for good.                                                          *)
LEMMA IdleHonest ==
  ASSUME HonestInv, IInv', HistoryNext, NEW c \in Clients, Waiting(c)', Idles(c)
  PROVE  Honest(c)'
<1>1. Waiting(c)
  BY DEF Idles, Waiting
<1>2. seen[c] \subseteq seen'[c]
  BY <1>1, HistoryOf
<1>3. \A status : Answered(c, status)' => Answered(c, status)
  BY DEF Idles, Answered
<1>4. /\ name'[c] = name[c] /\ answer'[c] = answer[c]
      /\ dbClock \in Nat /\ dbClock' \in Nat /\ dbClock <= dbClock'
  BY DEF Idles, HonestInv, IInv, TypeOK
<1>5. Answered(c, "created") /\ answer[c].clip.expires <= dbClock => answer[c].clip.expires <= dbClock'
  <2>1. Answered(c, "created") => answer[c].clip.expires \in Nat
    BY DEF HonestInv, Honest, Leases
  <2>2. QED
    BY <1>4, <2>1
<1>6. Honest(c)
  BY DEF HonestInv
<1>7. StillThere(c) /\ answer[c].clip \in Leases => StillThere(c)'
  <2> SUFFICES ASSUME StillThere(c), answer[c].clip \in Leases, Live(answer[c].clip, dbClock')
               PROVE  rows'[name[c]] = answer[c].clip
    BY <1>4 DEF StillThere, Live
  <2>1. Live(answer[c].clip, dbClock)
    BY <1>4 DEF Live, Leases
  <2>2. rows[name[c]] = answer[c].clip
    BY <2>1 DEF StillThere
  <2>3. name[c] \in Names /\ [Next]_vars /\ IInv
    BY <1>1 DEF HonestInv, IInv, TypeOK, Waiting, HistoryNext
  <2>4. QED
    BY <2>1, <2>2, <2>3, LiveStays
<1>8. QED
  BY <1>2, <1>3, <1>4, <1>5, <1>6, <1>7 DEF Honest

(* What a statement that ends reports has been seen.                       *)
LEMMA EndsHonest ==
  ASSUME HonestInv, HistoryNext, NEW c \in Clients,
         ClaimEnds(c) \/ ReadEnds(c) \/ CheckEnds(c)
  PROVE  Honest(c)'
<1> DEFINE row == rows[name[c]]
<1>1. pc[c] \in {"claiming", "reading", "checking"} /\ dbClock' = dbClock
  BY DEF ClaimEnds, ReadEnds, CheckEnds, clocks
<1>2. /\ Waiting(c) /\ name[c] \in Names
      /\ Live(row, txNow[c]) => row \in SeenBy(c) /\ row # None
      /\ ~Live(row, txNow[c]) => None \in SeenBy(c)
  BY <1>1, SeenAtStatement
<1>3. /\ pc'[c] = "answering" /\ name'[c] = name[c]
      /\ pc \in [Clients -> {"idle", "reading", "checking", "answering"} \cup Creating]
      /\ answer \in [Clients -> Answers] /\ rows \in [Names -> Leases \cup {None}]
      /\ dbClock \in Nat /\ txNow[c] \in Nat
  BY DEF ClaimEnds, ReadEnds, CheckEnds, Settle, HonestInv, IInv, TypeOK
<1>4. Waiting(c)' /\ SeenBy(c)' \subseteq seen'[c] /\ seen'[c] = seen[c] \cup SeenBy(c)'
  <2>1. Waiting(c)'
    BY <1>3 DEF Waiting
  <2>2. QED
    BY <1>2, <2>1, HistoryOf
<1>5. SeenBy(c) \subseteq seen'[c]
  BY <1>2, <1>4 DEF HonestInv, Attentive
<1>6. CASE ClaimEnds(c)
  <2>1. lease[c] \in Leases /\ pc[c] = "claiming"
    BY <1>6 DEF ClaimEnds, HonestInv, IInv, TypeOK, Creating
  <2>2. CASE ClaimWins(c)
    <3>1. ~Live(row, txNow[c])
      BY <1>2, <1>3, <2>2 DEF ClaimWins, Live, Leases
    <3>2. answer'[c] = [status |-> "created", clip |-> lease[c]] /\ rows' = [rows EXCEPT ![name[c]] = lease[c]]
      BY <1>3, <1>6, <2>2 DEF ClaimEnds, Settle, Claimed
    <3>3. rows'[name'[c]] = lease[c]
      BY <1>2, <1>3, <3>2
    <3>4. lease[c] \in seen'[c] \/ lease[c].expires <= dbClock'
      <4>1. lease[c].expires > dbClock => Held(name[c])' = lease[c]
        BY <1>1, <1>3, <2>1, <3>3, ClipsAssumption DEF Held, Live
      <4>2. Held(name[c])' \in SeenBy(c)'
        BY <1>3 DEF SeenBy
      <4>3. lease[c].expires \in Nat
        BY <2>1 DEF Leases
      <4>4. QED
        BY <1>1, <1>3, <1>4, <4>1, <4>2, <4>3
    <3>5. answer'[c].status = "created" /\ answer'[c].clip = lease[c]
      BY <3>2
    <3>6. QED
      BY <1>2, <1>5, <2>1, <3>1, <3>3, <3>4, <3>5 DEF Honest, Answered, StillThere
  <2>3. CASE ~ClaimWins(c)
    <3>1. Live(row, txNow[c])
      BY <1>2, <1>3, <2>3 DEF ClaimWins, Live, Leases
    <3>2. answer'[c].status = "in_use"
      BY <1>3, <1>6, <2>3 DEF ClaimEnds, Settle
    <3>3. QED
      BY <1>2, <1>5, <3>1, <3>2 DEF Honest, Answered
  <2>4. QED
    BY <2>2, <2>3
<1>7. CASE ReadEnds(c)
  <2>1. CASE Live(row, txNow[c])
    <3>1. answer'[c] = [status |-> "found", clip |-> row]
      BY <1>3, <1>7, <2>1 DEF ReadEnds, ReadFinds, Settle
    <3>2. answer'[c].status = "found" /\ answer'[c].clip = row
      BY <3>1
    <3>3. rows'[name'[c]] = row /\ row \in Leases
      BY <1>2, <1>3, <1>7, <2>1 DEF ReadEnds
    <3>4. QED
      BY <1>2, <1>5, <2>1, <3>2, <3>3 DEF Honest, Answered, StillThere
  <2>2. CASE ~Live(row, txNow[c])
    <3>1. answer'[c].status = "not_found"
      BY <1>3, <1>7, <2>2 DEF ReadEnds, ReadFinds, Settle
    <3>2. QED
      BY <1>2, <1>5, <2>2, <3>1 DEF Honest, Answered
  <2>3. QED
    BY <2>1, <2>2
<1>8. CASE CheckEnds(c)
  <2>1. name'[c] \in Claimable
    BY <1>2, <1>3, <1>8 DEF CheckEnds, HonestInv, Attentive
  <2>2. CASE Live(row, txNow[c])
    <3>1. answer'[c].status = "unavailable"
      BY <1>3, <1>8, <2>2 DEF CheckEnds, SlugIsLive, Settle
    <3>2. QED
      BY <1>2, <1>5, <2>2, <3>1 DEF Honest, Answered
  <2>3. CASE ~Live(row, txNow[c])
    <3>1. answer'[c].status = "available"
      BY <1>3, <1>8, <2>3 DEF CheckEnds, SlugIsLive, Settle
    <3>2. QED
      BY <1>2, <1>5, <2>1, <2>3, <3>1 DEF Honest, Answered
  <2>4. QED
    BY <2>2, <2>3
<1>9. QED
  BY <1>6, <1>7, <1>8

(* Every client's answer is honest after any step.                         *)
LEMMA HonestStep == HonestInv /\ [HistoryNext]_historyVars => HonestInv'
<1> SUFFICES ASSUME HonestInv, [HistoryNext]_historyVars
             PROVE  HonestInv'
  OBVIOUS
<1>1. CASE HistoryNext
  <2>1. [Next]_vars
    BY <1>1 DEF HistoryNext
  <2>2. IInv'
    BY <2>1, StepIInv DEF HonestInv
  <2>3. ASSUME NEW c \in Clients
        PROVE  Attentive(c)' /\ Honest(c)'
    <3>1. Attentive(c)'
      BY <1>1, <2>2, AttentiveStep
    <3>2. CASE ~Waiting(c)'
      BY <3>1, <3>2 DEF Honest, Answered, Waiting
    <3>3. CASE Waiting(c)' /\ Idles(c)
      BY <1>1, <2>2, <3>1, <3>3, IdleHonest
    <3>4. CASE Arrives(c) \/ Claims(c)
      BY <3>1, <3>4 DEF Arrives, Claims, Honest, Answered
    <3>5. CASE Refuses(c)
      BY <3>1, <3>5 DEF Refuses, Reported, Honest, Answered
    <3>6. CASE ClaimEnds(c) \/ ReadEnds(c) \/ CheckEnds(c)
      BY <1>1, <3>1, <3>6, EndsHonest
    <3>7. IInv
      BY DEF HonestInv
    <3>8. QED
      BY <2>1, <3>2, <3>3, <3>4, <3>5, <3>6, <3>7, ClientStep
  <2>4. QED
    BY <2>2, <2>3 DEF HonestInv
<1>2. CASE UNCHANGED historyVars
  <2>1. UNCHANGED vars /\ asked' = asked /\ seen' = seen
    BY <1>2 DEF historyVars
  <2>2. IInv'
    BY <2>1, StepIInv DEF HonestInv
  <2>3. ASSUME NEW c \in Clients
        PROVE  Attentive(c)' /\ Honest(c)'
    BY <2>1 DEF vars, HonestInv, Attentive, Honest, Waiting, Answered, SeenBy, Held, Live,
                StillThere
  <2>4. QED
    BY <2>2, <2>3 DEF HonestInv
<1>3. QED
  BY <1>1, <1>2

THEOREM HonestInvariance == HistorySpec => []HonestInv
<1>1. HistoryInit => HonestInv
  <2> SUFFICES ASSUME HistoryInit
               PROVE  HonestInv
    OBVIOUS
  <2>1. IInv
    BY InitIInv DEF HistoryInit
  <2>2. ASSUME NEW c \in Clients
        PROVE  Attentive(c) /\ Honest(c)
    BY DEF HistoryInit, Init, Attentive, Honest, Waiting, Answered
  <2>3. QED
    BY <2>1, <2>2 DEF HonestInv
<1>2. QED
  BY <1>1, HonestStep, PTL DEF HistorySpec

(* Whoever owns a name after a step owned it before, or has just won it.    *)
LEMMA OwnersCome ==
  ASSUME HonestInv, HistoryNext, NEW c \in Clients, Owns(c)'
  PROVE  \/ Owns(c) /\ name'[c] = name[c]
         \/ ClaimEnds(c) /\ ClaimWins(c) /\ name'[c] = name[c]
<1>1. IInv /\ Next /\ [Next]_vars /\ Waiting(c)' /\ pc'[c] = "answering" /\ answer'[c].status = "created"
  BY DEF Owns, Answered, Waiting, HonestInv, HistoryNext
<1>2. /\ answer \in [Clients -> Answers] /\ name \in [Clients -> Names \cup {None}]
      /\ dbClock \in Nat /\ dbClock' \in Nat
  BY <1>1, StepIInv DEF IInv, TypeOK
<1>3. CASE Idles(c)
  <2>1. Answered(c, "created") /\ answer'[c] = answer[c] /\ name'[c] = name[c] /\ dbClock <= dbClock'
    BY <1>1, <1>3 DEF Idles, Answered
  <2>2. answer[c].clip \in Leases
    BY <2>1 DEF HonestInv, Honest
  <2>3. QED
    BY <1>2, <2>1, <2>2 DEF Owns, Live, Leases
<1>4. CASE ClaimEnds(c)
  <2>1. answer'[c].status = "in_use" \/ ClaimWins(c)
    BY <1>2, <1>4 DEF ClaimEnds, Settle
  <2>2. QED
    BY <1>1, <1>4, <2>1 DEF ClaimEnds, Settle
<1>5. CASE ReadEnds(c) \/ CheckEnds(c)
  BY <1>1, <1>2, <1>5 DEF ReadEnds, CheckEnds, Settle
<1>6. CASE Arrives(c) \/ Claims(c) \/ Refuses(c)
  BY <1>1, <1>6 DEF Arrives, Claims, Refuses, Reported
<1>7. QED
  BY <1>1, <1>3, <1>4, <1>5, <1>6, ClientStep

(* A claim does not win against an owner.                                  *)
LEMMA OwnerKeepsName ==
  ASSUME HonestInv, NEW c \in Clients, Owns(c), NEW d \in Clients,
         ClaimEnds(d), ClaimWins(d)
  PROVE  name[c] # name[d]
<1>1. rows[name[c]] = answer[c].clip /\ Live(answer[c].clip, dbClock) /\ answer[c].clip \in Leases
  BY DEF Owns, HonestInv, Honest, StillThere
<1>2. txNow[d] \in Nat /\ txNow[d] <= dbClock /\ dbClock \in Nat
  BY DEF ClaimEnds, HonestInv, IInv, TypeOK, StatementsInPast
<1>3. QED
  BY <1>1, <1>2 DEF ClaimWins, Live, Leases

(* Two owners of one name are nowhere.                                     *)
OneOwner == \A c, d \in Clients : c # d /\ Owns(c) /\ Owns(d) => name[c] # name[d]

LEMMA OneOwnerStep ==
  HonestInv /\ OneOwner /\ [HistoryNext]_historyVars => OneOwner'
<1> SUFFICES ASSUME HonestInv, OneOwner, [HistoryNext]_historyVars,
                    NEW c \in Clients, NEW d \in Clients \ {c}, Owns(c)', Owns(d)'
             PROVE  name'[c] # name'[d]
  BY DEF OneOwner
<1>1. CASE HistoryNext
  <2>1. CASE Owns(c) /\ Owns(d)
    BY <1>1, <2>1, OwnersCome DEF OneOwner, ClaimEnds, Owns, Answered
  <2>2. CASE ~Owns(c) /\ Owns(d)
    BY <1>1, <2>2, OwnersCome, OwnerKeepsName DEF ClaimEnds, Owns, Answered
  <2>3. CASE Owns(c) /\ ~Owns(d)
    BY <1>1, <2>3, OwnersCome, OwnerKeepsName DEF ClaimEnds, Owns, Answered
  <2>4. CASE ~Owns(c) /\ ~Owns(d)
    <3>1. ClaimEnds(c) /\ ClaimEnds(d)
      BY <1>1, <2>4, OwnersCome
    <3>2. pc'[d] = pc[d] /\ pc'[d] = "answering"
      BY <3>1 DEF ClaimEnds, Settle, HonestInv, IInv, TypeOK
    <3>3. QED
      BY <3>1, <3>2 DEF ClaimEnds
  <2>5. QED
    BY <2>1, <2>2, <2>3, <2>4
<1>2. CASE UNCHANGED historyVars
  BY <1>2 DEF historyVars, vars, OneOwner, Owns, Answered, Live
<1>3. QED
  BY <1>1, <1>2

(* A create is told in use only if somebody held the name while it waited,  *)
(* and created only if it was free and became its own.  Of two creates that *)
(* race for a name one at most is told created while the other's clip       *)
(* lives: there is no lock in the service, and the WHERE of the upsert is   *)
(* all that keeps them apart (Service.Create, ClaimClip).                  *)
THEOREM ClaimsAreHonest == HistorySpec => []ClaimHonest
<1>1. HistoryInit => OneOwner
  BY DEF HistoryInit, Init, OneOwner, Owns, Answered
<1>2. HonestInv /\ OneOwner => ClaimHonest
  BY DEF HonestInv, Honest, ClaimHonest, OneOwner
<1>3. QED
  BY <1>1, <1>2, HonestInvariance, OneOwnerStep, PTL DEF HistorySpec

(* What a read or an availability check says was true while it waited      *)
(* (Service.Read, Service.Availability).                                   *)
THEOREM LooksAreHonest == HistorySpec => []LooksHonest
<1>1. HonestInv => LooksHonest
  BY DEF HonestInv, Honest, LooksHonest
<1>2. QED
  BY <1>1, HonestInvariance, PTL
================================================================================
