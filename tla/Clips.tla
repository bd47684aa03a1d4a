--------------------------------- MODULE Clips ---------------------------------
(***************************************************************************)
(* The clip service of internal/clips over the table of internal/db: each  *)
(* client's request is a goroutine that validates, stamps, runs ONE SQL     *)
(* statement and answers; the sweeper of internal/sweeper deletes expired   *)
(* rows beside them.                                                        *)
(*                                                                         *)
(* A statement is not instantaneous.  PostgreSQL fixes now() when the      *)
(* statement's transaction begins, may then wait (a row lock, a slow disk)  *)
(* and takes effect later on the rows as they are at that moment, so every  *)
(* statement is two steps here: one that reads the clock, one that acts.    *)
(* Creation times come from the application's clock, liveness from the     *)
(* database's: the two are separate variables.                              *)
(***************************************************************************)
EXTENDS Integers

CONSTANTS
  Names,          \* the slugs clients send
  Claimable,      \* those of them slug.Validate accepts
  Reserved,       \* the frontend's own paths, well formed and not claimable
  Bodies,         \* the bodies clients send
  TooLarge,       \* those of them longer than MaxBodyBytes
  TtlInputs,      \* the ttlSeconds clients send, Omitted for none
  Omitted,
  Presets,        \* the lifetimes on offer
  DefaultPreset,
  AnonCeiling,    \* no preset is longer
  Clients,        \* each has at most one request in flight
  Sweepers,       \* sweeper goroutines on this database, one per server process
  None,           \* no row, no name, no lease, no sweep
  MaxClock,       \* BOUND: the database clock stops here
  MaxSkew         \* how far the two clocks may be apart

Leases == [body : Bodies, expires : Nat]

ASSUME ClipsAssumption ==
  /\ Claimable \subseteq Names
  /\ Reserved \subseteq Names \ Claimable
  /\ TooLarge \subseteq Bodies
  /\ Presets \subseteq 1..AnonCeiling
  /\ DefaultPreset \in Presets
  /\ AnonCeiling \in Nat
  /\ Omitted \notin Presets
  /\ MaxClock \in Nat
  /\ MaxSkew \in Nat \ {0}
  /\ None \notin Names
  /\ None \notin Leases
  /\ None \notin [now : Nat, due : SUBSET Names]

VARIABLES
  rows,       \* the clips table: for each slug its row, or None
  dbClock,    \* what now() returns to a transaction that begins
  appClock,   \* what time.Now returns in the server
  pc,         \* where each client's request is
  name,       \* the slug it asks for
  lease,      \* the row a create wants to store
  txNow,      \* now() of the request's statement
  answer,     \* what the request will be answered
  sweep       \* for each sweeper, its running DELETE or None

vars == <<rows, dbClock, appClock, pc, name, lease, txNow, answer, sweep>>

reqVars == <<pc, name, lease, txNow, answer>>
clocks  == <<dbClock, appClock>>

Statuses == {"none", "created", "in_use", "found", "not_found", "available",
             "unavailable", "invalid_slug", "reserved_slug", "body_too_large",
             "invalid_ttl", "internal_error"}

Answers  == [status : Statuses, clip : Leases \cup {None}]
NoAnswer == [status |-> "none", clip |-> None]

(* A request between the stamp of its create and the end of its statement. *)
Creating == {"stamped", "claiming", "orphaned"}

(* The clip names, liveness and expiry the queries compute.                 *)
Live(row, t) == row # None /\ row.expires > t

(* expires_at <= now(): the WHERE of the DELETE.                            *)
Expired(row, t) == row # None /\ row.expires <= t

TypeOK ==
  /\ rows \in [Names -> Leases \cup {None}]
  /\ \A n \in Names : rows[n] # None => n \in Claimable
  /\ dbClock \in Nat /\ appClock \in Nat
  /\ pc \in [Clients -> {"idle", "reading", "checking", "answering"} \cup Creating]
  /\ name \in [Clients -> Names \cup {None}]
  /\ lease \in [Clients -> Leases \cup {None}]
  /\ txNow \in [Clients -> Nat]
  /\ answer \in [Clients -> Answers]
  /\ sweep \in [Sweepers -> [now : Nat, due : SUBSET Names] \cup {None}]
  /\ \A c \in Clients : pc[c] # "idle" => name[c] \in Names
  /\ \A c \in Clients : pc[c] \in Creating => lease[c] \in Leases /\ name[c] \in Claimable

Init ==
  /\ rows = [n \in Names |-> None]
  /\ dbClock = 0 /\ appClock = 0
  /\ pc = [c \in Clients |-> "idle"]
  /\ name = [c \in Clients |-> None]
  /\ lease = [c \in Clients |-> None]
  /\ txNow = [c \in Clients |-> 0]
  /\ answer = [c \in Clients |-> NoAnswer]
  /\ sweep = [s \in Sweepers |-> None]

--------------------------------------------------------------------------------
(* A request leaves the server: its goroutine and its locals are gone.     *)
Leave(c) ==
  /\ pc' = [pc EXCEPT ![c] = "idle"]
  /\ name' = [name EXCEPT ![c] = None]
  /\ lease' = [lease EXCEPT ![c] = None]
  /\ txNow' = [txNow EXCEPT ![c] = 0]
  /\ answer' = [answer EXCEPT ![c] = NoAnswer]

(* A request that is under way goes on to be answered with a status.       *)
Settle(c, status, clip) ==
  /\ pc' = [pc EXCEPT ![c] = "answering"]
  /\ lease' = [lease EXCEPT ![c] = None]
  /\ txNow' = [txNow EXCEPT ![c] = 0]
  /\ answer' = [answer EXCEPT ![c] = [status |-> status, clip |-> clip]]
  /\ UNCHANGED name

--------------------------------------------------------------------------------
(* Create. *)

(* The lifetime of a create: a preset as sent, the default when none was.  *)
ResolveTTL(t) == IF t = Omitted THEN DefaultPreset ELSE t

(* A lifetime that was sent must be a preset; an explicit 0 is not one.    *)
TtlRefused(t) == t # Omitted /\ t \notin Presets

(* Mutant: the reserved and malformed slugs are forgotten.                 *)
SlugRefusedNever(n) == FALSE

SlugRefused(n) == n \notin Claimable

(* A malformed slug and a reserved one are refused with codes of their own.  *)
SlugCode(n) == IF n \in Reserved THEN "reserved_slug" ELSE "invalid_slug"

(* A create that fails a check is answered before any statement: the       *)
(* lifetime in the handler, then slug and size in the service.             *)
CreateRefused(c, n, b, t) ==
  /\ pc[c] = "idle"
  /\ TtlRefused(t) \/ SlugRefused(n) \/ b \in TooLarge
  /\ pc' = [pc EXCEPT ![c] = "answering"]
  /\ name' = [name EXCEPT ![c] = n]
  /\ answer' = [answer EXCEPT ![c] =
       [status |-> IF TtlRefused(t) THEN "invalid_ttl"
                   ELSE IF SlugRefused(n) THEN SlugCode(n) ELSE "body_too_large",
        clip |-> None]]
  /\ UNCHANGED <<rows, clocks, lease, txNow, sweep>>

(* The expiry is fixed here, from the application's clock, before the      *)
(* request has even a connection.                                          *)
CreateStamped(c, n, b, t) ==
  /\ pc[c] = "idle"
  /\ ~TtlRefused(t) /\ ~SlugRefused(n) /\ b \notin TooLarge
  /\ pc' = [pc EXCEPT ![c] = "stamped"]
  /\ name' = [name EXCEPT ![c] = n]
  /\ lease' = [lease EXCEPT ![c] = [body |-> b, expires |-> appClock + ResolveTTL(t)]]
  /\ UNCHANGED <<rows, clocks, txNow, answer, sweep>>

ClaimBegins(c) ==
  /\ pc[c] = "stamped"
  /\ pc' = [pc EXCEPT ![c] = "claiming"]
  /\ txNow' = [txNow EXCEPT ![c] = dbClock]
  /\ UNCHANGED <<rows, clocks, name, lease, answer, sweep>>

(* Mutant: ON CONFLICT DO UPDATE without its WHERE.                        *)
ClaimAlwaysWins(c) == TRUE

(* Mutant: WHERE clips.expires_at < now().                                 *)
ClaimWinsLate(c) ==
  LET row == rows[name[c]] IN row = None \/ row.expires < txNow[c]

(* The INSERT meets no row, or a row the WHERE of its UPDATE lets it take. *)
ClaimWins(c) ==
  LET row == rows[name[c]] IN row = None \/ row.expires <= txNow[c]

(* The table after the statement of c.                                     *)
Claimed(c) == IF ClaimWins(c) THEN [rows EXCEPT ![name[c]] = lease[c]] ELSE rows

(* The statement takes effect and its row, or its absence, comes back.     *)
ClaimEnds(c) ==
  /\ pc[c] = "claiming"
  /\ rows' = Claimed(c)
  /\ IF ClaimWins(c) THEN Settle(c, "created", lease[c]) ELSE Settle(c, "in_use", None)
  /\ UNCHANGED <<clocks, sweep>>

(* The statement fails, or the connection does after it took effect: the   *)
(* service cannot tell, and answers an internal error either way.          *)
ClaimFails(c) ==
  /\ pc[c] = "claiming"
  /\ rows' \in {rows, Claimed(c)}
  /\ Settle(c, "internal_error", None)
  /\ UNCHANGED <<clocks, sweep>>

(* The statement of a request nobody waits for still takes effect, or is   *)
(* cancelled in time.                                                      *)
OrphanEnds(c) ==
  /\ pc[c] = "orphaned"
  /\ rows' \in {rows, Claimed(c)}
  /\ Leave(c)
  /\ UNCHANGED <<clocks, sweep>>

--------------------------------------------------------------------------------
(* Read and availability. *)

ReadBegins(c, n) ==
  /\ pc[c] = "idle"
  /\ pc' = [pc EXCEPT ![c] = "reading"]
  /\ name' = [name EXCEPT ![c] = n]
  /\ txNow' = [txNow EXCEPT ![c] = dbClock]
  /\ UNCHANGED <<rows, clocks, lease, answer, sweep>>

(* Mutant: expires_at >= now().                                            *)
ReadFindsLate(c) ==
  LET row == rows[name[c]] IN row # None /\ row.expires >= txNow[c]

ReadFinds(c) == Live(rows[name[c]], txNow[c])

ReadEnds(c) ==
  /\ pc[c] = "reading"
  /\ IF ReadFinds(c) THEN Settle(c, "found", rows[name[c]]) ELSE Settle(c, "not_found", None)
  /\ UNCHANGED <<rows, clocks, sweep>>

(* A name that could not be claimed is refused before the lookup.          *)
CheckRefused(c, n) ==
  /\ pc[c] = "idle"
  /\ SlugRefused(n)
  /\ pc' = [pc EXCEPT ![c] = "answering"]
  /\ name' = [name EXCEPT ![c] = n]
  /\ answer' = [answer EXCEPT ![c] = [status |-> SlugCode(n), clip |-> None]]
  /\ UNCHANGED <<rows, clocks, lease, txNow, sweep>>

CheckBegins(c, n) ==
  /\ pc[c] = "idle"
  /\ ~SlugRefused(n)
  /\ pc' = [pc EXCEPT ![c] = "checking"]
  /\ name' = [name EXCEPT ![c] = n]
  /\ txNow' = [txNow EXCEPT ![c] = dbClock]
  /\ UNCHANGED <<rows, clocks, lease, answer, sweep>>

(* Mutant: EXISTS over the slug alone.                                     *)
SlugHasRow(c) == rows[name[c]] # None

SlugIsLive(c) == Live(rows[name[c]], txNow[c])

CheckEnds(c) ==
  /\ pc[c] = "checking"
  /\ Settle(c, IF SlugIsLive(c) THEN "unavailable" ELSE "available", None)
  /\ UNCHANGED <<rows, clocks, sweep>>

(* No connection for the statement, or a statement that only reads fails.  *)
QueryFails(c) ==
  /\ pc[c] \in {"stamped", "reading", "checking"}
  /\ Settle(c, "internal_error", None)
  /\ UNCHANGED <<rows, clocks, sweep>>

(* The response is written.                                                *)
Respond(c) ==
  /\ pc[c] = "answering"
  /\ Leave(c)
  /\ UNCHANGED <<rows, clocks, sweep>>

(* The client disconnects: its context is cancelled, the answer is lost,   *)
(* and a claim already at the database goes on without it.                 *)
ClientGone(c) ==
  /\ pc[c] \notin {"idle", "orphaned"}
  /\ IF pc[c] = "claiming"
       THEN /\ pc' = [pc EXCEPT ![c] = "orphaned"]
            /\ UNCHANGED <<name, lease, txNow, answer>>
       ELSE Leave(c)
  /\ UNCHANGED <<rows, clocks, sweep>>

--------------------------------------------------------------------------------
(* The server dies and is started again: every request is gone at once,    *)
(* the table stays, and what runs at the database goes on there.           *)
Crash ==
  LET kept(c) == pc[c] \in {"claiming", "orphaned"}
  IN /\ \E c \in Clients : pc[c] \notin {"idle", "orphaned"}
     /\ pc' = [c \in Clients |-> IF kept(c) THEN "orphaned" ELSE "idle"]
     /\ name' = [c \in Clients |-> IF kept(c) THEN name[c] ELSE None]
     /\ lease' = [c \in Clients |-> IF kept(c) THEN lease[c] ELSE None]
     /\ txNow' = [c \in Clients |-> IF kept(c) THEN txNow[c] ELSE 0]
     /\ answer' = [c \in Clients |-> NoAnswer]
     /\ UNCHANGED <<rows, clocks, sweep>>

--------------------------------------------------------------------------------
(* The sweeper. *)

(* Mutant: a sweep waits until no request is under way.                    *)
SweepReadyWhenQuiet(s) == sweep[s] = None /\ \A c \in Clients : pc[c] = "idle"

(* The loop waits for its ticker and for nothing else.                     *)
SweepReady(s) == sweep[s] = None

(* A tick of the ticker: the DELETE begins, and its scan picks the rows    *)
(* that are expired in its snapshot.                                       *)
SweepBegins(s) ==
  /\ SweepReady(s)
  /\ sweep' = [sweep EXCEPT ![s] =
       [now |-> dbClock, due |-> {n \in Names : Expired(rows[n], dbClock)}]]
  /\ UNCHANGED <<rows, clocks, reqVars>>

(* Mutant: what the scan picked is deleted unseen.                         *)
SweptUnchecked(s) == sweep[s].due

(* The rows it deletes: those it picked whose row, which a claim may have  *)
(* replaced in the meantime, is still expired when the DELETE reaches it.  *)
Swept(s) == {n \in sweep[s].due : Expired(rows[n], sweep[s].now)}

SweepEnds(s) ==
  /\ sweep[s] # None
  /\ rows' = [n \in Names |-> IF n \in Swept(s) THEN None ELSE rows[n]]
  /\ sweep' = [sweep EXCEPT ![s] = None]
  /\ UNCHANGED <<clocks, reqVars>>

(* The DELETE fails, or is cancelled with the sweeper's context: it is     *)
(* logged, and the loop waits for its next tick.                           *)
SweepFails(s) ==
  /\ sweep[s] # None
  /\ sweep' = [sweep EXCEPT ![s] = None]
  /\ UNCHANGED <<rows, clocks, reqVars>>

--------------------------------------------------------------------------------
(* The clocks. *)

Skewed(a, d) == a - d \in -MaxSkew..MaxSkew

TickDb ==
  /\ dbClock < MaxClock
  /\ Skewed(appClock, dbClock + 1)
  /\ dbClock' = dbClock + 1
  /\ UNCHANGED <<rows, appClock, reqVars, sweep>>

TickApp ==
  /\ Skewed(appClock + 1, dbClock)
  /\ appClock' = appClock + 1
  /\ UNCHANGED <<rows, dbClock, reqVars, sweep>>

--------------------------------------------------------------------------------
Request(c) ==
  \/ \E n \in Names, b \in Bodies, t \in TtlInputs :
       CreateRefused(c, n, b, t) \/ CreateStamped(c, n, b, t)
  \/ ClaimBegins(c) \/ ClaimEnds(c) \/ ClaimFails(c) \/ OrphanEnds(c)
  \/ \E n \in Names : ReadBegins(c, n) \/ CheckRefused(c, n) \/ CheckBegins(c, n)
  \/ ReadEnds(c) \/ CheckEnds(c) \/ QueryFails(c) \/ Respond(c) \/ ClientGone(c)

Sweep(s) == SweepBegins(s) \/ SweepEnds(s) \/ SweepFails(s)

Next ==
  \/ \E c \in Clients : Request(c)
  \/ \E s \in Sweepers : Sweep(s)
  \/ Crash \/ TickDb \/ TickApp

Spec == Init /\ [][Next]_vars

(* The ticker keeps ticking, and the database does not fail every sweep.   *)
FairSpec ==
  /\ Spec
  /\ \A s \in Sweepers : WF_vars(SweepBegins(s)) /\ SF_vars(SweepEnds(s))

--------------------------------------------------------------------------------
(* Properties. *)

(* What a name is worth to anybody who asks now: its live clip, or nothing. *)
(* A row that is expired and a row that is gone are the same.              *)
Held(n) == IF Live(rows[n], dbClock) THEN rows[n] ELSE None

(* No step of anybody - a rival create, a sweep whose scan is stale, a     *)
(* statement whose client is gone - changes or removes a clip that the     *)
(* database's clock still calls live (ClaimClip's and DeleteExpiredClips'  *)
(* WHERE clauses): its body is not overwritten, its expiry does not move.  *)
LiveClipUntouched ==
  [][\A n \in Names : Live(rows[n], dbClock) => rows'[n] = rows[n]]_vars

(* The service implements the pool of names: whatever rows the sweeper has *)
(* or has not deleted, names are granted only when free, to one caller at  *)
(* a time, for at most the longest preset and the skew of the two clocks,  *)
(* and are freed by time alone (Service.Create, Service.DeleteExpired).    *)
Pool == INSTANCE NameLease
          WITH now <- dbClock, held <- [n \in Names |-> Held(n)],
               Ceiling <- AnonCeiling + MaxSkew, Free <- None
PoolOfNames == Pool!Spec

(* However busy the requests are and however often a sweep fails, as long   *)
(* as not all of them do every expired row is deleted or reclaimed in the  *)
(* end (sweeper.Run, sweep).                                               *)
ExpiredEventuallyGone ==
  \A n \in Claimable : Expired(rows[n], dbClock) ~> ~Expired(rows[n], dbClock)
================================================================================
