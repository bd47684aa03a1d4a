---------------------------- MODULE HttpFrontProofs ----------------------------
(***************************************************************************)
(* First the limiter, over any keys, rate, window and cap; then what it has *)
(* admitted, of whoever it refuses and of whoever stays tracked; then the   *)
(* front of the API over any addresses and headers: it drives the limiter   *)
(* as RateLimiter says, and keys each creation by its true sender.         *)
(***************************************************************************)
EXTENDS HttpFront, FiniteSetTheorems, TLAPS

(* Keys may be an infinite set; those tracked are finitely many.           *)
LimiterInv ==
  /\ LimiterTypeOK
  /\ IsFiniteSet(Tracked)
  /\ KeysBounded
  /\ WaitSuffices
  /\ Refused => keys[decision.key] # None

(* The keys a map of the limiter tracks.                                   *)
KeysOf(m) == {u \in Keys : m[u] # None}

(* Making room leaves fewer keys than the cap, and touches no other entry.  *)
LEMMA RoomSpec ==
  ASSUME LimiterInv, NEW room \in RoomMade
  PROVE  /\ room \in [Keys -> Entries \cup {None}]
         /\ \A u \in Keys : room[u] = keys[u] \/ room[u] = None
         /\ IsFiniteSet(KeysOf(room))
         /\ MaxKeys > 0 => Cardinality(KeysOf(room)) < MaxKeys
<1>1. /\ keys \in [Keys -> Entries \cup {None}] /\ IsFiniteSet(Tracked)
      /\ Cardinality(Tracked) \in Nat /\ MaxKeys \in Int
      /\ MaxKeys > 0 => Cardinality(Tracked) <= MaxKeys
  BY FS_CardinalityType, LimiterAssumption DEF LimiterInv, LimiterTypeOK, KeysBounded
<1>2. CASE Full
  <2>1. PICK v \in Oldest : room = [keys EXCEPT ![v] = None]
    BY <1>2 DEF RoomMade
  <2>2. v \in Tracked
    BY DEF Oldest
  <2>3. KeysOf(room) = Tracked \ {v}
    BY <1>1, <2>1, <2>2 DEF Tracked, KeysOf
  <2>4. IsFiniteSet(KeysOf(room)) /\ Cardinality(KeysOf(room)) = Cardinality(Tracked) - 1
    BY <1>1, <2>2, <2>3, FS_RemoveElement
  <2>5. /\ room \in [Keys -> Entries \cup {None}]
        /\ \A u \in Keys : room[u] = keys[u] \/ room[u] = None
    BY <1>1, <2>1
  <2>6. MaxKeys > 0 => Cardinality(KeysOf(room)) < MaxKeys
    BY <1>1, <2>4
  <2>7. QED
    BY <2>4, <2>5, <2>6
<1>3. CASE ~Full
  <2>1. room = keys /\ KeysOf(room) = Tracked
    BY <1>3 DEF RoomMade, Tracked, KeysOf
  <2>2. QED
    BY <1>1, <1>3, <2>1 DEF Full
<1>4. QED
  BY <1>2, <1>3

(* An entry written over a finite, bounded map keeps it so.                *)
LEMMA AdmitNewKeeps ==
  ASSUME LimiterInv, NEW k \in Keys, AdmitNew(k)
  PROVE  LimiterInv'
<1>1. PICK room \in RoomMade : keys' = [room EXCEPT ![k] = [count |-> 1, windowStart |-> clock]]
  BY DEF AdmitNew
<1> DEFINE fresh == [count |-> 1, windowStart |-> clock]
<1>2. /\ room \in [Keys -> Entries \cup {None}]
      /\ \A u \in Keys : room[u] = keys[u] \/ room[u] = None
      /\ IsFiniteSet(KeysOf(room))
      /\ MaxKeys > 0 => Cardinality(KeysOf(room)) < MaxKeys
  BY RoomSpec
<1>3. clock' = clock /\ clock \in Nat /\ fresh \in Entries /\ fresh # None
  BY LimiterAssumption DEF AdmitNew, Entries, LimiterInv, LimiterTypeOK
<1>4. decision' = [key |-> k, allowed |-> TRUE, retryAfter |-> 0] /\ decision' \in Decisions
  BY DEF AdmitNew, Decided, Decisions
<1>5. Tracked' = KeysOf(room) \cup {k}
  BY <1>1, <1>2, <1>3 DEF Tracked, KeysOf
<1>6. IsFiniteSet(Tracked') /\ Cardinality(Tracked') <= Cardinality(KeysOf(room)) + 1
  <2>1. Cardinality(KeysOf(room)) \in Nat
    BY <1>2, FS_CardinalityType
  <2>2. /\ IsFiniteSet(KeysOf(room) \cup {k})
        /\ Cardinality(KeysOf(room) \cup {k}) \in
             {Cardinality(KeysOf(room)), Cardinality(KeysOf(room)) + 1}
    BY <1>2, FS_AddElement, SMT
  <2>3. QED
    BY <1>5, <2>1, <2>2
<1>7. KeysBounded'
  BY <1>2, <1>6, FS_CardinalityType, LimiterAssumption DEF KeysBounded
<1>8. LimiterTypeOK'
  <2>1. keys' \in [Keys -> Entries \cup {None}]
    BY <1>1, <1>2, <1>3
  <2>2. ASSUME NEW u \in Tracked'
        PROVE  keys'[u].count \in 1..Rate /\ keys'[u].windowStart <= clock'
    BY <1>1, <1>2, <1>3, LimiterAssumption DEF LimiterInv, LimiterTypeOK, Tracked
  <2>3. QED
    BY <1>3, <1>4, <2>1, <2>2 DEF LimiterTypeOK
<1>9. ~Refused'
  BY <1>4 DEF Refused
<1>10. QED
  BY <1>6, <1>7, <1>8, <1>9 DEF LimiterInv, WaitSuffices

(* The header falls short of the wait by less than a second.               *)
LEMMA HeaderIsClose ==
  ASSUME NEW wait \in Nat
  PROVE  Second * (RetryAfterHeader(wait) + 1) - 1 \in Int
         /\ wait <= Second * (RetryAfterHeader(wait) + 1) - 1
<1> DEFINE q == wait \div Second
<1>1. q \in Int /\ q >= 0
  BY LimiterAssumption
<1>2. wait - Second * q < Second
  BY LimiterAssumption
<1>3. CASE q < 1
  <2>1. q = 0
    BY <1>1, <1>3
  <2>2. wait < Second
    BY <1>2, <2>1, LimiterAssumption
  <2>3. RetryAfterHeader(wait) = 1
    BY <1>3 DEF RetryAfterHeader
  <2>4. QED
    BY <2>2, <2>3, LimiterAssumption
<1>4. CASE ~(q < 1)
  <2>1. RetryAfterHeader(wait) = q
    BY <1>4 DEF RetryAfterHeader
  <2>2. Second * (q + 1) = Second * q + Second
    BY <1>1, LimiterAssumption
  <2>3. QED
    BY <1>1, <1>2, <2>1, <2>2, LimiterAssumption
<1>5. QED
  BY <1>3, <1>4

(* Steps that track the keys that were tracked before.                     *)
LEMMA SameKeysKeep ==
  ASSUME LimiterInv, NEW k \in Keys, AdmitAgain(k) \/ AdmitCounted(k) \/ Refuse(k)
  PROVE  LimiterInv'
<1> USE LimiterAssumption DEF LimiterInv, LimiterTypeOK
<1>1. CASE AdmitAgain(k)
  <2>1. LimiterTypeOK' /\ Tracked' = Tracked
    BY <1>1 DEF AdmitAgain, Decided, Decisions, Entries, Tracked
  <2>2. ~Refused'
    BY <1>1 DEF AdmitAgain, Decided, Refused
  <2>3. QED
    BY <2>1, <2>2 DEF KeysBounded, WaitSuffices
<1>2. CASE AdmitCounted(k)
  <2>1. keys[k] \in Entries /\ k \in Tracked /\ keys[k].count \in 1..Rate /\ keys[k].count < Rate
    BY <1>2 DEF AdmitCounted, UsedUp, Tracked
  <2>2. /\ keys' = [keys EXCEPT ![k] = [keys[k] EXCEPT !.count = keys[k].count + 1]]
        /\ [keys[k] EXCEPT !.count = keys[k].count + 1] \in Entries
    BY <1>2, <2>1 DEF AdmitCounted, Entries
  <2>3. Tracked' = Tracked
    BY <2>1, <2>2 DEF Tracked
  <2>4. decision' \in Decisions /\ clock' = clock
    BY <1>2 DEF AdmitCounted, Decided, Decisions
  <2>5. LimiterTypeOK'
    BY <2>1, <2>2, <2>3, <2>4 DEF Tracked, Entries
  <2>6. ~Refused'
    BY <1>2 DEF AdmitCounted, Decided, Refused
  <2>7. QED
    BY <2>3, <2>5, <2>6 DEF KeysBounded, WaitSuffices
<1>3. CASE Refuse(k)
  <2>1. /\ keys[k] \in Entries /\ k \in Tracked /\ keys[k].windowStart <= clock
        /\ clock - keys[k].windowStart < Window
    BY <1>3 DEF Refuse, Tracked, WindowOver, Entries
  <2>2. /\ RetryAfter(keys[k]) \in Nat
        /\ OverAfter(keys[k], RetryAfter(keys[k]))
    BY <2>1 DEF RetryAfter, OverAfter, Entries
  <2>3. /\ keys' = keys /\ clock' = clock /\ Tracked' = Tracked
        /\ decision' = [key |-> k, allowed |-> FALSE, retryAfter |-> RetryAfter(keys[k])]
    BY <1>3 DEF Refuse, Decided, Tracked
  <2>4. decision' \in Decisions
    BY <2>2, <2>3 DEF Decisions
  <2>5. WaitSuffices' /\ keys'[decision'.key] # None
    <3> DEFINE header == Second * (RetryAfterHeader(RetryAfter(keys[k])) + 1) - 1
    <3>1. header \in Int /\ RetryAfter(keys[k]) <= header
      BY <2>2, HeaderIsClose
    <3>2. OverAfter(keys[k], header)
      <4> HIDE DEF header
      <4>1. QED
        BY <2>1, <2>2, <3>1 DEF OverAfter, Entries
    <3>3. decision'.key = k /\ decision'.retryAfter = RetryAfter(keys[k])
      BY <2>3
    <3>4. WaitSuffices'
      BY <2>2, <2>3, <3>2, <3>3 DEF WaitSuffices, OverAfter, RetryAfterHeader
    <3>5. QED
      BY <2>1, <2>3, <3>3, <3>4 DEF Tracked
  <2>6. QED
    BY <2>3, <2>4, <2>5 DEF KeysBounded
<1>4. QED
  BY <1>1, <1>2, <1>3

LEMMA LimiterStep == LimiterInv /\ [LimiterNext]_limiterVars => LimiterInv'
<1> SUFFICES ASSUME LimiterInv, [LimiterNext]_limiterVars
             PROVE  LimiterInv'
  OBVIOUS
<1>1. ASSUME NEW k \in Keys, Allow(k)
      PROVE  LimiterInv'
  BY <1>1, AdmitNewKeeps, SameKeysKeep DEF Allow
<1>2. CASE Tick
  BY <1>2 DEF Tick, LimiterInv, LimiterTypeOK, Tracked, KeysBounded, WaitSuffices, Refused,
              Entries
<1>3. CASE Restart
  <2>1. Tracked' = {}
    BY <1>3 DEF Restart, Tracked
  <2>2. QED
    BY <1>3, <2>1, FS_EmptySet, LimiterAssumption
       DEF Restart, LimiterInv, LimiterTypeOK, KeysBounded, WaitSuffices, Refused
<1>4. CASE UNCHANGED limiterVars
  BY <1>4 DEF limiterVars, LimiterInv, LimiterTypeOK, Tracked, KeysBounded, WaitSuffices,
              Refused, OverAfter
<1>5. QED
  BY <1>1, <1>2, <1>3, <1>4 DEF LimiterNext

(* The invariant of the limiter, by induction over its steps.              *)
THEOREM LimiterInvariance == LimiterSpec => []LimiterInv
<1>1. LimiterInit => LimiterInv
  <2> SUFFICES ASSUME LimiterInit
               PROVE  LimiterInv
    OBVIOUS
  <2>1. Tracked = {}
    BY DEF LimiterInit, Tracked
  <2>2. QED
    BY <2>1, FS_EmptySet, LimiterAssumption
       DEF LimiterInit, LimiterInv, LimiterTypeOK, KeysBounded, WaitSuffices, Refused
<1>2. QED
  BY <1>1, LimiterStep, PTL DEF LimiterSpec

(* The cap holds whatever clients come (makeRoom).                         *)
THEOREM CapHolds == LimiterSpec => []KeysBounded
<1>1. LimiterInv => KeysBounded
  BY DEF LimiterInv
<1>2. QED
  BY <1>1, LimiterInvariance, PTL

(* The wait of a refusal always reaches the end of the window (Allow).     *)
THEOREM WaitIsEnough == LimiterSpec => []WaitSuffices
<1>1. LimiterInv => WaitSuffices
  BY DEF LimiterInv
<1>2. QED
  BY <1>1, LimiterInvariance, PTL

(* A call forgets no key but one among the oldest (makeRoom).              *)
LEMMA ForgetsTheOldest ==
  ASSUME LimiterInv, NEW n \in Keys, Allow(n),
         NEW k \in Tracked, k \notin Tracked'
  PROVE  k \in Oldest
<1>1. k \in Keys /\ keys[k] # None /\ keys'[k] = None
  BY DEF Tracked
<1>2. keys \in [Keys -> Entries \cup {None}] /\ None \notin Entries /\ keys[k] \in Entries
  BY <1>1, LimiterAssumption DEF LimiterInv, LimiterTypeOK
<1>3. CASE AdmitNew(n)
  <2>1. PICK room \in RoomMade : keys' = [room EXCEPT ![n] = [count |-> 1, windowStart |-> clock]]
    BY <1>3 DEF AdmitNew
  <2>2. n # k
    BY <1>1, <1>3 DEF AdmitNew
  <2>3. room \in [Keys -> Entries \cup {None}]
    BY RoomSpec
  <2>4. room[k] = None
    BY <1>1, <2>1, <2>2, <2>3
  <2>5. Full
    BY <1>1, <2>4 DEF RoomMade
  <2>6. PICK v \in Oldest : room = [keys EXCEPT ![v] = None]
    BY <2>5 DEF RoomMade
  <2>7. v = k
    BY <1>1, <1>2, <2>4, <2>6
  <2>8. QED
    BY <2>7
<1>4. CASE AdmitAgain(n) \/ AdmitCounted(n) \/ Refuse(n)
  <2>1. LimiterInv'
    BY <1>4, SameKeysKeep
  <2>2. CASE AdmitAgain(n)
    <3> DEFINE e == [count |-> 1, windowStart |-> clock]
    <3>1. keys' = [keys EXCEPT ![n] = e] /\ e \in Entries
      BY <2>2 DEF AdmitAgain, Entries, LimiterInv, LimiterTypeOK
    <3> HIDE DEF e
    <3>2. keys'[k] \in Entries
      BY <1>1, <1>2, <3>1
    <3>3. QED
      BY <1>1, <1>2, <3>2
  <2>3. CASE AdmitCounted(n)
    <3> DEFINE e == [keys[n] EXCEPT !.count = @ + 1]
    <3>1. keys[n] \in Entries
      BY <1>2, <2>3 DEF AdmitCounted
    <3>2. keys' = [keys EXCEPT ![n] = e] /\ e \in Entries
      BY <2>3, <3>1 DEF AdmitCounted, Entries
    <3> HIDE DEF e
    <3>3. keys'[k] \in Entries
      BY <1>1, <1>2, <3>2
    <3>4. QED
      BY <1>1, <1>2, <3>3
  <2>4. CASE Refuse(n)
    BY <1>1, <2>4 DEF Refuse
  <2>5. QED
    BY <1>4, <2>2, <2>3, <2>4
<1>5. QED
  BY <1>3, <1>4 DEF Allow

(* The oldest window is open only if every window is.                      *)
LEMMA OldestOpen ==
  ASSUME LimiterInv, NEW k \in Oldest, ~WindowOver(keys[k]), NEW u \in Tracked
  PROVE  ~WindowOver(keys[u])
<1>1. k \in Tracked /\ keys[k].windowStart <= keys[u].windowStart
  BY DEF Oldest
<1>2. keys[k] \in Entries /\ keys[u] \in Entries /\ Window \in Nat /\ clock \in Nat
  BY <1>1, LimiterAssumption DEF Tracked, LimiterInv, LimiterTypeOK
<1>3. keys[k].windowStart \in Nat /\ keys[u].windowStart \in Nat
  BY <1>2 DEF Entries
<1>4. QED
  BY <1>1, <1>2, <1>3 DEF WindowOver

(* An entry in an open window goes only among others in open windows, or    *)
(* with all of them when the process restarts (makeRoom).                  *)
THEOREM StaleGoFirst == LimiterSpec => StaleEvictedFirst
<1>1. ASSUME LimiterInv, [LimiterNext]_limiterVars,
             NEW k \in Tracked \ Tracked', ~WindowOver(keys[k])
      PROVE  Tracked' = {} \/ \A u \in Tracked : ~WindowOver(keys[u])
  <2>1. CASE \E n \in Keys : Allow(n)
    BY <1>1, <2>1, ForgetsTheOldest, OldestOpen
  <2>2. CASE Restart
    BY <2>2 DEF Restart, Tracked
  <2>3. CASE Tick \/ UNCHANGED limiterVars
    BY <1>1, <2>3 DEF Tick, limiterVars, Tracked
  <2>4. QED
    BY <1>1, <2>1, <2>2, <2>3 DEF LimiterNext
<1>2. LimiterInv /\ [LimiterNext]_limiterVars =>
        [\A k \in Tracked \ Tracked' :
           ~WindowOver(keys[k]) => \/ Tracked' = {}
                                   \/ \A u \in Tracked : ~WindowOver(keys[u])]_limiterVars
  BY <1>1
<1>3. QED
  BY <1>2, LimiterInvariance, PTL DEF LimiterSpec, StaleEvictedFirst

--------------------------------------------------------------------------------
(* What the history of a key says of its entry: every admission was made    *)
(* in the window it was counted in, the last count of them in the entry's,  *)
(* those before at least a window earlier, and Rate admissions further on  *)
(* it is another window.                                                   *)
EntryRecorded(e, a) ==
  /\ e.count <= Len(a)
  /\ \A i \in 1..Len(a) : a[i].window <= a[i].at /\ a[i].at < a[i].window + Window
  /\ \A i \in 1..Len(a) - e.count : a[i].window + Window <= e.windowStart
  /\ \A i \in Len(a) - e.count + 1..Len(a) : a[i].window = e.windowStart
  /\ \A i \in 1..Len(a) - Rate : a[i].window + Window <= a[i + Rate].window

HistoryInv ==
  /\ LimiterInv
  /\ admits \in [Keys -> Seq(Admissions)]
  /\ \A k \in Keys : IF keys[k] = None THEN admits[k] = <<>>
                     ELSE EntryRecorded(keys[k], admits[k])
  /\ Refused => ~WindowOver(keys[decision.key]) /\ UsedUp(keys[decision.key])

(* Admissions end to end: what is written at the end, and what stays.      *)
LEMMA Appended ==
  ASSUME NEW a \in Seq(Admissions), NEW x \in Admissions
  PROVE  /\ Append(a, x) \in Seq(Admissions)
         /\ Len(Append(a, x)) = Len(a) + 1 /\ Len(a) \in Nat
         /\ \A i \in 1..Len(a) : Append(a, x)[i] = a[i] /\ a[i] \in Admissions
         /\ Append(a, x)[Len(a) + 1] = x
  OBVIOUS

LEMMA Admitted ==
  ASSUME NEW a \in Seq(Admissions)
  PROVE  \A i \in 1..Len(a) : a[i].at \in Nat /\ a[i].window \in Nat
<1>1. \A i \in 1..Len(a) : a[i] \in Admissions
  OBVIOUS
<1>2. QED
  BY <1>1 DEF Admissions

LEMMA NoAdmissions == <<>> \in Seq(Admissions)
  OBVIOUS

(* The first admission of a key that was not tracked.                      *)
LEMMA FirstRecorded ==
  ASSUME NEW now \in Nat, NEW a, a = <<>>
  PROVE  LET x == [at |-> now, window |-> now]
         IN /\ Append(a, x) \in Seq(Admissions)
            /\ EntryRecorded([count |-> 1, windowStart |-> now], Append(a, x))
<1> DEFINE x == [at |-> now, window |-> now]
           b == Append(a, x)
<1>1. a \in Seq(Admissions) /\ x \in Admissions /\ x.at = now /\ x.window = now
  BY DEF Admissions
<1>2. Len(a) = 0 /\ Len(b) = 1 /\ b[1] = x /\ b \in Seq(Admissions)
  BY <1>1, Appended
<1> HIDE DEF b, x
<1>3. EntryRecorded([count |-> 1, windowStart |-> now], b)
  BY <1>1, <1>2, LimiterAssumption DEF EntryRecorded
<1>4. QED
  BY <1>2, <1>3 DEF b, x

(* The first admission of a new window of a key that stays tracked.        *)
LEMMA AgainRecorded ==
  ASSUME NEW now \in Nat, NEW a \in Seq(Admissions), NEW e \in Entries,
         e.count \in 1..Rate, now - e.windowStart >= Window, EntryRecorded(e, a)
  PROVE  LET x == [at |-> now, window |-> now]
         IN /\ Append(a, x) \in Seq(Admissions)
            /\ EntryRecorded([count |-> 1, windowStart |-> now], Append(a, x))
<1> DEFINE x == [at |-> now, window |-> now]
           b == Append(a, x)
           n == Len(a)
<1>1. x \in Admissions /\ x.at = now /\ x.window = now /\ e.windowStart \in Nat
  BY DEF Admissions, Entries
<1>2. /\ b \in Seq(Admissions) /\ Len(b) = n + 1 /\ n \in Nat /\ b[n + 1] = x
      /\ \A i \in 1..n : b[i] = a[i] /\ a[i].at \in Nat /\ a[i].window \in Nat
  BY <1>1, Appended DEF Admissions
<1>3. \A i \in 1..n : a[i].window + Window <= now
  <2> SUFFICES ASSUME NEW i \in 1..n PROVE a[i].window + Window <= now
    OBVIOUS
  <2>1. CASE i \in 1..n - e.count
    BY <1>1, <1>2, <2>1, LimiterAssumption DEF EntryRecorded
  <2>2. CASE i \in n - e.count + 1..n
    BY <1>1, <1>2, <2>2, LimiterAssumption DEF EntryRecorded
  <2>3. QED
    BY <1>2, <2>1, <2>2
<1> HIDE DEF b, x, n
<1>4. \A i \in 1..n + 1 : b[i].window <= b[i].at /\ b[i].at < b[i].window + Window
  <2>1. \A i \in 1..n : a[i].window <= a[i].at /\ a[i].at < a[i].window + Window
    BY DEF EntryRecorded, n
  <2>2. \A i \in 1..n : b[i].window <= b[i].at /\ b[i].at < b[i].window + Window
    BY <1>2, <2>1
  <2>3. b[n + 1].window <= b[n + 1].at /\ b[n + 1].at < b[n + 1].window + Window
    BY <1>1, <1>2, LimiterAssumption
  <2>4. QED
    BY <1>2, <2>2, <2>3
<1>5. \A i \in 1..n + 1 - Rate : b[i].window + Window <= b[i + Rate].window
  <2> SUFFICES ASSUME NEW i \in 1..n + 1 - Rate
               PROVE  b[i].window + Window <= b[i + Rate].window
    OBVIOUS
  <2>1. i \in 1..n
    BY <1>2, LimiterAssumption
  <2>2. CASE i + Rate = n + 1
    BY <1>1, <1>2, <1>3, <2>1, <2>2
  <2>3. CASE i \in 1..n - Rate
    <3>1. a[i].window + Window <= a[i + Rate].window
      BY <2>3 DEF EntryRecorded, n
    <3>2. i + Rate \in 1..n
      BY <1>2, <2>3, LimiterAssumption
    <3>3. QED
      BY <1>2, <2>1, <3>1, <3>2
  <2>4. QED
    BY <1>2, <2>2, <2>3, LimiterAssumption
<1> DEFINE f == [count |-> 1, windowStart |-> now]
<1>6. f.count = 1 /\ f.windowStart = now
  OBVIOUS
<1> HIDE DEF f
<1>7. \A i \in 1..Len(b) - f.count : b[i].window + Window <= f.windowStart
  <2> SUFFICES ASSUME NEW i \in 1..Len(b) - f.count
               PROVE  b[i].window + Window <= f.windowStart
    OBVIOUS
  <2>1. i \in 1..n
    BY <1>2, <1>6
  <2>2. QED
    BY <1>2, <1>3, <1>6, <2>1
<1>8. \A i \in Len(b) - f.count + 1..Len(b) : b[i].window = f.windowStart
  <2> SUFFICES ASSUME NEW i \in Len(b) - f.count + 1..Len(b)
               PROVE  b[i].window = f.windowStart
    OBVIOUS
  <2>1. i = n + 1
    BY <1>2, <1>6
  <2>2. QED
    BY <1>1, <1>2, <1>6, <2>1
<1>9. f.count <= Len(b) /\ Len(b) = n + 1
  BY <1>2, <1>6
<1>10. EntryRecorded(f, b)
  <2>1. \A i \in 1..Len(b) : b[i].window <= b[i].at /\ b[i].at < b[i].window + Window
    <3>1. 1..Len(b) = 1..n + 1
      BY <1>9
    <3>2. QED
      BY <1>4, <3>1
  <2>2. \A i \in 1..Len(b) - Rate : b[i].window + Window <= b[i + Rate].window
    <3>1. Len(b) = n + 1 /\ n \in Nat /\ Rate \in Nat
      BY <1>2, <1>9, LimiterAssumption
    <3>2. Len(b) - Rate = n + 1 - Rate
      BY <3>1
    <3>3. QED
      BY <1>5, <3>2
  <2>3. QED
    BY <1>7, <1>8, <1>9, <2>1, <2>2 DEF EntryRecorded
<1>11. QED
  BY <1>2, <1>10 DEF b, x, f

(* One more admission in the open window of a key.                         *)
LEMMA CountedRecorded ==
  ASSUME NEW now \in Nat, NEW a \in Seq(Admissions), NEW e \in Entries,
         e.count \in 1..Rate, e.count < Rate, e.windowStart <= now,
         now - e.windowStart < Window, EntryRecorded(e, a)
  PROVE  LET x == [at |-> now, window |-> e.windowStart]
         IN /\ Append(a, x) \in Seq(Admissions)
            /\ EntryRecorded([count |-> e.count + 1, windowStart |-> e.windowStart],
                             Append(a, x))
<1> DEFINE x == [at |-> now, window |-> e.windowStart]
           b == Append(a, x)
           n == Len(a)
<1>1. /\ x \in Admissions /\ x.at = now /\ x.window = e.windowStart
      /\ e.windowStart \in Nat /\ e.count \in Nat
  BY DEF Admissions, Entries
<1>2. /\ b \in Seq(Admissions) /\ Len(b) = n + 1 /\ n \in Nat /\ b[n + 1] = x
      /\ \A i \in 1..n : b[i] = a[i] /\ a[i].at \in Nat /\ a[i].window \in Nat
  BY <1>1, Appended DEF Admissions
<1>3. /\ e.count <= n
      /\ \A i \in 1..n : a[i].window <= a[i].at /\ a[i].at < a[i].window + Window
      /\ \A i \in 1..n - e.count : a[i].window + Window <= e.windowStart
      /\ \A i \in n - e.count + 1..n : a[i].window = e.windowStart
      /\ \A i \in 1..n - Rate : a[i].window + Window <= a[i + Rate].window
  BY DEF EntryRecorded
<1> HIDE DEF b, x, n
<1>4. \A i \in 1..n + 1 : b[i].window <= b[i].at /\ b[i].at < b[i].window + Window
  <2>1. \A i \in 1..n : b[i].window <= b[i].at /\ b[i].at < b[i].window + Window
    BY <1>2, <1>3
  <2>2. b[n + 1].window <= b[n + 1].at /\ b[n + 1].at < b[n + 1].window + Window
    BY <1>1, <1>2, LimiterAssumption
  <2>3. QED
    BY <1>2, <2>1, <2>2
<1> DEFINE f == [count |-> e.count + 1, windowStart |-> e.windowStart]
<1>5. f.count = e.count + 1 /\ f.windowStart = e.windowStart
  OBVIOUS
<1> HIDE DEF f
<1>6. /\ \A i \in 1..Len(b) - f.count : b[i].window + Window <= f.windowStart
      /\ \A i \in Len(b) - f.count + 1..Len(b) : b[i].window = f.windowStart
  <2>1. ASSUME NEW i \in 1..Len(b) - f.count
        PROVE  b[i].window + Window <= f.windowStart
    <3>1. i \in 1..n - e.count /\ i \in 1..n
      BY <1>1, <1>2, <1>5
    <3>2. QED
      BY <1>2, <1>3, <1>5, <3>1
  <2>2. ASSUME NEW i \in Len(b) - f.count + 1..Len(b)
        PROVE  b[i].window = f.windowStart
    <3>1. i = n + 1 \/ (i \in n - e.count + 1..n /\ i \in 1..n)
      BY <1>1, <1>2, <1>3, <1>5
    <3>2. QED
      BY <1>1, <1>2, <1>3, <1>5, <3>1
  <2>3. QED
    BY <2>1, <2>2
<1>7. \A i \in 1..n + 1 - Rate : b[i].window + Window <= b[i + Rate].window
  <2> SUFFICES ASSUME NEW i \in 1..n + 1 - Rate
               PROVE  b[i].window + Window <= b[i + Rate].window
    OBVIOUS
  <2>1. i \in 1..n
    BY <1>2, LimiterAssumption
  <2>2. CASE i + Rate = n + 1
    <3>1. i \in 1..n - e.count
      BY <1>1, <1>2, <2>1, <2>2, LimiterAssumption
    <3>2. QED
      BY <1>1, <1>2, <1>3, <2>1, <2>2, <3>1
  <2>3. CASE i \in 1..n - Rate
    <3>1. i + Rate \in 1..n
      BY <1>2, <2>3, LimiterAssumption
    <3>2. QED
      BY <1>2, <1>3, <2>1, <2>3, <3>1
  <2>4. QED
    BY <1>2, <2>2, <2>3, LimiterAssumption
<1>8. f.count <= Len(b) /\ Len(b) = n + 1
  BY <1>1, <1>2, <1>3, <1>5
<1>9. EntryRecorded(f, b)
  <2>1. \A i \in 1..Len(b) : b[i].window <= b[i].at /\ b[i].at < b[i].window + Window
    BY <1>4, <1>8
  <2>2. \A i \in 1..Len(b) - Rate : b[i].window + Window <= b[i + Rate].window
    BY <1>2, <1>7, <1>8, LimiterAssumption
  <2>3. QED
    BY <1>6, <1>8, <2>1, <2>2 DEF EntryRecorded
<1>10. QED
  BY <1>2, <1>9 DEF b, x, f

(* What is written of an admission.                                        *)
LEMMA RecordedAs ==
  ASSUME Recorded, NEW k \in Keys, NEW w, keys'[k] # None, keys'[k].windowStart = w,
         decision' = [key |-> k, allowed |-> TRUE, retryAfter |-> 0]
  PROVE  admits'[k] = Append(admits[k], [at |-> clock, window |-> w]) /\ ~Refused'
<1>1. decision' # None
  <2>1. [key |-> k, allowed |-> TRUE, retryAfter |-> 0] \in Decisions
    BY DEF Decisions
  <2>2. None \notin Decisions
    BY LimiterAssumption
  <2>3. QED
    BY <2>1, <2>2
<1>2. decision'.key = k /\ decision'.allowed = TRUE
  OBVIOUS
<1>3. admits'[k] = Append(admits[k], [at |-> clock, window |-> keys'[k].windowStart])
  BY <1>1, <1>2, Zenon DEF Recorded
<1>4. QED
  BY <1>2, <1>3 DEF Refused

(* Each step of the limiter, and what Recorded writes of it.               *)
LEMMA AllowRecorded ==
  ASSUME HistoryInv, NEW k \in Keys, Allow(k), Recorded
  PROVE  HistoryInv'
<1> DEFINE x == [at |-> clock, window |-> keys'[k].windowStart]
<1>1. /\ LimiterInv /\ LimiterInv' /\ clock' = clock /\ clock \in Nat
      /\ keys \in [Keys -> Entries \cup {None}] /\ keys' \in [Keys -> Entries \cup {None}]
      /\ admits \in [Keys -> Seq(Admissions)]
  BY AdmitNewKeeps, SameKeysKeep
     DEF HistoryInv, LimiterInv, LimiterTypeOK, Allow, AdmitNew, AdmitAgain, AdmitCounted, Refuse
<1>2. ASSUME NEW u \in Keys, u # k
      PROVE  /\ keys'[u] = keys[u] \/ keys'[u] = None
             /\ admits'[u] = IF keys'[u] = None THEN <<>> ELSE admits[u]
  <2>1. keys'[u] = keys[u] \/ keys'[u] = None
    <3>1. CASE AdmitNew(k)
      <4>1. PICK room \in RoomMade :
                   keys' = [room EXCEPT ![k] = [count |-> 1, windowStart |-> clock]]
        BY <3>1 DEF AdmitNew
      <4>2. room \in [Keys -> Entries \cup {None}] /\ (room[u] = keys[u] \/ room[u] = None)
        BY <1>1, RoomSpec
      <4>3. QED
        BY <1>2, <4>1, <4>2
    <3>2. CASE AdmitAgain(k) \/ AdmitCounted(k) \/ Refuse(k)
      BY <1>1, <1>2, <3>2 DEF AdmitAgain, AdmitCounted, Refuse
    <3>3. QED
      BY <3>1, <3>2 DEF Allow
  <2>2. decision'.key = k
    BY DEF Allow, AdmitNew, AdmitAgain, AdmitCounted, Refuse, Decided
  <2>3. QED
    BY <1>2, <2>1, <2>2 DEF Recorded
<1>3. /\ admits'[k] \in Seq(Admissions)
      /\ IF keys'[k] = None THEN admits'[k] = <<>> ELSE EntryRecorded(keys'[k], admits'[k])
      /\ Refused' => ~WindowOver(keys[k])' /\ UsedUp(keys[k])'
  <2>1. CASE AdmitNew(k)
    <3>1. /\ keys'[k] = [count |-> 1, windowStart |-> clock]
          /\ keys'[k] \in Entries /\ keys'[k] # None
      <4>1. PICK room \in RoomMade :
                   keys' = [room EXCEPT ![k] = [count |-> 1, windowStart |-> clock]]
        BY <2>1 DEF AdmitNew
      <4>2. room \in [Keys -> Entries \cup {None}]
        BY <1>1, RoomSpec
      <4>3. QED
        BY <1>1, <4>1, <4>2, LimiterAssumption DEF Entries
    <3>2. admits[k] = <<>>
      BY <2>1 DEF AdmitNew, HistoryInv
    <3>3. decision' = [key |-> k, allowed |-> TRUE, retryAfter |-> 0]
      BY <2>1 DEF AdmitNew, Decided
    <3>4. admits'[k] = Append(admits[k], [at |-> clock, window |-> clock]) /\ ~Refused'
      BY <3>1, <3>3, RecordedAs
    <3>5. QED
      BY <1>1, <3>1, <3>2, <3>4, FirstRecorded
  <2>2. CASE AdmitAgain(k)
    <3>1. /\ keys'[k] = [count |-> 1, windowStart |-> clock]
          /\ keys'[k] \in Entries /\ keys'[k] # None
      BY <1>1, <2>2, LimiterAssumption DEF AdmitAgain, Entries
    <3>2. /\ keys[k] \in Entries /\ keys[k].count \in 1..Rate
          /\ clock - keys[k].windowStart >= Window
          /\ EntryRecorded(keys[k], admits[k]) /\ admits[k] \in Seq(Admissions)
      BY <1>1, <2>2 DEF AdmitAgain, HistoryInv, LimiterInv, LimiterTypeOK, Tracked, WindowOver
    <3>3. decision' = [key |-> k, allowed |-> TRUE, retryAfter |-> 0]
      BY <2>2 DEF AdmitAgain, Decided
    <3>4. admits'[k] = Append(admits[k], [at |-> clock, window |-> clock]) /\ ~Refused'
      BY <3>1, <3>3, RecordedAs
    <3>5. QED
      BY <1>1, <3>1, <3>2, <3>4, AgainRecorded
  <2>3. CASE AdmitCounted(k)
    <3>1. /\ keys[k] \in Entries /\ keys[k].count \in 1..Rate /\ keys[k].count < Rate
          /\ keys[k].windowStart <= clock /\ clock - keys[k].windowStart < Window
          /\ EntryRecorded(keys[k], admits[k]) /\ admits[k] \in Seq(Admissions)
      BY <1>1, <2>3, LimiterAssumption
         DEF AdmitCounted, HistoryInv, LimiterInv, LimiterTypeOK, Tracked, WindowOver, UsedUp,
             Entries
    <3>2. /\ keys'[k] = [count |-> keys[k].count + 1, windowStart |-> keys[k].windowStart]
          /\ keys'[k] \in Entries /\ keys'[k] # None
      <4>1. [keys[k] EXCEPT !.count = @ + 1]
              = [count |-> keys[k].count + 1, windowStart |-> keys[k].windowStart]
        BY <3>1 DEF Entries
      <4>2. keys'[k] = [keys[k] EXCEPT !.count = @ + 1]
        BY <1>1, <2>3 DEF AdmitCounted
      <4>3. QED
        BY <3>1, <4>1, <4>2, LimiterAssumption DEF Entries
    <3>3. decision' = [key |-> k, allowed |-> TRUE, retryAfter |-> 0]
      BY <2>3 DEF AdmitCounted, Decided
    <3>4. /\ admits'[k] = Append(admits[k], [at |-> clock, window |-> keys[k].windowStart])
          /\ ~Refused'
      BY <3>2, <3>3, RecordedAs
    <3>5. QED
      BY <1>1, <3>1, <3>2, <3>4, CountedRecorded
  <2>4. CASE Refuse(k)
    <3>1. decision'.allowed = FALSE /\ keys' = keys
      BY <2>4 DEF Refuse, Decided
    <3>2. admits'[k] = admits[k] /\ keys[k] # None
      BY <2>4, <3>1 DEF Recorded, HistoryInv, Refuse
    <3>3. ~WindowOver(keys[k]) /\ UsedUp(keys[k])
      BY <2>4 DEF Refuse
    <3>4. ~WindowOver(keys[k])' /\ UsedUp(keys[k])'
      BY <1>1, <3>1, <3>3 DEF WindowOver, UsedUp
    <3>5. QED
      BY <1>1, <3>1, <3>2, <3>3, <3>4 DEF HistoryInv
  <2>5. QED
    BY <2>1, <2>2, <2>3, <2>4 DEF Allow
<1>4. admits' \in [Keys -> Seq(Admissions)]
  <2>1. ASSUME NEW u \in Keys PROVE admits'[u] \in Seq(Admissions)
    <3>1. CASE u = k
      BY <1>3, <3>1
    <3>2. CASE u # k
      BY <1>1, <1>2, <3>2, NoAdmissions
    <3>3. QED
      BY <3>1, <3>2
  <2>2. QED
    BY <2>1 DEF Recorded
<1>5. ASSUME NEW u \in Keys
      PROVE  IF keys'[u] = None THEN admits'[u] = <<>> ELSE EntryRecorded(keys'[u], admits'[u])
  BY <1>2, <1>3 DEF HistoryInv
<1>6. Refused' => ~WindowOver(keys[decision.key])' /\ UsedUp(keys[decision.key])'
  <2>1. decision'.key = k
    BY DEF Allow, AdmitNew, AdmitAgain, AdmitCounted, Refuse, Decided
  <2>2. QED
    BY <1>3, <2>1 DEF WindowOver, UsedUp
<1>7. QED
  BY <1>1, <1>4, <1>5, <1>6 DEF HistoryInv, EntryRecorded

LEMMA HistoryStep == HistoryInv /\ [LimiterNext /\ Recorded]_historyVars => HistoryInv'
<1> SUFFICES ASSUME HistoryInv, [LimiterNext /\ Recorded]_historyVars
             PROVE  HistoryInv'
  OBVIOUS
<1>1. LimiterInv'
  BY LimiterStep DEF HistoryInv, historyVars
<1>2. ASSUME NEW k \in Keys, Allow(k), Recorded
      PROVE  HistoryInv'
  BY <1>2, AllowRecorded
<1>3. CASE (Tick \/ Restart) /\ Recorded
  <2>1. decision' = None /\ ~Refused'
    BY <1>3 DEF Tick, Restart, Refused
  <2>2. ASSUME NEW k \in Keys
        PROVE  /\ admits'[k] = IF keys'[k] = None THEN <<>> ELSE admits[k]
               /\ keys'[k] = None \/ keys'[k] = keys[k]
    BY <1>3, <2>1 DEF Recorded, Tick, Restart
  <2>3. admits' \in [Keys -> Seq(Admissions)]
    <3>1. \A k \in Keys : admits'[k] \in Seq(Admissions)
      BY <2>2, NoAdmissions DEF HistoryInv
    <3>2. QED
      BY <1>3, <3>1 DEF Recorded
  <2>4. \A k \in Keys : IF keys'[k] = None THEN admits'[k] = <<>>
                        ELSE EntryRecorded(keys'[k], admits'[k])
    BY <2>2 DEF HistoryInv
  <2>5. QED
    BY <1>1, <2>1, <2>3, <2>4 DEF HistoryInv, EntryRecorded
<1>4. CASE UNCHANGED historyVars
  BY <1>1, <1>4
     DEF historyVars, limiterVars, HistoryInv, Refused, WindowOver, UsedUp, EntryRecorded
<1>5. QED
  BY <1>2, <1>3, <1>4 DEF LimiterNext

(* The invariant of the limiter and its history.                           *)
THEOREM HistoryInvariance == HistorySpec => []HistoryInv
<1>1. HistoryInit => HistoryInv
  <2> SUFFICES ASSUME HistoryInit PROVE HistoryInv
    OBVIOUS
  <2>1. LimiterInv
    <3>1. Tracked = {}
      BY DEF HistoryInit, LimiterInit, Tracked
    <3>2. QED
      BY <3>1, FS_EmptySet, LimiterAssumption
         DEF HistoryInit, LimiterInit, LimiterInv, LimiterTypeOK, KeysBounded, WaitSuffices, Refused
  <2>2. QED
    BY <2>1 DEF HistoryInit, LimiterInit, HistoryInv, Refused
<1>2. QED
  BY <1>1, HistoryStep, PTL DEF HistorySpec

(* Who is refused has had its rate of this window, whatever the cap threw   *)
(* out meanwhile (Allow, makeRoom).                                        *)
THEOREM RefusalsAreDeserved == HistorySpec => []RefusalDeserved
<1>1. HistoryInv => RefusalDeserved
  <2> SUFFICES ASSUME HistoryInv, Refused
               PROVE  LET a == admits[decision.key]
                      IN /\ Len(a) >= Rate
                         /\ \A i \in Len(a) - Rate + 1..Len(a) : clock - a[i].at < Window
    BY DEF RefusalDeserved
  <2> DEFINE k == decision.key
             a == admits[k]
             e == keys[k]
  <2>1. k \in Keys /\ e \in Entries /\ e # None /\ a \in Seq(Admissions) /\ e.count = Rate
    BY LimiterAssumption
       DEF HistoryInv, LimiterInv, LimiterTypeOK, Refused, Decisions, Tracked, UsedUp
  <2>2. /\ e.windowStart \in Nat /\ clock \in Nat /\ clock - e.windowStart < Window
        /\ EntryRecorded(e, a)
    BY <2>1, LimiterAssumption DEF HistoryInv, LimiterInv, LimiterTypeOK, WindowOver, Entries
  <2> HIDE DEF a, e, k
  <2>3. Len(a) \in Nat /\ Len(a) >= Rate
    BY <2>1, <2>2, LimiterAssumption DEF EntryRecorded
  <2>4. ASSUME NEW i \in Len(a) - Rate + 1..Len(a)
        PROVE  clock - a[i].at < Window
    <3>1. i \in 1..Len(a)
      BY <2>3, LimiterAssumption
    <3>2. a[i].at \in Nat /\ a[i].window \in Nat
      BY <2>1, <3>1, Admitted
    <3>3. a[i].window = e.windowStart /\ a[i].window <= a[i].at
      BY <2>1, <2>2, <3>1 DEF EntryRecorded
    <3>4. QED
      BY <2>2, <3>2, <3>3, LimiterAssumption
  <2>5. QED
    BY <2>3, <2>4 DEF a, k
<1>2. QED
  BY <1>1, HistoryInvariance, PTL

(* From the middle of one window to a later one with a third between.      *)
LEMMA TwoWindowsOn ==
  ASSUME NEW early \in Nat, NEW first \in Nat, NEW second \in Nat, NEW third \in Nat,
         NEW late \in Nat,
         early < first + Window, first + Window <= second, second + Window <= third,
         third <= late
  PROVE  late - early > Window
  BY LimiterAssumption

(* The bound a client can count on, and the server: across the border of    *)
(* two windows no more than twice the rate (Allow).                        *)
THEOREM TwiceTheRateAtMost == HistorySpec => []AtMostTwiceTheRate
<1>1. HistoryInv => AtMostTwiceTheRate
  <2> SUFFICES ASSUME HistoryInv, NEW k \in Keys, NEW i \in 1..Len(admits[k]) - 2 * Rate
               PROVE  admits[k][i + 2 * Rate].at - admits[k][i].at > Window
    BY DEF AtMostTwiceTheRate
  <2> DEFINE a == admits[k]
             j == i + Rate
             l == j + Rate
  <2>1. a \in Seq(Admissions) /\ Len(a) \in Nat /\ i \in 1..Len(a)
    BY LimiterAssumption DEF HistoryInv
  <2>2. EntryRecorded(keys[k], a)
    <3>1. a # <<>>
      BY <2>1
    <3>2. QED
      BY <3>1 DEF HistoryInv
  <2>3. /\ i \in 1..Len(a) - Rate /\ j \in 1..Len(a) - Rate
        /\ j \in 1..Len(a) /\ l \in 1..Len(a) /\ l = i + 2 * Rate
    BY <2>1, LimiterAssumption
  <2> HIDE DEF a
  <2>4. \A n \in 1..Len(a) : a[n].at \in Nat /\ a[n].window \in Nat
    BY <2>1, Admitted
  <2>5. a[i].at < a[i].window + Window /\ a[l].window <= a[l].at
    BY <2>1, <2>2, <2>3 DEF EntryRecorded
  <2>6. a[i].window + Window <= a[j].window /\ a[j].window + Window <= a[l].window
    BY <2>2, <2>3 DEF EntryRecorded
  <2>7. /\ a[i].at \in Nat /\ a[i].window \in Nat /\ a[j].window \in Nat
        /\ a[l].at \in Nat /\ a[l].window \in Nat
    BY <2>1, <2>3, <2>4
  <2> HIDE DEF j, l
  <2>8. a[l].at - a[i].at > Window
    BY <2>5, <2>6, <2>7, TwoWindowsOn
  <2>9. QED
    BY <2>3, <2>8 DEF a
<1>2. QED
  BY <1>1, HistoryInvariance, PTL

--------------------------------------------------------------------------------
(* A direct peer is its own key: it is not the proxy, so no header counts.  *)
LEMMA DirectKey ==
  ASSUME NEW sender \in (Addresses \ {Proxy}) \cup {Junk}, NEW header
  PROVE  /\ ClientIP(sender, header) = BucketIP(DirectIP(sender))
         /\ ClientIP(sender, header) \in Keys
<1>1. ~IsTrustedHop(sender)
  BY FrontAssumption DEF IsTrustedHop
<1>2. ClientIP(sender, header) = BucketIP(DirectIP(sender))
  BY <1>1 DEF ClientIP
<1>3. BucketIP(DirectIP(sender)) \in Keys
  BY FrontAssumption DEF BucketIP, DirectIP
<1>4. QED
  BY <1>2, <1>3

(* What the proxy sends on is keyed by the client the proxy saw.           *)
LEMMA ProxiedKey ==
  ASSUME NEW sender \in Addresses \ {Proxy}
  PROVE  /\ ClientIP(Proxy, Observed(sender)) = BucketIP(DirectIP(sender))
         /\ ClientIP(Proxy, Observed(sender)) \in Keys
<1> DEFINE header == Observed(sender)
           valid  == {i \in DOMAIN header : header[i] \in Addresses}
<1>1. DOMAIN header = {1} /\ header[1] = sender
  BY DEF Observed
<1>2. valid = {1}
  BY <1>1
<1>3. Max(valid) = 1
  BY <1>2 DEF Max
<1>4. ParseForwardedFor(header) = sender
  BY <1>1, <1>2, <1>3 DEF ParseForwardedFor
<1>5. ClientIP(Proxy, header) = BucketIP(DirectIP(sender))
  BY <1>4, FrontAssumption DEF ClientIP, IsTrustedHop, DirectIP
<1>6. BucketIP(DirectIP(sender)) \in Keys
  BY FrontAssumption DEF BucketIP, DirectIP
<1>7. QED
  BY <1>5, <1>6

(* A step of the front is a creation under its sender's key, a step of the *)
(* limiter alone, or one that leaves the limiter as it is.                 *)
LEMMA FrontStep ==
  ASSUME FrontNext
  PROVE  \/ \E sender \in Addresses \cup {Junk} :
              Create(sender, BucketIP(DirectIP(sender))) /\ BucketIP(DirectIP(sender)) \in Keys
         \/ Passes
         \/ UNCHANGED historyVars /\ \E outcome : Replied(None, outcome)
<1>1. CASE \E sender \in (Addresses \ {Proxy}) \cup {Junk}, header \in Headers :
             CreateDirect(sender, header)
  <2>1. PICK sender \in (Addresses \ {Proxy}) \cup {Junk}, header \in Headers :
             CreateDirect(sender, header)
    BY <1>1
  <2>2. QED
    BY <2>1, DirectKey DEF CreateDirect
<1>2. CASE \E sender \in Addresses \ {Proxy} : CreateProxied(sender)
  <2>1. PICK sender \in Addresses \ {Proxy} : CreateProxied(sender)
    BY <1>2
  <2>2. QED
    BY <2>1, ProxiedKey DEF CreateProxied
<1>3. CASE Misdirected
  BY <1>3 DEF Misdirected
<1>4. CASE Other
  BY <1>4 DEF Other
<1>5. CASE Passes
  BY <1>5
<1>6. QED
  BY <1>1, <1>2, <1>3, <1>4, <1>5 DEF FrontNext

LEMMA FrontStepIsLimiters ==
  ASSUME FrontNext PROVE LimiterNext \/ UNCHANGED limiterVars
<1>1. CASE \E sender \in Addresses \cup {Junk} :
             Create(sender, BucketIP(DirectIP(sender))) /\ BucketIP(DirectIP(sender)) \in Keys
  BY <1>1 DEF Create, LimiterNext
<1>2. CASE Passes
  BY <1>2 DEF Passes, LimiterNext
<1>3. CASE UNCHANGED historyVars
  BY <1>3 DEF historyVars
<1>4. QED
  BY <1>1, <1>2, <1>3, FrontStep

(* Whatever comes to the front, the limiter behind it sees calls of Allow,  *)
(* time and restarts, as RateLimiter has them: what is proved there holds   *)
(* of the server.                                                          *)
THEOREM FrontDrivesLimiter == FrontSpec => LimiterSpec
<1>1. FrontInit => LimiterInit
  BY DEF FrontInit, HistoryInit
<1>2. [FrontNext]_frontVars => [LimiterNext]_limiterVars
  BY FrontStepIsLimiters DEF frontVars, historyVars
<1>3. QED
  BY <1>1, <1>2, PTL DEF FrontSpec, LimiterSpec

(* The same, with what the history records of it: every creation is in it. *)
THEOREM FrontDrivesHistory == FrontSpec => HistorySpec
<1>1. FrontInit => HistoryInit
  BY DEF FrontInit
<1>2. [FrontNext]_frontVars => [LimiterNext /\ Recorded]_historyVars
  BY FrontStep DEF frontVars, Create, Passes, LimiterNext
<1>3. QED
  BY <1>1, <1>2, PTL DEF FrontSpec, HistorySpec

(* The cap, the limit and its bound, of the server as a whole: no header    *)
(* and no request of another kind gets a client more, or another one less. *)
THEOREM FrontLimits == FrontSpec => [](KeysBounded /\ RefusalDeserved /\ AtMostTwiceTheRate)
  BY FrontDrivesLimiter, FrontDrivesHistory, CapHolds, RefusalsAreDeserved,
     TwiceTheRateAtMost, PTL

(* Each creation counts against the address it was sent from, over any      *)
(* addresses and any headers that clients make up.                         *)
THEOREM SendersKeys == FrontSpec => []KeyIsSenders
<1>1. FrontInit => KeyIsSenders
  BY DEF FrontInit, KeyIsSenders
<1>2. KeyIsSenders /\ [FrontNext]_frontVars => KeyIsSenders'
  <2>1. SUFFICES ASSUME KeyIsSenders, [FrontNext]_frontVars PROVE KeyIsSenders'
    OBVIOUS
  <2>2. CASE UNCHANGED frontVars
    BY <2>1, <2>2 DEF frontVars, historyVars, limiterVars, KeyIsSenders
  <2>3. CASE FrontNext
    <3>1. CASE \E sender \in Addresses \cup {Junk} :
                 Create(sender, BucketIP(DirectIP(sender))) /\ BucketIP(DirectIP(sender)) \in Keys
      <4>1. PICK sender \in Addresses \cup {Junk} : Create(sender, BucketIP(DirectIP(sender)))
        BY <3>1
      <4>2. decision'.key = BucketIP(DirectIP(sender)) /\ reply'.sender = sender
        BY <4>1 DEF Create, Allow, AdmitNew, AdmitAgain, AdmitCounted, Refuse, Decided, Replied
      <4>3. QED
        BY <4>2 DEF KeyIsSenders
    <3>2. CASE Passes
      BY <3>2 DEF Passes, KeyIsSenders
    <3>3. CASE UNCHANGED historyVars /\ \E outcome : Replied(None, outcome)
      BY <3>3 DEF Replied, KeyIsSenders
    <3>4. QED
      BY <2>3, <3>1, <3>2, <3>3, FrontStep
  <2>4. QED
    BY <2>1, <2>2, <2>3
<1>3. QED
  BY <1>1, <1>2, PTL DEF FrontSpec

(* The types of the front and of the limiter behind it.                    *)
THEOREM FrontTypeCorrect == FrontSpec => []FrontTypeOK
<1> DEFINE ReplyTyped == reply \in Replies \cup {None}
<1>1. Routed(Public, "POST", "/api/clips") \in Served
      /\ \A method \in Methods, path \in Paths : Routed(Public, method, path) \in Served
  BY DEF Routed, spaFileServer, Served
<1>2. FrontInit => ReplyTyped
  BY DEF FrontInit
<1>3. ReplyTyped /\ [FrontNext]_frontVars => ReplyTyped'
  <2> SUFFICES ASSUME ReplyTyped, [FrontNext]_frontVars PROVE ReplyTyped'
    OBVIOUS
  <2>1. ASSUME NEW sender \in Addresses \cup {Junk}, NEW key, Create(sender, key)
        PROVE  ReplyTyped'
    BY <2>1 DEF Create, Replied, Recovered, Replies, Outcomes, Served
  <2>2. CASE Other
    <3>1. PICK outcome \in OtherOutcomes : \E final \in Recovered(outcome) : Replied(None, final)
      BY <2>2 DEF Other
    <3>2. outcome \in Served
      BY <1>1, <3>1 DEF OtherOutcomes
    <3>3. QED
      BY <3>1, <3>2 DEF Recovered, Replied, Replies, Outcomes
  <2>3. CASE Misdirected
    BY <2>3 DEF Misdirected, Replied, Replies, Outcomes
  <2>4. CASE Passes
    BY <2>4 DEF Passes
  <2>5. CASE UNCHANGED frontVars
    BY <2>5 DEF frontVars
  <2>6. QED
    BY <2>1, <2>2, <2>3, <2>4, <2>5 DEF FrontNext, CreateDirect, CreateProxied
<1>4. LimiterInv /\ ReplyTyped => FrontTypeOK
  BY DEF LimiterInv, FrontTypeOK
<1>5. QED
  BY <1>2, <1>3, <1>4, FrontDrivesLimiter, LimiterInvariance, PTL DEF FrontSpec
================================================================================
