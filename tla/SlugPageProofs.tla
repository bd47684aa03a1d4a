----------------------------- MODULE SlugPageProofs -----------------------------
(***************************************************************************)
(* Proofs about SlugPage.  Whose clip a settled page shows follows from     *)
(* whose reads it still heeds; how long it shows it follows from how far    *)
(* the page's notion of the server's time may lag, and from the interval   *)
(* that belongs to the state on show.                                      *)
(***************************************************************************)
EXTENDS SlugPage, TLAPS

PageTypes ==
  /\ clock \in Nat /\ offset \in Int
  /\ expires \in [Slugs -> Nat]
  /\ route \in Slugs
  /\ state \in PageStates /\ remaining \in Int \cup {None}
  /\ shown \in [slug : Slugs, state : PageStates]
  /\ effects \subseteq {"load", "tick"}
  /\ reads \subseteq Reads
  /\ ticker \in Tickers \cup {None}

(* Once the load of the last render has run, only its read is heeded, and  *)
(* what came before it is gone from the state.                             *)
Own ==
  "load" \notin effects =>
    /\ \A r \in reads : r.kind = "load" /\ ~r.cancelled => r.slug = shown.slug
    /\ state.kind \in {"ready", "error"} => state.of = shown.slug

(* The page takes the server's time for what it was at most MaxDelay ago.  *)
Lagging ==
  /\ \A r \in reads : r.at = "stamped" =>
       r.serverTime <= clock /\ clock <= r.serverTime + MaxDelay
  /\ state.kind = "ready" => state.skew + offset <= 0 /\ -MaxDelay <= state.skew + offset

CountsDown(p) == ticker # None /\ ticker.expires = p.expires /\ ticker.skew = p.skew

(* The interval belongs to the state on show.                              *)
Interval ==
  /\ effects = {} => IF shown.state.kind = "ready" THEN CountsDown(shown.state)
                                                   ELSE ticker = None
  /\ ticker # None => clock <= ticker.next /\ ticker.next <= clock + Period

TimeLeft(p) == Left(p.expires, p.skew) > 0

(* A clip that is ready still has time left, or had at the last tick of    *)
(* its interval.                                                           *)
Counted ==
  state.kind = "ready" =>
    /\ \/ TimeLeft(state)
       \/ CountsDown(state) /\ ticker.next + offset + state.skew < state.expires + Period
    /\ effects # {} => state = shown.state \/ TimeLeft(state)

PageInv == PageTypes /\ Own /\ Lagging /\ Interval /\ Counted

--------------------------------------------------------------------------------
LEMMA PageInitInv == PageInit => PageInv
  BY SlugPageAssumption
  DEF PageInit, PageInv, PageTypes, Own, Lagging, Interval, Counted, Loading, PageStates, Reads

LEMMA PageRecords ==
  /\ \A kind \in {"load", "again"}, s \in Slugs :
       /\ Asked(kind, s) \in Reads /\ Asked(kind, s).at = "server"
       /\ Asked(kind, s).kind = kind /\ Asked(kind, s).slug = s
  /\ Loading \in PageStates /\ Loading.kind = "loading"
  /\ \A s \in Slugs \cup {None} :
       ExpiredAs(s) \in PageStates /\ ExpiredAs(s).kind = "expired"
  BY DEF Asked, ReadOf, Reads, Loading, ExpiredAs, PageStates

(* What a tick leaves: the state as it was, with time left, or expired.     *)
LEMMA TicksEffect ==
  ASSUME PageTypes, NEW e \in Nat, NEW k \in Int, NEW s \in Slugs, NEW of \in Slugs \cup {None},
         NEW base \in SUBSET Reads, NEW was \in PageStates, Ticks(e, k, s, of, base, was)
  PROVE  /\ state' \in PageStates /\ remaining' \in Int \cup {None} /\ reads' \subseteq Reads
         /\ \A r \in reads' : r \in base \/ r = Asked("again", s)
         /\ \/ state' = was /\ Left(e, k) > 0
            \/ state'.kind = "expired"
PROOF
  <1>1. Left(e, k) \in Int
    BY DEF Left, DateNow, PageTypes
  <1>2. CASE Left(e, k) <= 0
    BY <1>1, <1>2, PageRecords DEF Ticks
  <1>3. CASE ~(Left(e, k) <= 0)
    BY <1>1, <1>3 DEF Ticks
  <1> QED BY <1>2, <1>3

(* A read goes on at the server or in the network.                         *)
LEMMA OutsideKeeps ==
  ASSUME PageInv, NEW r \in reads,
         Query(r) \/ Stamp(r) \/ ReadFails(r)
  PROVE  PageInv'
PROOF
  <1> USE SlugPageAssumption
  <1> DEFINE Follows(r2) ==
        /\ r2 \in Reads
        /\ r2.kind = r.kind /\ r2.slug = r.slug /\ r2.cancelled = r.cancelled
        /\ r2.at = "stamped" => r2.serverTime = clock
  <1>1. r \in Reads /\ clock \in Nat /\ expires \in [Slugs -> Nat]
    BY DEF PageInv, PageTypes
  <1>2. /\ Follows([r EXCEPT !.at = "missing"]) /\ Follows([r EXCEPT !.at = "failed"])
        /\ Follows([r EXCEPT !.at = "found", !.expires = expires[r.slug]])
        /\ Follows([r EXCEPT !.at = "stamped", !.serverTime = clock])
    BY <1>1 DEF Reads
  <1>3. PICK r2 : ReadBecomes(r, r2) /\ Follows(r2)
    <2> HIDE DEF Follows
    <2> QED BY <1>2 DEF Query, Stamp, ReadFails
  <1>4. PageTypes' /\ Own'
    BY <1>3 DEF ReadBecomes, PageInv, PageTypes, Own, server
  <1>5. Lagging'
    BY <1>3 DEF ReadBecomes, PageInv, PageTypes, Lagging, Reads, server
  <1>6. Interval' /\ Counted'
    BY <1>3 DEF ReadBecomes, PageInv, Interval, Counted, CountsDown, TimeLeft, Left, DateNow, server
  <1> QED BY <1>4, <1>5, <1>6 DEF PageInv

LEMMA AdvanceKeeps ==
  ASSUME PageInv, Advance
  PROVE  PageInv'
PROOF
  <1> USE SlugPageAssumption
  <1>1. PageTypes' /\ Own'
    BY DEF Advance, PageInv, PageTypes, Own
  <1>2. Lagging' /\ Interval'
    BY DEF Advance, Busy, PageInv, PageTypes, Lagging, Interval, CountsDown, Tickers, Reads
  <1>3. Counted'
    <2>1. effects = {} /\ state = shown.state
      BY DEF Advance, Busy, RenderOwed
    <2>2. state.kind = "ready" => /\ CountsDown(state)
                                  /\ ticker.next + offset + state.skew < state.expires + Period
      BY <2>1 DEF PageInv, PageTypes, Interval, Counted, CountsDown, TimeLeft, Left, DateNow,
                  Tickers, PageStates
    <2> QED BY <2>1, <2>2 DEF Advance, Counted, CountsDown
  <1> QED BY <1>1, <1>2, <1>3 DEF PageInv

LEMMA TickKeeps ==
  ASSUME PageInv, Tick
  PROVE  PageInv'
PROOF
  <1> USE SlugPageAssumption
  <1>1. /\ ticker \in Tickers /\ ticker.next <= clock
        /\ Ticks(ticker.expires, ticker.skew, ticker.slug, ticker.of, reads, state)
        /\ ticker' = [ticker EXCEPT !.next = clock + Period]
        /\ UNCHANGED <<server, route, shown, effects>>
    BY DEF Tick, NextTick, PageInv, PageTypes
  <1>2. /\ state' \in PageStates /\ remaining' \in Int \cup {None} /\ reads' \subseteq Reads
        /\ \A r \in reads' : r \in reads \/ r = Asked("again", ticker.slug)
        /\ \/ state' = state /\ Left(ticker.expires, ticker.skew) > 0
           \/ state'.kind = "expired"
    <2>1. /\ ticker.expires \in Nat /\ ticker.skew \in Int /\ ticker.slug \in Slugs
          /\ ticker.of \in Slugs \cup {None}
      BY <1>1 DEF Tickers
    <2>2. PageTypes /\ reads \in SUBSET Reads /\ state \in PageStates
      BY DEF PageInv, PageTypes
    <2> QED BY <1>1, <2>1, <2>2, TicksEffect
  <1>3. PageTypes' /\ ticker' # None
    BY <1>1, <1>2 DEF PageInv, PageTypes, Tickers, server
  <1>4. Own' /\ Lagging'
    BY <1>1, <1>2 DEF PageInv, PageTypes, Own, Lagging, server, Asked, ReadOf
  <1>5. Interval'
    BY <1>1, <1>3 DEF PageInv, PageTypes, Interval, CountsDown, Tickers, server
  <1>6. Counted'
    <2>1. CASE state'.kind = "expired"
      BY <2>1 DEF Counted
    <2>2. CASE state' = state /\ Left(ticker.expires, ticker.skew) > 0
      <3>1. state.kind = "ready" => TimeLeft(state)
        BY <2>2 DEF PageInv, Counted, CountsDown, TimeLeft
      <3> QED BY <1>1, <2>2, <3>1 DEF Counted, TimeLeft, Left, DateNow, server
    <2> QED BY <1>2, <2>1, <2>2
  <1> QED BY <1>3, <1>4, <1>5, <1>6 DEF PageInv

(* Answers: a heeded clip makes a state with time left.                    *)
LEMMA DeliveryKeeps ==
  ASSUME PageInv, NEW r \in reads, DeliverClip(r) \/ DeliverError(r)
  PROVE  PageInv'
PROOF
  <1> USE SlugPageAssumption
  <1>1. /\ UNCHANGED <<server, route, shown, effects, ticker>>
        /\ reads' = reads \ {r} /\ r \in Reads
    BY DEF DeliverClip, DeliverError, PageInv, PageTypes
  <1>2. /\ state' \in PageStates /\ remaining' \in Int \cup {None}
        /\ \/ state' = state
           \/ state'.kind = "expired"
           \/ /\ state'.kind = "error" /\ state'.of = r.slug /\ r.kind = "load" /\ ~r.cancelled
           \/ /\ state'.kind = "ready" /\ state'.of = r.slug /\ r.kind = "load" /\ ~r.cancelled
              /\ r.at = "stamped" /\ state'.skew = r.serverTime - (clock + offset)
              /\ TimeLeft(state')
    BY <1>1 DEF DeliverClip, DeliverError, PageInv, PageTypes, Reads, PageStates, Heeds, Skew,
                Left, DateNow, TimeLeft, ExpiredAs, Failed, Ready
  <1>3. PageTypes' /\ Interval'
    BY <1>1, <1>2 DEF PageInv, PageTypes, Interval, CountsDown, server
  <1>4. Own'
    BY <1>1, <1>2 DEF PageInv, Own, server
  <1>5. Lagging'
    BY <1>1, <1>2 DEF PageInv, PageTypes, Lagging, Reads, server
  <1>6. Counted'
    BY <1>1, <1>2 DEF PageInv, PageTypes, Counted, CountsDown, TimeLeft, Left, DateNow, server
  <1> QED BY <1>3, <1>4, <1>5, <1>6 DEF PageInv

LEMMA RenderKeeps ==
  ASSUME PageInv, Render \/ \E s \in Slugs : Navigate(s)
  PROVE  PageInv'
PROOF
  <1>1. CASE \E s \in Slugs : Navigate(s)
    BY <1>1 DEF Navigate, PageInv, PageTypes, Own, Lagging, Interval, Counted, CountsDown,
                TimeLeft, Left, DateNow, server
  <1>2. CASE Render
    <2>1. /\ effects = {} /\ effects' # {} /\ effects' \subseteq {"load", "tick"}
          /\ "load" \notin effects' => route = shown.slug
          /\ shown'.slug = route /\ shown'.state = state
          /\ shown' = [slug |-> route, state |-> state]
          /\ UNCHANGED <<server, route, state, remaining, reads, ticker>>
      BY <1>2 DEF Render
    <2>2. PageTypes'
      BY <2>1 DEF PageInv, PageTypes, server
    <2>3. Own' /\ Lagging' /\ Interval'
      BY <2>1 DEF PageInv, Own, Lagging, Interval, CountsDown, server
    <2>4. Counted'
      BY <2>1 DEF PageInv, Counted, CountsDown, TimeLeft, Left, DateNow, server
    <2> QED BY <2>2, <2>3, <2>4 DEF PageInv
  <1> QED BY <1>1, <1>2

(* The reads a cleanup leaves are those it found, some of them cancelled.   *)
LEMMA CleanupEffect ==
  ASSUME PageTypes, NEW kinds
  PROVE  /\ Cancelled(kinds) \subseteq Reads
         /\ \A r \in Cancelled(kinds) : \E q \in reads :
              /\ r.kind = q.kind /\ r.slug = q.slug /\ r.at = q.at /\ r.serverTime = q.serverTime
              /\ ~r.cancelled => ~q.cancelled /\ q.kind \notin kinds
PROOF
  <1> SUFFICES ASSUME NEW r \in Cancelled(kinds)
               PROVE  /\ r \in Reads
                      /\ \E q \in reads :
                           /\ r.kind = q.kind /\ r.slug = q.slug /\ r.at = q.at
                           /\ r.serverTime = q.serverTime
                           /\ ~r.cancelled => ~q.cancelled /\ q.kind \notin kinds
    OBVIOUS
  <1>1. PICK q \in reads : r = [q EXCEPT !.cancelled = q.cancelled \/ q.kind \in kinds]
    BY DEF Cancelled
  <1> DEFINE flag == q.cancelled \/ q.kind \in kinds
  <1>2. flag \in BOOLEAN /\ q \in Reads
    BY DEF PageTypes
  <1>3. ~flag => ~q.cancelled /\ q.kind \notin kinds
    OBVIOUS
  <1> HIDE DEF flag
  <1>4. r = [q EXCEPT !.cancelled = flag]
    BY <1>1 DEF flag
  <1>5. r \in Reads /\ r.cancelled = flag
    BY <1>2, <1>4 DEF Reads
  <1>6. r.kind = q.kind /\ r.slug = q.slug /\ r.at = q.at /\ r.serverTime = q.serverTime
    BY <1>2, <1>4 DEF Reads
  <1> QED BY <1>3, <1>5, <1>6

LEMMA EffectsKeep ==
  ASSUME PageInv, RunEffects
  PROVE  PageInv'
PROOF
  <1> USE SlugPageAssumption
  <1> DEFINE loads == "load" \in effects
             kept  == Cancelled({"again"} \cup (IF loads THEN {"load"} ELSE {}))
             base  == IF loads THEN kept \cup {Asked("load", shown.slug)} ELSE kept
             was   == IF loads THEN Loading ELSE state
             page  == shown.state
  <1>1. /\ effects # {} /\ effects' = {}
        /\ UNCHANGED <<server, route, shown>>
        /\ \/ /\ page.kind = "ready"
              /\ Ticks(page.expires, page.skew, shown.slug, page.of, base, was)
              /\ ticker' = [expires |-> page.expires, skew |-> page.skew,
                            slug |-> shown.slug, of |-> page.of, next |-> clock + Period]
           \/ /\ page.kind # "ready"
              /\ state' = was /\ reads' = base
              /\ remaining' = IF loads THEN None ELSE remaining
              /\ ticker' = None
    BY DEF RunEffects, NoTicker, NextTick
  <1>2. /\ base \subseteq Reads /\ was \in PageStates
        /\ \A r \in base : /\ r.at = "stamped" => \E q \in reads : q.at = "stamped" /\ q.serverTime = r.serverTime
                           /\ r.kind = "load" /\ ~r.cancelled => r.slug = shown.slug
        /\ was.kind \in {"ready", "error"} => was = state /\ ~loads
    <2>1. PageTypes /\ shown.slug \in Slugs /\ state \in PageStates
      BY DEF PageInv, PageTypes
    <2>2. CASE loads
      <3>1. base = Cancelled({"again", "load"}) \cup {Asked("load", shown.slug)} /\ was = Loading
        BY <2>2
      <3>2. /\ Asked("load", shown.slug) \in Reads /\ Asked("load", shown.slug).at = "server"
            /\ Asked("load", shown.slug).slug = shown.slug
            /\ Loading \in PageStates /\ Loading.kind = "loading"
        BY <2>1, PageRecords
      <3> HIDE DEF base, was
      <3> QED BY <2>1, <3>1, <3>2, CleanupEffect
    <2>3. CASE ~loads
      <3>1. base = Cancelled({"again"}) /\ was = state
        BY <2>3
      <3>2. \A r \in reads : r.kind = "load" /\ ~r.cancelled => r.slug = shown.slug
        BY <2>3 DEF PageInv, Own
      <3> HIDE DEF base, was
      <3> QED BY <2>1, <2>3, <3>1, <3>2, CleanupEffect
    <2> QED BY <2>2, <2>3
  <1> HIDE DEF base, was
  <1>3. /\ state' \in PageStates /\ remaining' \in Int \cup {None} /\ reads' \subseteq Reads
        /\ \A r \in reads' : r \in base \/ r = Asked("again", shown.slug)
        /\ \/ state' = was /\ (page.kind = "ready" => TimeLeft(page))
           \/ state'.kind = "expired"
    <2>0. /\ PageTypes /\ shown.slug \in Slugs
          /\ page.expires \in Nat /\ page.skew \in Int /\ page.of \in Slugs \cup {None}
      BY DEF PageInv, PageTypes, PageStates
    <2>1. CASE page.kind = "ready"
      <3>1. Ticks(page.expires, page.skew, shown.slug, page.of, base, was)
        BY <1>1, <2>1
      <3>2. base \in SUBSET Reads /\ was \in PageStates
        BY <1>2
      <3> HIDE DEF page
      <3>3. /\ state' \in PageStates /\ remaining' \in Int \cup {None} /\ reads' \subseteq Reads
            /\ \A r \in reads' : r \in base \/ r = Asked("again", shown.slug)
            /\ \/ state' = was /\ Left(page.expires, page.skew) > 0
               \/ state'.kind = "expired"
        BY ONLY <2>0, <3>1, <3>2, TicksEffect
      <3> QED BY <3>3 DEF TimeLeft
    <2>2. CASE page.kind # "ready"
      BY <1>1, <1>2, <2>2 DEF PageInv, PageTypes
    <2> QED BY <2>1, <2>2
  <1>4. PageTypes' /\ Interval'
    BY <1>1, <1>3 DEF PageInv, PageTypes, Interval, CountsDown, Tickers, PageStates, server
  <1>5. Own'
    BY <1>1, <1>2, <1>3 DEF PageInv, Own, server, Asked, ReadOf
  <1>6. Lagging'
    BY <1>1, <1>2, <1>3 DEF PageInv, PageTypes, Lagging, server, Asked, ReadOf
  <1>7. Counted'
    <2>1. state'.kind = "ready" => state' = state /\ TimeLeft(state)
      BY <1>1, <1>2, <1>3 DEF PageInv, PageTypes, Counted
    <2> QED BY <1>1, <2>1 DEF Counted, TimeLeft, Left, DateNow, server
  <1> QED BY <1>4, <1>5, <1>6, <1>7 DEF PageInv

LEMMA PageStep == PageInv /\ [PageNext]_pageVars => PageInv'
PROOF
  <1> SUFFICES ASSUME PageInv, [PageNext]_pageVars PROVE PageInv'
    OBVIOUS
  <1>1. CASE UNCHANGED pageVars
    BY <1>1 DEF pageVars, PageInv, PageTypes, Own, Lagging, Interval, Counted, CountsDown,
                TimeLeft, Left, DateNow
  <1>2. CASE \E s \in Slugs : \E life \in Lives[s] : Create(s, life)
    <2>1. PICK s \in Slugs, life \in Nat : Create(s, life)
      BY <1>2, SlugPageAssumption
    <2> QED
      BY <2>1
      DEF Create, PageInv, PageTypes, Own, Lagging, Interval, Counted, CountsDown, TimeLeft,
          Left, DateNow
  <1>3. CASE Network
    BY <1>3, OutsideKeeps, DeliveryKeeps DEF Network
  <1>4. CASE Advance
    BY <1>4, AdvanceKeeps
  <1>5. CASE Tick
    BY <1>5, TickKeeps
  <1>6. CASE Render \/ \E s \in Slugs : Navigate(s)
    BY <1>6, RenderKeeps
  <1>7. CASE RunEffects
    BY <1>7, EffectsKeep
  <1> QED
    BY <1>1, <1>2, <1>3, <1>4, <1>5, <1>6, <1>7 DEF PageNext

(* The invariant holds in every reachable state of the page.               *)
THEOREM PageInvariance == PageSpec => []PageInv
  BY PageInitInv, PageStep, PTL DEF PageSpec

(* The read page is well-typed, and an interval runs on it exactly while   *)
(* it counts down (the tick effect and its cleanup).                       *)
THEOREM PageWellTyped == PageSpec => []PageTypeOK
PROOF
  <1>1. PageInv => PageTypeOK
    BY DEF PageInv, PageTypes, PageTypeOK, Interval, CountsDown, Busy, RenderOwed
  <1> QED BY <1>1, PageInvariance, PTL

(* For any number of slugs, any order of answers and any moment of leaving: *)
(* a settled page shows no other slug's clip (the cancelled flag).         *)
THEOREM OwnClipOnly == PageSpec => []ShowsItsOwn
PROOF
  <1>1. PageInv => ShowsItsOwn
    BY DEF PageInv, Own, ShowsItsOwn, Busy, RenderOwed
  <1> QED BY <1>1, PageInvariance, PTL

(* For any offset of the browser's clock, any delay and any period: the    *)
(* body is gone within a delay and a period of its expiry (skewMs, tick).  *)
THEOREM GoneInTime == PageSpec => []HiddenInTime
PROOF
  <1>1. PageInv => HiddenInTime
    BY SlugPageAssumption
    DEF PageInv, PageTypes, PageStates, Tickers, Lagging, Interval, Counted, CountsDown,
        TimeLeft, Left, DateNow, HiddenInTime
  <1> QED BY <1>1, PageInvariance, PTL
--------------------------------------------------------------------------------
(* What the page waits for.  While a load is heeded nothing is on show, and *)
(* once the load has reached the server nothing counts down any more: no    *)
(* tick and no second read of an earlier clip can meet the clip it brings. *)
Heeded(kind) == {r \in reads : r.kind = kind /\ ~r.cancelled}

Expecting ==
  /\ \A r, q \in Heeded("load") : r = q
  /\ Heeded("load") # {} => state.kind # "ready"
  /\ \A r \in Heeded("load") : r.at # "server" =>
       ticker = None /\ shown.state.kind # "ready" /\ Heeded("again") = {}
  /\ Heeded("load") # {} /\ Heeded("again") # {} =>
       shown.state.kind = "ready" \/ effects # {}

OnShow ==
  state.kind = "ready" =>
    /\ Heeded("again") = {}
    /\ ticker # None => CountsDown(state)
    /\ shown.state.kind = "ready" => state = shown.state

ShowInv == PageInv /\ Expecting /\ OnShow

(* A load that reaches the server finds the page settled.                  *)
LEMMA OutsideKeepsShow ==
  ASSUME ShowInv, NEW r \in reads, Query(r) \/ Stamp(r) \/ ReadFails(r)
  PROVE  Expecting' /\ OnShow'
PROOF
  <1> DEFINE Same(r2) == r2.kind = r.kind /\ r2.cancelled = r.cancelled
  <1>1. r \in Reads
    BY DEF ShowInv, PageInv, PageTypes
  <1>2. /\ Same([r EXCEPT !.at = "missing"]) /\ Same([r EXCEPT !.at = "failed"])
        /\ Same([r EXCEPT !.at = "found", !.expires = expires[r.slug]])
        /\ Same([r EXCEPT !.at = "stamped", !.serverTime = clock])
    BY <1>1 DEF Reads
  <1>3. PICK r2 : ReadBecomes(r, r2) /\ Same(r2)
    <2> HIDE DEF Same
    <2> QED BY <1>2 DEF Query, Stamp, ReadFails
  <1>4. /\ reads' = (reads \ {r}) \cup {r2}
        /\ UNCHANGED <<clock, offset, expires, route, state, remaining, shown, effects, ticker>>
    BY <1>3 DEF ReadBecomes, server
  <1>5. \A kind : Heeded(kind)' = IF r \in Heeded(kind) THEN (Heeded(kind) \ {r}) \cup {r2}
                                                       ELSE Heeded(kind)
    BY <1>3, <1>4 DEF Heeded
  <1>6. r \in Heeded("load") => ticker = None /\ shown.state.kind # "ready" /\ Heeded("again") = {}
    <2> SUFFICES ASSUME r \in Heeded("load")
                 PROVE  ticker = None /\ shown.state.kind # "ready" /\ Heeded("again") = {}
      OBVIOUS
    <2>1. CASE r.at # "server"
      BY <2>1 DEF ShowInv, Expecting
    <2>2. CASE r.at = "server"
      <3>1. effects = {} /\ shown = [slug |-> route, state |-> state]
        BY <2>2 DEF Query, Stamp, ReadFails, Busy, RenderOwed
      <3>2. shown.state = state /\ state.kind # "ready"
        BY <3>1 DEF ShowInv, Expecting
      <3> QED BY <3>1, <3>2 DEF ShowInv, Expecting, PageInv, Interval
    <2> QED BY <2>1, <2>2
  <1>7. r \in Heeded("load") => Heeded("load") = {r}
    BY DEF ShowInv, Expecting
  <1>8. r \in Heeded("load") => r \notin Heeded("again")
    BY DEF Heeded
  <1>9. OnShow'
    BY <1>4, <1>5 DEF ShowInv, OnShow, CountsDown
  <1>10. Expecting'
    <2>1. CASE r \in Heeded("load")
      <3>1. Heeded("load")' = {r2} /\ Heeded("again")' = {}
        BY <1>5, <1>6, <1>7, <1>8, <2>1
      <3> QED BY <1>4, <1>6, <2>1, <3>1 DEF ShowInv, Expecting
    <2>2. CASE r \notin Heeded("load")
      <3>1. Heeded("load")' = Heeded("load") /\ (Heeded("again")' = {} <=> Heeded("again") = {})
        BY <1>5, <2>2
      <3> QED BY <1>4, <3>1 DEF ShowInv, Expecting
    <2> QED BY <2>1, <2>2
  <1> QED BY <1>9, <1>10

(* A clip is on show once no load is awaited; an error awaits nothing more. *)
LEMMA DeliveryKeepsShow ==
  ASSUME ShowInv, NEW r \in reads, DeliverClip(r) \/ DeliverError(r)
  PROVE  /\ Expecting' /\ OnShow'
         /\ state.kind = "ready" => state' = state
PROOF
  <1>1. /\ UNCHANGED <<clock, offset, expires, route, shown, effects, ticker>>
        /\ reads' = reads \ {r} /\ r \in Reads /\ r.at # "server"
    BY DEF DeliverClip, DeliverError, ShowInv, PageInv, PageTypes, server
  <1>2. \/ state' = state
        \/ state'.kind \in {"expired", "error"} /\ (r \in Heeded("load") \/ r \in Heeded("again"))
        \/ state'.kind = "ready" /\ r \in Heeded("load")
    BY <1>1 DEF DeliverClip, DeliverError, Heeded, Heeds, Reads, ExpiredAs, Failed, Ready
  <1>3. \A kind : Heeded(kind)' = Heeded(kind) \ {r}
    BY <1>1 DEF Heeded
  <1>4. r \in Heeded("load") =>
          /\ state.kind # "ready" /\ ticker = None /\ shown.state.kind # "ready"
          /\ Heeded("again") = {} /\ Heeded("load")' = {}
    BY <1>1, <1>3 DEF ShowInv, Expecting
  <1>5. state.kind = "ready" => state' = state
    BY <1>2, <1>4 DEF ShowInv, OnShow
  <1>6. Expecting'
    BY <1>1, <1>2, <1>3, <1>4 DEF ShowInv, Expecting
  <1>7. OnShow'
    BY <1>1, <1>2, <1>3, <1>4, <1>5 DEF ShowInv, OnShow, CountsDown
  <1> QED BY <1>5, <1>6, <1>7

(* A tick leaves the clip, or it is over and something was on show.        *)
LEMMA TickKeepsShow ==
  ASSUME ShowInv, Tick
  PROVE  /\ Expecting' /\ OnShow'
         /\ state.kind = "ready" /\ state'.kind = "expired" => clock >= state.expires
PROOF
  <1>1. /\ ticker # None /\ ticker' = [ticker EXCEPT !.next = NextTick] /\ ticker \in Tickers
        /\ UNCHANGED <<clock, offset, expires, route, shown, effects>>
    BY DEF Tick, ShowInv, PageInv, PageTypes, server
  <1>2. ticker'.expires = ticker.expires /\ ticker'.skew = ticker.skew
    BY <1>1 DEF Tickers
  <1>3. shown.state.kind = "ready" \/ effects # {}
    BY <1>1 DEF ShowInv, PageInv, Interval
  <1>4. \A q \in Heeded("load") : q.at = "server"
    BY <1>1 DEF ShowInv, Expecting
  <1> DEFINE again == Asked("again", ticker.slug)
  <1>5. \/ /\ state' = state /\ reads' = reads
        \/ /\ state'.kind = "expired" /\ reads' = reads \cup {again}
           /\ Left(ticker.expires, ticker.skew) <= 0
    BY DEF Tick, Ticks, ExpiredAs
  <1>6. again.kind = "again"
    BY DEF Asked, ReadOf
  <1> HIDE DEF again
  <1>7. Heeded("load")' = Heeded("load")
    BY <1>5, <1>6 DEF Heeded
  <1>8. CASE state' = state /\ reads' = reads
    <2>1. \A kind : Heeded(kind)' = Heeded(kind)
      BY <1>8 DEF Heeded
    <2>2. Expecting' /\ OnShow'
      BY <1>1, <1>2, <1>4, <1>8, <2>1 DEF ShowInv, Expecting, OnShow, CountsDown
    <2>3. ~(state.kind = "ready" /\ state'.kind = "expired")
      BY <1>8
    <2> QED BY <2>2, <2>3
  <1>9. CASE state'.kind = "expired" /\ Left(ticker.expires, ticker.skew) <= 0
    <2>1. Expecting'
      BY <1>1, <1>3, <1>4, <1>7, <1>9 DEF ShowInv, Expecting
    <2>2. OnShow'
      BY <1>9 DEF OnShow
    <2>3. ASSUME state.kind = "ready" PROVE clock >= state.expires
      <3>1. Left(state.expires, state.skew) <= 0
        BY <1>1, <1>9, <2>3 DEF ShowInv, OnShow, CountsDown
      <3>2. /\ state.expires \in Nat /\ state.skew \in Int /\ offset \in Int /\ clock \in Nat
            /\ state.skew + offset <= 0
        BY <2>3 DEF ShowInv, PageInv, PageTypes, PageStates, Lagging
      <3> QED BY <3>1, <3>2 DEF Left, DateNow
    <2> QED BY <2>1, <2>2, <2>3
  <1> QED BY <1>5, <1>8, <1>9
(* A read that a cleanup did not cancel is as it was.                      *)
LEMMA SparedReads ==
  ASSUME PageTypes, NEW kinds, NEW r \in Cancelled(kinds), ~r.cancelled
  PROVE  r \in reads /\ r.kind \notin kinds
PROOF
  <1>1. PICK q \in reads : r = [q EXCEPT !.cancelled = q.cancelled \/ q.kind \in kinds]
    BY DEF Cancelled
  <1> DEFINE flag == q.cancelled \/ q.kind \in kinds
  <1>2. flag \in BOOLEAN /\ q \in Reads
    BY DEF PageTypes
  <1>3. ~flag => ~q.cancelled /\ q.kind \notin kinds
    OBVIOUS
  <1>4. r = [q EXCEPT !.cancelled = flag]
    BY <1>1
  <1> HIDE DEF flag
  <1>5. r.cancelled = flag
    BY <1>2, <1>4 DEF Reads
  <1>6. flag = FALSE /\ q.cancelled = FALSE
    BY <1>2, <1>3, <1>5 DEF Reads
  <1>7. r = q
    BY <1>2, <1>4, <1>6 DEF Reads
  <1> QED BY <1>3, <1>6, <1>7

(* The effects replace what is heeded: by the load of a new slug, or by the *)
(* second read of the clip whose time is up.                               *)
LEMMA EffectsKeepShow ==
  ASSUME ShowInv, RunEffects
  PROVE  /\ Expecting' /\ OnShow'
         /\ state.kind = "ready" /\ state'.kind = "expired" => clock >= state.expires
PROOF
  <1> DEFINE loads == "load" \in effects
             kinds == {"again"} \cup (IF loads THEN {"load"} ELSE {})
             kept  == Cancelled(kinds)
             load  == Asked("load", shown.slug)
             again == Asked("again", shown.slug)
             base  == IF loads THEN kept \cup {load} ELSE kept
             was   == IF loads THEN Loading ELSE state
             page  == shown.state
             Over  == Left(page.expires, page.skew) <= 0
  <1>1. /\ effects # {} /\ effects' = {}
        /\ UNCHANGED <<clock, offset, expires, route, shown>>
        /\ \/ /\ page.kind = "ready"
              /\ \/ state' = was /\ reads' = base
                 \/ state'.kind = "expired" /\ reads' = base \cup {again} /\ Over
              /\ ticker' = [expires |-> page.expires, skew |-> page.skew,
                            slug |-> shown.slug, of |-> page.of, next |-> clock + Period]
           \/ /\ page.kind # "ready" /\ state' = was /\ reads' = base /\ ticker' = None
    BY DEF RunEffects, NoTicker, NextTick, Ticks, ExpiredAs, server
  <1>2. /\ load.kind = "load" /\ load.at = "server" /\ again.kind = "again"
        /\ Loading.kind = "loading"
    BY DEF Asked, ReadOf, Loading
  <1>3. \A r \in kept : ~r.cancelled =>
          r \in reads /\ r.kind # "again" /\ (loads => r.kind # "load")
    <2>1. PageTypes
      BY DEF ShowInv, PageInv
    <2> QED BY <2>1, SparedReads
  <1>4. /\ loads => base = kept \cup {load} /\ was.kind = "loading"
        /\ ~loads => base = kept /\ was = state
    BY <1>2
  <1>5. reads' = base \/ reads' = base \cup {again}
    BY <1>1
  <1>6. /\ ticker' = None \/ (ticker'.expires = page.expires /\ ticker'.skew = page.skew)
        /\ page.kind # "ready" => ticker' = None /\ reads' = base
        /\ \/ state' = was /\ reads' = base
           \/ state'.kind = "expired" /\ page.kind = "ready" /\ Over
    BY <1>1
  <1> HIDE DEF loads, kept, load, again, base, was, page, Over
  <1>7. \A r \in Heeded("load")' : (loads => r = load) /\ (~loads => r \in Heeded("load"))
    <2>1. ASSUME NEW r \in reads', r.kind = "load", ~r.cancelled
          PROVE  (loads => r = load) /\ (~loads => r \in reads)
      <3>1. r \in base
        BY <1>2, <1>5, <2>1
      <3> QED BY <1>3, <1>4, <2>1, <3>1
    <2> QED BY <2>1 DEF Heeded
  <1>8. reads' = base => Heeded("again")' = {}
    <2>1. ASSUME NEW r \in base, r.kind = "again"
          PROVE  r.cancelled
      BY <1>2, <1>3, <1>4, <2>1
    <2> QED BY <2>1 DEF Heeded
  <1>9. state'.kind = "ready" =>
          /\ ~loads /\ state' = state /\ reads' = base
          /\ ticker' = None \/ page.kind = "ready"
    BY <1>4, <1>6
  <1>10. Expecting'
    <2>1. \A r, q \in Heeded("load")' : r = q
      BY <1>7 DEF ShowInv, Expecting
    <2>2. Heeded("load")' # {} => state'.kind # "ready"
      BY <1>7, <1>9 DEF ShowInv, Expecting
    <2>3. ASSUME NEW r \in Heeded("load")', r.at # "server"
          PROVE  ticker' = None /\ page.kind # "ready" /\ Heeded("again")' = {}
      <3>1. r \in Heeded("load") /\ page.kind # "ready"
        BY <1>2, <1>7, <2>3 DEF ShowInv, Expecting, page
      <3> QED BY <1>6, <1>8, <3>1
    <2>4. Heeded("again")' # {} => page.kind = "ready"
      BY <1>6, <1>8
    <2> QED BY <1>1, <2>1, <2>2, <2>3, <2>4 DEF Expecting, page
  <1>11. OnShow'
    <2> SUFFICES ASSUME state'.kind = "ready"
                 PROVE  OnShow'
      BY DEF OnShow
    <2>1. /\ state' = state /\ Heeded("again")' = {} /\ shown' = shown
          /\ ticker' = None \/ page.kind = "ready"
      BY <1>1, <1>6, <1>9, <1>8
    <2>2. page.kind = "ready" => state = page
      BY <2>1 DEF ShowInv, OnShow, page
    <2>3. ticker' # None => ticker'.expires = state.expires /\ ticker'.skew = state.skew
      BY <1>6, <2>1, <2>2
    <2> QED BY <2>1, <2>2, <2>3 DEF OnShow, CountsDown, page
  <1>12. ASSUME state.kind = "ready", state'.kind = "expired"
         PROVE  clock >= state.expires
    <2>1. page.kind = "ready" /\ Over
      BY <1>4, <1>6, <1>12
    <2>2. state = page
      BY <1>12, <2>1 DEF ShowInv, OnShow, page
    <2>3. /\ state.expires \in Nat /\ state.skew \in Int /\ offset \in Int /\ clock \in Nat
          /\ state.skew + offset <= 0
      BY <1>12 DEF ShowInv, PageInv, PageTypes, PageStates, Lagging
    <2>4. Left(state.expires, state.skew) <= 0
      BY <2>1, <2>2 DEF Over
    <2> QED BY <2>3, <2>4 DEF Left, DateNow
  <1> QED BY <1>10, <1>11, <1>12

(* Steps that touch neither what is heeded nor what is on show; a render    *)
(* shows the state, and owes an effect.                                    *)
LEMMA RestKeepsShow ==
  ASSUME ShowInv,
         \/ Advance \/ Render \/ UNCHANGED pageVars
         \/ \E s \in Slugs : Navigate(s) \/ \E life \in Lives[s] : Create(s, life)
  PROVE  Expecting' /\ OnShow' /\ state' = state
PROOF
  <1>1. state' = state /\ reads' = reads /\ ticker' = ticker
    BY DEF Advance, Render, Navigate, Create, pageVars
  <1>2. \A kind : Heeded(kind)' = Heeded(kind)
    BY <1>1 DEF Heeded
  <1>3. CASE Render
    <2>1. shown'.state = state /\ effects' # {}
      BY <1>3 DEF Render
    <2> QED BY <1>1, <1>2, <2>1 DEF ShowInv, Expecting, OnShow, CountsDown
  <1>4. CASE shown' = shown /\ effects' = effects
    BY <1>1, <1>2, <1>4 DEF ShowInv, Expecting, OnShow, CountsDown
  <1> QED BY <1>3, <1>4 DEF Advance, Navigate, Create, pageVars

LEMMA ShowStep ==
  ASSUME ShowInv, [PageNext]_pageVars
  PROVE  /\ ShowInv'
         /\ state.kind = "ready" /\ state'.kind = "expired" => clock >= state.expires
PROOF
  <1>1. PageInv'
    BY PageStep DEF ShowInv
  <1>2. CASE Network
    <2>1. PICK r \in reads : Query(r) \/ Stamp(r) \/ ReadFails(r) \/ DeliverClip(r) \/ DeliverError(r)
      BY <1>2 DEF Network
    <2>2. CASE Query(r) \/ Stamp(r) \/ ReadFails(r)
      <3>1. state' = state
        BY <2>2 DEF Query, Stamp, ReadFails, ReadBecomes
      <3> QED BY <1>1, <2>2, <3>1, OutsideKeepsShow DEF ShowInv
    <2>3. CASE DeliverClip(r) \/ DeliverError(r)
      BY <1>1, <2>3, DeliveryKeepsShow DEF ShowInv
    <2> QED BY <2>1, <2>2, <2>3
  <1>3. CASE Tick
    BY <1>1, <1>3, TickKeepsShow DEF ShowInv
  <1>4. CASE RunEffects
    BY <1>1, <1>4, EffectsKeepShow DEF ShowInv
  <1>5. CASE \/ Advance \/ Render \/ UNCHANGED pageVars
             \/ \E s \in Slugs : Navigate(s) \/ \E life \in Lives[s] : Create(s, life)
    BY <1>1, <1>5, RestKeepsShow DEF ShowInv
  <1> QED BY <1>2, <1>3, <1>4, <1>5 DEF PageNext

(* For any offset of the browser's clock, any delays and any order of the   *)
(* answers: no clip is taken away before it has expired (skewMs, tick).     *)
THEOREM NotGoneEarly == PageSpec => HiddenNotEarly
PROOF
  <1>1. PageInit => ShowInv
    <2> SUFFICES ASSUME PageInit PROVE ShowInv
      OBVIOUS
    <2>1. Heeded("load") = {} /\ Heeded("again") = {}
      BY DEF PageInit, Heeded
    <2> QED BY <2>1, PageInitInv DEF PageInit, Loading, ShowInv, Expecting, OnShow
  <1>2. ShowInv /\ [PageNext]_pageVars => ShowInv'
    BY ShowStep
  <1>3. ShowInv /\ [PageNext]_pageVars =>
          [state.kind = "ready" /\ state'.kind = "expired" => clock >= state.expires]_pageVars
    BY ShowStep
  <1> QED BY <1>1, <1>2, <1>3, PTL DEF PageSpec, HiddenNotEarly
================================================================================
