-------------------------------- MODULE HttpFront --------------------------------
(***************************************************************************)
(* What internal/httpapi decides of a request around its handler, in the    *)
(* order of the code: the host, the recovery from a panic, the pattern of   *)
(* the mux, the client's address, the limiter of creations, the embedded    *)
(* frontend.  The limiter of the availability hint is another instance     *)
(* with a map of its own and is left out.                                  *)
(***************************************************************************)
EXTENDS RateLimiterHistory, Routes, FiniteSetsExt

CONSTANTS
  Addresses,  \* IP addresses
  Bucket,     \* the key of an address: itself, or the IPv6 network it is in
  Unknown,    \* the key of what does not parse as an address
  Junk,       \* an entry that does not, a peer with a zone
  Proxy,      \* TRUSTED_PROXY
  Headers,    \* the X-Forwarded-For headers that clients make up, as sequences
  Public      \* PUBLIC_BASE_URL is set: one host, and the embedded frontend

ASSUME FrontAssumption ==
  /\ Unknown \in Keys
  /\ Bucket \in [Addresses -> Keys]
  /\ Proxy \in Addresses /\ Junk \notin Addresses /\ None \notin Addresses \cup {Junk}
  /\ Public \in BOOLEAN

VARIABLE reply    \* to the last request: what it came to, and whose it was

frontVars == <<historyVars, reply>>

Outcomes == Served \cup {"misdirected", "rate_limited", "internal_error"}
Replies  == [sender : Addresses \cup {Junk, None}, outcome : Outcomes]

FrontInit == HistoryInit /\ reply = None

--------------------------------------------------------------------------------
(* The client's address. *)

DirectIP(peer) == IF peer \in Addresses THEN peer ELSE None

(* The right-most entry that parses.                                       *)
ParseForwardedFor(header) ==
  LET valid == {i \in DOMAIN header : header[i] \in Addresses}
  IN IF valid = {} THEN None ELSE header[Max(valid)]

BucketIP(ip) == IF ip = None THEN Unknown ELSE Bucket[ip]

(* Mutant: the header is believed whoever sends it.                        *)
TrustedAll(peer) == TRUE

IsTrustedHop(peer) == peer = Proxy

ClientIP(peer, header) ==
  LET forwarded == IF IsTrustedHop(peer) THEN ParseForwardedFor(header) ELSE None
  IN BucketIP(IF forwarded # None THEN forwarded ELSE DirectIP(peer))

(* The header of what the proxy sends on for a client: its own, whatever   *)
(* the client had written there.                                           *)
Observed(sender) == <<sender>>

--------------------------------------------------------------------------------
(* Requests. *)

Replied(sender, outcome) ==
  reply' = [sender |-> sender, outcome |-> outcome]

(* Another host is asked for: nothing behind sees the request.             *)
Misdirected ==
  /\ Public
  /\ Replied(None, "misdirected")
  /\ UNCHANGED historyVars

(* PanicRecovery: a handler either ends or panics, and the server goes on.  *)
Recovered(outcome) == {outcome, "internal_error"}

Creation == <<"POST", "/api/clips">>

(* What the requests that are no creation come to.                         *)
OtherOutcomes == {Routed(Public, r[1], r[2]) : r \in (Methods \X Paths) \ {Creation}}

(* They are refused by the mux, or served at no cost to this limiter.      *)
Other ==
  /\ \E outcome \in OtherOutcomes : \E final \in Recovered(outcome) : Replied(None, final)
  /\ UNCHANGED historyVars

(* A creation: the limiter is asked before the body is looked at, and what  *)
(* it has counted stays counted when the handler panics.                   *)
Create(sender, key) ==
  /\ Allow(key) /\ Recorded
  /\ \E final \in Recovered("handled") :
       Replied(sender, IF decision'.allowed THEN final ELSE "rate_limited")

(* The server is reached without the proxy, with any header.               *)
CreateDirect(sender, header) == Create(sender, ClientIP(sender, header))

CreateProxied(sender) == Create(sender, ClientIP(Proxy, Observed(sender)))

Passes == (Tick \/ Restart) /\ Recorded /\ reply' = None

FrontNext ==
  \/ \E sender \in (Addresses \ {Proxy}) \cup {Junk}, header \in Headers :
       CreateDirect(sender, header)
  \/ \E sender \in Addresses \ {Proxy} : CreateProxied(sender)
  \/ Misdirected \/ Other \/ Passes

FrontSpec == FrontInit /\ [][FrontNext]_frontVars

--------------------------------------------------------------------------------
FrontTypeOK ==
  /\ LimiterTypeOK
  /\ reply \in Replies \cup {None}

(* A creation counts against the address it was really sent from, with or  *)
(* without the proxy between, and whatever header the sender made up: no    *)
(* client spends the requests of another, or escapes its own limit.        *)
KeyIsSenders ==
  reply # None /\ reply.sender # None => decision.key = BucketIP(DirectIP(reply.sender))
================================================================================
