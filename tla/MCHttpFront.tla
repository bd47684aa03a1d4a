------------------------------ MODULE MCHttpFront ------------------------------
(* A small instance of HttpFront for TLC: two addresses in one IPv6         *)
(* network, one outside it, and the proxy's own, which shares its key with  *)
(* no client; a header absent, forged, or forged and broken.               *)
EXTENDS HttpFront, TLC

CONSTANTS neighbour1, neighbour2, loner, hop, net, other, edge

MCAddresses == {neighbour1, neighbour2, loner, hop}
MCBucket    == (neighbour1 :> net) @@ (neighbour2 :> net) @@ (loner :> other) @@ (hop :> edge)
MCHeaders   == {<<>>, <<neighbour1, loner>>, <<loner, Junk>>}
================================================================================
