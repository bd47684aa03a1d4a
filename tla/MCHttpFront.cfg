CONSTANTS
  neighbour1 = neighbour1
  neighbour2 = neighbour2
  loner = loner
  hop = hop
  net = net
  other = other
  edge = edge
  Keys = {net, other, edge, unknown}
  Rate = 2
  Window = 4
  MaxKeys = 2
  Second = 2
  MaxClock = 5
  None = none
  Junk = junk
  Proxy = hop
  Unknown = unknown
  Public = TRUE
  Addresses <- MCAddresses
  Bucket <- MCBucket
  Headers <- MCHeaders
SPECIFICATION FrontSpec
INVARIANTS FrontTypeOK KeysBounded WaitSuffices RefusalDeserved AtMostTwiceTheRate
  KeyIsSenders
PROPERTY StaleEvictedFirst
