CONSTANTS
  Names = {n1, reserved}
  Claimable = {n1}
  Reserved = {reserved}
  Bodies = {b1, huge}
  TooLarge = {huge}
  Omitted = omitted
  TtlInputs = {omitted, 2}
  Presets = {1}
  DefaultPreset = 1
  AnonCeiling = 1
  Clients = {c1, c2}
  Sweepers = {s1}
  None = none
  MaxClock = 2
  MaxSkew = 1
SPECIFICATION FairHistorySpec
INVARIANTS TypeOK ClaimHonest LooksHonest
PROPERTIES LiveClipUntouched PoolOfNames ExpiredEventuallyGone
