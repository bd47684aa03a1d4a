SPECIFICATION FairPage
CONSTANTS
  Slugs <- MCSlugs
  Lives <- MCLives
  Period = 2
  MaxDelay = 1
  Offsets <- MCOffsets
  MaxClock = 6
  LastCreate = 0
  MaxReads = 2
  None = None
CHECK_DEADLOCK FALSE
INVARIANTS PageTypeOK ShowsItsOwn HiddenInTime
PROPERTIES HiddenNotEarly CountdownEnds LoadEnds
