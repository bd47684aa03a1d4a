SPECIFICATION DeploySpec
CONSTANTS
  Images <- MCImages
  Need <- MCNeed
  Broken <- MCBroken
  Runs = {job1, job2, hand1}
  Jobs = {job1, job2}
  Blank = Blank
  None = None
SYMMETRY RunSymmetry
CHECK_DEADLOCK FALSE
INVARIANTS DeployTypeOK ServedStaysHealthy StateNamesServed
PROPERTY ReplacesWhatItRead
