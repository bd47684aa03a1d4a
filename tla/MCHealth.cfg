CONSTANTS
  Latest = 1
  MaxVersion = 2
  MaxChanges = 3
  None = none
SPECIFICATION FairHealth
INVARIANTS HealthTypeOK VerdictDeserved ValuesObserved
PROPERTIES ProbeEnds PageSettles
