CONSTANTS
  Texts <- MCTexts
  Trim <- MCTrim
  Hinted <- MCHinted
  Claimable <- MCClaimable
  Empty = ""
  MaxTyped = 2
  MaxVisits = 2
  MaxChecks = 2
  None = none
SPECIFICATION FairIndex
INVARIANTS IndexTypeOK HintFits OutcomeIsLasts
PROPERTY SubmitEnds
