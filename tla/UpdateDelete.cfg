SPECIFICATION Spec
CONSTANTS
  Tokens <- AnyToken
  Assignments <- TwoAssignments
  FromItems <- OneItem
  Conditions <- TwoConditions
  TermLists <- UpToTwoTerms
  MaxSetLength = 8
INVARIANT TypeOK
PROPERTY KeepsPromise
