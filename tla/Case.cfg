SPECIFICATION Spec
CONSTANTS
  Tokens <- Alphabet
  Conditions <- TwoConditions
  Results <- TwoResults
  MaxPairs = 2
  MaxLength = 6
INVARIANTS TypeOK EndReadsBack
