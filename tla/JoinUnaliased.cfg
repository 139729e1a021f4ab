SPECIFICATION Spec
CONSTANTS
  Tokens <- Alphabet
  TableNames = {"t"}
  Aliases = {}
  Malformed = {}
  Items <- Columns
  JoinKinds <- Inner
  SetOpKinds = {}
  Conditions <- Predicates
  ColumnLists <- Nothing
  CteNames = {}
  MaxHeld = 4
INVARIANT FromSubqueriesAliased
