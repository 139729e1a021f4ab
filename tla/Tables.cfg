SPECIFICATION Spec
CONSTANTS
  Tokens <- Alphabet
  TableNames = {"t"}
  Aliases = {"x", "no good"}
  Malformed = {"no good"}
  Items <- Columns
  JoinKinds <- OneOfEach
  SetOpKinds = {"UNION"}
  Conditions <- Predicates
  ColumnLists <- ColumnSets
  CteNames = {"c", "d", "no good"}
  MaxHeld = 4
INVARIANTS TypeOK ReadsBack CteNamesDiffer FormattedAgrees
VIEW WithoutOutcome
