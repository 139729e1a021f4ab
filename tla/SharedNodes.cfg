SPECIFICATION SharedSpec
CHECK_DEADLOCK FALSE
CONSTANTS
  Tokens <- AnyToken
  RawExprs <- NoTexts
  RawConditions <- NoTexts
  Numbers <- NoTexts
  Digits <- NoTexts
  Subqueries = {"q"}
  Functions = {}
  Operators = {"||", "NOT EXISTS"}
  CustomOperators <- NoTexts
  PrefixOperators <- NoTexts
  Malformed = {}
  MaxArgs = 0
  MaxNodes = 3
  Threads = {t1, t2}
  Statics = statics
  Placeholders <- Dollar
  Contexts <- Factor
INVARIANTS NothingDangles WritesItsText
PROPERTIES ImplementsEager CallsEnd NothingLeaks
