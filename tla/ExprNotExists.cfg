SPECIFICATION Spec
CHECK_DEADLOCK FALSE
CONSTANTS
  Tokens <- AnyToken
  RawExprs <- NoTexts
  RawConditions <- NoTexts
  Numbers <- NoTexts
  Digits <- Spelled
  Subqueries = {"q"}
  Functions = {}
  Operators = {"NOT EXISTS", "IS NULL"}
  CustomOperators <- NoTexts
  PrefixOperators <- NoTexts
  Malformed <- RejectedNames
  MaxArgs = 0
  MaxNodes = 3
INVARIANT AutomaticParens
