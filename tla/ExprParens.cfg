SPECIFICATION Spec
CHECK_DEADLOCK FALSE
CONSTANTS
  Tokens <- AnyToken
  RawExprs <- HonestRaw
  RawConditions <- RawAtom
  Numbers <- Signed
  Digits <- Spelled
  Subqueries = {"q"}
  Functions = {"f", "no good"}
  Operators <- AllForms
  CustomOperators <- ContainsOp
  PrefixOperators <- TildeOp
  Malformed <- RejectedNames
  MaxArgs = 2
  MaxNodes = 4
CONSTRAINT FewOperatorsWhenDeep
ACTION_CONSTRAINT OperatorWhenDeep
INVARIANTS TypeOK SizeExact ParensSuffice NoCommentOpener
VIEW Built
