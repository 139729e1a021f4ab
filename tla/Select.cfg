SPECIFICATION Spec
CONSTANTS
  Tokens <- AnyToken
  TermLists <- UpToTwoTerms
  OrderLists <- SortOrders
  Conditions <- Predicates
  Counts <- Numbers
INVARIANTS TypeOK ClausesInGrammarOrder FormattedAgrees
PROPERTY KeepsPromise
