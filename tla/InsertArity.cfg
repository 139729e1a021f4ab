SPECIFICATION Spec
CONSTANTS
  Tokens <- AnyToken
  ColumnLists <- AndNone
  ValueLists <- ValuesOneTwo
  RowLists <- RowSets
  ReturningLists <- SomeOrNone
  Targets <- Some1
  AssignmentLists <- OneUpdate
INVARIANTS TypeOK RenderedArity RejectedIsNeverRendered ListsAreRendered
PROPERTY ArityErrorIsFinal
