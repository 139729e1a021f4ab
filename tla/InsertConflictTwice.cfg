SPECIFICATION Spec
CONSTANTS
  Tokens <- AnyToken
  ColumnLists <- OneAndTwo
  ValueLists <- ValuesOneTwo
  RowLists <- Nothing
  ReturningLists <- Nothing
  Targets <- Some1
  AssignmentLists <- OneUpdate
INVARIANT ConflictIsRendered
