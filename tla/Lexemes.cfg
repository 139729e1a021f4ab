SPECIFICATION Spec
CONSTANTS
  Letters <- FewLetters
  Digits <- TwoDigits
  Values <- ShortValues
  Names <- SomeNames
  OperatorNames <- ShortOperators
  Columns <- TwoColumns
  WholeNumbers <- SomeWholes
  Doubles <- SomeDoubles
  MaxLexemes = 3
INVARIANTS TypeOK LexemesReadBack
VIEW WithoutOutcome
