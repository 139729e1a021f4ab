-------------------------------- MODULE Lexemes --------------------------------
(***************************************************************************)
(* The texts at the leaves of an expression, character by character: names *)
(* and operators that are validated (impl/identifier.cpp), values and      *)
(* names that are quoted (Literal, Ident), columns of a table and columns  *)
(* qualified by an alias, numbers; and the methods that write next to      *)
(* them.  A text is a sequence of one-character strings.                   *)
(***************************************************************************)
EXTENDS ClauseText, OperatorPrecedence

CONSTANTS
  Letters, Digits,   \* the characters of these classes in use
  Values,            \* arguments of Literal and Ident
  Names,             \* arguments of As and of TableAlias::From
  OperatorNames,     \* arguments of BinaryOp and PrefixOp
  Columns,           \* the columns of the table in hand, in order
  WholeNumbers,      \* std::to_string of the arguments of FromInteger
  Doubles,           \* std::to_chars of the arguments of FromDouble
  MaxLexemes         \* bound: lexemes an operator is applied to

ASSUME LexemesAssumption == {"A", "S"} \subseteq Letters /\ Columns # <<>>

VARIABLES
  text,         \* what the value in hand renders to
  precedence,   \* of its top-level operator
  class,        \* Expr or SelectItem
  alias,        \* alias_ of the TableWithColumns in hand, empty without one
  outcome,      \* how the last call ended
  meant         \* history: the lexemes the value was made of

vars == <<text, precedence, class, alias, outcome, meant>>

OperatorChars ==
  {"+", "-", "*", "/", "<", ">", "=", "~", "!", "@", "#", "%", "^", "&", "|", "grave", "?"}

-----------------------------------------------------------------------------
IsPlainIdentifier(s) ==
  /\ s # <<>>
  /\ Head(s) \in Letters \cup {"_"}
  /\ ToSet(Tail(s)) \subseteq Letters \cup Digits \cup {"_"}

\* What stands between the dots.
Parts(s) ==
  LET ends == SetToSortSeq({0, Len(s) + 1} \cup {k \in DOMAIN s : s[k] = "."}, <)
  IN  [n \in 1 .. Len(ends) - 1 |-> SubSeq(s, ends[n] + 1, ends[n+1] - 1)]

IsIdentifier(s) == \A part \in ToSet(Parts(s)) : IsPlainIdentifier(part)

Follows(s, c, d) == \E k \in 1 .. Len(s) - 1 : s[k] = c /\ s[k+1] = d

\* Mutant: an operator may open a comment.
IsOperatorNameLax(s) ==
  s # <<>> /\ ToSet(s) \subseteq OperatorChars

IsOperatorName(s) ==
  /\ s # <<>>
  /\ ToSet(s) \subseteq OperatorChars
  /\ ~Follows(s, "-", "-") /\ ~Follows(s, "/", "*")
  /\ ~(Len(s) > 1 /\ ToSet(s) \subseteq {"+", "-"})

Quoted(value, quote) ==
  <<quote>> \o FlattenSeq([k \in DOMAIN value |->
                 IF value[k] = quote THEN <<quote, quote>> ELSE <<value[k]>>]) \o <<quote>>

-----------------------------------------------------------------------------
Word(s) == <<"identifier", s>>
Mark(c) == <<"mark", <<c>>>>
Operator(op) == <<"operator", op>>

\* The lexemes of a name that may be dotted.
NameLexemes(s) == Tail(FlattenSeq([n \in DOMAIN Parts(s) |-> <<Mark("."), Word(Parts(s)[n])>>]))

Init ==
  /\ text = Columns[1]
  /\ precedence = kSymbol
  /\ class = "Expr"
  /\ alias = <<>>
  /\ outcome = "ok"
  /\ meant = <<Word(Columns[1])>>

Throw(exception) == outcome' = exception /\ UNCHANGED <<text, precedence, class, alias, meant>>

\* A new value in place of the one in hand.
Hold(what, s, level, lexemes) ==
  /\ text' = s /\ precedence' = level /\ class' = what /\ meant' = lexemes
  /\ outcome' = "ok"
  /\ UNCHANGED alias

HasNul(s) == "NUL" \in ToSet(s)

Literal(value) ==
  \/ HasNul(value) /\ Throw("InvalidLiteral")
  \/ ~HasNul(value) /\ Hold("Expr", Quoted(value, "'"), kSymbol, <<<<"string", value>>>>)

Ident(name) ==
  \/ HasNul(name) /\ Throw("InvalidIdentifier")
  \/ ~HasNul(name) /\ Hold("Expr", Quoted(name, "\""), kSymbol, <<<<"quoted identifier", name>>>>)

\* A number is read without its sign.
NumberLexemes(kind, s) ==
  IF Head(s) = "-" THEN <<Operator(<<"-">>), <<kind, Tail(s)>>>> ELSE <<<<kind, s>>>>

FromInteger(s) == Hold("Expr", s, kSymbol, NumberLexemes("integer", s))

\* NaN and infinity are spelled without a digit.
IsFinite(s) == ToSet(s) \cap Digits # {}

KeptNumeric(s) == IF {".", "e"} \cap ToSet(s) = {} THEN s \o <<".", "0">> ELSE s

FromDouble(s) ==
  \/ ~IsFinite(s) /\ Throw("InvalidLiteral")
  \/ IsFinite(s) /\ Hold("Expr", KeptNumeric(s), kSymbol, NumberLexemes("numeric", KeptNumeric(s)))

\* Column's conversion to Expr.
ColumnExpr(column) == Hold("Expr", column, kSymbol, <<Word(column)>>)

\* The loop of JoinCsv again, over characters.
CsvText(names) ==
  LET upto[k \in 0..Len(names)] ==
        IF k = 0 THEN <<>>
        ELSE LET s == upto[k-1]
             IN  s \o (IF s = <<>> THEN <<>> ELSE <<",", " ">>) \o names[k]
  IN  upto[Len(names)]

SelectArgAll ==
  Hold("Expr", CsvText(Columns), kSymbol,
       Tail(FlattenSeq([n \in DOMAIN Columns |-> <<Mark(","), Word(Columns[n])>>])))

\* Mutant: the alias is not validated.
TableAsUnchecked(name) ==
  /\ alias' = name
  /\ outcome' = "ok"
  /\ UNCHANGED <<text, precedence, class, meant>>

\* TableWithColumns::As.  The table without an alias stays in hand beside the
\* one with.
TableAs(name) ==
  \/ ~IsIdentifier(name) /\ Throw("InvalidIdentifier")
  \/ /\ IsIdentifier(name)
     /\ alias' = name
     /\ outcome' = "ok"
     /\ UNCHANGED <<text, precedence, class, meant>>

Qualified(qualifier, column) ==
  Hold("Expr", qualifier \o <<".">> \o column, kDot,
       NameLexemes(qualifier) \o <<Mark("."), Word(column)>>)

TableDot(column) ==
  \/ alias = <<>> /\ Throw("LogicError")
  \/ alias # <<>> /\ column \notin ToSet(Columns) /\ Throw("UnknownColumn")
  \/ alias # <<>> /\ column \in ToSet(Columns) /\ Qualified(alias, column)

\* TableAlias::From(name).Dot(column), which knows no columns.
TableAliasDot(name, column) ==
  \/ ~IsIdentifier(name) /\ Throw("InvalidIdentifier")
  \/ IsIdentifier(name) /\ Qualified(name, column)

-----------------------------------------------------------------------------
Extensible == class = "Expr" /\ Len(meant) <= MaxLexemes

InBrackets(context) == NeedsParens(precedence, context)

Operand(context) == IF InBrackets(context) THEN <<"(">> \o text \o <<")">> ELSE text

OperandLexemes(context) ==
  IF InBrackets(context) THEN <<Mark("(")>> \o meant \o <<Mark(")")>> ELSE meant

\* The other operand of an infix operator is a column.
BinaryOp(op, other) ==
  /\ Extensible
  /\ \/ ~IsOperatorName(op) /\ Throw("InvalidOperator")
     \/ /\ IsOperatorName(op)
        /\ Hold("Expr", Operand(kAnyOther) \o <<" ">> \o op \o <<" ">> \o other, kAnyOther,
                OperandLexemes(kAnyOther) \o <<Operator(op), Word(other)>>)

PrefixOp(op) ==
  /\ Extensible
  /\ \/ ~IsOperatorName(op) /\ Throw("InvalidOperator")
     \/ /\ IsOperatorName(op)
        /\ Hold("Expr", op \o <<" ">> \o Operand(kUnaryPlus), kUnaryPlus,
                <<Operator(op)>> \o OperandLexemes(kUnaryPlus))

Negate ==
  /\ Extensible
  /\ Hold("Expr", <<"-">> \o Operand(kUnaryPlus), kUnaryPlus,
          <<Operator(<<"-">>)>> \o OperandLexemes(kUnaryPlus))

\* Expr::Dot of a column.
Dot(other) ==
  /\ Extensible
  /\ Hold("Expr", Operand(kDot) \o <<".">> \o other, kDot,
          OperandLexemes(kDot) \o <<Mark("."), Word(other)>>)

\* Expr::As: the name of a select item may not be dotted.  A SelectItem has no
\* precedence; kExtract is looser than any context.
As(name) ==
  /\ Extensible
  /\ \/ ~IsPlainIdentifier(name) /\ Throw("InvalidIdentifier")
     \/ /\ IsPlainIdentifier(name)
        /\ Hold("SelectItem", text \o <<" ", "A", "S", " ">> \o name, kExtract,
                meant \o <<Word(<<"A", "S">>), Word(name)>>)

Next ==
  \/ \E value \in Values : Literal(value) \/ Ident(value)
  \/ \E s \in WholeNumbers : FromInteger(s)
  \/ \E s \in Doubles : FromDouble(s)
  \/ \E name \in Names : TableAs(name) \/ As(name)
  \/ \E column \in ToSet(Columns) : ColumnExpr(column) \/ TableDot(column) \/ Dot(column)
  \/ \E name \in Names : TableDot(name) \/ TableAliasDot(name, Columns[1])
  \/ \E op \in OperatorNames : PrefixOp(op) \/ BinaryOp(op, Columns[1])
  \/ SelectArgAll \/ Negate

Spec == Init /\ [][Next]_vars
=============================================================================
