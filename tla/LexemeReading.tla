----------------------------- MODULE LexemeReading -----------------------------
(***************************************************************************)
(* How PostgreSQL's lexer splits a text: a reference, no part of the       *)
(* repository, written from the rules that identifier.hpp:16 refers to     *)
(* ("Lexical Structure", with standard_conforming_strings).                *)
(***************************************************************************)
EXTENDS Lexemes, FiniteSets

\* How many characters of s, from its start, are of these.
Span(s, chars) == Max({n \in 0..Len(s) : ToSet(SubSeq(s, 1, n)) \subseteq chars})

\* Quotes after the opening one, up to position k.
Quotes(s, k) == Cardinality({j \in 2..k : s[j] = Head(s)})

\* A doubled quote is one character; the first that is not closes.
ClosingQuotes(s) ==
  {k \in 2..Len(s) : s[k] = Head(s) /\ Quotes(s, k) % 2 = 1
                     /\ (k = Len(s) \/ s[k+1] # Head(s))}

ReadQuoted(s) ==
  LET end    == Min(ClosingQuotes(s))
      inside == {k \in 2 .. end-1 : s[k] # Head(s) \/ Quotes(s, k) % 2 = 1}
      at     == SetToSortSeq(inside, <)
  IN  [value |-> [n \in DOMAIN at |-> s[at[n]]], length |-> end]

\* "A multiple-character operator name cannot end in + or -, unless the name
\* also contains at least one of these characters."
Permitting == {"~", "!", "@", "#", "%", "^", "&", "|", "grave", "?"}

CommentStarts(s) ==
  {k \in 1 .. Len(s) - 1 : SubSeq(s, k, k+1) \in {<<"-", "-">>, <<"/", "*">>}}

\* The longest operator name at the start of s; 0 if a comment starts there.
OperatorLength(s) ==
  LET run   == SubSeq(s, 1, Span(s, OperatorChars))
      whole == IF CommentStarts(run) = {} THEN Len(run) ELSE Min(CommentStarts(run)) - 1
      name  == SubSeq(run, 1, whole)
  IN  IF whole < 2 \/ ToSet(name) \cap Permitting # {} THEN whole
      ELSE Max({1} \cup {n \in 1..whole : name[n] \notin {"+", "-"}})

\* digits [ . [digits] ] [ e [+-] digits ]
IsMantissa(s) ==
  \E point \in 1 .. Len(s) + 1 :
    /\ point > 1 /\ ToSet(SubSeq(s, 1, point - 1)) \subseteq Digits
    /\ point <= Len(s) => s[point] = "." /\ ToSet(SubSeq(s, point + 1, Len(s))) \subseteq Digits

IsExponent(s) ==
  LET digits == IF s # <<>> /\ Head(s) \in {"+", "-"} THEN Tail(s) ELSE s
  IN  digits # <<>> /\ ToSet(digits) \subseteq Digits

IsNumber(s) ==
  \/ IsMantissa(s)
  \/ \E e \in DOMAIN s : /\ s[e] = "e"
                         /\ IsMantissa(SubSeq(s, 1, e - 1))
                         /\ IsExponent(SubSeq(s, e + 1, Len(s)))

NumberLength(s) == Max({n \in DOMAIN s : IsNumber(SubSeq(s, 1, n))})

\* A constant of digits alone is an integer.
NumberKind(s) == IF ToSet(s) \subseteq Digits THEN "integer" ELSE "numeric"

RECURSIVE Lex(_)

\* The first n characters are a lexeme of this kind.
LexAs(s, kind, n) == <<<<kind, SubSeq(s, 1, n)>>>> \o Lex(SubSeq(s, n + 1, Len(s)))

Lex(s) ==
  IF s = <<>> THEN <<>>
  ELSE LET c == Head(s) IN
    CASE c = " " -> Lex(Tail(s))
      [] c \in Letters \cup {"_"} -> LexAs(s, "identifier", Span(s, Letters \cup Digits \cup {"_"}))
      [] c \in Digits ->
           LexAs(s, NumberKind(SubSeq(s, 1, NumberLength(s))), NumberLength(s))
      [] c \in {"'", "\""} ->
           IF ClosingQuotes(s) = {} THEN <<<<"error", s>>>>
           ELSE LET quoted == ReadQuoted(s)
                IN  <<<<IF c = "'" THEN "string" ELSE "quoted identifier", quoted.value>>>>
                      \o Lex(SubSeq(s, quoted.length + 1, Len(s)))
      [] c \in OperatorChars ->
           IF OperatorLength(s) = 0 THEN <<<<"comment", s>>>>
           ELSE LexAs(s, "operator", OperatorLength(s))
      [] OTHER -> LexAs(s, "mark", 1)

-----------------------------------------------------------------------------
\* Operators spelled out, one lexeme a character.
SpelledOut(lexemes) ==
  FlattenSeq([n \in DOMAIN lexemes |->
    IF lexemes[n][1] # "operator" THEN <<lexemes[n]>>
    ELSE [k \in DOMAIN lexemes[n][2] |-> Operator(<<lexemes[n][2][k]>>)]])

Adjacent(Before(_), After(_)) ==
  \E n \in 1 .. Len(meant) - 1 : Before(meant[n]) /\ After(meant[n+1])

IsMinus(lexeme)   == lexeme = Operator(<<"-">>)
IsPoint(lexeme)   == lexeme = Mark(".")
IsNumeral(lexeme) == lexeme[1] \in {"integer", "numeric"}

\* A minus sign next to that of a negative literal (the code writes -- for
\* -Expr(-1)), and a column of a number, which is no expression.
Meaningless == Adjacent(IsMinus, IsMinus) \/ Adjacent(IsNumeral, IsPoint)

\* expr.hpp:48-60, 81-92, README.md:102-106: wherever the methods of Expr put
\* them, quoted values and names are read as one lexeme each, which is the value
\* or the name; a double as one numeric constant; accepted names as the names
\* they are; and an accepted operator as its own characters, of which none
\* opens a comment or joins a neighbour.
LexemesReadBack == ~Meaningless => SpelledOut(Lex(text)) = SpelledOut(meant)

\* identifier.hpp:15, "Validates s as a syntactically valid PostgreSQL operator
\* name": what is accepted is read as one operator.
OperatorsAreWhole == Lex(text) = meant

\* A value is an Expr or a SelectItem, and the alias in hand was validated.
TypeOK ==
  /\ class \in {"Expr", "SelectItem"}
  /\ precedence \in Precedences
  /\ alias = <<>> \/ IsIdentifier(alias)
  /\ outcome \in {"ok", "LogicError", "InvalidLiteral", "InvalidIdentifier",
                  "InvalidOperator", "UnknownColumn"}
=============================================================================
