----------------------------- MODULE ExprReading -----------------------------
(***************************************************************************)
(* How PostgreSQL reads back the text of an expression.  The grammar is    *)
(* not part of the repository: operator_precedence.hpp cites the table it  *)
(* follows, and this module is a reference reader for that table, written  *)
(* apart from the enum's use in node.cpp so the two can be compared.       *)
(*                                                                         *)
(* Like the server's own parser it goes through the text once, from left   *)
(* to right, with a stack of what still waits for an operand or a bracket. *)
(*                                                                         *)
(* It is stricter than the table where the grammar is: a subscript and a   *)
(* dot stand behind a column, a field, a subscript or brackets only, a     *)
(* name alone stands behind a dot, and the lower bound of a BETWEEN is     *)
(* what gram.y calls a b_expr.  It is more lenient than the server in      *)
(* four places, none of which the library writes a text for: it reads      *)
(* a < b < c from the left where the server refuses it, takes brackets     *)
(* behind any single word for a call, takes DISTINCT and AS t for          *)
(* operators wherever they stand, and reads two minus signs side by side   *)
(* as two signs, which is what NoCommentOpener below is about.             *)
(***************************************************************************)
EXTENDS ExprNodes

\* The operators the client names itself, as far as they are accepted.
Accepted(customs) == {custom.op : custom \in customs} \ Malformed

PrefixWords  == {"-", "NOT", "DISTINCT"} \cup Accepted(PrefixOperators)
PostfixWords == {"COLLATE c", "IS TRUE", "IS FALSE", "IS NULL", "IS NOT NULL", "AS t"}
BetweenWords == {"BETWEEN", "NOT BETWEEN"}
MatchWords   == {"IN", "NOT IN", "LIKE", "NOT LIKE", "ILIKE", "NOT ILIKE",
                 "SIMILAR TO", "NOT SIMILAR TO"}
CompareWords == {"<", "<=", ">", ">=", "=", "!=", "= ANY", "<> ALL"}
IsWords      == {"IS TRUE", "IS FALSE", "IS NULL", "IS NOT NULL", "IS DISTINCT FROM",
                 "IS NOT DISTINCT FROM"}
InfixWords   == {"^", "*", "/", "%", "+", "-", "||", "IS DISTINCT FROM",
                 "IS NOT DISTINCT FROM", "AND", "OR"}
                  \cup MatchWords \cup CompareWords \cup Accepted(CustomOperators)

NeverFirst ==
  (InfixWords \ PrefixWords) \cup PostfixWords \cup BetweenWords \cup {",", "[", "]", "."}

\* What the lower bound of a BETWEEN has in brackets only, so that its AND is found.
NeverInBound ==
  {"COLLATE c", "NOT", "DISTINCT", "AS t", "OR", "= ANY", "<> ALL",
   "IS TRUE", "IS FALSE", "IS NULL", "IS NOT NULL"} \cup MatchWords \cup BetweenWords

\* A word that is neither an operator nor punctuation.
Plain(word) ==
  word \notin PrefixWords \cup NeverFirst \cup {" ", "(", ")"}

Magnitude(n) == IF n < 0 THEN -n ELSE n

\* Single words that are not names.
Constants ==
  {"NULL", "TRUE", "FALSE", "COUNT(*)"} \cup {Digits[Magnitude(n)] : n \in Numbers}

\* What may stand on either side of a dot; every other single word is a column's name.
NameWord(word) == Plain(word) /\ word \notin Constants

\* The rows of the table, tightest first.  The first three are the dot, :: and the
\* subscript, which take what is in hand; the sixth is AT.
\* DISTINCT and AS t belong to the brackets around them and bind loosest.
Level(word) ==
  CASE word = "COLLATE c"                   -> 5
    [] word = "^"                           -> 7
    [] word \in {"*", "/", "%"}             -> 8
    [] word \in {"+", "-"}                  -> 9
    [] word \in BetweenWords \cup MatchWords -> 11
    [] word \in CompareWords                -> 12
    [] word \in IsWords                     -> 13
    [] word = "NOT"                         -> 14
    [] word = "AND"                         -> 15
    [] word = "OR"                          -> 16
    [] word \in {"AS t", "DISTINCT"}        -> 17
    [] OTHER                                -> 10

\* Of the prefix operators only the signs have a row of their own.
PrefixLevel(word) == IF word \in {"+", "-"} THEN 4 ELSE Level(word)

Loosest == 17

-----------------------------------------------------------------------------
Tree(op, args) == [op |-> op, args |-> args]

\* What waits on the stack, of a level if it is an operator.
Frame(kind, word, level, args) == [kind |-> kind, word |-> word, level |-> level, args |-> args]

\* What waits for a bracket, or for the AND of a BETWEEN, is not to be applied.
Open(kind, word, args) == Frame(kind, word, Loosest + 1, args)

Bottom == [frame |-> Open("bottom", "", <<>>), height |-> 0, within |-> "bottom"]

\* within is the kind of the innermost thing that waits for its end.
Push(frame, stack) ==
  [frame |-> frame, below |-> stack, height |-> stack.height + 1,
   within |-> IF frame.kind = "operator" THEN stack.within ELSE frame.kind]

\* An operand is yet to come, or has just been read.
Expecting(stack)     == [stack |-> stack, value |-> <<>>, refers |-> FALSE]
Holding(stack, tree) == [stack |-> stack, value |-> <<tree>>, refers |-> FALSE]

\* One has been read from which a field or an element may be selected.
Referring(stack, tree) == [stack |-> stack, value |-> <<tree>>, refers |-> TRUE]

\* A syntax error is a bracket that nothing closes.
Wrong(stack) == Expecting(Push(Open("error", "", <<>>), stack))

\* An operator's operand is no longer selected from.
Settled(s) == [stack |-> s.stack, value |-> s.value, refers |-> FALSE]

\* The topmost operator takes its last operand if it binds as tight as this.
ApplyTop(s, level) ==
  LET top == s.stack.frame
  IN  IF top.level <= level
      THEN Holding(s.stack.below, Tree(top.word, top.args \o s.value))
      ELSE s

Applied(s, level) ==
  LET after[k \in 0 .. s.stack.height] ==
        IF k = 0 THEN Settled(s) ELSE ApplyTop(after[k-1], level)
  IN  after[s.stack.height]

\* One more operand of what is on top of the stack, and another to come.
Another(s, kind, level) ==
  LET top == s.stack.frame
  IN  Expecting(Push(Frame(kind, top.word, level, top.args \o s.value), s.stack.below))

\* Behind a dot: a field's name.
ReadField(stack, token) ==
  IF NameWord(token)
  THEN Referring(stack.below, Tree(".", Append(stack.frame.args, Tree(token, <<>>))))
  ELSE Wrong(stack)

\* A token where an operand is to come.
ReadOperand(stack, token) ==
  LET top == stack.frame
  IN  CASE token \in PrefixWords ->
             Expecting(Push(Frame("operator", token, PrefixLevel(token), <<>>), stack))
        [] token = "(" -> Expecting(Push(Open("list", "list", <<>>), stack))
        [] token = ")" ->
             IF top.kind = "call" /\ top.args = <<>> THEN Holding(stack.below, Tree(top.word, <<>>))
             ELSE Wrong(stack)
        [] token \in NeverFirst -> Wrong(stack)
        [] OTHER -> IF token \in Constants THEN Holding(stack, Tree(token, <<>>))
                    ELSE Referring(stack, Tree(token, <<>>))

\* Brackets around a single operand leave no trace.
CloseBracket(s) ==
  LET top  == s.stack.frame
      args == top.args \o s.value
  IN  CASE top.kind = "list" /\ Len(args) = 1 -> Referring(s.stack.below, args[1])
        [] top.kind = "list" /\ Len(args) # 1 -> Holding(s.stack.below, Tree("list", args))
        [] top.kind = "call" -> Holding(s.stack.below, Tree(top.word, args))
        [] OTHER -> Wrong(s.stack)

CloseIndex(s) ==
  IF s.stack.frame.kind = "index"
  THEN Referring(s.stack.below, Tree("[]", s.stack.frame.args \o s.value))
  ELSE Wrong(s.stack)

NextItem(s) ==
  IF s.stack.frame.kind \in {"list", "call"} THEN Another(s, s.stack.frame.kind, Loosest + 1)
  ELSE Wrong(s.stack)

ReadInfix(s, word) ==
  LET rest == Applied(s, Level(word))
  IN  Expecting(Push(Frame("operator", word, Level(word), rest.value), rest.stack))

\* The AND of a BETWEEN is the first one after it.
ReadAnd(s) ==
  LET rest == Applied(s, Level("AND"))
  IN  IF rest.stack.frame.kind = "between" THEN Another(rest, "operator", Level("BETWEEN"))
      ELSE ReadInfix(s, "AND")

\* A token behind an operand: all that binds tighter has its operands.
ReadOperator(s, token) ==
  LET rest == Applied(s, Level(token))
      all  == Applied(s, Loosest)
      top  == s.stack.frame
  IN  CASE token = "AND" -> ReadAnd(s)
        [] token \in InfixWords \ {"AND"} -> ReadInfix(s, token)
        [] token \in PostfixWords -> Holding(rest.stack, Tree(token, rest.value))
        [] token \in BetweenWords ->
             Expecting(Push(Open("between", token, rest.value), rest.stack))
        [] token = "[" /\ s.refers -> Expecting(Push(Open("index", token, s.value), s.stack))
        [] token = "." /\ s.refers -> Expecting(Push(Open("field", token, s.value), s.stack))
        [] token = "]"  -> CloseIndex(all)
        [] token = "("  ->
             IF s.value[1].args = <<>> THEN Expecting(Push(Open("call", s.value[1].op, <<>>), s.stack))
             ELSE Wrong(s.stack)
        [] token = ","  -> NextItem(all)
        [] token = ")"  -> CloseBracket(all)
        [] OTHER -> Wrong(s.stack)

ReadToken(s, token) ==
  IF token = " " THEN s
  ELSE IF s.stack.within = "between" /\ token \in NeverInBound THEN Wrong(s.stack)
  ELSE IF s.value # <<>> THEN ReadOperator(s, token)
  ELSE IF s.stack.frame.kind = "field" THEN ReadField(s.stack, token)
  ELSE ReadOperand(s.stack, token)

\* A text read from a state on.
ReadOn(s, text) ==
  LET after[k \in 0..Len(text)] ==
        IF k = 0 THEN s ELSE ReadToken(after[k-1], text[k])
  IN  after[Len(text)]

\* The tree, unless there is a syntax error.
Read(text) ==
  LET read == ReadOn(Expecting(Bottom), text)
      all  == Applied(read, Loosest)
  IN  IF read.value = <<>> \/ all.stack # Bottom THEN <<>> ELSE all.value

-----------------------------------------------------------------------------
\* What the properties below ask of a client.
\* The words that are spelled with a letter, a bracket, a comma, a dot or a
\* space, which IsOperatorChar accepts in no operator name.
OwnWords ==
  (Punctuation \ {"-"}) \cup PostfixWords \cup BetweenWords \cup MatchWords \cup IsWords
    \cup {"= ANY", "<> ALL", "OR", "NULL", "TRUE", "FALSE", "COUNT(*)", "COALESCE",
          "GREATEST", "LEAST", "NULLIF", "COUNT", "SUM", "AVG", "MIN", "MAX"}

\* The operators the client names itself are of the level it declares.
HonestOperators ==
  /\ \A custom \in CustomOperators :
       custom.op \notin Malformed =>
         custom.op \notin OwnWords /\ custom.precedence = Level(custom.op)
  /\ \A custom \in PrefixOperators :
       custom.op \notin Malformed =>
         custom.op \notin OwnWords /\ custom.precedence = PrefixLevel(custom.op)

\* Its numbers, names and statements are single operands.
PlainNames ==
  /\ \A n \in Numbers : Plain(Digits[Magnitude(n)])
  /\ \A name \in Functions \ Malformed : Plain(name)
  /\ \A query \in Subqueries : Plain(query)

Dash == "-"

Starts(text) == text # <<>> /\ text[1] = Dash

\* No two minus signs are side by side.
Clean(text) == \A k \in 1 .. Len(text) - 1 : ~(text[k] = Dash /\ text[k+1] = Dash)

\* Its digits, names and raw texts bring no minus sign of their own to where an
\* operand begins, as the identifier validator and a declared precedence see to,
\* unless a prefix minus binds as one.
CarefulClient ==
  /\ \A n \in Numbers : Digits[Magnitude(n)] # Dash
  /\ Dash \notin Functions \ Malformed
  /\ \A custom \in PrefixOperators :
       custom.op = Dash => custom.op \in Malformed \/ custom.precedence >= kUnaryPlus
  /\ \A raw \in RawExprs :
       Clean(raw.text) /\ (Starts(raw.text) => raw.precedence >= kUnaryPlus)
  /\ \A text \in RawConditions : Clean(text) /\ ~Starts(text)

-----------------------------------------------------------------------------
\* Where the table is not enough.  A leaf's first word:
Leading(node, word) ==
  Len(node.parts) = 1 /\ node.parts[1].text # <<>> /\ node.parts[1].text[1] = word

Looser(m, n) == IF m < n THEN n ELSE m

\* The level PostgreSQL takes a node at.  NOT EXISTS and negative integers are built
\* as kSymbol and are operators to the server.
Grade(node) ==
  CASE Leading(node, "NOT") -> Looser(node.precedence, kNot)
    [] Leading(node, Dash)  -> Looser(node.precedence, kUnaryPlus)
    [] OTHER -> node.precedence

IsName(node) ==
  Leading(node, node.parts[1].text[1]) /\ Len(node.parts[1].text) = 1
    /\ NameWord(node.parts[1].text[1])

\* What a subscript may stand behind: a column or a field.
IsReference(node) ==
  IsName(node) \/ (Len(node.parts) = 3 /\ node.parts[2].text = <<".">>)

\* CastRaw, calls, lists and subscripts write brackets around these operands.
Enclosed(part) == part.context \in {kTypecast, kExtract}

Bare(heap, part) ==
  ~Enclosed(part) /\ ~NeedsParens(heap[part.node].precedence, part.context)

\* A COLLATE outside of all brackets of a text, given the earlier nodes' own.
Outside(heap, collates, parts) ==
  \E k \in 1..Len(parts) :
    IF parts[k].node = 0 THEN \E m \in 1..Len(parts[k].text) : parts[k].text[m] = "COLLATE c"
    ELSE Bare(heap, parts[k]) /\ collates[parts[k].node]

Collates(heap) ==
  LET collates[i \in 1..Len(heap)] == Outside(heap, collates, heap[i].parts)
  IN  collates

Behind(parts, k, texts) == k > 1 /\ parts[k-1].text \in texts

BetweenTexts == {<<" ", word, " ">> : word \in BetweenWords}

\* An operand for which the table decides, where the k-th part puts it: it is in
\* brackets, or it has the level it was built with or is bare where its true level may
\* be, and is what the grammar wants beside a dot, before a subscript and after BETWEEN.
Fitting(heap, collates, parts, k) ==
  LET part  == parts[k]
      child == heap[part.node]
  IN  \/ part.node = 0 \/ Enclosed(part)
      \/ ~Bare(heap, part) /\ ~Behind(parts, k, {<<".">>})
      \/ /\ Bare(heap, part)
         /\ Grade(child) = child.precedence \/ Grade(child) < part.context
         /\ part.context \in {kDot, kIndex} => IsReference(child)
         /\ Behind(parts, k, {<<".">>}) => IsName(child)
         /\ Behind(parts, k, BetweenTexts) => ~collates[part.node]

\* A node is rendered the same whatever else was built, so nothing is lost by
\* speaking of clients that build such nodes only.
AllFitting ==
  LET collates == Collates(nodes)
  IN  \A i \in DOMAIN nodes : \A k \in DOMAIN nodes[i].parts :
        Fitting(nodes, collates, nodes[i].parts, k)

\* A text that begins with a negative integer.
Negative(text) == \E n \in Numbers : n < 0 /\ IsPrefix(IntegerText(n), text)

\* A negative integer, or what is selected from one, negated without brackets:
\* -Expr(-1), -Expr(-1)[i].
SignedTwice(heap) ==
  {i \in DOMAIN heap :
     LET parts == heap[i].parts
     IN  /\ Len(parts) = 2 /\ parts[1] = Fragment(<<Dash>>)
         /\ heap[parts[2].node].precedence < kUnaryPlus
         /\ Negative(Render(heap)[parts[2].node])}

-----------------------------------------------------------------------------
\* The rendering with no parentheses left out; names beside a dot have none.
RenderBracketed(heap) ==
  LET text[i \in 1..Len(heap)] ==
        FlattenSeq([k \in 1..Len(heap[i].parts) |->
          LET part == heap[i].parts[k]
          IN  IF part.node = 0 THEN part.text
              ELSE IF part.context = kDot /\ IsName(heap[part.node]) THEN text[part.node]
              ELSE <<"(">> \o text[part.node] \o <<")">>])
  IN  text

ReadsAsBracketed ==
  LET meaning == Read(Last(RenderBracketed(nodes)))
  IN  meaning # <<>> /\ Read(Last(Render(nodes))) = meaning

\* docs/SQL.md:147, "Automatic parenthesization driven by the PG precedence
\* table", for operands the grammar takes where they are put: leaving out the
\* parentheses that NeedsParens calls redundant does not change what PostgreSQL
\* reads, and what it reads is an expression.
ParensSuffice == nodes # <<>> /\ AllFitting => ReadsAsBracketed

\* The same sentence of every expression the client can build.
AutomaticParens == nodes # <<>> => ReadsAsBracketed

\* identifier.hpp:18, "`--` ... would start a comment": no rendering puts two
\* minus signs side by side, which would cut the statement short, unless the
\* client negates a negative integer.
NoCommentOpener ==
  SignedTwice(nodes) = {} => \A i \in DOMAIN nodes : Clean(Render(nodes)[i])
=============================================================================
