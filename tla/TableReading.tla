----------------------------- MODULE TableReading -----------------------------
(***************************************************************************)
(* How PostgreSQL reads a table expression back, as the tree of calls that *)
(* should have made it, and the properties that compare the two.  The      *)
(* reader is a reference, no part of the repository; it takes a join       *)
(* without a qualification and a subquery without an alias, which later    *)
(* stages of the server refuse.                                            *)
(*                                                                         *)
(* Like the server's own parser it goes through the text once, from left   *)
(* to right, with a stack of what is still open.                           *)
(***************************************************************************)
EXTENDS WithQueries

JoinWords == PlainKinds \cup NaturalKinds

\* What is open, with what has been read of it.
Frame(kind, args) == [kind |-> kind, args |-> args]

Bottom == [frame |-> Frame("bottom", <<>>), height |-> 0]

Push(frame, stack) == [frame |-> frame, below |-> stack, height |-> stack.height + 1]

\* The part that comes next is yet to come, or has just been read.
Expecting(stack)     == [stack |-> stack, value |-> <<>>]
Holding(stack, tree) == [stack |-> stack, value |-> <<tree>>]

\* A syntax error is something open that nothing closes.
Wrong(stack) == Expecting(Push(Frame("error", <<>>), stack))

\* A state inside what this opens.
Inside(kind, args, stack) == Expecting(Push(Frame(kind, args), stack))

-----------------------------------------------------------------------------
\* What the end of its last part completes.
JoinFrames == {"join", "on", "using"}
Completed  == JoinFrames \cup {"from", "set operation", "main"}

JoinTree(args, qualifier) == <<"join", args[2], args[1], args[3], qualifier>>

Complete(frame, value) ==
  CASE frame.kind = "join"  -> JoinTree(Append(frame.args, value), <<"unqualified">>)
    [] frame.kind = "on"    -> JoinTree(frame.args, <<"on", value>>)
    [] frame.kind = "using" -> JoinTree(frame.args, <<"using", value>>)
    [] frame.kind = "from"  -> <<"select", frame.args[1], value>>
    [] frame.kind = "set operation" -> <<"set operation", frame.args[2], frame.args[1], value>>
    [] frame.kind = "main"  -> <<"with", frame.args, value>>

CompleteTop(s, kinds) ==
  IF s.value # <<>> /\ s.stack.frame.kind \in kinds
  THEN Holding(s.stack.below, Complete(s.stack.frame, s.value[1]))
  ELSE s

\* All of these kinds that end here, from the innermost on.
Ended(s, kinds) ==
  LET after[k \in 0 .. s.stack.height] ==
        IF k = 0 THEN s ELSE CompleteTop(after[k-1], kinds)
  IN  after[s.stack.height]

-----------------------------------------------------------------------------
\* Where a statement may start, and where another FROM item or an operand may.
StatementFrames == {"bottom", "bracket", "subquery", "query", "main"}
TableFrames     == {"bottom", "bracket", "from", "join"}
BracketFrames   == StatementFrames \cup TableFrames \cup {"set operation"}

\* A word of the client's, where a part is yet to come.
ReadWord(stack, word) ==
  LET top == stack.frame
  IN  CASE top.kind \in TableFrames          -> Holding(stack, <<"table", word>>)
        [] top.kind = "select"               -> Holding(stack, <<"expr", <<word>>>>)
        [] top.kind \in {"on", "columns"}    -> Holding(stack, <<word>>)
        [] top.kind = "alias"                -> Holding(stack.below, <<"as", top.args[1], word>>)
        [] top.kind = "ctes"                 -> Inside("cte", <<top.args, word>>, stack.below)
        [] OTHER                             -> Wrong(stack)

OpenBracket(stack) ==
  LET top == stack.frame
  IN  CASE top.kind \in BracketFrames -> Inside("bracket", <<>>, stack)
        [] top.kind = "select"        -> Inside("subquery", <<>>, stack)
        [] top.kind = "using"         -> Inside("columns", <<>>, stack)
        [] top.kind = "cte as"        -> Inside("query", top.args, stack.below)
        [] OTHER                      -> Wrong(stack)

\* A token where a part is yet to come.
ReadNext(stack, token) ==
  LET top == stack.frame
  IN  CASE token = "(" -> OpenBracket(stack)
        [] token = "SELECT" /\ top.kind \in StatementFrames -> Inside("select", <<>>, stack)
        [] token = "WITH" /\ top.kind \in StatementFrames \ {"main"} -> Inside("ctes", <<>>, stack)
        [] token = "JOIN" /\ top.kind = "joining" -> Inside("join", top.args, stack.below)
        [] token = "AS" /\ top.kind = "cte" -> Inside("cte as", top.args, stack.below)
        [] token = ", " /\ top.kind = "main" -> Inside("ctes", top.args, stack.below)
        [] token \in Words -> ReadWord(stack, token)
        [] OTHER -> Wrong(stack)

\* The expression or column just read goes on.
MoreWords(s, word) ==
  LET top  == s.stack.frame
      tree == s.value[1]
  IN  CASE top.kind = "select" /\ tree[1] = "expr" ->
             Holding(s.stack, <<"expr", Append(tree[2], word)>>)
        [] top.kind \in {"on", "columns"} -> Holding(s.stack, Append(tree, word))
        [] OTHER -> Wrong(s.stack)

\* ON and USING qualify the join whose operand has just been read.
Qualified(s, kind) ==
  IF s.stack.frame.kind = "join"
  THEN Inside(kind, Append(s.stack.frame.args, s.value[1]), s.stack.below)
  ELSE Wrong(s.stack)

CloseBracket(s) ==
  LET top  == s.stack.frame
      tree == s.value[1]
  IN  CASE top.kind = "bracket"  -> Holding(s.stack.below, tree)
        [] top.kind = "subquery" -> Holding(s.stack.below, <<"subquery", tree>>)
        [] top.kind = "columns"  -> Holding(s.stack.below, Append(top.args, tree))
        [] top.kind = "query"    ->
             Inside("main", Append(top.args[1], <<top.args[2], tree>>), s.stack.below)
        [] OTHER -> Wrong(s.stack)

\* A FROM item or operand, unless it has an alias.
Aliasable(s) == s.stack.frame.kind \in TableFrames /\ s.value[1][1] # "as"

\* A token behind a part.  Joins and set operations associate to the left, and
\* an alias belongs to the item just before it.
ReadBehind(s, token) ==
  LET top  == s.stack.frame
      join == Ended(s, JoinFrames)
      set  == Ended(s, Completed \ {"main"})
  IN  CASE token \in JoinWords  -> Inside("joining", <<join.value[1], token>>, join.stack)
        [] token \in SetOpWords -> Inside("set operation", <<set.value[1], token>>, set.stack)
        [] token = "ON"         -> Qualified(s, "on")
        [] token = "USING"      -> Qualified(s, "using")
        [] token = "AS" /\ Aliasable(s) -> Inside("alias", s.value, s.stack)
        [] token = "FROM" /\ top.kind = "select" -> Inside("from", s.value, s.stack.below)
        [] token = ", " /\ top.kind = "columns" ->
             Inside("columns", Append(top.args, s.value[1]), s.stack.below)
        [] token = ")"          -> CloseBracket(Ended(s, Completed))
        [] token \in Words      -> MoreWords(s, token)
        [] OTHER                -> Wrong(s.stack)

ReadToken(s, token) ==
  IF s.value = <<>> THEN ReadNext(s.stack, token) ELSE ReadBehind(s, token)

\* A text read from a state on.
ReadOn(s, text) ==
  LET after[k \in 0..Len(text)] ==
        IF k = 0 THEN s ELSE ReadToken(after[k-1], text[k])
  IN  after[Len(text)]

\* The tree, unless there is a syntax error.
Read(text) ==
  LET all == Ended(ReadOn(Expecting(Bottom), text), Completed)
  IN  IF all.stack # Bottom THEN <<>> ELSE all.value

-----------------------------------------------------------------------------
\* virtual_table.hpp:26-28, brackets make a value "safely embedded": whatever
\* is built out of tables, joins, set operations, SELECTs and WITH queries, the
\* text reads back as the calls that built it, so no operand is regrouped, no
\* alias or qualification moves to another item, no CTE is lost, and ON never
\* meets USING.
ReadsBack ==
  \A x \in Sound : Read(ToStringPlain(x.object)) = <<x.meaning>>

\* docs/SQL.md:145, "an unaliased subquery in FROM throws at build time": no
\* statement that renders holds one, be it the FROM item or an operand of it.
FromSubqueriesAliased ==
  \A x \in Sound : x.meaning[1] = "select" =>
    LET item  == x.meaning[3]
        items == IF item[1] = "join" THEN {item[3], item[4]} ELSE {item}
    IN  \A i \in items : i[1] \notin Statements
=============================================================================
