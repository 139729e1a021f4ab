------------------------------ MODULE ExprNodes ------------------------------
(***************************************************************************)
(* The expression layer of IronQuery: impl/node.cpp (immutable shared      *)
(* nodes that render lazily), expr.cpp and condition.cpp (the methods that *)
(* build them).  A text is a sequence of tokens; white space is the token  *)
(* " ", and a token's length stands for the length of the string it        *)
(* abstracts, so sizes count tokens.  A client program is any sequence of  *)
(* the calls below on the handles it already holds.                        *)
(***************************************************************************)
EXTENDS OperatorPrecedence, SequencesExt

CONSTANTS
  Tokens,           \* the alphabet of texts
  RawExprs,         \* [text, precedence] records given to Expr::FromRaw
  RawConditions,    \* texts given to Condition::FromRaw
  Numbers,          \* integers wrapped by Expr(n)
  Digits,           \* std::to_string of their magnitudes
  Subqueries,       \* rendered statements, one token each
  Functions,        \* names given to Expr::Call and CallDistinct
  Operators,        \* the operators of the named methods the client uses
  CustomOperators,  \* [op, precedence] records given to BinaryOp
  PrefixOperators,  \* [op, precedence] records given to PrefixOp
  Malformed,        \* names the identifier and operator validators reject
  MaxArgs,          \* bound: arguments of one call or IN list
  MaxNodes          \* bound: nodes built in one behaviour

\* The words the code itself writes; operators are named by the client's choice
\* of methods.
Punctuation ==
  {" ", "(", ")", ",", "[", "]", ".", "-", "NOT", "EXISTS", "DISTINCT", "AND",
   "CAST", "AS t", "COLLATE c"}

ASSUME ClientAssumption ==
  /\ Punctuation \cup Subqueries \cup Functions \cup Operators \subseteq Tokens
  /\ RawExprs \subseteq [text : Seq(Tokens), precedence : Precedences]
  /\ RawConditions \subseteq Seq(Tokens)
  /\ Numbers \subseteq Int
  /\ \A n \in Numbers : Digits[IF n < 0 THEN -n ELSE n] \in Tokens
  /\ CustomOperators \cup PrefixOperators
       \subseteq [op : Tokens, precedence : Precedences]
  /\ MaxArgs \in Nat

VARIABLES
  nodes,       \* every node built so far; a shared_ptr is an index
  conditions,  \* the nodes held as Condition; any node may be held as Expr
  outcome      \* "built", or the exception the last call threw

vars == <<nodes, conditions, outcome>>

-----------------------------------------------------------------------------
\* A Part is a literal fragment (node = 0) or a ChildRef.
Fragment(text) == [text |-> text, node |-> 0, context |-> kExtract]

ChildRef(node, context) == [text |-> <<>>, node |-> node, context |-> context]

Infix(op) == Fragment(<<" ", op, " ">>)

\* Mutant: the size forgets the parentheses.
PartSizeBare(heap, part) ==
  IF part.node = 0 THEN Len(part.text) ELSE heap[part.node].size

PartSize(heap, part) ==
  IF part.node = 0 THEN Len(part.text)
  ELSE heap[part.node].size
       + (IF NeedsParens(heap[part.node].precedence, part.context) THEN 2 ELSE 0)

\* The loop of MakeNode: size += PartSize(part), part by part.
TotalSize(heap, parts) ==
  LET upto[k \in 0..Len(parts)] ==
        IF k = 0 THEN 0 ELSE upto[k-1] + PartSize(heap, parts[k])
  IN  upto[Len(parts)]

MakeLeaf(text, precedence) ==
  [precedence |-> precedence, parts |-> <<Fragment(text)>>, size |-> Len(text)]

MakeNode(precedence, parts) ==
  [precedence |-> precedence, parts |-> parts, size |-> TotalSize(nodes, parts)]

\* Mutant: an operand is looked at one level down.
PartTextLoose(heap, text, part) ==
  IF part.node = 0 THEN part.text
  ELSE IF NeedsParens(heap[part.node].precedence, part.context + 1)
       THEN <<"(">> \o text[part.node] \o <<")">>
       ELSE text[part.node]

\* AppendPart, given the text of every earlier node.
PartText(heap, text, part) ==
  IF part.node = 0 THEN part.text
  ELSE IF NeedsParens(heap[part.node].precedence, part.context)
       THEN <<"(">> \o text[part.node] \o <<")">>
       ELSE text[part.node]

\* Render of every node: children come before their parents in the heap.
Render(heap) ==
  LET text[i \in 1..Len(heap)] ==
        FlattenSeq([k \in 1..Len(heap[i].parts) |->
                      PartText(heap, text, heap[i].parts[k])])
  IN  text

RenderWithContext(heap, i, context) ==
  PartText(heap, Render(heap), ChildRef(i, context))

-----------------------------------------------------------------------------
Exprs == DOMAIN nodes

Argument == SeqOf(Exprs, MaxArgs)

Init == /\ nodes = <<>>
        /\ conditions = {}
        /\ outcome = "built"

Build(node) ==
  /\ Len(nodes) < MaxNodes
  /\ nodes' = Append(nodes, node)
  /\ outcome' = "built"

BuildExpr(node) == Build(node) /\ UNCHANGED conditions

\* Mutant: the handle names the node built before.
BuildConditionStale(node) == Build(node) /\ conditions' = conditions \cup {Len(nodes)}

BuildCondition(node) ==
  Build(node) /\ conditions' = conditions \cup {Len(nodes) + 1}

Throw(exception) ==
  outcome' = exception /\ UNCHANGED <<nodes, conditions>>

-----------------------------------------------------------------------------
\* Leaves.
FromRaw(raw) == BuildExpr(MakeLeaf(raw.text, raw.precedence))

IntegerText(n) == IF n < 0 THEN <<"-", Digits[-n]>> ELSE <<Digits[n]>>

FromInteger(n) == BuildExpr(MakeLeaf(IntegerText(n), kSymbol))

ConditionFromRaw(text) == BuildCondition(MakeLeaf(text, kSymbol))

\* Null, Bool and CountAll.
Word(word) ==
  word \in {"NULL", "TRUE", "FALSE", "COUNT(*)"} /\ BuildExpr(MakeLeaf(<<word>>, kSymbol))

Bracketed(query) == <<"(", query, ")">>

ExistsWords(test) ==
  IF test = "EXISTS" THEN <<"EXISTS", " ">> ELSE <<"NOT", " ", "EXISTS", " ">>

Exists(test, query) ==
  /\ test \in {"EXISTS", "NOT EXISTS"}
  /\ BuildCondition(MakeLeaf(ExistsWords(test) \o Bracketed(query), kSymbol))

-----------------------------------------------------------------------------
\* Calls and value lists: terms sit at kExtract, where brackets already stand.
CommaList(args) ==
  [k \in 1 .. 2 * Len(args) - 1 |->
     IF k % 2 = 1 THEN ChildRef(args[(k + 1) \div 2], kExtract)
                  ELSE Fragment(<<",", " ">>)]

BuildCallNode(name, prefix, args) ==
  MakeNode(kSymbol, <<Fragment(<<name, "(">> \o prefix)>>
                      \o CommaList(args) \o <<Fragment(<<")">>)>>)

Call(name, args) ==
  \/ /\ name \in Malformed
     /\ Throw("InvalidIdentifier")
  \/ /\ name \notin Malformed
     /\ BuildExpr(BuildCallNode(name, <<>>, args))

CallDistinct(name, args) ==
  \/ /\ name \in Malformed
     /\ Throw("InvalidIdentifier")
  \/ /\ name \notin Malformed
     /\ args = <<>>
     /\ Throw("InvalidArgument")
  \/ /\ name \notin Malformed
     /\ args # <<>>
     /\ BuildExpr(BuildCallNode(name, <<"DISTINCT", " ">>, args))

\* COALESCE, GREATEST and LEAST: EnsureNonEmptyArgs, then Call.
CallNonEmpty(name, args) ==
  /\ name \in Operators \cap {"COALESCE", "GREATEST", "LEAST"}
  /\ \/ args = <<>> /\ Throw("InvalidArgument")
     \/ args # <<>> /\ Call(name, args)

NullIf(a, b) == "NULLIF" \in Operators /\ Call("NULLIF", <<a, b>>)

\* Count, Sum, Avg, Min and Max.
Aggregate(name, x) ==
  name \in {"COUNT", "SUM", "AVG", "MIN", "MAX"} /\ Call(name, <<x>>)

CountDistinct(x) == "COUNT" \in Operators /\ CallDistinct("COUNT", <<x>>)

BuildInListNode(self, connector, values) ==
  MakeNode(kBetween, <<ChildRef(self, kBetween), Infix(connector), Fragment(<<"(">>)>>
                       \o CommaList(values) \o <<Fragment(<<")">>)>>)

InList(connector, self, values) ==
  /\ connector \in Operators \cap {"IN", "NOT IN"}
  /\ \/ values = <<>> /\ Throw("InvalidArgument")
     \/ values # <<>> /\ BuildCondition(BuildInListNode(self, connector, values))

InSubquery(connector, self, query) ==
  /\ connector \in Operators \cap {"IN", "NOT IN"}
  /\ BuildCondition(MakeNode(kBetween,
       <<ChildRef(self, kBetween),
         Fragment(<<" ", connector, " ">> \o Bracketed(query))>>))

-----------------------------------------------------------------------------
\* Infix operators: both operands at the operator's own precedence.
InfixParts(op, a, b, precedence) ==
  <<ChildRef(a, precedence), Infix(op), ChildRef(b, precedence)>>

BinaryOp(op, a, b, precedence) ==
  \/ /\ op \in Malformed
     /\ Throw("InvalidOperator")
  \/ /\ op \notin Malformed
     /\ BuildExpr(MakeNode(precedence, InfixParts(op, a, b, precedence)))

Power(a, b) == "^" \in Operators /\ BinaryOp("^", a, b, kExp)

Arithmetic(op, a, b) ==
  \/ op \in Operators \cap {"+", "-"} /\ BinaryOp(op, a, b, kPlus)
  \/ op \in Operators \cap {"*", "/", "%"} /\ BinaryOp(op, a, b, kMul)

Concat(a, b) == "||" \in Operators /\ BinaryOp("||", a, b, kAnyOther)

Predicate(op, a, b, precedence) ==
  BuildCondition(MakeNode(precedence, InfixParts(op, a, b, precedence)))

Like(op, a, b) ==
  /\ op \in Operators \cap {"LIKE", "NOT LIKE", "ILIKE", "NOT ILIKE",
                            "SIMILAR TO", "NOT SIMILAR TO"}
  /\ Predicate(op, a, b, kBetween)

CompareOp(a, op, b) ==
  /\ op \in Operators \cap {"<", "<=", ">", ">=", "=", "!="}
  /\ Predicate(op, a, b, kCompare)

IsDistinctFrom(op, a, b) ==
  /\ op \in Operators \cap {"IS DISTINCT FROM", "IS NOT DISTINCT FROM"}
  /\ Predicate(op, a, b, kIs)

And(a, b) ==
  "AND" \in Operators /\ {a, b} \subseteq conditions /\ Predicate("AND", a, b, kAnd)

Or(a, b) ==
  "OR" \in Operators /\ {a, b} \subseteq conditions /\ Predicate("OR", a, b, kOr)

Between(op, x, a, b) ==
  /\ op \in Operators \cap {"BETWEEN", "NOT BETWEEN"}
  /\ BuildCondition(MakeNode(kBetween,
       InfixParts(op, x, a, kBetween)
         \o <<Infix("AND"), ChildRef(b, kBetween)>>))

Dot(a, b) ==
  /\ "." \in Operators
  /\ BuildExpr(MakeNode(kDot, <<ChildRef(a, kDot), Fragment(<<".">>),
                                ChildRef(b, kDot)>>))

-----------------------------------------------------------------------------
\* Prefix, postfix and bracketing operators.
PrefixOp(op, x, precedence) ==
  \/ /\ op \in Malformed
     /\ Throw("InvalidOperator")
  \/ /\ op \notin Malformed
     /\ BuildExpr(MakeNode(precedence, <<Fragment(<<op, " ">>),
                                         ChildRef(x, precedence)>>))

Negate(x) ==
  /\ "-" \in Operators
  /\ BuildExpr(MakeNode(kUnaryPlus, <<Fragment(<<"-">>), ChildRef(x, kUnaryPlus)>>))

NotParts(x) == <<Fragment(<<"NOT", " ">>), ChildRef(x, kNot)>>

NotExpr(x) == "NOT" \in Operators /\ BuildExpr(MakeNode(kNot, NotParts(x)))

NotCondition(x) ==
  "NOT" \in Operators /\ x \in conditions /\ BuildCondition(MakeNode(kNot, NotParts(x)))

IsTest(test, x) ==
  /\ test \in Operators \cap {"IS TRUE", "IS FALSE", "IS NULL", "IS NOT NULL"}
  /\ BuildCondition(MakeNode(kIs, <<ChildRef(x, kIs), Fragment(<<" ", test>>)>>))

Collate(x) ==
  /\ "COLLATE" \in Operators
  /\ BuildExpr(MakeNode(kCollate, <<ChildRef(x, kCollate),
                                    Fragment(<<" ", "COLLATE c">>)>>))

CastRaw(x) ==
  /\ "CAST" \in Operators
  /\ BuildExpr(MakeNode(kTypecast, <<Fragment(<<"CAST", " ", "(">>),
                                     ChildRef(x, kTypecast),
                                     Fragment(<<" ", "AS t", ")">>)>>))

Index(a, b) ==
  /\ "[]" \in Operators
  /\ BuildExpr(MakeNode(kIndex, <<ChildRef(a, kIndex), Fragment(<<"[">>),
                                  ChildRef(b, kExtract), Fragment(<<"]">>)>>))

Quantified(op, x, array) ==
  /\ op \in Operators \cap {"= ANY", "<> ALL"}
  /\ BuildCondition(MakeNode(kCompare,
       <<ChildRef(x, kCompare), Fragment(<<" ", op, " ", "(">>),
         ChildRef(array, kExtract), Fragment(<<")">>)>>))

QuantifiedSubquery(op, x, query) ==
  /\ op \in Operators \cap {"= ANY", "<> ALL"}
  /\ BuildCondition(MakeNode(kCompare,
       <<ChildRef(x, kCompare), Fragment(<<" ", op, " ">> \o Bracketed(query))>>))

-----------------------------------------------------------------------------
NewLeaf ==
  \/ \E raw \in RawExprs : FromRaw(raw)
  \/ \E n \in Numbers : FromInteger(n)
  \/ \E text \in RawConditions : ConditionFromRaw(text)
  \/ \E word \in Operators : Word(word)
  \/ \E test \in Operators, query \in Subqueries : Exists(test, query)

NewList ==
  \E args \in Argument :
    \/ \E name \in Functions : Call(name, args) \/ CallDistinct(name, args)
    \/ \E name \in Operators : CallNonEmpty(name, args)
    \/ \E op \in Operators, x \in Exprs : InList(op, x, args)

NewUnary ==
  \E x \in Exprs :
    \/ \E custom \in PrefixOperators : PrefixOp(custom.op, x, custom.precedence)
    \/ Negate(x) \/ NotExpr(x) \/ NotCondition(x) \/ Collate(x) \/ CastRaw(x)
    \/ \E op \in Operators : IsTest(op, x) \/ Aggregate(op, x)
    \/ CountDistinct(x)
    \/ \E op \in Operators, query \in Subqueries :
         InSubquery(op, x, query) \/ QuantifiedSubquery(op, x, query)

NewBinary ==
  \E a, b \in Exprs :
    \/ \E custom \in CustomOperators : BinaryOp(custom.op, a, b, custom.precedence)
    \/ Power(a, b) \/ Concat(a, b) \/ Dot(a, b) \/ Index(a, b)
    \/ And(a, b) \/ Or(a, b) \/ NullIf(a, b)
    \/ \E op \in Operators :
         \/ Arithmetic(op, a, b) \/ Like(op, a, b) \/ CompareOp(a, op, b)
         \/ IsDistinctFrom(op, a, b) \/ Quantified(op, a, b)
         \/ \E x \in Exprs : Between(op, x, a, b)

Next == NewLeaf \/ NewList \/ NewUnary \/ NewBinary

Spec == Init /\ [][Next]_vars

-----------------------------------------------------------------------------
Part == [text : Seq(Tokens), node : Nat, context : Precedences]

Node == [precedence : Precedences, parts : Seq(Part), size : Nat]

\* A node refers to earlier nodes only, so no handle dangles and no node
\* contains itself (node.hpp: "Immutable once built").
ChildrenFirst(heap) ==
  \A i \in DOMAIN heap : \A k \in DOMAIN heap[i].parts : heap[i].parts[k].node < i

\* Well-formed nodes, referring only to earlier ones, and handles to nodes
\* that exist.
TypeOK ==
  /\ nodes \in Seq(Node)
  /\ ChildrenFirst(nodes)
  /\ conditions \subseteq DOMAIN nodes
  /\ outcome \in {"built", "InvalidIdentifier", "InvalidOperator", "InvalidArgument"}

\* node.hpp:30-32, "size is the exact rendered length": the size computed at
\* construction from the sizes of the parts is the length of what AppendPart
\* later writes, through any sharing and nesting of nodes.
SizeExact == \A i \in DOMAIN nodes : nodes[i].size = Len(Render(nodes)[i])

Eager ==
  INSTANCE EagerTexts WITH
    calls <- [i \in DOMAIN nodes |->
                [precedence |-> nodes[i].precedence, parts |-> nodes[i].parts]],
    texts <- Render(nodes)

\* node.hpp:26-32, "A lazily-rendered expression/condition tree node": laziness
\* shows nowhere.  What a node renders to is the text it would have been given
\* when it was built, and no later call changes it.
ImplementsEager == Eager!EagerSpec
=============================================================================
