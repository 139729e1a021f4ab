-------------------------------- MODULE MCExpr --------------------------------
\* Small client vocabularies for checking ExprNodes and ExprReading.
EXTENDS ExprReading

AnyToken == STRING

NoTexts == {}

Column == {[text |-> <<"a">>, precedence |-> kSymbol]}

\* Raw SQL whose declared precedence is the true one.
HonestRaw ==
  Column \cup {[text |-> <<"x", " ", "||", " ", "y">>, precedence |-> kAnyOther]}

\* Unsigned where only one of the two can matter.
One == {1}

Signed == {-1, 1}

Spelled == [n \in 0..1 |-> ToString(n)]

\* This client keeps what the properties ask of it, except where a run shows what
\* comes of it otherwise.
ASSUME Vocabulary == HonestOperators /\ PlainNames /\ CarefulClient

\* One operator of every precedence level, the forms that bracket their
\* operands, and one of each family of atoms.
AllForms ==
  {".", "[]", "CAST", "-", "COLLATE", "^", "*", "+", "||", "LIKE", "BETWEEN",
   "=", "IS NULL", "IS DISTINCT FROM", "NOT", "AND", "OR", "IN", "= ANY", "EXISTS",
   "COALESCE", "NULLIF", "COUNT", "NULL", "NOT EXISTS"}

\* Few enough operators for four nodes, three levels of nesting: a fourth node
\* is an operator over nodes of these only.
DeepLevels == {"-", "*", "=", "NOT", "AND", "OR"}

Written(i) == UNION {ToSet(nodes[i].parts[k].text) : k \in DOMAIN nodes[i].parts}

FewOperatorsWhenDeep ==
  Len(nodes) >= 3 =>
    \A i \in DOMAIN nodes : Written(i) \subseteq DeepLevels \cup {" ", "a", "1"}

OperatorWhenDeep ==
  Len(nodes') = 4 =>
    Written(4)' \cap {"(", ")", "x", "NULL", "a", "1", "@>", "~"} = {}

\* outcome is read by no action.
Built == <<nodes, conditions>>

ContainsOp == {[op |-> "@>", precedence |-> kAnyOther], [op |-> "--", precedence |-> kAnyOther]}
TildeOp    == {[op |-> "~", precedence |-> kAnyOther], [op |-> "--", precedence |-> kAnyOther]}

RejectedNames == {"--", "no good"}

\* A raw condition that is the atom the code takes it for.
RawAtom == {<<"(", "x", " ", "OR", " ", "y", ")">>}
=============================================================================
