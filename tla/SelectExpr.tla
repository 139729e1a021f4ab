------------------------------ MODULE SelectExpr ------------------------------
(***************************************************************************)
(* The SELECT builder of select_expr.cpp: optional clauses, rendered by    *)
(* ToString and, independently, by ToStringFormatted.  The client may      *)
(* catch an exception and go on, and may go on with a builder it has       *)
(* moved from.                                                             *)
(***************************************************************************)
EXTENDS ClauseText

CONSTANTS
  Tokens,       \* the alphabet of texts
  TermLists,    \* arguments of Select, DistinctOn and GroupBy
  OrderLists,   \* arguments of OrderBy, [expr, direction, nulls_order] terms
  Conditions,   \* texts of the conditions given to Where and Having
  Counts        \* texts of the integers given to Limit and Offset

Keywords ==
  {"SELECT", "DISTINCT", "DISTINCT ON", "(", ")", "FROM", "WHERE", "GROUP BY",
   "HAVING", "ORDER BY", "LIMIT", "OFFSET"}

SortWords == {"DESC", "NULLS FIRST", "NULLS LAST"}

\* An argument has a text.  Its commas and keywords, those of a subquery, stand
\* inside brackets, and a bracketed text is one token here.
Text == Seq(Tokens \ (Keywords \cup Layout \cup {", "})) \ {<<>>}

SortKey == Seq(Tokens \ (Keywords \cup Layout \cup SortWords \cup {", "})) \ {<<>>}

OrderByTerm ==
  [expr        : SortKey,
   direction   : {"kAscending", "kDescending"},
   nulls_order : {"kDefault", "kFirst", "kLast"}]

ASSUME SelectAssumption ==
  /\ Keywords \cup Layout \cup SortWords \cup {"t", ", "} \subseteq Tokens
  /\ TermLists \subseteq Seq(Text)
  /\ OrderLists \subseteq Seq(OrderByTerm)
  /\ Conditions \cup Counts \subseteq Text

VARIABLES
  from,      \* from_, the text of the FROM item
  distinct,  \* distinct_
  clauses,   \* the std::optional members, by name; one value is a list of one
  outcome,   \* how the last call ended
  text       \* what the last call returned, if it rendered

fields == <<from, distinct, clauses>>
vars   == <<fields, outcome, text>>

ListClauses      == {"distinctOn", "select", "groupBy", "orderBy"}
ConditionClauses == {"where", "having"}
CountClauses     == {"limit", "offset"}
Clauses          == ListClauses \cup ConditionClauses \cup CountClauses

\* What a moved-from vector or Condition leaves inside its optional: rendering
\* the Condition would dereference a null node.
MovedOut == <<<<"moved out">>>>

Init ==
  /\ from = <<"t">>
  /\ distinct = FALSE
  /\ clauses = [c \in Clauses |-> None]
  /\ outcome = "ok"
  /\ text = <<>>

Return(status) == outcome' = status /\ text' = <<>>

\* Mutant: the value is stored without its optional.
SetUnwrapped(c, value) ==
  /\ UNCHANGED <<from, distinct>>
  /\ \/ ~IsEmpty(clauses[c]) /\ Return("LogicError") /\ UNCHANGED clauses
     \/ /\ IsEmpty(clauses[c])
        /\ clauses' = [clauses EXCEPT ![c] = value]
        /\ Return("ok")

SetOnce(c, value) ==
  /\ UNCHANGED <<from, distinct>>
  /\ \/ /\ ~IsEmpty(clauses[c])
        /\ Return("LogicError")
        /\ UNCHANGED clauses
     \/ /\ IsEmpty(clauses[c])
        /\ clauses' = [clauses EXCEPT ![c] = Some(value)]
        /\ Return("ok")

Distinct == distinct' = TRUE /\ Return("ok") /\ UNCHANGED <<from, clauses>>

DistinctOn(exps) == SetOnce("distinctOn", exps)
Select(items)    == SetOnce("select", items)
Where(exp)       == SetOnce("where", <<exp>>)
OrderBy(terms)   == SetOnce("orderBy", terms)
GroupBy(exps)    == SetOnce("groupBy", exps)
Having(exp)      == SetOnce("having", <<exp>>)
Limit(limit)     == SetOnce("limit", <<limit>>)
Offset(offset)   == SetOnce("offset", <<offset>>)

\* auto r = std::move(q).Op(...), after which the client goes on with q.
Move ==
  /\ from' = <<>>
  /\ clauses' = [c \in Clauses |->
                   IF IsEmpty(clauses[c]) \/ c \in CountClauses THEN clauses[c]
                   ELSE IF c \in ListClauses THEN Some(<<>>)
                   ELSE Some(MovedOut)]
  /\ UNCHANGED distinct
  /\ Return("ok")

-----------------------------------------------------------------------------
IsSet(c) == ~IsEmpty(clauses[c])

\* Mutant: the FROM item is not looked at, so a moved-from builder may render.
EnsureValidSourceless == IsSet("select") /\ ~(distinct /\ IsSet("distinctOn"))

EnsureValid ==
  /\ IsSet("select")
  /\ ~IsEmpty(from)
  /\ ~(distinct /\ IsSet("distinctOn"))

\* keyword, then the clause, if the clause is set.
Optional(c, keyword, Rendered(_)) ==
  IF IsSet(c) THEN keyword \o Rendered(clauses[c][1]) ELSE <<>>

Verbatim(value) == value[1]

OrderCsv(terms) == JoinCsv(RenderAll(terms))

OrderCsvIndented(terms) == JoinCsvIndented(RenderAll(terms))

\* Mutant: HAVING before GROUP BY.
FilterTextSwapped ==
  Optional("where", <<"WHERE">>, Verbatim)
  \o Optional("having", <<"HAVING">>, Verbatim)
  \o Optional("groupBy", <<"GROUP BY">>, JoinCsv)

FilterText ==
  Optional("where", <<"WHERE">>, Verbatim)
  \o Optional("groupBy", <<"GROUP BY">>, JoinCsv)
  \o Optional("having", <<"HAVING">>, Verbatim)

ToStringText ==
  (IF IsSet("distinctOn")
     THEN <<"SELECT", "DISTINCT ON", "(">> \o JoinCsv(clauses["distinctOn"][1]) \o <<")">>
     ELSE IF distinct THEN <<"SELECT", "DISTINCT">> ELSE <<"SELECT">>)
  \o JoinCsv(clauses["select"][1]) \o <<"FROM">> \o from
  \o FilterText
  \o Optional("orderBy", <<"ORDER BY">>, OrderCsv)
  \o Optional("limit", <<"LIMIT">>, Verbatim)
  \o Optional("offset", <<"OFFSET">>, Verbatim)

Indented(value) == <<"    ">> \o value[1]

Section(keyword) == <<"\n", keyword, "\n">>

ToStringFormattedText ==
  (IF IsSet("distinctOn")
     THEN <<"SELECT", "DISTINCT ON", "(">> \o JoinCsv(clauses["distinctOn"][1])
            \o <<")", "\n">>
     ELSE IF distinct THEN <<"SELECT", "DISTINCT", "\n">> ELSE <<"SELECT", "\n">>)
  \o JoinCsvIndented(clauses["select"][1]) \o Section("FROM") \o <<"    ">> \o from
  \o Optional("where", Section("WHERE"), Indented)
  \o Optional("groupBy", Section("GROUP BY"), JoinCsvIndented)
  \o Optional("having", Section("HAVING"), Indented)
  \o Optional("orderBy", Section("ORDER BY"), OrderCsvIndented)
  \o Optional("limit", Section("LIMIT"), Indented)
  \o Optional("offset", Section("OFFSET"), Indented)

\* Both renderings are const and throw what EnsureValid throws.
Rendering(rendered) ==
  /\ UNCHANGED fields
  /\ \/ ~EnsureValid /\ Return("LogicError")
     \/ EnsureValid /\ outcome' = "rendered" /\ text' = rendered

RenderPlain == Rendering(ToStringText)

RenderFormatted == Rendering(ToStringFormattedText)

Next ==
  \/ \E list \in TermLists :
       DistinctOn(list) \/ Select(list) \/ GroupBy(list)
  \/ \E list \in OrderLists : OrderBy(list)
  \/ \E condition \in Conditions : Where(condition) \/ Having(condition)
  \/ \E count \in Counts : Limit(count) \/ Offset(count)
  \/ Distinct \/ Move \/ RenderPlain \/ RenderFormatted

Spec == Init /\ [][Next]_vars

-----------------------------------------------------------------------------
Values(c) ==
  CASE c = "orderBy"            -> OrderLists
    [] c \in ConditionClauses   -> {<<condition>> : condition \in Conditions}
    [] c \in CountClauses       -> {<<count>> : count \in Counts}
    [] OTHER                    -> TermLists

MovedFrom(c) ==
  CASE c \in ListClauses      -> {<<>>}
    [] c \in ConditionClauses -> {MovedOut}
    [] OTHER                  -> {}

TypeOK ==
  /\ from \in {<<>>, <<"t">>}
  /\ distinct \in BOOLEAN
  /\ DOMAIN clauses = Clauses
  /\ \A c \in Clauses :
       IsSet(c) => clauses[c] \in {Some(value) : value \in Values(c) \cup MovedFrom(c)}
  /\ outcome \in {"ok", "rendered", "LogicError"}
  /\ text \in Seq(Tokens)

\* Reading a statement back by its keywords.
INSTANCE StatementReading WITH Words <- Keywords

ClauseKeyword ==
  [where |-> "WHERE", groupBy |-> "GROUP BY", having |-> "HAVING",
   orderBy |-> "ORDER BY", limit |-> "LIMIT", offset |-> "OFFSET"]

SelectKeyword(ws) ==
  IF "DISTINCT ON" \in ToSet(ws) THEN ")"
  ELSE IF "DISTINCT" \in ToSet(ws) THEN "DISTINCT" ELSE "SELECT"

\* expression [ DESC ] [ NULLS { FIRST | LAST } ]
ReadSortTerm[ws \in Seq(Tokens)] ==
  LET nulls      == CASE Last(ws) = "NULLS FIRST" -> "kFirst"
                      [] Last(ws) = "NULLS LAST"  -> "kLast"
                      [] OTHER                    -> "kDefault"
      sorted     == IF nulls = "kDefault" THEN ws ELSE Front(ws)
      descending == Last(sorted) = "DESC"
  IN  [expr        |-> IF descending THEN Front(sorted) ELSE sorted,
       direction   |-> IF descending THEN "kDescending" ELSE "kAscending",
       nulls_order |-> nulls]

ReadOrder[clause \in Seq(Seq(Seq(Tokens)))] ==
  [n \in DOMAIN clause |-> [k \in DOMAIN clause[n] |-> ReadSortTerm[clause[n][k]]]]

ReadStatement[ws \in Seq(Tokens)] ==
  [c \in Clauses \cup {"distinct"} |->
     CASE c = "distinct"   -> IF "DISTINCT" \in ToSet(ws) THEN Some(<<>>) ELSE None
       [] c = "distinctOn" -> ReadClause(ws, "(")
       [] c = "select"     -> ReadClause(ws, SelectKeyword(ws))
       [] c = "orderBy"    -> ReadOrder[ReadClause(ws, ClauseKeyword[c])]
       [] OTHER            -> ReadClause(ws, ClauseKeyword[c])]

Alive == ~IsEmpty(from)

Blank == [c \in Clauses \cup {"distinct"} |-> None]

Promise == INSTANCE SetOnceBuilder WITH
  Kinds     <- {"SelectExpr"},
  Lists     <- {},
  Flags     <- {"distinct"},
  Values    <- LAMBDA c : {Some(value) : value \in Values(c)},
  Raised    <- Some(<<>>),
  Refusable <- {},
  Complete  <- LAMBDA k, clause :
                 clause["select"] # None
                 /\ (clause["distinct"] = None \/ clause["distinctOn"] = None),
  kind      <- "SelectExpr",
  alive     <- Alive,
  clause    <- IF ~Alive THEN Blank
               ELSE [c \in Clauses \cup {"distinct"} |->
                       IF c # "distinct" THEN clauses[c]
                       ELSE IF distinct THEN Some(<<>>) ELSE None],
  status    <- outcome,
  statement <- IF outcome = "rendered" THEN ReadStatement[Unlaid(text)] ELSE Blank

\* docs/SQL.md:148-154 of SELECT: whatever the order of the calls and the
\* exceptions on the way, a statement holds the clauses that were set and no
\* other, in either rendering, and a builder that was moved from, whose
\* optionals still look set, never renders one.
KeepsPromise == Promise!Spec

GrammarOrder ==
  <<"SELECT", "DISTINCT", "DISTINCT ON", "(", ")", "FROM", "WHERE", "GROUP BY",
    "HAVING", "ORDER BY", "LIMIT", "OFFSET">>

Rank(word) == CHOOSE r \in DOMAIN GrammarOrder : GrammarOrder[r] = word

\* The clauses come in the order of PostgreSQL's SELECT grammar, each once,
\* in whatever order the client set them.
ClausesInGrammarOrder ==
  \A j, k \in DOMAIN text :
    j < k /\ {text[j], text[k]} \subseteq Keywords => Rank(text[j]) < Rank(text[k])

\* virtual_table.hpp:16-17: ToStringFormatted is the statement of ToString laid
\* out on several lines.  The two are written out separately in the code, down
\* to the separators of their lists.
FormattedAgrees ==
  EnsureValid => Unlaid(ToStringFormattedText) = Unlaid(ToStringText)
=============================================================================
