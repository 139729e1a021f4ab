----------------------------- MODULE UpdateDelete -----------------------------
(***************************************************************************)
(* The UPDATE and DELETE builders of update.cpp and delete_from.cpp, which *)
(* differ in the SET clause, in the name of the clause that brings in      *)
(* another FROM item, and in what ToString asks for.  Every member is a    *)
(* text, empty while its clause is not set.                                *)
(***************************************************************************)
EXTENDS ClauseText

CONSTANTS
  Tokens,        \* the alphabet of texts
  Assignments,   \* [column, value] records of texts given to Update::Set
  FromItems,     \* texts of the FROM items given to From and Using
  Conditions,    \* texts of the conditions given to Where
  TermLists,     \* arguments of Returning
  MaxSetLength   \* bound: tokens in the SET clause before another Set

Keywords == {"UPDATE", "DELETE FROM", "SET", "FROM", "USING", "WHERE", "RETURNING"}

\* As in SelectExpr, what an argument has between brackets is one token.
Text == Seq(Tokens \ (Keywords \cup {", "})) \ {<<>>}

ASSUME UpdateDeleteAssumption ==
  /\ Keywords \cup {"t", ", ", " = "} \subseteq Tokens
  /\ Assignments \subseteq [column : Text, value : Text]
  /\ FromItems \cup Conditions \subseteq Text
  /\ TermLists \subseteq Seq(Text)

VARIABLES
  kind,      \* the builder's class
  table,     \* Update's table_, DeleteFrom's from_
  set,       \* Update's set_
  clauses,   \* the members for the clauses that are set once
  outcome,   \* how the last call ended
  text,      \* what the last call returned, if it was ToString
  accepted   \* history: the terms given by the calls that returned

fields == <<kind, table, set, clauses>>
vars   == <<fields, outcome, text, accepted>>

Clauses == {"source", "where", "returning"}

Asked == [c \in Clauses \cup {"set"} |-> <<>>]

Init ==
  /\ kind \in {"Update", "DeleteFrom"}
  /\ table = <<"t">>
  /\ set = <<>>
  /\ clauses = [c \in Clauses |-> <<>>]
  /\ outcome = "ok"
  /\ text = <<>>
  /\ accepted = Asked

Return(status) == outcome' = status /\ text' = <<>>

Throw == Return("LogicError") /\ UNCHANGED <<fields, accepted>>

-----------------------------------------------------------------------------
\* Mutant: a second call replaces the first.
SetReplaced(c, terms) ==
  /\ clauses' = [clauses EXCEPT ![c] = JoinCsv(terms)]
  /\ accepted' = [accepted EXCEPT ![c] = terms]
  /\ Return("ok")
  /\ UNCHANGED <<kind, table, set>>

SetOnce(c, terms) ==
  \/ ~IsEmpty(clauses[c]) /\ Throw
  \/ /\ IsEmpty(clauses[c])
     /\ clauses' = [clauses EXCEPT ![c] = JoinCsv(terms)]
     /\ accepted' = [accepted EXCEPT ![c] = terms]
     /\ Return("ok")
     /\ UNCHANGED <<kind, table, set>>

Assignment(column, value) == column \o <<" = ">> \o value

\* Mutant: the assignments run into one another.
ExtendedBare(s, assignment) == s \o assignment

Extended(s, assignment) ==
  s \o (IF IsEmpty(s) THEN <<>> ELSE <<", ">>) \o assignment

Set(column, value) ==
  /\ kind = "Update"
  /\ Len(set) < MaxSetLength
  /\ set' = Extended(set, Assignment(column, value))
  /\ accepted' = [accepted EXCEPT !["set"] = Append(@, Assignment(column, value))]
  /\ Return("ok")
  /\ UNCHANGED <<kind, table, clauses>>

From(item)  == kind = "Update" /\ SetOnce("source", <<item>>)
Using(item) == kind = "DeleteFrom" /\ SetOnce("source", <<item>>)

\* From or Using of a subquery without an alias: rendering it as a FROM item
\* throws before the builder is touched.
SourceUnaliased == Throw

Where(exp) == SetOnce("where", <<exp>>)

Returning(items) == SetOnce("returning", items)

\* auto r = std::move(q).Op(...), after which the client goes on with q.
Move ==
  /\ table' = <<>>
  /\ set' = <<>>
  /\ clauses' = [c \in Clauses |-> <<>>]
  /\ accepted' = Asked
  /\ Return("ok")
  /\ UNCHANGED kind

-----------------------------------------------------------------------------
Optional(keyword, clause) ==
  IF IsEmpty(clause) THEN <<>> ELSE <<keyword>> \o clause

Statement ==
  (IF kind = "Update"
     THEN <<"UPDATE">> \o table \o <<"SET">> \o set \o Optional("FROM", clauses["source"])
     ELSE <<"DELETE FROM">> \o table \o Optional("USING", clauses["source"]))
  \o Optional("WHERE", clauses["where"])
  \o Optional("RETURNING", clauses["returning"])

IsComplete == IF kind = "Update" THEN ~IsEmpty(set) ELSE ~IsEmpty(table)

RenderCall ==
  \/ ~IsComplete /\ Throw
  \/ /\ IsComplete
     /\ outcome' = "rendered"
     /\ text' = Statement
     /\ UNCHANGED <<fields, accepted>>

Next ==
  \/ \E assignment \in Assignments : Set(assignment.column, assignment.value)
  \/ \E item \in FromItems : From(item) \/ Using(item)
  \/ \E exp \in Conditions : Where(exp)
  \/ \E items \in TermLists : Returning(items)
  \/ SourceUnaliased \/ Move \/ RenderCall

Spec == Init /\ [][Next]_vars

-----------------------------------------------------------------------------
Terms ==
  TermLists \cup {<<term>> : term \in FromItems \cup Conditions}
            \cup {<<Assignment(a.column, a.value)>> : a \in Assignments}

\* Every member is the text of the terms it was given.
TypeOK ==
  /\ kind \in {"Update", "DeleteFrom"}
  /\ table \in {<<>>, <<"t">>}
  /\ outcome \in {"ok", "rendered", "LogicError"}
  /\ text \in Seq(Tokens)
  /\ accepted \in [Clauses \cup {"set"} -> Seq(Seq(Tokens))]
  /\ set = JoinCsv(accepted["set"])
  /\ clauses = [c \in Clauses |-> JoinCsv(accepted[c])]

INSTANCE StatementReading WITH Words <- Keywords

Heading ==
  [set |-> "SET", where |-> "WHERE", returning |-> "RETURNING",
   source |-> IF kind = "Update" THEN "FROM" ELSE "USING"]

ReadStatement(ws) ==
  [c \in Clauses \cup {"set"} |-> FlattenSeq(ReadClause(ws, Heading[c]))]

\* UPDATE or DELETE FROM with no table after it.
NamesNoTable(ws) == Len(ws) = 1 \/ ws[2] \in Keywords

Alive == ~IsEmpty(table)

Promise == INSTANCE SetOnceBuilder WITH
  Kinds     <- {"Update", "DeleteFrom"},
  Lists     <- {"set"},
  Flags     <- {},
  Values    <- LAMBDA c : Terms \cup {<<>>},
  Raised    <- <<>>,
  Refusable <- {"source"},
  Complete  <- LAMBDA k, clause : k = "Update" => clause["set"] # <<>>,
  alive     <- Alive,
  clause    <- IF Alive THEN accepted ELSE Asked,
  status    <- IF outcome = "rendered" /\ NamesNoTable(text) THEN "garbled" ELSE outcome,
  statement <- IF outcome = "rendered" /\ ~NamesNoTable(text)
               THEN ReadStatement(text) ELSE Asked

\* docs/SQL.md:148-154 of UPDATE and DELETE: whatever the order of the calls
\* and the exceptions on the way, a statement makes the assignments that were
\* asked for, in their order, and holds the other clauses as they were set, so
\* no WHERE is lost or replaced.  A builder that was moved from, which has lost
\* its WHERE, may be given assignments again and rendered, but it then names no
\* table and is no statement.
KeepsPromise == Promise!Spec
=============================================================================
