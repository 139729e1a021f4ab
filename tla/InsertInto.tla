------------------------------ MODULE InsertInto ------------------------------
(***************************************************************************)
(* The INSERT builder of insert_into.cpp, used as q = std::move(q).Op(...)  *)
(* by a client that may catch an exception and go on with q.               *)
(***************************************************************************)
EXTENDS ClauseText

CONSTANTS
  Tokens,           \* the alphabet of texts
  ColumnLists,      \* argument lists of Columns
  ValueLists,       \* argument lists of Values
  RowLists,         \* argument lists of Rows
  ReturningLists,   \* argument lists of Returning
  Targets,          \* conflict targets of OnConflictDoNothing / DoUpdate
  AssignmentLists   \* [column, value] lists of OnConflictDoUpdate

Text == Seq(Tokens)

Keywords ==
  {"INSERT INTO", "t", "VALUES", "(", ")", ", ", " ", "=", "ON CONFLICT",
   "DO NOTHING", "DO UPDATE SET", "RETURNING"}

ASSUME InsertAssumption ==
  /\ Keywords \subseteq Tokens
  /\ ColumnLists \cup ValueLists \cup ReturningLists \cup Targets \subseteq Seq(Text)
  /\ RowLists \subseteq Seq(Seq(Text))
  /\ AssignmentLists \subseteq Seq([column : Text, value : Text])

Punctuation == {"(", ")", ", "}

Clauses == {"ON CONFLICT", "RETURNING"}

\* A term is never empty.  The parentheses and commas inside one, as in a
\* function call, are part of a token of its own, no punctuation of the
\* statement.
PlainText == Seq(Tokens \ (Punctuation \cup Clauses)) \ {<<>>}

ASSUME TermAssumption ==
  /\ ColumnLists \cup ValueLists \subseteq Seq(PlainText)
  /\ RowLists \subseteq Seq(Seq(PlainText))

VARIABLES
  columns,      \* columns_
  rows,         \* rows_
  returning,    \* returning_
  onConflict,   \* on_conflict_
  outcome,      \* how the last call ended
  text,         \* what the last successful ToString returned
  accepted      \* history: what each setter was given by calls that returned

fields == <<columns, rows, returning, onConflict>>
vars   == <<fields, outcome, text, accepted>>

Setters == {"columns", "rows", "returning", "onConflict"}

-----------------------------------------------------------------------------
\* Mutant: only the first row is compared.
SameArityFirstRow(cols, rs) ==
  IsEmpty(cols) \/ \A r \in DOMAIN rs \cap {1} : Len(rs[r]) = Len(cols)

\* EnsureSameArity does not throw.
SameArity(cols, rs) ==
  IsEmpty(cols) \/ \A r \in DOMAIN rs : Len(rs[r]) = Len(cols)

Init ==
  /\ columns = <<>> /\ rows = <<>> /\ returning = <<>> /\ onConflict = <<>>
  /\ outcome = "ok"
  /\ text = <<>>
  /\ accepted = [setter \in Setters |-> {}]

Accept(setter, value) ==
  /\ outcome' = "ok"
  /\ accepted' = [accepted EXCEPT ![setter] = @ \cup {value}]
  /\ UNCHANGED text

Throw(exception) == outcome' = exception /\ UNCHANGED <<accepted, text>>

\* SetOnce or EnsureNotSet finds the clause already set.
AlreadySet(field) ==
  ~IsEmpty(field) /\ Throw("LogicError") /\ UNCHANGED fields

\* The arity is checked after the assignment, which is not rolled back.
EnsureSameArity(setter, value) ==
  \/ SameArity(columns', rows') /\ Accept(setter, value)
  \/ ~SameArity(columns', rows') /\ Throw("LogicError")

\* Mutant: a second list replaces the first.
ColumnsReplaced(cols) ==
  /\ columns' = cols
  /\ UNCHANGED <<rows, returning, onConflict>>
  /\ EnsureSameArity("columns", cols)

Columns(cols) ==
  \/ AlreadySet(columns)
  \/ /\ IsEmpty(columns)
     /\ columns' = cols
     /\ UNCHANGED <<rows, returning, onConflict>>
     /\ EnsureSameArity("columns", cols)

SetRows(rs) ==
  \/ AlreadySet(rows)
  \/ /\ IsEmpty(rows)
     /\ rows' = rs
     /\ UNCHANGED <<columns, returning, onConflict>>
     /\ EnsureSameArity("rows", rs)

Values(vals) == SetRows(<<vals>>)

Rows(rs) == SetRows(rs)

\* Mutant: a second call replaces the clause.
ReturningReplaced(items) ==
  /\ returning' = JoinCsv(items)
  /\ UNCHANGED <<columns, rows, onConflict>>
  /\ Accept("returning", JoinCsv(items))

Returning(items) ==
  \/ AlreadySet(returning)
  \/ /\ IsEmpty(returning)
     /\ returning' = JoinCsv(items)
     /\ UNCHANGED <<columns, rows, onConflict>>
     /\ Accept("returning", JoinCsv(items))

\* The ON CONFLICT setters assign without asking whether one was set.
SetOnConflict(clause) ==
  /\ onConflict' = clause
  /\ UNCHANGED <<columns, rows, returning>>
  /\ Accept("onConflict", clause)

OnConflictDoNothing == SetOnConflict(<<"ON CONFLICT", "DO NOTHING">>)

\* Mutant: a missing space.
ConflictTargetFused(cols) == <<"ON CONFLICT(">> \o JoinCsv(cols) \o <<")">>

ConflictTarget(cols) == <<"ON CONFLICT", "(">> \o JoinCsv(cols) \o <<")">>

OnConflictDoNothingOn(target) ==
  SetOnConflict(ConflictTarget(target) \o <<"DO NOTHING">>)

Assignments(list) ==
  JoinCsv([k \in DOMAIN list |-> RenderBinary(list[k].column, "=", list[k].value)])

OnConflictDoUpdate(target, list) ==
  \/ IsEmpty(list) /\ Throw("InvalidArgument") /\ UNCHANGED fields
  \/ /\ ~IsEmpty(list)
     /\ SetOnConflict(ConflictTarget(target) \o <<"DO UPDATE SET">> \o Assignments(list))

-----------------------------------------------------------------------------
Tuple(terms) == <<"(">> \o JoinCsv(terms) \o <<")">>

Tuples(rs) ==
  FlattenSeq([r \in DOMAIN rs |-> IF r = 1 THEN Tuple(rs[r]) ELSE <<", ">> \o Tuple(rs[r])])

Optional(keyword, clause) == IF IsEmpty(clause) THEN <<>> ELSE keyword \o clause

Statement ==
  <<"INSERT INTO", "t">> \o Tuple(columns) \o <<"VALUES">> \o Tuples(rows)
    \o Optional(<<>>, onConflict) \o Optional(<<"RETURNING">>, returning)

\* Mutant: ToString trusts the check the setters made.
CanRenderUnchecked == ~IsEmpty(columns) /\ ~IsEmpty(rows)

\* ToString: const, so only its result changes.
CanRender == ~IsEmpty(columns) /\ ~IsEmpty(rows) /\ SameArity(columns, rows)

RenderCall ==
  /\ UNCHANGED <<fields, accepted>>
  /\ \/ CanRender /\ outcome' = "rendered" /\ text' = Statement
     \/ ~CanRender /\ outcome' = "LogicError" /\ UNCHANGED text

Next ==
  \/ \E cols \in ColumnLists : Columns(cols)
  \/ \E vals \in ValueLists : Values(vals)
  \/ \E rs \in RowLists : Rows(rs)
  \/ \E items \in ReturningLists : Returning(items)
  \/ OnConflictDoNothing
  \/ \E target \in Targets : OnConflictDoNothingOn(target)
  \/ \E target \in Targets, list \in AssignmentLists : OnConflictDoUpdate(target, list)
  \/ RenderCall

Spec == Init /\ [][Next]_vars

-----------------------------------------------------------------------------
TypeOK ==
  /\ columns \in Seq(Text) /\ rows \in Seq(Seq(Text))
  /\ returning \in Text /\ onConflict \in Text /\ text \in Text
  /\ outcome \in {"ok", "rendered", "LogicError", "InvalidArgument"}
  /\ DOMAIN accepted = Setters

\* The lists of the statement end where the next clause begins.
ListsEnd ==
  CHOOSE k \in 1 .. Len(text) + 1 :
    /\ k = Len(text) + 1 \/ text[k] \in Clauses
    /\ \A j \in 1 .. k-1 : text[j] \notin Clauses

\* The parenthesis that closes the one at k.
Closing(k) ==
  CHOOSE c \in k .. Len(text) : text[c] = ")" /\ \A j \in k .. c-1 : text[j] # ")"

CommasWithin(k) == Cardinality({j \in k .. Closing(k) : text[j] = ", "})

\* insert_into.hpp:65-66.  Whatever order the setters were called in, and
\* whichever of them threw on the way, a statement that renders was given a
\* value for every column in every row: read in the text, the column list
\* and each row hold equally many commas.
RenderedArity ==
  outcome = "rendered" =>
    \A k, l \in 1 .. ListsEnd - 1 :
      text[k] = "(" /\ text[l] = "(" => CommasWithin(k) = CommasWithin(l)

\* EnsureSameArity throws after Columns, Values or Rows has stored its
\* argument.  The check repeated in ToString keeps the rejected list from
\* ever being sent: what renders was accepted.
RejectedIsNeverRendered ==
  outcome = "rendered" => columns \in accepted["columns"] /\ rows \in accepted["rows"]

\* The list a setter rejected is never replaced either: the setters that
\* could repair it find the clause set, so the builder is lost for good.
ArityErrorIsFinal ==
  [][~SameArity(columns, rows) => ~SameArity(columns', rows')]_vars

Occurs(part) ==
  \E k \in 1 .. Len(text) - Len(part) + 1 : SubSeq(text, k, k + Len(part) - 1) = part

\* No accepted list is dropped from a later statement, whatever was called,
\* and whatever threw, since it was accepted.  Empty lists are left out:
\* the builder does not tell one from a clause never set.
ListsAreRendered ==
  outcome = "rendered" =>
    /\ \A cols \in accepted["columns"] \ {<<>>} : Occurs(Tuple(cols))
    /\ \A rs \in accepted["rows"] \ {<<>>} : Occurs(Tuples(rs))
    /\ \A items \in accepted["returning"] : Occurs(items)

\* README.md:26-29: a second call does not silently overwrite the first.
\* Every ON CONFLICT clause accepted is in the statement.
ConflictIsRendered ==
  outcome = "rendered" => \A clause \in accepted["onConflict"] : Occurs(clause)
=============================================================================
