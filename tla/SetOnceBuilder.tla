---------------------------- MODULE SetOnceBuilder ----------------------------
(***************************************************************************)
(* What docs/SQL.md:148-154 promises of a statement builder: every clause  *)
(* is set at most once, a second call throws and changes nothing, and a    *)
(* statement carries exactly the clauses that were set.  A builder that    *)
(* was moved from may answer anything but a statement.                     *)
(***************************************************************************)
EXTENDS Sequences

CONSTANTS
  Kinds,        \* the statements a builder may be for
  Clauses,      \* clauses a setter fills
  Lists,        \* clauses that every call adds to
  Flags,        \* clauses that are only raised; raising one twice is no error
  Values(_),    \* what a clause may be given
  Raised,
  Refusable,    \* clauses whose setter may refuse its argument
  Complete(_,_) \* the clauses set make a statement of that kind

Unset == <<>>

VARIABLES
  kind,        \* the statement being built
  alive,       \* the builder was not moved from
  clause,      \* what each clause was given, in order
  status,      \* how the last call ended
  statement    \* the clauses of the statement it returned

vars == <<kind, alive, clause, status, statement>>

Blank == [c \in Clauses \cup Lists \cup Flags |-> Unset]

Init ==
  /\ kind \in Kinds
  /\ alive = TRUE
  /\ clause = Blank
  /\ status = "ok"
  /\ statement = Blank

Answer(how) == status' = how /\ statement' = Blank

Set(c) ==
  /\ alive /\ UNCHANGED alive
  /\ \/ /\ Answer("ok")
        /\ clause[c] = Unset
        /\ clause'[c] \in Values(c)
        /\ clause' = [clause EXCEPT ![c] = clause'[c]]
     \/ /\ Answer("LogicError")
        /\ clause[c] # Unset \/ c \in Refusable
        /\ UNCHANGED clause

Add(c) ==
  /\ alive /\ UNCHANGED alive
  /\ Answer("ok")
  /\ \E v \in Values(c) : clause' = [clause EXCEPT ![c] = @ \o v]

Raise(f) ==
  /\ alive /\ UNCHANGED alive
  /\ Answer("ok")
  /\ clause' = [clause EXCEPT ![f] = Raised]

Render ==
  /\ alive /\ UNCHANGED <<alive, clause>>
  /\ \/ status' = "rendered" /\ Complete(kind, clause) /\ statement' = clause
     \/ Answer("LogicError") /\ ~Complete(kind, clause)

Move == alive /\ alive' = FALSE /\ clause' = Blank /\ Answer("ok")

\* "garbled" is a text that no server takes for a statement.
UseAfterMove ==
  /\ ~alive /\ UNCHANGED <<alive, clause>>
  /\ Answer("ok") \/ Answer("LogicError") \/ Answer("garbled")

Next ==
  /\ \/ \E c \in Clauses : Set(c)
     \/ \E c \in Lists : Add(c)
     \/ \E f \in Flags : Raise(f)
     \/ Render \/ Move \/ UseAfterMove
  /\ UNCHANGED kind

Spec == Init /\ [][Next]_vars
=============================================================================
