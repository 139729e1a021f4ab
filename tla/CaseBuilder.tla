------------------------------ MODULE CaseBuilder ------------------------------
(***************************************************************************)
(* The CASE WHEN ... END builder of case_builder.cpp.  A text is a         *)
(* sequence of tokens.  The client may catch an exception and go on, may   *)
(* go on with a builder it has moved from, and may use the expressions     *)
(* that End returned as results of further CASEs.                          *)
(***************************************************************************)
EXTENDS SequencesExt, Integers

CONSTANTS
  Tokens,       \* the alphabet of texts
  Conditions,   \* texts of the conditions given to When
  Results,      \* texts of the expressions given to Then and Else
  MaxPairs,     \* bound: WHEN/THEN pairs of one CASE
  MaxLength     \* bound: tokens of a CASE that is used inside another

Text == Seq(Tokens)

Keywords == {"CASE", "WHEN", "THEN", "ELSE", "END"}

Opened(token) == CASE token = "CASE" -> 1 [] token = "END" -> -1 [] OTHER -> 0

\* Each CASE of a text is ended in it, and the other words of a CASE are in one.
IsClosed(s) ==
  LET open[k \in 0..Len(s)] == IF k = 0 THEN 0 ELSE open[k-1] + Opened(s[k])
  IN  /\ open[Len(s)] = 0
      /\ \A k \in DOMAIN s : open[k] >= 0 /\ (s[k] \in Keywords => open[k-1] + open[k] > 0)

\* What an argument has inside quotes is part of one token.
ASSUME CaseAssumption ==
  /\ Keywords \subseteq Tokens
  /\ \A s \in Conditions \cup Results : s \in Text /\ IsClosed(s)

VARIABLES
  whens,           \* whens_, the finished pairs
  pendingWhen,     \* pending_when_
  elseText,        \* else_, empty when there is none
  hasPendingWhen,  \* has_pending_when_
  exprs,           \* the expressions the client holds
  outcome,         \* how the last call ended
  text,            \* what the last call returned, if it was End
  given            \* history: what the calls on this builder were given

fields == <<whens, pendingWhen, elseText, hasPendingWhen>>
vars   == <<fields, exprs, outcome, text, given>>

Nothing == [when |-> <<>>, pairs |-> <<>>, fallback |-> <<>>]

Init ==
  /\ whens = <<>> /\ pendingWhen = <<>> /\ elseText = <<>>
  /\ hasPendingWhen = FALSE
  /\ exprs = Results
  /\ outcome = "ok"
  /\ text = <<>>
  /\ given = Nothing

Return(status) == outcome' = status /\ text' = <<>> /\ UNCHANGED exprs

Throw == Return("LogicError") /\ UNCHANGED <<fields, given>>

-----------------------------------------------------------------------------
\* Mutant: the text left over from the last pair is not replaced.
WhenStale(cond) ==
  \/ hasPendingWhen /\ Throw
  \/ /\ ~hasPendingWhen
     /\ pendingWhen' = IF pendingWhen = <<>> THEN cond ELSE pendingWhen
     /\ hasPendingWhen' = TRUE
     /\ given' = [given EXCEPT !.when = cond]
     /\ Return("ok")
     /\ UNCHANGED <<whens, elseText>>

When(cond) ==
  \/ hasPendingWhen /\ Throw
  \/ /\ ~hasPendingWhen
     /\ pendingWhen' = cond
     /\ hasPendingWhen' = TRUE
     /\ given' = [given EXCEPT !.when = cond]
     /\ Return("ok")
     /\ UNCHANGED <<whens, elseText>>

Branch(cond, result) == <<"WHEN">> \o cond \o <<"THEN">> \o result

\* pending_when_ keeps its text; only the flag says that it is used up.
Then(result) ==
  \/ ~hasPendingWhen /\ Throw
  \/ /\ hasPendingWhen
     /\ Len(given.pairs) < MaxPairs
     /\ whens' = whens \o Branch(pendingWhen, result)
     /\ hasPendingWhen' = FALSE
     /\ given' = [given EXCEPT !.pairs = Append(@, <<given.when, result>>)]
     /\ Return("ok")
     /\ UNCHANGED <<pendingWhen, elseText>>

\* A second Else replaces the first.
Else(result) ==
  /\ elseText' = result
  /\ given' = [given EXCEPT !.fallback = result]
  /\ Return("ok")
  /\ UNCHANGED <<whens, pendingWhen, hasPendingWhen>>

\* Mutant: a WHEN still waiting is written too.
CaseTextWaiting ==
  <<"CASE">> \o whens
    \o (IF hasPendingWhen THEN <<"WHEN">> \o pendingWhen ELSE <<>>)
    \o (IF elseText # <<>> THEN <<"ELSE">> \o elseText ELSE <<>>) \o <<"END">>

CaseText ==
  <<"CASE">> \o whens
    \o (IF elseText # <<>> THEN <<"ELSE">> \o elseText ELSE <<>>) \o <<"END">>

\* End is const: the client may go on adding branches.
End ==
  \/ whens = <<>> /\ Throw
  \/ /\ whens # <<>>
     /\ outcome' = "rendered"
     /\ text' = CaseText
     /\ exprs' = exprs \cup (IF Len(CaseText) <= MaxLength THEN {CaseText} ELSE {})
     /\ UNCHANGED <<fields, given>>

Emptied ==
  /\ whens' = <<>> /\ pendingWhen' = <<>> /\ elseText' = <<>>
  /\ given' = Nothing
  /\ Return("ok")

\* auto r = std::move(b).When(...), after which the client goes on with b: the
\* texts are gone, the flag is not.  What the builder was given before counts
\* for r.
Move == Emptied /\ UNCHANGED hasPendingWhen

Case == Emptied /\ hasPendingWhen' = FALSE

Next ==
  \/ \E cond \in Conditions : When(cond)
  \/ \E result \in exprs : Then(result) \/ Else(result)
  \/ End \/ Move \/ Case

Spec == Init /\ [][Next]_vars

-----------------------------------------------------------------------------
\* Texts and lists of texts, and the members are the texts of what was given.
TypeOK ==
  /\ hasPendingWhen \in BOOLEAN
  /\ exprs \subseteq Text /\ text \in Text
  /\ outcome \in {"ok", "rendered", "LogicError"}
  /\ given.when \in Text
  /\ given.pairs \in Seq(Text \X Text)
  /\ given.fallback \in Text
  /\ hasPendingWhen => pendingWhen = given.when
  /\ whens = FlattenSeq([n \in DOMAIN given.pairs |->
                          Branch(given.pairs[n][1], given.pairs[n][2])])
  /\ elseText = given.fallback
===============================================================================
