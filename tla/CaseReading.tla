------------------------------ MODULE CaseReading ------------------------------
(***************************************************************************)
(* How PostgreSQL reads a CASE expression back, from left to right: a word *)
(* of a CASE belongs to the innermost one that is open where it stands.  A *)
(* reference, no part of the repository.                                   *)
(***************************************************************************)
EXTENDS CaseBuilder

\* What has been read: the finished pairs, the condition that waits for its
\* result, and the part at hand, in which so many CASEs are open.
Beginning ==
  [place |-> "before", pairs |-> <<>>, when |-> <<>>, part |-> <<>>, open |-> 0]

Wrong(s) == [s EXCEPT !.place = "error"]

Parts == {"when", "then", "else"}

\* Whether a token is one of the part at hand.
GoesOn(s, token) ==
  s.place \in Parts /\ (s.open > 0 \/ token \notin Keywords \ {"CASE"})

Pairs(s) == IF s.place = "then" THEN Append(s.pairs, <<s.when, s.part>>) ELSE s.pairs

\* What a token makes of the part that it ends.
Ended(s, token) ==
  CASE s.place = "before" /\ token = "CASE" ->
         [s EXCEPT !.place = "case"]
    [] s.place \in {"case", "then"} /\ token = "WHEN" ->
         [s EXCEPT !.place = "when", !.pairs = Pairs(s), !.part = <<>>]
    [] s.place = "when" /\ token = "THEN" ->
         [s EXCEPT !.place = "then", !.when = s.part, !.part = <<>>]
    [] s.place = "then" /\ token = "ELSE" ->
         [s EXCEPT !.place = "else", !.pairs = Pairs(s), !.part = <<>>]
    [] s.place \in {"then", "else"} /\ token = "END" ->
         [s EXCEPT !.place = "end", !.pairs = Pairs(s),
                   !.part = IF s.place = "else" THEN @ ELSE <<>>]
    [] OTHER -> Wrong(s)

ReadToken(s, token) ==
  IF GoesOn(s, token)
  THEN [s EXCEPT !.part = Append(@, token), !.open = @ + Opened(token)]
  ELSE Ended(s, token)

\* A text read from a state on.
ReadOn(s, ws) ==
  LET after[k \in 0..Len(ws)] ==
        IF k = 0 THEN s ELSE ReadToken(after[k-1], ws[k])
  IN  after[Len(ws)]

\* The pairs and the ELSE, unless there is a syntax error.
ReadCase(ws) ==
  LET all == ReadOn(Beginning, ws)
  IN  IF all.place # "end" THEN <<>> ELSE <<[pairs |-> all.pairs, fallback |-> all.part]>>

-----------------------------------------------------------------------------
\* case_builder.hpp:18-36: the expression holds the pairs that When and Then
\* completed, in their order, each condition with its own result, and the last
\* ELSE.  A WHEN still waiting at End is not in it, failed calls left nothing
\* behind, and one builder's texts do not leak into the next, or into what a
\* moved-from builder says.
EndReadsBack ==
  outcome = "rendered" =>
    ReadCase(text) = <<[pairs |-> given.pairs, fallback |-> given.fallback]>>
=============================================================================
