------------------------------ MODULE EagerTexts ------------------------------
(***************************************************************************)
(* What an expression promises: the text it has when it is built, and      *)
(* keeps.  Every value is built from literal fragments and from values     *)
(* built before; its text is worked out there and then, an operand being   *)
(* bracketed unless it binds tighter than the place it is put in.  The     *)
(* code keeps a tree instead and renders on demand (node.hpp:26-32).       *)
(***************************************************************************)
EXTENDS Integers, SequencesExt

VARIABLES
  calls,  \* [precedence, parts] of every value built: what the client asked for
  texts   \* the text each of them got

EagerInit == calls = <<>> /\ texts = <<>>

Operand(part) ==
  IF calls[part.node].precedence < part.context THEN texts[part.node]
  ELSE <<"(">> \o texts[part.node] \o <<")">>

Shown(part) == IF part.node = 0 THEN part.text ELSE Operand(part)

Combine(precedence, parts) ==
  /\ \A k \in DOMAIN parts : parts[k].node \in {0} \cup DOMAIN calls
  /\ calls' = Append(calls, [precedence |-> precedence, parts |-> parts])
  /\ texts' = Append(texts, FlattenSeq([k \in DOMAIN parts |-> Shown(parts[k])]))

\* The client chooses the call: any over values that exist.
EagerNext ==
  /\ Len(calls') = Len(calls) + 1
  /\ LET call == calls'[Len(calls')] IN Combine(call.precedence, call.parts)

EagerSpec == EagerInit /\ [][EagerNext]_<<calls, texts>>
=============================================================================
