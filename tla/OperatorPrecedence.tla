-------------------------- MODULE OperatorPrecedence --------------------------
(***************************************************************************)
(* The binding strengths of operator_precedence.hpp, numbered as the enum  *)
(* numbers them (tightest first), and the one rule that reads them.        *)
(***************************************************************************)
EXTENDS Integers

kSymbol    == 0
kDot       == 1
kTypecast  == 2
kIndex     == 3
kUnaryPlus == 4
kCollate   == 5
kAt        == 6
kExp       == 7
kMul       == 8
kPlus      == 9
kAnyOther  == 10
kBetween   == 11
kCompare   == 12
kIs        == 13
kNot       == 14
kAnd       == 15
kOr        == 16
kExtract   == 17

Precedences == kSymbol .. kExtract

\* Mutant: an operand of equal precedence is left bare.
EqualIsBare(precedence, context) == precedence > context

\* NeedsParens(child, context) of node.cpp: bracketed unless strictly tighter.
NeedsParens(precedence, context) == precedence >= context
=============================================================================
