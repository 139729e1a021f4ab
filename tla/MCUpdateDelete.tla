---------------------------- MODULE MCUpdateDelete ----------------------------
\* Small arguments for checking UpdateDelete.
EXTENDS UpdateDelete

AnyToken == STRING

TwoAssignments ==
  {[column |-> <<"a">>, value |-> <<"1">>], [column |-> <<"b">>, value |-> <<"2">>]}

OneItem       == {<<"u">>}
TwoConditions == {<<"p">>, <<"q">>}
UpToTwoTerms  == {<<>>, <<<<"x">>>>, <<<<"x">>, <<"y">>>>}
=============================================================================
