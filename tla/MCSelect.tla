------------------------------ MODULE MCSelect ------------------------------
\* Small arguments for checking SelectExpr.
EXTENDS SelectExpr

AnyToken == STRING

UpToTwoTerms == {<<>>, <<<<"x">>>>, <<<<"x">>, <<"y">>>>}

Term(expr, direction, nulls_order) ==
  [expr |-> expr, direction |-> direction, nulls_order |-> nulls_order]

\* Both directions and the three placements of nulls.
SortOrders ==
  {<<Term(<<"x">>, "kDescending", "kDefault")>>,
   <<Term(<<"x">>, "kAscending", "kFirst"), Term(<<"y">>, "kDescending", "kLast")>>}

Predicates == {<<"p">>}
Numbers    == {<<"1">>}
=============================================================================
