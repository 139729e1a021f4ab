------------------------------ MODULE MCInsert ------------------------------
\* Small argument lists for checking InsertInto.
EXTENDS InsertInto

AnyToken == Keywords \cup {"a", "b", "1", "2", "x"}

OneAndTwo   == {<<<<"a">>>>, <<<<"a">>, <<"b">>>>}
AndNone     == OneAndTwo \cup {<<>>}
ValuesOneTwo == {<<<<"1">>>>, <<<<"1">>, <<"2">>>>}

\* Rows of equal and of mixed arity, and no row at all.
RowSets ==
  {<<>>, <<<<<<"1">>>>, <<<<"2">>>>>>, <<<<<<"1">>>>, <<<<"1">>, <<"2">>>>>>,
   <<<<<<"1">>, <<"2">>>>, <<<<"1">>>>>>}

Some1      == {<<<<"x">>>>}
SomeOrNone == {<<<<"x">>>>, <<>>}
Nothing    == {}
OneUpdate  == {<<[column |-> <<"a">>, value |-> <<"1">>]>>, <<>>}
=============================================================================
