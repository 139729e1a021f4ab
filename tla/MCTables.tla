------------------------------- MODULE MCTables -------------------------------
\* Small vocabularies for checking TableReading.
EXTENDS TableReading

Columns == {<<"a">>}

OneOfEach == {[keyword |-> "INNER", natural |-> FALSE],
              [keyword |-> "NATURAL INNER", natural |-> TRUE]}
Inner     == {[keyword |-> "INNER", natural |-> FALSE]}

Predicates  == {<<"p">>}
ColumnSets  == {<<>>, <<<<"a">>, <<"b">>>>}
Nothing     == {}

Alphabet == Keywords \cup Layout \cup {"t", "x", "a", "b", "c", "d", "p"}

\* No action looks at how the last call ended.
WithoutOutcome == <<held, with>>
=============================================================================
