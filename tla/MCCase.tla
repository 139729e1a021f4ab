-------------------------------- MODULE MCCase --------------------------------
\* Small arguments for checking CaseReading, one of them with a CASE inside.
EXTENDS CaseReading

Inner == <<"CASE", "WHEN", "p", "THEN", "a", "END", "= 1">>

TwoConditions == {<<"p">>, Inner}
TwoResults    == {<<"a">>, <<"b">>}

Alphabet == Keywords \cup {"p", "a", "b", "= 1"}
=============================================================================
