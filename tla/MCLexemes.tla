------------------------------- MODULE MCLexemes -------------------------------
\* Small alphabets for checking Lexemes.
EXTENDS LexemeReading

Strings(chars, length) == UNION {[1..n -> chars] : n \in 0..length}

FewLetters == {"a", "c", "e", "A", "S"}
TwoDigits  == {"0", "1"}

ShortValues == Strings({"'", "\"", "-"}, 2) \cup {<<"a", "'", "a">>, <<"a", "NUL">>}

\* With and without a sign, a point and an exponent.
SomeWholes  == {<<"1">>, <<"-", "1">>}
SomeDoubles ==
  {<<"1">>, <<"-", "1">>, <<"0", ".", "1">>, <<"1", "e", "+", "1", "0">>, <<"i", "n", "f">>}

\* Plain and dotted names, and what comes near them.
SomeNames ==
  {<<"a">>, <<"_", "1">>, <<"a", ".", "c">>,
   <<>>, <<"1", "a">>, <<"a", " ", "c">>, <<".", "a">>, <<"a", ".">>, <<"a", ".", ".", "c">>}

\* The characters that make comments and end names, and one that permits any end.
ShortOperators ==
  Strings({"-", "/", "*"}, 2)
    \cup {<<"+">>, <<"+", "-">>, <<"/", "+">>, <<"@">>, <<"@", "-">>, <<"a">>, <<"/", "-", "-">>}

TwoColumns == <<<<"c">>, <<"a", "1">>>>

\* No action looks at how the last call ended.
WithoutOutcome == <<text, precedence, class, alias, meant>>
=============================================================================
