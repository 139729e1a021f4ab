------------------------------- MODULE MCShared -------------------------------
\* One placeholder, and few enough methods for two threads.
EXTENDS SharedNodes

AnyToken == STRING

NoTexts == {}

Dollar == << <<"$1">> >>

\* Extract into a product: a bracket around || and none around a symbol.
Factor == {kMul}
=============================================================================
