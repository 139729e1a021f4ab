--------------------------- MODULE StatementReading ---------------------------
\* Reading a statement back clause by clause: a reference reader, no part of
\* the repository.  The clauses in hand hold no keyword of their own.
LOCAL INSTANCE Sequences
LOCAL INSTANCE Integers

CONSTANTS
  Tokens,  \* the alphabet of texts
  Words    \* what ends a clause

\* The terms up to the next keyword.
TermsAhead[ws \in Seq(Tokens)] ==
  IF ws = <<>> \/ Head(ws) \in Words THEN <<<<>>>>
  ELSE LET rest == TermsAhead[Tail(ws)]
       IN  IF Head(ws) = ", " THEN <<<<>>>> \o rest
           ELSE <<<<Head(ws)>> \o Head(rest)>> \o Tail(rest)

\* Where no text is, no term is.
Listed(terms) == IF terms = <<<<>>>> THEN <<>> ELSE terms

\* None, or the one list of terms after the keyword.
ReadClause(ws, keyword) ==
  IF \A k \in DOMAIN ws : ws[k] # keyword THEN <<>>
  ELSE LET at == CHOOSE k \in DOMAIN ws : /\ ws[k] = keyword
                                         /\ \A j \in DOMAIN ws : j < k => ws[j] # keyword
       IN  <<Listed(TermsAhead[SubSeq(ws, at + 1, Len(ws))])>>
=============================================================================
