--------------------------- MODULE SelectExprProofs ---------------------------
(***************************************************************************)
(* The SELECT builder: its statements are in grammar order, formatting     *)
(* changes nothing but layout, and the builder keeps its promise, for all  *)
(* arguments. A statement is taken as the concatenation of the texts of    *)
(* its clauses in grammar order (StatementStated); that it says what its   *)
(* clauses hold follows from the last clause to the first (StatementSays). *)
(***************************************************************************)
EXTENDS SelectExpr, TextLemmas, TLAPS

Comma == ", "

\* The alphabet of what stands between the keywords of a statement.
Plain == Tokens \ (Keywords \cup Layout \cup {Comma})

\* What the alphabet has, and what no two of its parts share.
LEMMA Alphabet ==
  /\ Keywords \subseteq Tokens /\ Layout \subseteq Tokens /\ SortWords \subseteq Tokens
  /\ Comma \in Tokens /\ "t" \in Tokens
  /\ Comma \notin Keywords /\ Comma \notin Layout /\ Comma \notin SortWords
  /\ Keywords \cap Layout = {} /\ Keywords \cap SortWords = {} /\ Layout \cap SortWords = {}
  /\ "t" \notin Keywords /\ "t" \notin Layout /\ "t" # Comma
  /\ Text = Seq(Plain) \ {<<>>}
  /\ SortKey = Seq(Plain \ SortWords) \ {<<>>}
  /\ Separator = <<Comma>>
<1>1. /\ Keywords \subseteq Tokens /\ Layout \subseteq Tokens /\ SortWords \subseteq Tokens
      /\ Comma \in Tokens /\ "t" \in Tokens
  BY SelectAssumption, Zenon DEF Comma
<1>2. Keywords \cap Layout = {} /\ Keywords \cap SortWords = {} /\ Layout \cap SortWords = {}
  BY DEF Keywords, Layout, SortWords
<1>3. Comma \notin Keywords /\ Comma \notin Layout /\ Comma \notin SortWords
  BY Zenon DEF Comma, Keywords, Layout, SortWords
<1>4. "t" \notin Keywords /\ "t" \notin Layout
  BY DEF Keywords, Layout
<1>5. "t" # Comma
  BY Zenon DEF Comma
<1>6. Text = Seq(Plain) \ {<<>>} /\ Separator = <<Comma>>
  BY Zenon DEF Text, Plain, Comma, Separator
<1>7. SortKey = Seq(Plain \ SortWords) \ {<<>>}
  <2>1. Plain \ SortWords = Tokens \ (Keywords \cup Layout \cup SortWords \cup {Comma})
    BY DEF Plain
  <2>. QED BY <2>1, Zenon DEF SortKey, Comma
<1>. QED BY <1>1, <1>2, <1>3, <1>4, <1>5, <1>6, <1>7

\* The texts that stand between the keywords hold neither keyword nor layout.
LEMMA PlainTexts ==
  /\ Plain \subseteq Tokens \ Layout
  /\ Seq(Plain) \subseteq Seq(Tokens \ Layout)
  /\ Seq(Tokens \ Layout) \subseteq Seq(Tokens)
  /\ Text \subseteq Seq(Plain)
  /\ Seq(Text) \subseteq TermsOver(Tokens, Keywords, Comma)
  /\ Seq(Text) \subseteq Seq(Seq(Tokens \ Layout) \ {<<>>})
  /\ Separator \in Seq(Tokens \ Layout)
<1>1. /\ Plain \subseteq Tokens \ Layout
      /\ Plain \subseteq Tokens \ (Keywords \cup {Comma})
      /\ Comma \in Tokens \ Layout
  BY Alphabet DEF Plain
<1>2. Text \subseteq Seq(Plain) /\ Text = Seq(Plain) \ {<<>>}
  BY Alphabet
<1>3. Seq(Plain) \subseteq Seq(Tokens \ Layout) /\ Seq(Tokens \ Layout) \subseteq Seq(Tokens)
  BY <1>1, SeqMonotonic
<1>4. Text \subseteq Seq(Tokens \ (Keywords \cup {Comma})) \ {<<>>}
  BY <1>1, <1>2, SeqMonotonic
<1>5. Seq(Text) \subseteq TermsOver(Tokens, Keywords, Comma)
  BY <1>4, SeqMonotonic DEF TermsOver
<1>6. Seq(Text) \subseteq Seq(Seq(Tokens \ Layout) \ {<<>>})
  BY <1>2, <1>3, SeqMonotonic
<1>7. Separator \in Seq(Tokens \ Layout)
  BY <1>1, Alphabet
<1>. QED BY <1>1, <1>2, <1>3, <1>5, <1>6, <1>7

\* Where the words of the grammar stand in it.
LEMMA Ranks ==
  /\ Rank("SELECT") = 1 /\ Rank("DISTINCT") = 2 /\ Rank("DISTINCT ON") = 3
  /\ Rank("(") = 4 /\ Rank(")") = 5 /\ Rank("FROM") = 6 /\ Rank("WHERE") = 7
  /\ Rank("GROUP BY") = 8 /\ Rank("HAVING") = 9 /\ Rank("ORDER BY") = 10
  /\ Rank("LIMIT") = 11 /\ Rank("OFFSET") = 12
  /\ \A word \in Keywords : Rank(word) \in 1..12 /\ GrammarOrder[Rank(word)] = word
<1>1. /\ DOMAIN GrammarOrder = 1..12
      /\ GrammarOrder[1] = "SELECT" /\ GrammarOrder[2] = "DISTINCT"
      /\ GrammarOrder[3] = "DISTINCT ON" /\ GrammarOrder[4] = "(" /\ GrammarOrder[5] = ")"
      /\ GrammarOrder[6] = "FROM" /\ GrammarOrder[7] = "WHERE"
      /\ GrammarOrder[8] = "GROUP BY" /\ GrammarOrder[9] = "HAVING"
      /\ GrammarOrder[10] = "ORDER BY" /\ GrammarOrder[11] = "LIMIT"
      /\ GrammarOrder[12] = "OFFSET"
  BY DEF GrammarOrder
<1>2. \A k \in 1..12 : \/ k = 1 \/ k = 2 \/ k = 3 \/ k = 4 \/ k = 5 \/ k = 6
                       \/ k = 7 \/ k = 8 \/ k = 9 \/ k = 10 \/ k = 11 \/ k = 12
  OBVIOUS
<1>3. ASSUME NEW k \in 1..12 PROVE Rank(GrammarOrder[k]) = k
  <2>. DEFINE place ==
         [word \in Keywords |->
            CASE word = "SELECT" -> 1 [] word = "DISTINCT" -> 2 [] word = "DISTINCT ON" -> 3
              [] word = "(" -> 4 [] word = ")" -> 5 [] word = "FROM" -> 6 [] word = "WHERE" -> 7
              [] word = "GROUP BY" -> 8 [] word = "HAVING" -> 9 [] word = "ORDER BY" -> 10
              [] word = "LIMIT" -> 11 [] word = "OFFSET" -> 12]
  <2>0. /\ place["SELECT"] = 1 /\ place["DISTINCT"] = 2 /\ place["DISTINCT ON"] = 3
        /\ place["("] = 4 /\ place[")"] = 5 /\ place["FROM"] = 6 /\ place["WHERE"] = 7
        /\ place["GROUP BY"] = 8 /\ place["HAVING"] = 9 /\ place["ORDER BY"] = 10
        /\ place["LIMIT"] = 11 /\ place["OFFSET"] = 12
    BY DEF Keywords
  <2>. HIDE DEF place
  <2>2. \A j \in 1..12 : place[GrammarOrder[j]] = j
    BY <1>1, <1>2, <2>0, Zenon
  <2>1. \A j \in 1..12 : GrammarOrder[j] = GrammarOrder[k] => j = k
    BY <2>2, Zenon
  <2>. QED BY <1>1, <2>1 DEF Rank
<1>4. /\ 1 \in 1..12 /\ 2 \in 1..12 /\ 3 \in 1..12 /\ 4 \in 1..12 /\ 5 \in 1..12
      /\ 6 \in 1..12 /\ 7 \in 1..12 /\ 8 \in 1..12 /\ 9 \in 1..12 /\ 10 \in 1..12
      /\ 11 \in 1..12 /\ 12 \in 1..12
  OBVIOUS
<1>5. /\ Rank("SELECT") = 1 /\ Rank("DISTINCT") = 2 /\ Rank("DISTINCT ON") = 3
      /\ Rank("(") = 4 /\ Rank(")") = 5 /\ Rank("FROM") = 6 /\ Rank("WHERE") = 7
      /\ Rank("GROUP BY") = 8 /\ Rank("HAVING") = 9 /\ Rank("ORDER BY") = 10
      /\ Rank("LIMIT") = 11 /\ Rank("OFFSET") = 12
  BY <1>1, <1>3, <1>4, Zenon
<1>6. \A word \in Keywords : Rank(word) \in 1..12 /\ GrammarOrder[Rank(word)] = word
  <2>1. \A word \in Keywords : \E k \in 1..12 : GrammarOrder[k] = word
    BY <1>1, <1>4 DEF Keywords
  <2>. QED BY <1>3, <2>1, Zenon
<1>. QED BY <1>5, <1>6

rank == [word \in Keywords |-> Rank(word)]

\* Every keyword has a rank of its own.
LEMMA RankTyped ==
  /\ rank \in [Keywords -> 1..12]
  /\ \A v, w \in Keywords : rank[v] = rank[w] => v = w
<1>1. \A word \in Keywords : Rank(word) \in 1..12 /\ GrammarOrder[Rank(word)] = word
  BY Ranks
<1>2. \A word \in Keywords : rank[word] = Rank(word)
  BY DEF rank
<1>3. rank \in [Keywords -> 1..12]
  BY <1>1 DEF rank
<1>4. \A v, w \in Keywords : rank[v] = rank[w] => v = w
  BY <1>1, <1>2, Zenon
<1>. QED BY <1>3, <1>4

-----------------------------------------------------------------------------
\* The clauses of a builder that was not moved from hold what they were given.
HoldsValues ==
  from # <<>> => \A c \in Clauses : IsSet(c) => \E value \in Values(c) : clauses[c] = Some(value)

\* A term of ORDER BY renders to a text.
LEMMA RenderTermText ==
  \A term \in OrderByTerm : RenderTerm(term) \in Text
<1>1. ASSUME NEW term \in OrderByTerm PROVE RenderTerm(term) \in Text
  <2>. DEFINE direction == IF term.direction = "kDescending" THEN <<"DESC">> ELSE <<>>
  <2>. DEFINE nulls == CASE term.nulls_order = "kFirst" -> <<"NULLS FIRST">>
                         [] term.nulls_order = "kLast"  -> <<"NULLS LAST">>
                         [] OTHER                       -> <<>>
  <2>1. SortWords \subseteq Plain
    BY Alphabet DEF Plain
  <2>2. term.expr \in Seq(Plain) /\ term.expr # <<>>
    <3>1. term.expr \in SortKey
      BY DEF OrderByTerm
    <3>2. Seq(Plain \ SortWords) \subseteq Seq(Plain)
      BY SeqMonotonic
    <3>. QED BY <3>1, <3>2, Alphabet
  <2>3. \A word \in SortWords : <<word>> \in Seq(Plain)
    BY <2>1
  <2>4. direction \in Seq(Plain) /\ nulls \in Seq(Plain)
    <3>1. "DESC" \in SortWords /\ "NULLS FIRST" \in SortWords /\ "NULLS LAST" \in SortWords
      BY DEF SortWords
    <3>2. <<>> \in Seq(Plain)
      OBVIOUS
    <3>. QED BY <2>3, <3>1, <3>2
  <2>5. RenderTerm(term) = (term.expr \o direction) \o nulls
    BY DEF RenderTerm
  <2>. HIDE DEF direction, nulls
  <2>6. term.expr \o direction \in Seq(Plain) /\ term.expr \o direction # <<>>
    BY <2>2, <2>4, ConcatTyped, ConcatEqualIffEmpty
  <2>7. (term.expr \o direction) \o nulls \in Seq(Plain) /\ (term.expr \o direction) \o nulls # <<>>
    BY <2>4, <2>6, ConcatTyped, ConcatEqualIffEmpty
  <2>. QED BY <2>5, <2>7, Alphabet
<1>. QED BY <1>1

\* RenderAll renders term by term.
LEMMA RenderAllTexts ==
  \A terms \in Seq(OrderByTerm) :
    /\ RenderAll(terms) \in Seq(Text)
    /\ DOMAIN RenderAll(terms) = DOMAIN terms
    /\ \A k \in DOMAIN terms : RenderAll(terms)[k] = RenderTerm(terms[k])
<1>1. ASSUME NEW terms \in Seq(OrderByTerm)
      PROVE  /\ RenderAll(terms) \in Seq(Text)
             /\ DOMAIN RenderAll(terms) = DOMAIN terms
             /\ \A k \in DOMAIN terms : RenderAll(terms)[k] = RenderTerm(terms[k])
  <2>1. Len(terms) \in Nat /\ DOMAIN terms = 1..Len(terms) /\ \A k \in DOMAIN terms : terms[k] \in OrderByTerm
    BY LenProperties, ElementOfSeq
  <2>2. \A k \in DOMAIN terms : RenderTerm(terms[k]) \in Text
    BY <2>1, RenderTermText
  <2>. QED BY <2>1, <2>2 DEF RenderAll
<1>. QED BY <1>1

\* What each clause may be given.
LEMMA ValuesOf ==
  /\ Values("distinctOn") = TermLists /\ Values("select") = TermLists /\ Values("groupBy") = TermLists
  /\ Values("orderBy") = OrderLists
  /\ Values("where") = {<<condition>> : condition \in Conditions}
  /\ Values("having") = {<<condition>> : condition \in Conditions}
  /\ Values("limit") = {<<count>> : count \in Counts}
  /\ Values("offset") = {<<count>> : count \in Counts}
<1>1. Values("orderBy") = OrderLists
  BY DEF Values, ConditionClauses, CountClauses
<1>2. /\ Values("where") = {<<condition>> : condition \in Conditions}
      /\ Values("having") = {<<condition>> : condition \in Conditions}
      /\ Values("limit") = {<<count>> : count \in Counts}
      /\ Values("offset") = {<<count>> : count \in Counts}
  BY DEF Values, ConditionClauses, CountClauses
<1>3. Values("distinctOn") = TermLists /\ Values("select") = TermLists /\ Values("groupBy") = TermLists
  BY DEF Values, ConditionClauses, CountClauses
<1>. QED BY <1>1, <1>2, <1>3

\* The texts of what a clause may be given.
LEMMA ValueTexts ==
  /\ \A c \in Clauses \ {"orderBy"} : Values(c) \subseteq Seq(Text)
  /\ \A c \in ConditionClauses \cup CountClauses : \A value \in Values(c) :
       \E term \in Text : value = <<term>>
  /\ Values("orderBy") \subseteq Seq(OrderByTerm)
<1>1. TermLists \subseteq Seq(Text) /\ OrderLists \subseteq Seq(OrderByTerm) /\ Conditions \cup Counts \subseteq Text
  BY SelectAssumption, Zenon
<1>5. \A c \in ConditionClauses \cup CountClauses : \A value \in Values(c) :
        \E term \in Text : value = <<term>>
  BY <1>1, ValuesOf DEF ConditionClauses, CountClauses
<1>6. \A term \in Text : <<term>> \in Seq(Text)
  OBVIOUS
<1>7. \A c \in Clauses \ {"orderBy"} :
        \/ c \in ConditionClauses \cup CountClauses
        \/ c = "distinctOn" \/ c = "select" \/ c = "groupBy"
  BY DEF Clauses, ListClauses
<1>8. /\ Values("distinctOn") = TermLists /\ Values("select") = TermLists
      /\ Values("groupBy") = TermLists /\ Values("orderBy") = OrderLists
  BY ValuesOf
<1>. QED BY <1>1, <1>5, <1>6, <1>7, <1>8

\* What the clause of a keyword says, as the list of its terms.
Said ==
  [word \in Keywords |->
     CASE word = "SELECT"      -> IF distinct \/ IsSet("distinctOn") THEN <<<<>>>>
                                  ELSE clauses["select"]
       [] word = "DISTINCT"    -> IF distinct THEN clauses["select"] ELSE <<>>
       [] word = "DISTINCT ON" -> IF IsSet("distinctOn") THEN <<<<>>>> ELSE <<>>
       [] word = "("           -> clauses["distinctOn"]
       [] word = ")"           -> IF IsSet("distinctOn") THEN clauses["select"] ELSE <<>>
       [] word = "FROM"        -> <<<<from>>>>
       [] word = "WHERE"       -> clauses["where"]
       [] word = "GROUP BY"    -> clauses["groupBy"]
       [] word = "HAVING"      -> clauses["having"]
       [] word = "ORDER BY"    -> IF IsSet("orderBy") THEN <<RenderAll(clauses["orderBy"][1])>>
                                  ELSE <<>>
       [] word = "LIMIT"       -> clauses["limit"]
       [] word = "OFFSET"      -> clauses["offset"]]

\* The clauses of a statement one by one.
LEMMA SaidOf ==
  /\ Said["SELECT"] = IF distinct \/ IsSet("distinctOn") THEN <<<<>>>> ELSE clauses["select"]
  /\ Said["DISTINCT"] = IF distinct THEN clauses["select"] ELSE <<>>
  /\ Said["DISTINCT ON"] = IF IsSet("distinctOn") THEN <<<<>>>> ELSE <<>>
  /\ Said["("] = clauses["distinctOn"]
  /\ Said[")"] = IF IsSet("distinctOn") THEN clauses["select"] ELSE <<>>
  /\ Said["FROM"] = <<<<from>>>>
  /\ Said["WHERE"] = clauses["where"]
  /\ Said["GROUP BY"] = clauses["groupBy"]
  /\ Said["HAVING"] = clauses["having"]
  /\ Said["ORDER BY"] = IF IsSet("orderBy") THEN <<RenderAll(clauses["orderBy"][1])>> ELSE <<>>
  /\ Said["LIMIT"] = clauses["limit"]
  /\ Said["OFFSET"] = clauses["offset"]
BY DEF Said, Keywords

\* A clause is unset, or what it was given.
LEMMA ClauseTyped ==
  ASSUME TypeOK, HoldsValues, from # <<>>
  PROVE  /\ from \in Text
         /\ \A c \in Clauses : IsSet(c) <=> clauses[c] # <<>>
         /\ \A c \in Clauses : IsSet(c) => clauses[c] = <<clauses[c][1]>> /\ clauses[c][1] \in Values(c)
<1>1. from \in Text
  <2>1. from = <<"t">>
    BY DEF TypeOK
  <2>2. "t" \in Plain
    BY Alphabet DEF Plain
  <2>. QED BY <2>1, <2>2, Alphabet
<1>2. \A c \in Clauses : IsSet(c) <=> clauses[c] # <<>>
  BY DEF IsSet, IsEmpty
<1>3. \A c \in Clauses : IsSet(c) => clauses[c] = <<clauses[c][1]>> /\ clauses[c][1] \in Values(c)
  BY DEF HoldsValues, Some
<1>. QED BY <1>1, <1>2, <1>3

\* Every clause says nothing, or one list of terms.
LEMMA SaidTyped ==
  ASSUME TypeOK, HoldsValues, from # <<>>
  PROVE  \A word \in Keywords : Said[word] = <<>> \/ \E terms \in Seq(Text) : Said[word] = <<terms>>
<1>. DEFINE Fits(clause) == clause = <<>> \/ \E terms \in Seq(Text) : clause = <<terms>>
<1>1. \A c \in Clauses \ {"orderBy"} : Fits(clauses[c])
  BY ClauseTyped, ValueTexts
<1>2. Fits(IF IsSet("orderBy") THEN <<RenderAll(clauses["orderBy"][1])>> ELSE <<>>)
  <2>1. CASE IsSet("orderBy")
    <3>1. clauses["orderBy"][1] \in Seq(OrderByTerm)
      BY <2>1, ClauseTyped, ValueTexts DEF Clauses, ListClauses
    <3>2. RenderAll(clauses["orderBy"][1]) \in Seq(Text)
      BY <3>1, RenderAllTexts
    <3>. QED BY <2>1, <3>2
  <2>. QED BY <2>1
<1>3. Fits(<<<<>>>>) /\ Fits(<<>>) /\ Fits(<<<<from>>>>)
  <2>1. from \in Text
    BY ClauseTyped
  <2>2. <<from>> \in Seq(Text) /\ <<>> \in Seq(Text)
    BY <2>1
  <2>. QED BY <2>2
<1>4. {"select", "distinctOn", "where", "groupBy", "having", "limit", "offset"} \subseteq Clauses \ {"orderBy"}
  BY DEF Clauses, ListClauses, ConditionClauses, CountClauses
<1>. HIDE DEF Fits
<1>5. \A word \in Keywords : Fits(Said[word])
  BY <1>1, <1>2, <1>3, <1>4, SaidOf DEF Keywords
<1>. QED BY <1>5 DEF Fits

-----------------------------------------------------------------------------
\* The text of a keyword's clause.
Stated(word) == Written(word, Said[word])

Letters == Tokens \ Layout

\* The text of every clause is without layout.
LEMMA StatedTyped ==
  ASSUME TypeOK, HoldsValues, from # <<>>
  PROVE  \A word \in Keywords : Stated(word) \in Seq(Letters)
<1>1. ASSUME NEW word \in Keywords PROVE Stated(word) \in Seq(Letters)
  <2>1. CASE Said[word] = <<>>
    BY <2>1 DEF Stated, Written
  <2>2. ASSUME NEW terms \in Seq(Text), Said[word] = <<terms>>
        PROVE  Stated(word) \in Seq(Letters)
    <3>1. terms \in Seq(Seq(Letters))
      <4>1. Text \subseteq Seq(Letters)
        BY PlainTexts DEF Letters
      <4>. QED BY <4>1, SeqMonotonic
    <3>2. Separator \in Seq(Letters)
      BY PlainTexts DEF Letters
    <3>3. JoinCsv(terms) \in Seq(Letters)
      BY <3>1, <3>2, JoinCsvUnfolds
    <3>4. <<word>> \in Seq(Letters)
      BY Alphabet DEF Letters
    <3>5. <<word>> \o JoinCsv(terms) \in Seq(Letters)
      BY <3>3, <3>4, ConcatTyped
    <3>. QED BY <2>2, <3>5 DEF Stated, Written
  <2>. QED BY <2>1, <2>2, SaidTyped
<1>. QED BY <1>1

RegroupsLong(a, b, c, d, e, f) ==
  (a \o (b \o (c \o (d \o e)))) \o f = a \o (b \o (c \o (d \o (e \o f))))

RegroupsSelect(a, b, c, d, e, f) ==
  (((a \o (b \o c)) \o d) \o e) \o f = a \o (b \o ((c \o d) \o (e \o f)))

RegroupsStatement(a, b, c, d, e, f, g, h) ==
  ((((a \o b) \o ((c \o d) \o e)) \o f) \o g) \o h
    = a \o (b \o (c \o (d \o (e \o (f \o (g \o h))))))

\* The parts of a plain SELECT part, before one more.
LEMMA RegroupLong ==
  ASSUME NEW V, Concats(V), NEW a \in V, NEW b \in V, NEW c \in V, NEW d \in V, NEW e \in V, NEW f \in V
  PROVE  RegroupsLong(a, b, c, d, e, f)
<1>1. Cat(Cat(a, Cat(b, Cat(c, Cat(d, e)))), f) = Cat(a, Cat(b, Cat(c, Cat(d, Cat(e, f)))))
  BY DEF Concats
<1>. QED BY <1>1, Zenon DEF Cat, RegroupsLong

\* The parts of a SELECT DISTINCT ON.
LEMMA RegroupSelect ==
  ASSUME NEW V, Concats(V), NEW a \in V, NEW b \in V, NEW c \in V, NEW d \in V, NEW e \in V, NEW f \in V
  PROVE  RegroupsSelect(a, b, c, d, e, f)
<1>. DEFINE cd == Cat(c, d)
<1>. DEFINE bc == Cat(b, c)
<1>1. cd \in V /\ bc \in V /\ Cat(a, bc) \in V
  BY Zenon DEF Concats
<1>2. Cat(Cat(Cat(Cat(a, bc), d), e), f) = Cat(Cat(a, bc), Cat(d, Cat(e, f)))
  BY <1>1, RegroupThree
<1>3. Cat(Cat(a, bc), Cat(d, Cat(e, f))) = Cat(a, Cat(b, Cat(Cat(c, d), Cat(e, f))))
  BY DEF Concats
<1>. QED BY <1>2, <1>3, Zenon DEF Cat, RegroupsSelect

\* The parts of a statement.
LEMMA RegroupStatement ==
  ASSUME NEW V, Concats(V), NEW a \in V, NEW b \in V, NEW c \in V, NEW d \in V,
         NEW e \in V, NEW f \in V, NEW g \in V, NEW h \in V
  PROVE  RegroupsStatement(a, b, c, d, e, f, g, h)
<1>. DEFINE front == Cat(a, b)
<1>. DEFINE filter == Cat(Cat(c, d), e)
<1>. DEFINE rest == Cat(f, Cat(g, h))
<1>. DEFINE all == Cat(front, filter)
<1>. DEFINE tail == Cat(c, Cat(d, Cat(e, rest)))
<1>1. front \in V /\ filter \in V /\ rest \in V /\ all \in V /\ tail \in V
  BY Zenon DEF Concats
<1>2. Cat(filter, rest) = tail
  BY <1>1, RegroupThree
<1>3. Cat(front, tail) = Cat(a, Cat(b, tail))
  BY <1>1, RegroupTwo
<1>4. Cat(all, rest) = Cat(front, Cat(filter, rest))
  BY <1>1, RegroupTwo
<1>5. Cat(Cat(Cat(all, f), g), h) = Cat(all, rest)
  BY <1>1, RegroupThree
<1>6. Cat(Cat(Cat(Cat(Cat(a, b), Cat(Cat(c, d), e)), f), g), h)
        = Cat(a, Cat(b, Cat(c, Cat(d, Cat(e, Cat(f, Cat(g, h)))))))
  BY <1>2, <1>3, <1>4, <1>5, Zenon
<1>. QED BY <1>6, Zenon DEF Cat, RegroupsStatement

-----------------------------------------------------------------------------
\* A clause that says nothing is no text; any other starts with its keyword.
LEMMA StatedOf ==
  ASSUME NEW word
  PROVE  /\ Said[word] = <<>> => Stated(word) = <<>>
         /\ \A terms : Said[word] = <<terms>> => Stated(word) = <<word>> \o JoinCsv(terms)
<1>1. ASSUME NEW terms, Said[word] = <<terms>>
      PROVE  Stated(word) = <<word>> \o JoinCsv(terms)
  <2>1. <<terms>> # <<>> /\ <<terms>>[1] = terms
    OBVIOUS
  <2>. QED BY <1>1, <2>1, Zenon DEF Stated, Written
<1>. QED BY <1>1, Zenon DEF Stated, Written

\* The clauses that are optional, as ToString writes them.
LEMMA OptionalStated ==
  ASSUME TypeOK, HoldsValues, from # <<>>
  PROVE  /\ <<"FROM">> \o from = Stated("FROM")
         /\ Optional("where", <<"WHERE">>, Verbatim) = Stated("WHERE")
         /\ Optional("groupBy", <<"GROUP BY">>, JoinCsv) = Stated("GROUP BY")
         /\ Optional("having", <<"HAVING">>, Verbatim) = Stated("HAVING")
         /\ Optional("orderBy", <<"ORDER BY">>, OrderCsv) = Stated("ORDER BY")
         /\ Optional("limit", <<"LIMIT">>, Verbatim) = Stated("LIMIT")
         /\ Optional("offset", <<"OFFSET">>, Verbatim) = Stated("OFFSET")
<1>1. \A term \in Text : JoinCsv(<<term>>) = term
  BY PlainTexts, JoinCsvOne
<1>2. <<"FROM">> \o from = Stated("FROM")
  <2>1. Stated("FROM") = <<"FROM">> \o JoinCsv(<<from>>)
    BY SaidOf, StatedOf, Zenon
  <2>2. JoinCsv(<<from>>) = from
    BY <1>1, ClauseTyped, Zenon
  <2>. QED BY <2>1, <2>2, Zenon
<1>3. \A c \in ConditionClauses \cup CountClauses :
        IsSet(c) => /\ clauses[c] # <<>>
                    /\ Verbatim(clauses[c][1]) = JoinCsv(clauses[c][1])
  <2>1. ASSUME NEW c \in ConditionClauses \cup CountClauses, IsSet(c)
        PROVE  clauses[c] # <<>> /\ Verbatim(clauses[c][1]) = JoinCsv(clauses[c][1])
    <3>1. clauses[c] # <<>> /\ clauses[c][1] \in Values(c)
      BY <2>1, ClauseTyped DEF Clauses
    <3>2. PICK term \in Text : clauses[c][1] = <<term>>
      BY <3>1, ValueTexts
    <3>. QED BY <1>1, <3>1, <3>2 DEF Verbatim
  <2>. QED BY <2>1
<1>4. \A c \in Clauses : ~IsSet(c) => clauses[c] = <<>>
  BY ClauseTyped
<1>5. "where" \in ConditionClauses /\ "having" \in ConditionClauses
      /\ "limit" \in CountClauses /\ "offset" \in CountClauses
  BY DEF ConditionClauses, CountClauses
<1>6. Optional("where", <<"WHERE">>, Verbatim) = Stated("WHERE")
  <2>1. Stated("WHERE") = IF clauses["where"] = <<>> THEN <<>> ELSE <<"WHERE">> \o JoinCsv(clauses["where"][1])
    BY SaidOf DEF Stated, Written
  <2>. QED BY <1>3, <1>4, <1>5, <2>1 DEF Optional, Clauses
<1>7. Optional("having", <<"HAVING">>, Verbatim) = Stated("HAVING")
  <2>1. Stated("HAVING") = IF clauses["having"] = <<>> THEN <<>> ELSE <<"HAVING">> \o JoinCsv(clauses["having"][1])
    BY SaidOf DEF Stated, Written
  <2>. QED BY <1>3, <1>4, <1>5, <2>1 DEF Optional, Clauses
<1>8. Optional("limit", <<"LIMIT">>, Verbatim) = Stated("LIMIT")
  <2>1. Stated("LIMIT") = IF clauses["limit"] = <<>> THEN <<>> ELSE <<"LIMIT">> \o JoinCsv(clauses["limit"][1])
    BY SaidOf DEF Stated, Written
  <2>. QED BY <1>3, <1>4, <1>5, <2>1 DEF Optional, Clauses
<1>9. Optional("offset", <<"OFFSET">>, Verbatim) = Stated("OFFSET")
  <2>1. Stated("OFFSET") = IF clauses["offset"] = <<>> THEN <<>> ELSE <<"OFFSET">> \o JoinCsv(clauses["offset"][1])
    BY SaidOf DEF Stated, Written
  <2>. QED BY <1>3, <1>4, <1>5, <2>1 DEF Optional, Clauses
<1>10. Optional("groupBy", <<"GROUP BY">>, JoinCsv) = Stated("GROUP BY")
  <2>1. Stated("GROUP BY") = IF clauses["groupBy"] = <<>> THEN <<>> ELSE <<"GROUP BY">> \o JoinCsv(clauses["groupBy"][1])
    BY SaidOf DEF Stated, Written
  <2>2. IsSet("groupBy") <=> clauses["groupBy"] # <<>>
    BY ClauseTyped DEF Clauses, ListClauses
  <2>. QED BY <2>1, <2>2 DEF Optional
<1>11. Optional("orderBy", <<"ORDER BY">>, OrderCsv) = Stated("ORDER BY")
  <2>1. CASE IsSet("orderBy")
    <3>1. Stated("ORDER BY") = <<"ORDER BY">> \o JoinCsv(RenderAll(clauses["orderBy"][1]))
      BY <2>1, SaidOf, StatedOf, Zenon
    <3>. QED BY <2>1, <3>1 DEF Optional, OrderCsv
  <2>2. CASE ~IsSet("orderBy")
    <3>1. Stated("ORDER BY") = <<>>
      BY <2>2, SaidOf DEF Stated, Written
    <3>. QED BY <2>2, <3>1 DEF Optional
  <2>. QED BY <2>1, <2>2
<1>. QED BY <1>2, <1>6, <1>7, <1>8, <1>9, <1>10, <1>11

\* The text up to FROM.
SelectPart ==
  (IF IsSet("distinctOn")
     THEN <<"SELECT", "DISTINCT ON", "(">> \o JoinCsv(clauses["distinctOn"][1]) \o <<")">>
     ELSE IF distinct THEN <<"SELECT", "DISTINCT">> ELSE <<"SELECT">>)
  \o JoinCsv(clauses["select"][1])

\* What precedes FROM, clause by clause.
LEMMA SelectStated ==
  ASSUME TypeOK, HoldsValues, EnsureValid
  PROVE  SelectPart = Stated("SELECT") \o (Stated("DISTINCT") \o (Stated("DISTINCT ON")
                        \o (Stated("(") \o Stated(")"))))
<1>. DEFINE V == Seq(Letters)
<1>. DEFINE list == JoinCsv(clauses["select"][1])
<1>. DEFINE on == JoinCsv(clauses["distinctOn"][1])
<1>1. from # <<>> /\ IsSet("select") /\ ~(distinct /\ IsSet("distinctOn"))
  BY DEF EnsureValid, IsEmpty
<1>0. \A c \in {"select", "distinctOn"} : IsSet(c) => clauses[c] = <<clauses[c][1]>>
  BY <1>1, ClauseTyped DEF Clauses, ListClauses
<1>2. \A word \in Keywords : Stated(word) \in V /\ <<word>> \in V
  <2>1. Keywords \subseteq Letters
    BY Alphabet DEF Letters
  <2>. QED BY <1>1, <2>1, StatedTyped
<1>3. \A c \in {"select", "distinctOn"} : IsSet(c) => JoinCsv(clauses[c][1]) \in V
  <2>1. ASSUME NEW c \in {"select", "distinctOn"}, IsSet(c) PROVE JoinCsv(clauses[c][1]) \in V
    <3>1. clauses[c][1] \in Seq(Text)
      BY <1>1, <2>1, ClauseTyped, ValueTexts DEF Clauses, ListClauses
    <3>2. Seq(Text) \subseteq Seq(Seq(Letters))
      <4>1. Text \subseteq Seq(Letters)
        BY PlainTexts DEF Letters
      <4>. QED BY <4>1, SeqMonotonic
    <3>. QED BY <3>1, <3>2, PlainTexts, JoinCsvUnfolds DEF Letters
  <2>. QED BY <2>1
<1>4. /\ IsSet("select") <=> clauses["select"] # <<>>
      /\ IsSet("distinctOn") <=> clauses["distinctOn"] # <<>>
  BY <1>1, ClauseTyped DEF Clauses, ListClauses
<1>. HIDE DEF V
<1>5. \A s \in V : s \o <<>> = s /\ <<>> \o s = s
  BY ConcatEmptySeq DEF V
<1>6. Concats(V)
  BY ConcatsSeq DEF V
<1>7. list \in V
  BY <1>1, <1>3
<1>8. {"SELECT", "DISTINCT", "DISTINCT ON", "(", ")"} \subseteq Keywords
  BY DEF Keywords
<1>. HIDE DEF list, on
<1>9. CASE IsSet("distinctOn")
  <2>1. /\ Stated("SELECT") = <<"SELECT">> \o <<>> /\ Stated("DISTINCT") = <<>>
        /\ Stated("DISTINCT ON") = <<"DISTINCT ON">> \o <<>>
        /\ Stated("(") = <<"(">> \o on /\ Stated(")") = <<")">> \o list
    <3>1. /\ Said["SELECT"] = <<<<>>>> /\ Said["DISTINCT"] = <<>> /\ Said["DISTINCT ON"] = <<<<>>>>
          /\ Said["("] = <<clauses["distinctOn"][1]>> /\ Said[")"] = <<clauses["select"][1]>>
      BY <1>0, <1>1, <1>9, SaidOf, Zenon
    <3>. QED BY <3>1, StatedOf, JoinCsvNone, Zenon DEF list, on
  <2>2. SelectPart = (<<"SELECT", "DISTINCT ON", "(">> \o on \o <<")">>) \o list
    BY <1>9, Zenon DEF SelectPart, list, on
  <2>3. <<"SELECT", "DISTINCT ON", "(">> = <<"SELECT">> \o (<<"DISTINCT ON">> \o <<"(">>)
    BY TripleConcat
  <2>4. on \in V
    BY <1>3, <1>9 DEF on
  <2>. DEFINE select == <<"SELECT">>
  <2>. DEFINE distinctOn == <<"DISTINCT ON">>
  <2>. DEFINE open == <<"(">>
  <2>. DEFINE close == <<")">>
  <2>5. select \in V /\ distinctOn \in V /\ open \in V /\ close \in V
    BY <1>2, <1>8
  <2>6. distinctOn \o ((open \o on) \o (close \o list)) \in V
    BY <1>7, <2>4, <2>5, ConcatTyped DEF V
  <2>. HIDE DEF select, distinctOn, open, close
  <2>7. (((select \o (distinctOn \o open)) \o on) \o close) \o list
          = select \o (distinctOn \o ((open \o on) \o (close \o list)))
    <3>1. RegroupsSelect(select, distinctOn, open, on, close, list)
      BY ONLY <1>6, <1>7, <2>4, <2>5, RegroupSelect
    <3>. QED BY <3>1, Zenon DEF RegroupsSelect
  <2>8. select \o <<>> = select /\ distinctOn \o <<>> = distinctOn
        /\ <<>> \o (distinctOn \o ((open \o on) \o (close \o list)))
             = distinctOn \o ((open \o on) \o (close \o list))
    BY <1>5, <2>5, <2>6
  <2>9. /\ Stated("SELECT") = select /\ Stated("DISTINCT") = <<>>
        /\ Stated("DISTINCT ON") = distinctOn
        /\ Stated("(") = open \o on /\ Stated(")") = close \o list
    BY <2>1, <2>8, Zenon DEF select, distinctOn, open, close
  <2>10. SelectPart = (((select \o (distinctOn \o open)) \o on) \o close) \o list
    BY <2>2, <2>3, Zenon DEF select, distinctOn, open, close
  <2>. QED BY <2>7, <2>8, <2>9, <2>10, Zenon
<1>10. CASE ~IsSet("distinctOn") /\ distinct
  <2>1. /\ Stated("SELECT") = <<"SELECT">> \o <<>> /\ Stated("DISTINCT") = <<"DISTINCT">> \o list
        /\ Stated("DISTINCT ON") = <<>> /\ Stated("(") = <<>> /\ Stated(")") = <<>>
    <3>1. /\ Said["SELECT"] = <<<<>>>> /\ Said["DISTINCT"] = <<clauses["select"][1]>>
          /\ Said["DISTINCT ON"] = <<>> /\ Said["("] = <<>> /\ Said[")"] = <<>>
      BY <1>0, <1>1, <1>4, <1>10, SaidOf, Zenon
    <3>. QED BY <3>1, StatedOf, JoinCsvNone, Zenon DEF list
  <2>2. SelectPart = <<"SELECT", "DISTINCT">> \o list
    BY <1>10, Zenon DEF SelectPart, list
  <2>3. <<"SELECT", "DISTINCT">> = <<"SELECT">> \o <<"DISTINCT">>
    BY PairConcat
  <2>. DEFINE select == <<"SELECT">>
  <2>. DEFINE once == <<"DISTINCT">>
  <2>4. select \in V /\ once \in V
    BY <1>2, <1>8
  <2>5. once \o list \in V /\ <<>> \o <<>> = <<>>
    BY <1>7, <2>4, ConcatTyped DEF V
  <2>. HIDE DEF select, once
  <2>6. (select \o once) \o list = select \o (once \o list)
    <3>1. Cat(Cat(select, once), list) = Cat(select, Cat(once, list))
      BY <1>6, <1>7, <2>4, RegroupTwo
    <3>. QED BY <3>1, Zenon DEF Cat
  <2>7. select \o <<>> = select /\ (once \o list) \o <<>> = once \o list
    BY <1>5, <2>4, <2>5
  <2>8. Stated("SELECT") \o (Stated("DISTINCT") \o (Stated("DISTINCT ON")
                        \o (Stated("(") \o Stated(")")))) = select \o (once \o list)
    BY <2>1, <2>5, <2>7, Zenon DEF select, once
  <2>9. SelectPart = (select \o once) \o list
    BY <2>2, <2>3, Zenon DEF select, once
  <2>. QED BY <2>6, <2>8, <2>9, Zenon
<1>11. CASE ~IsSet("distinctOn") /\ ~distinct
  <2>1. /\ Stated("SELECT") = <<"SELECT">> \o list /\ Stated("DISTINCT") = <<>>
        /\ Stated("DISTINCT ON") = <<>> /\ Stated("(") = <<>> /\ Stated(")") = <<>>
    <3>1. /\ Said["SELECT"] = <<clauses["select"][1]>> /\ Said["DISTINCT"] = <<>>
          /\ Said["DISTINCT ON"] = <<>> /\ Said["("] = <<>> /\ Said[")"] = <<>>
      BY <1>0, <1>1, <1>4, <1>11, SaidOf, Zenon
    <3>. QED BY <3>1, StatedOf, Zenon DEF list
  <2>2. SelectPart = <<"SELECT">> \o list
    BY <1>11, Zenon DEF SelectPart, list
  <2>3. Stated("SELECT") \o <<>> = Stated("SELECT") /\ <<>> \o <<>> = <<>>
    <3>1. Stated("SELECT") \in V
      BY <1>2, <1>8
    <3>2. <<>> \in V
      BY DEF V
    <3>. QED BY <1>5, <3>1, <3>2, Zenon
  <2>. QED BY <2>1, <2>2, <2>3, Zenon
<1>. QED BY <1>9, <1>10, <1>11

\* A statement is the clauses of its keywords.
LEMMA StatementStated ==
  ASSUME TypeOK, HoldsValues, EnsureValid
  PROVE  ToStringText =
           Stated("SELECT") \o (Stated("DISTINCT") \o (Stated("DISTINCT ON")
             \o (Stated("(") \o (Stated(")") \o (Stated("FROM") \o (Stated("WHERE")
             \o (Stated("GROUP BY") \o (Stated("HAVING") \o (Stated("ORDER BY")
             \o (Stated("LIMIT") \o (Stated("OFFSET") \o <<>>)))))))))))
<1>. DEFINE V == Seq(Letters)
<1>1. from # <<>>
  BY DEF EnsureValid, IsEmpty
<1>2. \A word \in Keywords : Stated(word) \in V /\ <<word>> \in V
  <2>1. Keywords \subseteq Letters
    BY Alphabet DEF Letters
  <2>. QED BY <1>1, <2>1, StatedTyped
<1>3. Concats(V) /\ \A s, t \in V : s \o t \in V
  BY ConcatsSeq, ConcatTyped
<1>4. \A s \in V : s \o <<>> = s
  BY ConcatEmptySeq
<1>5. from \in V
  BY <1>1, ClauseTyped, PlainTexts DEF Letters
<1>. HIDE DEF V
<1>6. /\ Stated("SELECT") \in V /\ Stated("DISTINCT") \in V /\ Stated("DISTINCT ON") \in V
      /\ Stated("(") \in V /\ Stated(")") \in V /\ Stated("FROM") \in V
      /\ Stated("WHERE") \in V /\ Stated("GROUP BY") \in V /\ Stated("HAVING") \in V
      /\ Stated("ORDER BY") \in V /\ Stated("LIMIT") \in V /\ Stated("OFFSET") \in V
      /\ <<"FROM">> \in V
  BY <1>2 DEF Keywords
<1>7. SelectPart = Stated("SELECT") \o (Stated("DISTINCT") \o (Stated("DISTINCT ON")
                     \o (Stated("(") \o Stated(")"))))
  BY SelectStated
<1>8. SelectPart \in V
  BY <1>3, <1>6, <1>7
<1>9. ToStringText =
        ((((((SelectPart \o <<"FROM">>) \o from) \o ((Stated("WHERE") \o Stated("GROUP BY")) \o Stated("HAVING")))
          \o Stated("ORDER BY")) \o Stated("LIMIT")) \o Stated("OFFSET"))
  BY <1>1, OptionalStated, Zenon DEF ToStringText, FilterText, SelectPart
<1>10. (SelectPart \o <<"FROM">>) \o from = SelectPart \o Stated("FROM")
  <2>. DEFINE word == <<"FROM">>
  <2>1. word \in V
    BY <1>6
  <2>. HIDE DEF word
  <2>2. Cat(Cat(SelectPart, word), from) = Cat(SelectPart, Cat(word, from))
    BY <1>3, <1>5, <1>8, <2>1, RegroupTwo
  <2>3. (SelectPart \o word) \o from = SelectPart \o (word \o from)
    BY <2>2, Zenon DEF Cat
  <2>4. word \o from = Stated("FROM")
    BY <1>1, OptionalStated DEF word
  <2>. QED BY <2>3, <2>4, Zenon DEF word
<1>. DEFINE rest == Stated("FROM") \o (Stated("WHERE") \o (Stated("GROUP BY") \o (Stated("HAVING")
                      \o (Stated("ORDER BY") \o (Stated("LIMIT") \o Stated("OFFSET"))))))
<1>11. ToStringText = SelectPart \o rest
  <2>1. ((((SelectPart \o Stated("FROM")) \o ((Stated("WHERE") \o Stated("GROUP BY")) \o Stated("HAVING")))
          \o Stated("ORDER BY")) \o Stated("LIMIT")) \o Stated("OFFSET") = SelectPart \o rest
    <3>1. RegroupsStatement(SelectPart, Stated("FROM"), Stated("WHERE"), Stated("GROUP BY"),
                            Stated("HAVING"), Stated("ORDER BY"), Stated("LIMIT"), Stated("OFFSET"))
      BY ONLY <1>3, <1>6, <1>8, RegroupStatement
    <3>. QED BY <3>1, Zenon DEF RegroupsStatement, rest
  <2>. QED BY <1>9, <1>10, <2>1, Zenon
<1>12. rest \in V
  BY <1>3, <1>6
<1>. HIDE DEF rest
<1>13. SelectPart \o rest
         = Stated("SELECT") \o (Stated("DISTINCT") \o (Stated("DISTINCT ON")
             \o (Stated("(") \o (Stated(")") \o rest))))
  <2>1. (Stated("SELECT") \o (Stated("DISTINCT") \o (Stated("DISTINCT ON")
                     \o (Stated("(") \o Stated(")"))))) \o rest
         = Stated("SELECT") \o (Stated("DISTINCT") \o (Stated("DISTINCT ON")
             \o (Stated("(") \o (Stated(")") \o rest))))
    <3>1. RegroupsLong(Stated("SELECT"), Stated("DISTINCT"), Stated("DISTINCT ON"),
                       Stated("("), Stated(")"), rest)
      BY ONLY <1>3, <1>6, <1>12, RegroupLong
    <3>. QED BY <3>1, Zenon DEF RegroupsLong
  <2>. QED BY <1>7, <2>1, Zenon
<1>14. Stated("OFFSET") \o <<>> = Stated("OFFSET")
  BY <1>4, <1>6
<1>. QED BY <1>11, <1>13, <1>14, Zenon DEF rest

-----------------------------------------------------------------------------
\* The reader of this module reads terms.
LEMMA ReaderReads == ReadsTerms(TermsAhead, Tokens, Keywords, Comma)
<1>1. \E T : IsAhead(T, Tokens, Keywords, Comma)
  BY TermsAheadExists
<1>2. TermsAhead = CHOOSE T : IsAhead(T, Tokens, Keywords, Comma)
  BY Zenon DEF TermsAhead, IsAhead, Ahead, Comma
<1>3. IsAhead(TermsAhead, Tokens, Keywords, Comma)
  BY <1>1, <1>2, Zenon
<1>. QED BY <1>3, TermsAheadReads

\* The reference reader is the reader of TextLemmas.
LEMMA ReadClauseFrom ==
  ASSUME NEW ws, NEW keyword
  PROVE  ReadClause(ws, keyword) = ReadFrom(TermsAhead, ws, keyword)
BY Zenon DEF ReadClause, ReadFrom, Listed, TermsOf

\* A statement says what its clauses hold.
LEMMA StatementSays ==
  ASSUME TypeOK, HoldsValues, EnsureValid
  PROVE  /\ Says(TermsAhead, Tokens, rank, Said, 0, ToStringText)
         /\ ToStringText \in Seq(Letters)
<1>. DEFINE SaysFrom(k, ws) == Says(TermsAhead, Tokens, rank, Said, k, ws)
<1>1. from # <<>>
  BY DEF EnsureValid, IsEmpty
<1>2. \A word \in Keywords : Said[word] = <<>> \/ \E terms \in TermsOver(Tokens, Keywords, Comma) : Said[word] = <<terms>>
  BY <1>1, SaidTyped, PlainTexts
<1>3. /\ rank \in [Keywords -> Nat] /\ \A w \in Keywords : rank[w] <= 12
      /\ \A v, w \in Keywords : rank[v] = rank[w] => v = w
  BY RankTyped
<1>4. SaysFrom(12, <<>>)
  BY <1>3, ReaderReads, SaysNothing
<1>5. ASSUME NEW keyword \in Keywords, NEW ws, SaysFrom(rank[keyword], ws)
      PROVE  SaysFrom(rank[keyword] - 1, Stated(keyword) \o ws)
  <2>1. Keywords \subseteq Tokens /\ Comma \in Tokens \ Keywords /\ Separator = <<Comma>>
    BY Alphabet
  <2>2. Says(TermsAhead, Tokens, rank, Said, rank[keyword], ws)
    BY <1>5
  <2>3. Said[keyword] = <<>> \/ \E terms \in TermsOver(Tokens, Keywords, Comma) : Said[keyword] = <<terms>>
    BY <1>2
  <2>4. Says(TermsAhead, Tokens, rank, Said, rank[keyword] - 1, Written(keyword, Said[keyword]) \o ws)
    <3>1. rank \in [Keywords -> Nat] /\ \A v, w \in Keywords : rank[v] = rank[w] => v = w
      BY <1>3
    <3>2. ReadsTerms(TermsAhead, Tokens, Keywords, Comma) /\ keyword \in Keywords
      BY ReaderReads
    <3>. QED BY ONLY <3>1, <3>2, <2>1, <2>2, <2>3, SaysMore
  <2>. QED BY <2>4, Zenon DEF Stated
<1>. DEFINE more(keyword, ws) == Stated(keyword) \o ws
<1>. HIDE DEF SaysFrom, more
<1>6. /\ \A ws : SaysFrom(12, ws) => SaysFrom(11, more("OFFSET", ws))
      /\ \A ws : SaysFrom(11, ws) => SaysFrom(10, more("LIMIT", ws))
      /\ \A ws : SaysFrom(10, ws) => SaysFrom(9, more("ORDER BY", ws))
      /\ \A ws : SaysFrom(9, ws) => SaysFrom(8, more("HAVING", ws))
      /\ \A ws : SaysFrom(8, ws) => SaysFrom(7, more("GROUP BY", ws))
      /\ \A ws : SaysFrom(7, ws) => SaysFrom(6, more("WHERE", ws))
      /\ \A ws : SaysFrom(6, ws) => SaysFrom(5, more("FROM", ws))
      /\ \A ws : SaysFrom(5, ws) => SaysFrom(4, more(")", ws))
      /\ \A ws : SaysFrom(4, ws) => SaysFrom(3, more("(", ws))
      /\ \A ws : SaysFrom(3, ws) => SaysFrom(2, more("DISTINCT ON", ws))
      /\ \A ws : SaysFrom(2, ws) => SaysFrom(1, more("DISTINCT", ws))
      /\ \A ws : SaysFrom(1, ws) => SaysFrom(0, more("SELECT", ws))
  <2>1. \A keyword \in Keywords : \A ws :
          SaysFrom(rank[keyword], ws) => SaysFrom(rank[keyword] - 1, more(keyword, ws))
    BY <1>5 DEF more
  <2>2. \A keyword \in Keywords : rank[keyword] = Rank(keyword)
    BY Zenon DEF rank
  <2>3. /\ "SELECT" \in Keywords /\ "DISTINCT" \in Keywords /\ "DISTINCT ON" \in Keywords
        /\ "(" \in Keywords /\ ")" \in Keywords /\ "FROM" \in Keywords /\ "WHERE" \in Keywords
        /\ "GROUP BY" \in Keywords /\ "HAVING" \in Keywords /\ "ORDER BY" \in Keywords
        /\ "LIMIT" \in Keywords /\ "OFFSET" \in Keywords
    BY DEF Keywords
  <2>4. /\ 12 - 1 = 11 /\ 11 - 1 = 10 /\ 10 - 1 = 9 /\ 9 - 1 = 8 /\ 8 - 1 = 7 /\ 7 - 1 = 6
        /\ 6 - 1 = 5 /\ 5 - 1 = 4 /\ 4 - 1 = 3 /\ 3 - 1 = 2 /\ 2 - 1 = 1 /\ 1 - 1 = 0
    OBVIOUS
  <2>. DEFINE step(keyword, n, m) == \A ws : SaysFrom(n, ws) => SaysFrom(m, more(keyword, ws))
  <2>5. \A keyword \in Keywords : \A n, m : Rank(keyword) = n /\ n - 1 = m => step(keyword, n, m)
    BY <2>1, <2>2, Zenon
  <2>. HIDE DEF step
  <2>6. /\ step("SELECT", 1, 0) /\ step("DISTINCT", 2, 1) /\ step("DISTINCT ON", 3, 2)
        /\ step("(", 4, 3) /\ step(")", 5, 4) /\ step("FROM", 6, 5) /\ step("WHERE", 7, 6)
        /\ step("GROUP BY", 8, 7) /\ step("HAVING", 9, 8) /\ step("ORDER BY", 10, 9)
        /\ step("LIMIT", 11, 10) /\ step("OFFSET", 12, 11)
    BY <2>3, <2>4, <2>5, Ranks
  <2>. QED BY <2>6, Zenon DEF step
<1>7. SaysFrom(0, more("SELECT", more("DISTINCT", more("DISTINCT ON", more("(", more(")",
        more("FROM", more("WHERE", more("GROUP BY", more("HAVING", more("ORDER BY",
        more("LIMIT", more("OFFSET", <<>>)))))))))))))
  BY <1>4, <1>6
<1>8. ToStringText = more("SELECT", more("DISTINCT", more("DISTINCT ON", more("(", more(")",
        more("FROM", more("WHERE", more("GROUP BY", more("HAVING", more("ORDER BY",
        more("LIMIT", more("OFFSET", <<>>))))))))))))
  BY StatementStated, Zenon DEF more
<1>9. \A keyword \in Keywords, ws \in Seq(Letters) : more(keyword, ws) \in Seq(Letters)
  BY <1>1, StatedTyped, ConcatTyped DEF more
<1>10. ToStringText \in Seq(Letters)
  <2>1. <<>> \in Seq(Letters)
    OBVIOUS
  <2>. QED BY <1>8, <1>9, <2>1 DEF Keywords
<1>. QED BY <1>7, <1>8, <1>10, Zenon DEF SaysFrom

-----------------------------------------------------------------------------
\* s is laid out, and but for the layout it is t.
LaysOut(s, t) == s \in Seq(Tokens) /\ Unlaid(s) = t

\* Texts that are laid out put together to one that is.
LEMMA LaysOutTyped ==
  /\ \A t \in Seq(Letters) : LaysOut(t, t)
  /\ \A word \in Layout : LaysOut(<<word>>, <<>>)
  /\ \A s, s2, t, t2 : LaysOut(s, t) /\ LaysOut(s2, t2) => LaysOut(s \o s2, t \o t2)
<1>1. Letters \subseteq Tokens /\ Letters \cap Layout = {} /\ Layout \subseteq Tokens
  BY Alphabet DEF Letters
<1>2. \A t \in Seq(Letters) : LaysOut(t, t)
  <2>1. Seq(Letters) \subseteq Seq(Tokens)
    BY <1>1, SeqMonotonic
  <2>2. \A t \in Seq(Letters) : Unlaid(t) = t
    BY <1>1, UnlaidKeeps
  <2>. QED BY <2>1, <2>2 DEF LaysOut
<1>3. \A word \in Layout : LaysOut(<<word>>, <<>>)
  <2>1. \A word \in Layout : <<word>> \in Seq(Tokens)
    BY <1>1
  <2>. QED BY <2>1, UnlaidWord, Zenon DEF LaysOut
<1>4. ASSUME NEW s, NEW s2, NEW t, NEW t2, LaysOut(s, t), LaysOut(s2, t2)
      PROVE  LaysOut(s \o s2, t \o t2)
  <2>1. s \in Seq(Tokens) /\ s2 \in Seq(Tokens) /\ Unlaid(s) = t /\ Unlaid(s2) = t2
    BY <1>4 DEF LaysOut
  <2>2. s \o s2 \in Seq(Tokens)
    BY <2>1, ConcatTyped
  <2>3. Unlaid(s \o s2) = Unlaid(s) \o Unlaid(s2)
    BY <2>1, UnlaidConcat
  <2>. QED BY <2>1, <2>2, <2>3, Zenon DEF LaysOut
<1>. QED BY <1>2, <1>3, <1>4, Zenon

\* The formatted list lays the plain one out.
LEMMA LaidLists ==
  \A terms \in Seq(Text) : LaysOut(JoinCsvIndented(terms), JoinCsv(terms))
<1>1. Letters \cap Layout = {} /\ Letters \cup Layout = Tokens
  BY Alphabet DEF Letters
<1>2. Separator \in Seq(Letters) /\ Seq(Text) \subseteq Seq(Seq(Letters) \ {<<>>})
  BY PlainTexts DEF Letters
<1>3. \A terms \in Seq(Seq(Letters) \ {<<>>}) :
         /\ Unlaid(JoinCsvIndented(terms)) = JoinCsv(terms)
         /\ JoinCsvIndented(terms) \in Seq(Letters \cup Layout)
  BY <1>1, <1>2, UnlaidJoined
<1>. QED BY <1>1, <1>2, <1>3, Zenon DEF LaysOut

\* A keyword on a line of its own.
LEMMA LaidSections ==
  \A keyword \in Keywords : LaysOut(Section(keyword), <<keyword>>)
<1>1. ASSUME NEW keyword \in Keywords PROVE LaysOut(Section(keyword), <<keyword>>)
  <2>. DEFINE break == <<"\n">>
  <2>. DEFINE word == <<keyword>>
  <2>1. LaysOut(break, <<>>)
    <3>1. "\n" \in Layout
      BY Zenon DEF Layout
    <3>. QED BY <3>1, LaysOutTyped, Zenon
  <2>2. word \in Seq(Letters)
    BY Alphabet DEF Letters
  <2>3. Section(keyword) = break \o (word \o break)
    BY TripleConcat, Zenon DEF Section
  <2>. HIDE DEF break, word
  <2>4. LaysOut(break \o (word \o break), <<>> \o (word \o <<>>))
    BY <2>1, <2>2, LaysOutTyped, Zenon
  <2>5. <<>> \o (word \o <<>>) = word
    BY <2>2, ConcatEmptySeq
  <2>. QED BY <2>3, <2>4, <2>5, Zenon DEF word
<1>. QED BY <1>1

\* The clauses that are optional, laid out and not.
LEMMA LaidOptional ==
  ASSUME TypeOK, HoldsValues, from # <<>>
  PROVE  /\ LaysOut(Optional("where", Section("WHERE"), Indented), Stated("WHERE"))
         /\ LaysOut(Optional("groupBy", Section("GROUP BY"), JoinCsvIndented), Stated("GROUP BY"))
         /\ LaysOut(Optional("having", Section("HAVING"), Indented), Stated("HAVING"))
         /\ LaysOut(Optional("orderBy", Section("ORDER BY"), OrderCsvIndented), Stated("ORDER BY"))
         /\ LaysOut(Optional("limit", Section("LIMIT"), Indented), Stated("LIMIT"))
         /\ LaysOut(Optional("offset", Section("OFFSET"), Indented), Stated("OFFSET"))
<1>1. LaysOut(<<>>, <<>>)
  <2>1. <<>> \in Seq(Letters)
    OBVIOUS
  <2>. QED BY <2>1, LaysOutTyped
<1>2. ASSUME NEW c \in ConditionClauses \cup CountClauses, IsSet(c)
      PROVE  LaysOut(Indented(clauses[c][1]), Verbatim(clauses[c][1]))
  <2>1. c \in Clauses /\ clauses[c][1] \in Values(c)
    BY <1>2, ClauseTyped DEF Clauses
  <2>2. PICK term \in Text : clauses[c][1] = <<term>>
    BY <1>2, <2>1, ValueTexts
  <2>. DEFINE value == clauses[c][1]
  <2>3. value[1] = term
    BY <2>2
  <2>4. term \in Seq(Letters)
    BY PlainTexts DEF Letters
  <2>. HIDE DEF value
  <2>5. LaysOut(<<"    ">>, <<>>)
    <3>1. "    " \in Layout
      BY Zenon DEF Layout
    <3>. QED BY <3>1, LaysOutTyped, Zenon
  <2>6. LaysOut(<<"    ">> \o term, <<>> \o term)
    BY <2>4, <2>5, LaysOutTyped, Zenon
  <2>7. <<>> \o term = term
    BY <2>4, ConcatEmptySeq
  <2>8. LaysOut(Indented(value), Verbatim(value))
    BY <2>3, <2>6, <2>7, Zenon DEF Indented, Verbatim
  <2>. QED BY <2>8, Zenon DEF value
<1>3. IsSet("groupBy") => LaysOut(JoinCsvIndented(clauses["groupBy"][1]), JoinCsv(clauses["groupBy"][1]))
  <2>1. ASSUME IsSet("groupBy") PROVE clauses["groupBy"][1] \in Seq(Text)
    BY <2>1, ClauseTyped, ValueTexts DEF Clauses, ListClauses
  <2>. QED BY <2>1, LaidLists
<1>4. IsSet("orderBy") => LaysOut(OrderCsvIndented(clauses["orderBy"][1]), OrderCsv(clauses["orderBy"][1]))
  <2>1. ASSUME IsSet("orderBy") PROVE RenderAll(clauses["orderBy"][1]) \in Seq(Text)
    BY <2>1, ClauseTyped, ValueTexts, RenderAllTexts DEF Clauses, ListClauses
  <2>. QED BY <2>1, LaidLists, Zenon DEF OrderCsv, OrderCsvIndented
<1>5. \A keyword \in Keywords : \A s, t : LaysOut(s, t) => LaysOut(Section(keyword) \o s, <<keyword>> \o t)
  BY LaidSections, LaysOutTyped, Zenon
<1>6. /\ "where" \in ConditionClauses /\ "having" \in ConditionClauses
      /\ "limit" \in CountClauses /\ "offset" \in CountClauses
  BY DEF ConditionClauses, CountClauses
<1>7. /\ "WHERE" \in Keywords /\ "GROUP BY" \in Keywords /\ "HAVING" \in Keywords
      /\ "ORDER BY" \in Keywords /\ "LIMIT" \in Keywords /\ "OFFSET" \in Keywords
  BY DEF Keywords
<1>8. LaysOut(Optional("where", Section("WHERE"), Indented), Optional("where", <<"WHERE">>, Verbatim))
  BY <1>1, <1>2, <1>5, <1>6, <1>7, Zenon DEF Optional
<1>9. LaysOut(Optional("having", Section("HAVING"), Indented), Optional("having", <<"HAVING">>, Verbatim))
  BY <1>1, <1>2, <1>5, <1>6, <1>7, Zenon DEF Optional
<1>10. LaysOut(Optional("limit", Section("LIMIT"), Indented), Optional("limit", <<"LIMIT">>, Verbatim))
  BY <1>1, <1>2, <1>5, <1>6, <1>7, Zenon DEF Optional
<1>11. LaysOut(Optional("offset", Section("OFFSET"), Indented), Optional("offset", <<"OFFSET">>, Verbatim))
  BY <1>1, <1>2, <1>5, <1>6, <1>7, Zenon DEF Optional
<1>12. LaysOut(Optional("groupBy", Section("GROUP BY"), JoinCsvIndented), Optional("groupBy", <<"GROUP BY">>, JoinCsv))
  BY <1>1, <1>3, <1>5, <1>7, Zenon DEF Optional
<1>13. LaysOut(Optional("orderBy", Section("ORDER BY"), OrderCsvIndented), Optional("orderBy", <<"ORDER BY">>, OrderCsv))
  BY <1>1, <1>4, <1>5, <1>7, Zenon DEF Optional
<1>. QED BY <1>8, <1>9, <1>10, <1>11, <1>12, <1>13, OptionalStated, Zenon

\* The text up to FROM, laid out.
SelectPartFormatted ==
  (IF IsSet("distinctOn")
     THEN <<"SELECT", "DISTINCT ON", "(">> \o JoinCsv(clauses["distinctOn"][1])
            \o <<")", "\n">>
     ELSE IF distinct THEN <<"SELECT", "DISTINCT", "\n">> ELSE <<"SELECT", "\n">>)
  \o JoinCsvIndented(clauses["select"][1])

\* What precedes FROM, formatted, lays the plain text out.
LEMMA LaidSelect ==
  ASSUME TypeOK, HoldsValues, EnsureValid
  PROVE  LaysOut(SelectPartFormatted, SelectPart)
<1>1. from # <<>> /\ IsSet("select")
  BY DEF EnsureValid, IsEmpty
<1>2. {"select", "distinctOn"} \subseteq Clauses \ {"orderBy"}
  BY DEF Clauses, ListClauses
<1>3. \A c \in {"select", "distinctOn"} : IsSet(c) => clauses[c][1] \in Seq(Text)
  BY <1>1, <1>2, ClauseTyped, ValueTexts
<1>4. \A terms \in Seq(Text) : JoinCsv(terms) \in Seq(Letters)
  <2>1. Seq(Text) \subseteq Seq(Seq(Letters))
    <3>1. Text \subseteq Seq(Letters)
      BY PlainTexts DEF Letters
    <3>. QED BY <3>1, SeqMonotonic
  <2>2. Separator \in Seq(Letters)
    BY PlainTexts DEF Letters
  <2>. QED BY <2>1, <2>2, JoinCsvUnfolds
<1>. DEFINE break == <<"\n">>
<1>5. LaysOut(break, <<>>)
  <2>1. "\n" \in Layout
    BY Zenon DEF Layout
  <2>. QED BY <2>1, LaysOutTyped, Zenon
<1>6. \A t \in Seq(Letters) : LaysOut(t \o break, t)
  <2>1. \A t \in Seq(Letters) : t \o <<>> = t
    BY ConcatEmptySeq
  <2>2. \A t \in Seq(Letters) : LaysOut(t \o break, t \o <<>>)
    BY <1>5, LaysOutTyped, Zenon
  <2>. QED BY <2>1, <2>2, Zenon
<1>7. LaysOut(JoinCsvIndented(clauses["select"][1]), JoinCsv(clauses["select"][1]))
  BY <1>1, <1>3, LaidLists
<1>8. {"SELECT", "DISTINCT", "DISTINCT ON", "(", ")"} \subseteq Letters
  BY Alphabet DEF Letters, Keywords
<1>9. <<"SELECT">> \in Seq(Letters) /\ <<"SELECT", "DISTINCT">> \in Seq(Letters)
      /\ <<"SELECT", "DISTINCT ON", "(">> \in Seq(Letters) /\ <<")">> \in Seq(Letters)
  <2>1. /\ "SELECT" \in Letters /\ "DISTINCT" \in Letters /\ "DISTINCT ON" \in Letters
        /\ "(" \in Letters /\ ")" \in Letters
    BY <1>8
  <2>2. \A a, b, c \in Letters : <<a>> \in Seq(Letters) /\ <<a, b>> \in Seq(Letters)
                                 /\ <<a, b, c>> \in Seq(Letters)
    BY TuplesTyped
  <2>. QED BY <2>1, <2>2, Zenon
<1>10. <<"SELECT", "\n">> = <<"SELECT">> \o break /\ <<")", "\n">> = <<")">> \o break
  BY PairConcat, Zenon
<1>11. <<"SELECT", "DISTINCT", "\n">> = <<"SELECT", "DISTINCT">> \o break
  BY TripleConcat
<1>. HIDE DEF break
<1>12. CASE IsSet("distinctOn")
  <2>. DEFINE on == <<"SELECT", "DISTINCT ON", "(">> \o JoinCsv(clauses["distinctOn"][1])
  <2>1. on \in Seq(Letters)
    BY <1>3, <1>4, <1>9, <1>12, ConcatTyped
  <2>2. SelectPartFormatted = (on \o (<<")">> \o break)) \o JoinCsvIndented(clauses["select"][1])
    BY <1>10, <1>12, Zenon DEF SelectPartFormatted
  <2>3. SelectPart = (on \o <<")">>) \o JoinCsv(clauses["select"][1])
    BY <1>12, Zenon DEF SelectPart
  <2>. HIDE DEF on
  <2>4. LaysOut(on \o (<<")">> \o break), on \o <<")">>)
    BY <1>6, <1>9, <2>1, LaysOutTyped, Zenon
  <2>. QED BY <1>7, <2>2, <2>3, <2>4, LaysOutTyped, Zenon
<1>13. CASE ~IsSet("distinctOn") /\ distinct
  <2>1. SelectPartFormatted = (<<"SELECT", "DISTINCT">> \o break) \o JoinCsvIndented(clauses["select"][1])
    BY <1>11, <1>13, Zenon DEF SelectPartFormatted
  <2>2. SelectPart = <<"SELECT", "DISTINCT">> \o JoinCsv(clauses["select"][1])
    BY <1>13, Zenon DEF SelectPart
  <2>. QED BY <1>6, <1>7, <1>9, <2>1, <2>2, LaysOutTyped, Zenon
<1>14. CASE ~IsSet("distinctOn") /\ ~distinct
  <2>1. SelectPartFormatted = (<<"SELECT">> \o break) \o JoinCsvIndented(clauses["select"][1])
    BY <1>10, <1>14, Zenon DEF SelectPartFormatted
  <2>2. SelectPart = <<"SELECT">> \o JoinCsv(clauses["select"][1])
    BY <1>14, Zenon DEF SelectPart
  <2>. QED BY <1>6, <1>7, <1>9, <2>1, <2>2, LaysOutTyped, Zenon
<1>. QED BY <1>12, <1>13, <1>14

\* Laid out, a statement is the same statement.
LEMMA StatementLaidOut ==
  ASSUME TypeOK, HoldsValues, EnsureValid
  PROVE  LaysOut(ToStringFormattedText, ToStringText)
<1>1. from # <<>>
  BY DEF EnsureValid, IsEmpty
<1>2. LaysOut(SelectPartFormatted, SelectPart)
  BY LaidSelect
<1>3. LaysOut(Section("FROM"), <<"FROM">>)
  BY LaidSections DEF Keywords
<1>4. LaysOut(<<"    ">>, <<>>)
  <2>1. "    " \in Layout
    BY Zenon DEF Layout
  <2>. QED BY <2>1, LaysOutTyped, Zenon
<1>5. LaysOut(from, from) /\ from \in Seq(Letters)
  <2>1. from \in Seq(Letters)
    BY <1>1, ClauseTyped, PlainTexts DEF Letters
  <2>. QED BY <2>1, LaysOutTyped, Zenon
<1>. DEFINE front == (SelectPart \o <<"FROM">>) \o from
<1>. DEFINE frontLaid == ((SelectPartFormatted \o Section("FROM")) \o <<"    ">>) \o from
<1>6. LaysOut(frontLaid, front) /\ front \in Seq(Letters)
  <2>1. LaysOut(((SelectPartFormatted \o Section("FROM")) \o <<"    ">>) \o from,
                ((SelectPart \o <<"FROM">>) \o <<>>) \o from)
    BY <1>2, <1>3, <1>4, <1>5, LaysOutTyped, Zenon
  <2>2. /\ (SelectPart \o <<"FROM">>) \o <<>> = SelectPart \o <<"FROM">>
        /\ (SelectPart \o <<"FROM">>) \o from \in Seq(Letters)
    <3>1. SelectPart \in Seq(Letters)
      <4>1. Stated("SELECT") \in Seq(Letters) /\ Stated("DISTINCT") \in Seq(Letters)
            /\ Stated("DISTINCT ON") \in Seq(Letters) /\ Stated("(") \in Seq(Letters)
            /\ Stated(")") \in Seq(Letters)
        BY <1>1, StatedTyped DEF Keywords
      <4>2. Stated("SELECT") \o (Stated("DISTINCT") \o (Stated("DISTINCT ON")
                        \o (Stated("(") \o Stated(")")))) \in Seq(Letters)
        BY <4>1, ConcatTyped
      <4>. QED BY <4>2, SelectStated, Zenon
    <3>2. <<"FROM">> \in Seq(Letters)
      <4>1. "FROM" \in Letters
        BY Alphabet DEF Letters, Keywords
      <4>. QED BY <4>1, TuplesTyped
    <3>3. SelectPart \o <<"FROM">> \in Seq(Letters)
      BY <3>1, <3>2, ConcatTyped
    <3>. QED BY <1>5, <3>3, ConcatEmptySeq, ConcatTyped
  <2>. QED BY <2>1, <2>2, Zenon
<1>7. ToStringFormattedText =
        (((((frontLaid \o Optional("where", Section("WHERE"), Indented))
          \o Optional("groupBy", Section("GROUP BY"), JoinCsvIndented))
          \o Optional("having", Section("HAVING"), Indented))
          \o Optional("orderBy", Section("ORDER BY"), OrderCsvIndented))
          \o Optional("limit", Section("LIMIT"), Indented))
          \o Optional("offset", Section("OFFSET"), Indented)
  BY Zenon DEF ToStringFormattedText, SelectPartFormatted
<1>. HIDE DEF frontLaid
<1>8. ToStringText =
        (((front \o ((Stated("WHERE") \o Stated("GROUP BY")) \o Stated("HAVING")))
          \o Stated("ORDER BY")) \o Stated("LIMIT")) \o Stated("OFFSET")
  BY <1>1, OptionalStated, Zenon DEF ToStringText, FilterText, SelectPart
<1>. HIDE DEF front
<1>9. front \o ((Stated("WHERE") \o Stated("GROUP BY")) \o Stated("HAVING"))
        = ((front \o Stated("WHERE")) \o Stated("GROUP BY")) \o Stated("HAVING")
  <2>1. Stated("WHERE") \in Seq(Letters) /\ Stated("GROUP BY") \in Seq(Letters) /\ Stated("HAVING") \in Seq(Letters)
    BY <1>1, StatedTyped DEF Keywords
  <2>2. /\ Cat(Cat(Cat(front, Stated("WHERE")), Stated("GROUP BY")), Stated("HAVING"))
             = Cat(front, Cat(Stated("WHERE"), Cat(Stated("GROUP BY"), Stated("HAVING"))))
        /\ Cat(Cat(Stated("WHERE"), Stated("GROUP BY")), Stated("HAVING"))
             = Cat(Stated("WHERE"), Cat(Stated("GROUP BY"), Stated("HAVING")))
    <3>. DEFINE V == Seq(Letters)
    <3>1. Concats(V)
      BY ConcatsSeq
    <3>2. front \in V /\ Stated("WHERE") \in V /\ Stated("GROUP BY") \in V /\ Stated("HAVING") \in V
      BY <1>6, <2>1
    <3>. HIDE DEF V
    <3>. DEFINE where == Stated("WHERE")
    <3>. DEFINE groupBy == Stated("GROUP BY")
    <3>. DEFINE having == Stated("HAVING")
    <3>3. front \in V /\ where \in V /\ groupBy \in V /\ having \in V
      BY <3>2
    <3>. HIDE DEF where, groupBy, having
    <3>4. Cat(Cat(Cat(front, where), groupBy), having) = Cat(front, Cat(where, Cat(groupBy, having)))
      BY ONLY <3>1, <3>3, RegroupThree
    <3>5. Cat(Cat(where, groupBy), having) = Cat(where, Cat(groupBy, having))
      BY ONLY <3>1, <3>3, RegroupTwo
    <3>. QED BY <3>4, <3>5, Zenon DEF where, groupBy, having
  <2>. QED BY <2>2, Zenon DEF Cat
<1>10. LaysOut((((((frontLaid \o Optional("where", Section("WHERE"), Indented))
          \o Optional("groupBy", Section("GROUP BY"), JoinCsvIndented))
          \o Optional("having", Section("HAVING"), Indented))
          \o Optional("orderBy", Section("ORDER BY"), OrderCsvIndented))
          \o Optional("limit", Section("LIMIT"), Indented))
          \o Optional("offset", Section("OFFSET"), Indented),
        (((((front \o Stated("WHERE")) \o Stated("GROUP BY")) \o Stated("HAVING"))
          \o Stated("ORDER BY")) \o Stated("LIMIT")) \o Stated("OFFSET"))
  BY <1>1, <1>6, LaidOptional, LaysOutTyped, Zenon
<1>. QED BY <1>7, <1>8, <1>9, <1>10, Zenon

-----------------------------------------------------------------------------
\* The last of a sequence, and those before it.
LEMMA LastFront ==
  ASSUME NEW S, NEW s \in Seq(S), NEW x \in S
  PROVE  /\ s \o <<x>> \in Seq(S)
         /\ Last(s \o <<x>>) = x
         /\ Front(s \o <<x>>) = s
<1>1. s \o <<x>> = Append(s, x)
  BY AppendIsConcat
<1>2. /\ Append(s, x) \in Seq(S) /\ Len(Append(s, x)) = Len(s) + 1
      /\ Append(s, x)[Len(s) + 1] = x
      /\ \A i \in 1..Len(s) : Append(s, x)[i] = s[i]
  BY AppendProperties
<1>3. Len(s) \in Nat
  BY LenProperties
<1>. DEFINE t == Append(s, x)
<1>4. Last(t) = x
  BY <1>2 DEF Last
<1>5. Front(t) = s
  <2>1. Front(t) = SubSeq(t, 1, Len(s))
    BY <1>2, <1>3 DEF Front
  <2>2. /\ SubSeq(t, 1, Len(s)) \in Seq(S) /\ Len(SubSeq(t, 1, Len(s))) = Len(s)
        /\ \A i \in 1..Len(s) : SubSeq(t, 1, Len(s))[i] = t[i]
    BY <1>2, <1>3
  <2>. HIDE DEF t
  <2>. QED BY <1>2, <2>1, <2>2, SeqEqual DEF t
<1>. QED BY <1>1, <1>2, <1>4, <1>5

\* A term of ORDER BY is read back, because its expression does not end like one.
LEMMA SortTermReadsBack ==
  \A term \in OrderByTerm : ReadSortTerm[RenderTerm(term)] = term
<1>1. ASSUME NEW term \in OrderByTerm
      PROVE  ReadSortTerm[RenderTerm(term)] = term
  <2>0. \A s \in Seq(Tokens), x \in Tokens :
          s \o <<x>> \in Seq(Tokens) /\ Last(s \o <<x>>) = x /\ Front(s \o <<x>>) = s
    BY LastFront
  <2>. DEFINE direction == IF term.direction = "kDescending" THEN <<"DESC">> ELSE <<>>
  <2>. DEFINE nulls == CASE term.nulls_order = "kFirst" -> <<"NULLS FIRST">>
                         [] term.nulls_order = "kLast"  -> <<"NULLS LAST">>
                         [] OTHER                       -> <<>>
  <2>. DEFINE sorted == term.expr \o direction
  <2>. DEFINE ws == sorted \o nulls
  <2>1. /\ term = [expr |-> term.expr, direction |-> term.direction, nulls_order |-> term.nulls_order]
        /\ term.expr \in SortKey
        /\ term.direction \in {"kAscending", "kDescending"}
        /\ term.nulls_order \in {"kDefault", "kFirst", "kLast"}
    BY DEF OrderByTerm
  <2>2. /\ term.expr \in Seq(Tokens) /\ Last(term.expr) \notin SortWords
    <3>1. term.expr \in Seq(Plain \ SortWords) /\ term.expr # <<>>
      BY <2>1, Alphabet
    <3>2. Len(term.expr) \in 1..Len(term.expr)
      BY <3>1, EmptySeq, LenProperties
    <3>3. Last(term.expr) \in Plain \ SortWords
      BY <3>1, <3>2, ElementOfSeq DEF Last
    <3>4. Seq(Plain \ SortWords) \subseteq Seq(Tokens)
      <4>1. Plain \ SortWords \subseteq Tokens
        BY DEF Plain
      <4>. QED BY <4>1, SeqMonotonic
    <3>. QED BY <3>1, <3>3, <3>4
  <2>3. "DESC" \in Tokens /\ "NULLS FIRST" \in Tokens /\ "NULLS LAST" \in Tokens
    BY Alphabet DEF SortWords
  <2>4. /\ sorted \in Seq(Tokens)
        /\ Last(sorted) # "NULLS FIRST" /\ Last(sorted) # "NULLS LAST"
        /\ term.direction = "kDescending" =>
             Last(sorted) = "DESC" /\ Front(sorted) = term.expr
        /\ term.direction = "kAscending" => Last(sorted) # "DESC" /\ sorted = term.expr
    <3>1. CASE term.direction = "kDescending"
      <4>1. sorted = term.expr \o <<"DESC">>
        BY <3>1
      <4>2. sorted \in Seq(Tokens) /\ Last(sorted) = "DESC" /\ Front(sorted) = term.expr
        BY <2>0, <2>2, <2>3, <4>1, Zenon
      <4>. HIDE DEF sorted
      <4>. QED BY <3>1, <4>2
    <3>2. CASE term.direction = "kAscending"
      <4>1. sorted = term.expr
        BY <2>2, <3>2, ConcatEmptySeq
      <4>. HIDE DEF sorted
      <4>. QED BY <2>2, <3>2, <4>1 DEF SortWords
    <3>. QED BY <2>1, <3>1, <3>2
  <2>. HIDE DEF sorted
  <2>5. /\ ws \in Seq(Tokens)
        /\ term.nulls_order = "kFirst" => Last(ws) = "NULLS FIRST" /\ Front(ws) = sorted
        /\ term.nulls_order = "kLast" => Last(ws) = "NULLS LAST" /\ Front(ws) = sorted
        /\ term.nulls_order = "kDefault" => ws = sorted
    <3>1. CASE term.nulls_order = "kFirst"
      <4>1. ws = sorted \o <<"NULLS FIRST">>
        BY <3>1
      <4>2. ws \in Seq(Tokens) /\ Last(ws) = "NULLS FIRST" /\ Front(ws) = sorted
        BY <2>0, <2>3, <2>4, <4>1, Zenon
      <4>. HIDE DEF ws
      <4>. QED BY <3>1, <4>2
    <3>2. CASE term.nulls_order = "kLast"
      <4>1. ws = sorted \o <<"NULLS LAST">>
        BY <3>2
      <4>2. ws \in Seq(Tokens) /\ Last(ws) = "NULLS LAST" /\ Front(ws) = sorted
        BY <2>0, <2>3, <2>4, <4>1, Zenon
      <4>. HIDE DEF ws
      <4>. QED BY <3>2, <4>2
    <3>3. CASE term.nulls_order = "kDefault"
      <4>1. ws = sorted
        BY <2>4, <3>3, ConcatEmptySeq
      <4>. HIDE DEF ws
      <4>. QED BY <2>4, <3>3, <4>1
    <3>. QED BY <2>1, <3>1, <3>2, <3>3
  <2>6. RenderTerm(term) = ws
    BY Zenon DEF RenderTerm, sorted
  <2>. HIDE DEF ws, nulls, direction
  <2>. DEFINE readNulls == CASE Last(ws) = "NULLS FIRST" -> "kFirst"
                             [] Last(ws) = "NULLS LAST"  -> "kLast"
                             [] OTHER                    -> "kDefault"
  <2>. DEFINE readSorted == IF readNulls = "kDefault" THEN ws ELSE Front(ws)
  <2>7. readNulls = term.nulls_order
    BY <2>1, <2>4, <2>5
  <2>8. readSorted = sorted
    BY <2>1, <2>5, <2>7
  <2>9. ReadSortTerm[ws] = [expr |-> IF Last(readSorted) = "DESC" THEN Front(readSorted) ELSE readSorted,
                            direction |-> IF Last(readSorted) = "DESC" THEN "kDescending" ELSE "kAscending",
                            nulls_order |-> readNulls]
    BY <2>5, Zenon DEF ReadSortTerm
  <2>. HIDE DEF readNulls, readSorted
  <2>10. /\ (IF Last(sorted) = "DESC" THEN Front(sorted) ELSE sorted) = term.expr
         /\ (IF Last(sorted) = "DESC" THEN "kDescending" ELSE "kAscending") = term.direction
    BY <2>1, <2>4
  <2>. QED BY <2>1, <2>6, <2>7, <2>8, <2>9, <2>10, Zenon
<1>. QED BY <1>1

\* The clauses of the builder, as the abstract one has them.
Kept ==
  [c \in Clauses \cup {"distinct"} |->
     IF c # "distinct" THEN clauses[c] ELSE IF distinct THEN Some(<<>>) ELSE None]

\* A statement is read back as the clauses it was rendered from.
LEMMA StatementReadsBack ==
  ASSUME TypeOK, HoldsValues, EnsureValid
  PROVE  ReadStatement[ToStringText] = Kept
<1>. DEFINE ws == ToStringText
<1>1. from # <<>> /\ IsSet("select") /\ ~(distinct /\ IsSet("distinctOn"))
  BY DEF EnsureValid, IsEmpty
<1>2. Says(TermsAhead, Tokens, rank, Said, 0, ws) /\ ws \in Seq(Tokens)
  <2>1. Seq(Letters) \subseteq Seq(Tokens)
    BY PlainTexts DEF Letters
  <2>. QED BY <2>1, StatementSays
<1>. HIDE DEF ws
<1>3. \A word \in Keywords : /\ word \in ToSet(ws) <=> Said[word] # <<>>
                             /\ ReadClause(ws, word) = Said[word]
  <2>1. \A word \in Keywords : rank[word] > 0 /\ DOMAIN rank = Keywords
    BY RankTyped
  <2>2. \A word \in Keywords : /\ word \in ToSet(ws) <=> Said[word] # <<>>
                               /\ ReadFrom(TermsAhead, ws, word) = Said[word]
    BY <1>2, <2>1 DEF Says
  <2>. QED BY <2>2, ReadClauseFrom, Zenon
<1>4. /\ "SELECT" \in Keywords /\ "DISTINCT" \in Keywords /\ "DISTINCT ON" \in Keywords
      /\ "(" \in Keywords /\ ")" \in Keywords /\ "FROM" \in Keywords /\ "WHERE" \in Keywords
      /\ "GROUP BY" \in Keywords /\ "HAVING" \in Keywords /\ "ORDER BY" \in Keywords
      /\ "LIMIT" \in Keywords /\ "OFFSET" \in Keywords
  BY DEF Keywords
<1>5. \A c \in Clauses : IsSet(c) <=> clauses[c] # <<>>
  BY <1>1, ClauseTyped
<1>6. Clauses = {"distinctOn", "select", "groupBy", "orderBy", "where", "having", "limit", "offset"}
  BY DEF Clauses, ListClauses, ConditionClauses, CountClauses
<1>7. /\ "DISTINCT" \in ToSet(ws) <=> distinct
      /\ "DISTINCT ON" \in ToSet(ws) <=> IsSet("distinctOn")
  <2>1. clauses["select"] # <<>>
    BY <1>1, <1>5, <1>6
  <2>2. <<<<>>>> # <<>>
    OBVIOUS
  <2>. QED BY <1>3, <1>4, <2>1, <2>2, SaidOf
<1>8. ReadClause(ws, SelectKeyword(ws)) = clauses["select"]
  BY <1>1, <1>3, <1>4, <1>7, SaidOf, Zenon DEF SelectKeyword
<1>9. ReadOrder[ReadClause(ws, "ORDER BY")] = clauses["orderBy"]
  <2>1. ReadClause(ws, "ORDER BY") = Said["ORDER BY"]
    BY <1>3, <1>4
  <2>2. CASE ~IsSet("orderBy")
    <3>1. Said["ORDER BY"] = <<>> /\ clauses["orderBy"] = <<>>
      BY <1>5, <1>6, <2>2, SaidOf
    <3>2. ReadOrder[<<>>] = <<>>
      BY DEF ReadOrder
    <3>. QED BY <2>1, <3>1, <3>2
  <2>3. CASE IsSet("orderBy")
    <3>. DEFINE terms == clauses["orderBy"][1]
    <3>1. clauses["orderBy"] = <<terms>> /\ terms \in Seq(OrderByTerm)
      BY <1>1, <1>6, <2>3, ClauseTyped, ValueTexts
    <3>2. Said["ORDER BY"] = <<RenderAll(terms)>>
      BY <2>3, SaidOf
    <3>. HIDE DEF terms
    <3>3. /\ RenderAll(terms) \in Seq(Text)
          /\ DOMAIN RenderAll(terms) = DOMAIN terms
          /\ \A k \in DOMAIN terms : RenderAll(terms)[k] = RenderTerm(terms[k])
      BY <3>1, RenderAllTexts
    <3>4. \A k \in DOMAIN terms : ReadSortTerm[RenderAll(terms)[k]] = terms[k]
      <4>1. \A k \in DOMAIN terms : terms[k] \in OrderByTerm
        BY <3>1
      <4>. QED BY <3>3, <4>1, SortTermReadsBack
    <3>5. [k \in DOMAIN RenderAll(terms) |-> ReadSortTerm[RenderAll(terms)[k]]] = terms
      BY <3>1, <3>3, <3>4
    <3>. DEFINE clause == <<RenderAll(terms)>>
    <3>6. clause \in Seq(Seq(Seq(Tokens)))
      <4>1. Seq(Text) \subseteq Seq(Seq(Tokens))
        <5>1. Text \subseteq Seq(Tokens)
          BY PlainTexts
        <5>. QED BY <5>1, SeqMonotonic
      <4>. QED BY <3>3, <4>1
    <3>7. ReadOrder[clause] = [n \in DOMAIN clause |-> [k \in DOMAIN clause[n] |-> ReadSortTerm[clause[n][k]]]]
      BY <3>6, Zenon DEF ReadOrder
    <3>8. DOMAIN clause = {1} /\ clause[1] = RenderAll(terms)
      OBVIOUS
    <3>9. [n \in DOMAIN clause |-> [k \in DOMAIN clause[n] |-> ReadSortTerm[clause[n][k]]]]
            = [n \in {1} |-> [k \in DOMAIN RenderAll(terms) |-> ReadSortTerm[RenderAll(terms)[k]]]]
      BY <3>8
    <3>10. [n \in {1} |-> terms] = <<terms>>
      OBVIOUS
    <3>. QED BY <2>1, <3>1, <3>2, <3>5, <3>7, <3>9, <3>10, Zenon
  <2>. QED BY <2>2, <2>3
<1>10. /\ ReadClause(ws, "(") = clauses["distinctOn"]
       /\ ReadClause(ws, "WHERE") = clauses["where"]
       /\ ReadClause(ws, "GROUP BY") = clauses["groupBy"]
       /\ ReadClause(ws, "HAVING") = clauses["having"]
       /\ ReadClause(ws, "LIMIT") = clauses["limit"]
       /\ ReadClause(ws, "OFFSET") = clauses["offset"]
  BY <1>3, <1>4, SaidOf
<1>11. /\ ClauseKeyword["where"] = "WHERE" /\ ClauseKeyword["groupBy"] = "GROUP BY"
       /\ ClauseKeyword["having"] = "HAVING" /\ ClauseKeyword["orderBy"] = "ORDER BY"
       /\ ClauseKeyword["limit"] = "LIMIT" /\ ClauseKeyword["offset"] = "OFFSET"
  BY DEF ClauseKeyword
<1>. DEFINE Read(c) ==
     CASE c = "distinct"   -> IF "DISTINCT" \in ToSet(ws) THEN Some(<<>>) ELSE None
       [] c = "distinctOn" -> ReadClause(ws, "(")
       [] c = "select"     -> ReadClause(ws, SelectKeyword(ws))
       [] c = "orderBy"    -> ReadOrder[ReadClause(ws, ClauseKeyword[c])]
       [] OTHER            -> ReadClause(ws, ClauseKeyword[c])
<1>12. ReadStatement[ws] = [c \in Clauses \cup {"distinct"} |-> Read(c)]
  BY <1>2, Zenon DEF ReadStatement
<1>13. Read("distinct") = IF distinct THEN Some(<<>>) ELSE None
  BY <1>7
<1>14. \A c \in Clauses : c # "distinct" /\ Read(c) = clauses[c]
  <2>1. /\ Read("distinctOn") = clauses["distinctOn"] /\ Read("select") = clauses["select"]
        /\ Read("orderBy") = clauses["orderBy"] /\ Read("where") = clauses["where"]
        /\ Read("groupBy") = clauses["groupBy"] /\ Read("having") = clauses["having"]
        /\ Read("limit") = clauses["limit"] /\ Read("offset") = clauses["offset"]
    BY <1>8, <1>9, <1>10, <1>11
  <2>. HIDE DEF Read
  <2>. QED BY <1>6, <2>1
<1>. HIDE DEF Read
<1>15. ReadStatement[ws] = Kept
  BY <1>12, <1>13, <1>14 DEF Kept
<1>. QED BY <1>15, Zenon DEF ws

-----------------------------------------------------------------------------
IInv == TypeOK /\ HoldsValues /\ ClausesInGrammarOrder

\* What a rendering returns.
LEMMA RenderedTyped ==
  ASSUME TypeOK, HoldsValues, EnsureValid, NEW rendered \in {ToStringText, ToStringFormattedText}
  PROVE  /\ rendered \in Seq(Tokens)
         /\ Unlaid(rendered) = ToStringText
         /\ InOrder(rank, rendered)
<1>1. ToStringText \in Seq(Letters) /\ Seq(Letters) \subseteq Seq(Tokens) /\ InOrder(rank, ToStringText)
  BY StatementSays, PlainTexts DEF Letters, Says
<1>2. Unlaid(ToStringText) = ToStringText
  <2>1. Letters \cap Layout = {}
    BY DEF Letters
  <2>. QED BY <1>1, <2>1, UnlaidKeeps
<1>3. ToStringFormattedText \in Seq(Tokens) /\ Unlaid(ToStringFormattedText) = ToStringText
  BY StatementLaidOut DEF LaysOut
<1>4. InOrder(rank, ToStringFormattedText)
  <2>1. Layout \cap DOMAIN rank = {}
    BY Alphabet, RankTyped
  <2>. QED BY <1>1, <1>3, <2>1, UnlaidInOrder
<1>. QED BY <1>1, <1>2, <1>3, <1>4

\* The order of ClausesInGrammarOrder, said of any text.
LEMMA InOrderIsGrammarOrder ==
  ASSUME NEW ws, InOrder(rank, ws)
  PROVE  \A j, k \in DOMAIN ws :
           j < k /\ {ws[j], ws[k]} \subseteq Keywords => Rank(ws[j]) < Rank(ws[k])
<1>1. DOMAIN rank = Keywords /\ \A word \in Keywords : rank[word] = Rank(word)
  BY Zenon DEF rank
<1>2. \A word : word \in Keywords => word \in DOMAIN rank
  BY <1>1
<1>. QED BY <1>1, <1>2 DEF InOrder

\* No text is out of order.
LEMMA GrammarOrderOfNothing == text = <<>> => ClausesInGrammarOrder
BY DEF ClausesInGrammarOrder

\* A new builder satisfies the invariant.
LEMMA InitIInv == Init => IInv
<1>. SUFFICES ASSUME Init PROVE IInv
  OBVIOUS
<1>1. TypeOK
  <2>1. \A c \in Clauses : ~IsSet(c)
    BY DEF Init, IsSet, IsEmpty, None
  <2>2. DOMAIN clauses = Clauses /\ text \in Seq(Tokens)
    BY DEF Init
  <2>. QED BY <2>1, <2>2 DEF Init, TypeOK
<1>2. HoldsValues
  BY DEF Init, HoldsValues, IsSet, IsEmpty, None
<1>3. ClausesInGrammarOrder
  BY GrammarOrderOfNothing DEF Init
<1>. QED BY <1>1, <1>2, <1>3 DEF IInv

\* What every call but a rendering leaves: no text.
LEMMA ReturnTyped ==
  ASSUME NEW status \in {"ok", "LogicError"}, Return(status)
  PROVE  /\ outcome' \in {"ok", "rendered", "LogicError"}
         /\ text' \in Seq(Tokens)
         /\ ClausesInGrammarOrder'
BY DEF Return, ClausesInGrammarOrder

\* A setter keeps the invariant: it throws, or sets a clause that was not set.
LEMMA SetOnceKeeps ==
  ASSUME IInv, NEW c \in Clauses, NEW value \in Values(c), SetOnce(c, value)
  PROVE  IInv'
<1>. USE DEF IInv
<1>1. /\ outcome' \in {"ok", "rendered", "LogicError"}
      /\ text' \in Seq(Tokens)
      /\ ClausesInGrammarOrder'
  BY ReturnTyped DEF SetOnce
<1>2. CASE UNCHANGED clauses
  <2>1. \A d \in Clauses : IsSet(d)' <=> IsSet(d)
    BY <1>2 DEF IsSet
  <2>. QED BY <1>1, <1>2, <2>1 DEF TypeOK, HoldsValues, SetOnce
<1>3. CASE clauses' = [clauses EXCEPT ![c] = Some(value)]
  <2>1. DOMAIN clauses' = Clauses /\ clauses'[c] = Some(value) /\ \A d \in Clauses \ {c} : clauses'[d] = clauses[d]
    BY <1>3 DEF TypeOK
  <2>2. \A d \in Clauses \ {c} : IsSet(d)' <=> IsSet(d)
    BY <2>1 DEF IsSet
  <2>3. TypeOK'
    <3>1. ASSUME NEW d \in Clauses, IsSet(d)'
          PROVE  clauses'[d] \in {Some(v) : v \in Values(d) \cup MovedFrom(d)}
      <4>1. CASE d = c
        BY <2>1, <4>1
      <4>2. CASE d # c
        BY <2>1, <2>2, <3>1, <4>2 DEF TypeOK
      <4>. QED BY <4>1, <4>2
    <3>. QED BY <1>1, <2>1, <3>1 DEF TypeOK, SetOnce
  <2>4. HoldsValues'
    <3>1. ASSUME from' # <<>>, NEW d \in Clauses, IsSet(d)'
          PROVE  \E v \in Values(d) : clauses'[d] = Some(v)
      <4>1. CASE d = c
        BY <2>1, <4>1
      <4>2. CASE d # c
        BY <2>1, <2>2, <3>1, <4>2 DEF HoldsValues, SetOnce
      <4>. QED BY <4>1, <4>2
    <3>. QED BY <3>1 DEF HoldsValues
  <2>. QED BY <1>1, <2>3, <2>4
<1>. QED BY <1>2, <1>3 DEF SetOnce

\* Moving from a builder keeps the invariant: what is left has no FROM item.
LEMMA MoveKeeps ==
  ASSUME IInv, Move
  PROVE  IInv'
<1>. USE DEF IInv
<1>1. /\ outcome' \in {"ok", "rendered", "LogicError"}
      /\ text' \in Seq(Tokens)
      /\ ClausesInGrammarOrder'
  BY ReturnTyped DEF Move
<1>2. from' = <<>> /\ distinct' = distinct /\ DOMAIN clauses' = Clauses
  BY DEF Move
<1>3. ASSUME NEW c \in Clauses, IsSet(c)'
      PROVE  clauses'[c] \in {Some(v) : v \in Values(c) \cup MovedFrom(c)}
  <2>1. clauses'[c] = IF IsEmpty(clauses[c]) \/ c \in CountClauses THEN clauses[c]
                      ELSE IF c \in ListClauses THEN Some(<<>>) ELSE Some(MovedOut)
    BY DEF Move
  <2>2. CASE IsEmpty(clauses[c]) \/ c \in CountClauses
    <3>1. clauses'[c] = clauses[c] /\ IsSet(c)
      BY <1>3, <2>1, <2>2 DEF IsSet
    <3>. QED BY <3>1 DEF TypeOK
  <2>3. CASE ~IsEmpty(clauses[c]) /\ c \in ListClauses
    <3>1. c \notin CountClauses /\ MovedFrom(c) = {<<>>}
      <4>1. c \notin CountClauses
        BY <2>3 DEF ListClauses, CountClauses
      <4>2. MovedFrom(c) = {<<>>}
        <5>1. c \notin ConditionClauses
          BY <2>3 DEF ListClauses, ConditionClauses
        <5>. QED BY <2>3, <5>1, Zenon DEF MovedFrom
      <4>. QED BY <4>1, <4>2
    <3>. QED BY <2>1, <2>3, <3>1
  <2>4. CASE ~IsEmpty(clauses[c]) /\ c \in ConditionClauses
    <3>1. c \notin CountClauses /\ c \notin ListClauses /\ MovedFrom(c) = {MovedOut}
      BY <2>4 DEF ListClauses, CountClauses, ConditionClauses, MovedFrom
    <3>. QED BY <2>1, <2>4, <3>1
  <2>. QED BY <2>2, <2>3, <2>4 DEF Clauses
<1>4. TypeOK'
  BY <1>1, <1>2, <1>3 DEF TypeOK
<1>5. HoldsValues'
  BY <1>2 DEF HoldsValues
<1>. QED BY <1>1, <1>4, <1>5

\* A rendering keeps the invariant: its text has the clauses in order.
LEMMA RenderingKeeps ==
  ASSUME IInv, NEW rendered \in {ToStringText, ToStringFormattedText}, Rendering(rendered)
  PROVE  IInv'
<1>. USE DEF IInv
<1>1. UNCHANGED <<from, distinct, clauses>>
  BY DEF Rendering, fields
<1>2. HoldsValues' /\ \A c \in Clauses : IsSet(c)' <=> IsSet(c)
  BY <1>1 DEF HoldsValues, IsSet
<1>3. /\ outcome' \in {"ok", "rendered", "LogicError"}
      /\ text' \in Seq(Tokens)
      /\ ClausesInGrammarOrder'
  <2>1. CASE Return("LogicError")
    BY <2>1, ReturnTyped
  <2>2. CASE EnsureValid /\ outcome' = "rendered" /\ text' = rendered
    <3>1. rendered \in Seq(Tokens) /\ InOrder(rank, rendered)
      BY <2>2, RenderedTyped
    <3>2. InOrder(rank, text')
      BY <2>2, <3>1
    <3>3. ClausesInGrammarOrder'
      BY <3>2, InOrderIsGrammarOrder DEF ClausesInGrammarOrder
    <3>. QED BY <2>2, <3>1, <3>3
  <2>. QED BY <2>1, <2>2 DEF Rendering
<1>. QED BY <1>1, <1>2, <1>3 DEF TypeOK

\* Every step keeps the invariant.
LEMMA NextIInv == IInv /\ [Next]_vars => IInv'
<1>. SUFFICES ASSUME IInv, [Next]_vars PROVE IInv'
  OBVIOUS
<1>. USE DEF IInv
<1>1. \A list \in TermLists : (DistinctOn(list) \/ Select(list) \/ GroupBy(list)) => IInv'
  <2>1. /\ "distinctOn" \in Clauses /\ "select" \in Clauses /\ "groupBy" \in Clauses
    BY DEF Clauses, ListClauses
  <2>. QED BY <2>1, ValuesOf, SetOnceKeeps DEF DistinctOn, Select, GroupBy
<1>2. \A list \in OrderLists : OrderBy(list) => IInv'
  <2>1. "orderBy" \in Clauses
    BY DEF Clauses, ListClauses
  <2>. QED BY <2>1, ValuesOf, SetOnceKeeps DEF OrderBy
<1>3. \A condition \in Conditions : (Where(condition) \/ Having(condition)) => IInv'
  <2>1. "where" \in Clauses /\ "having" \in Clauses
    BY DEF Clauses, ConditionClauses
  <2>2. \A condition \in Conditions : <<condition>> \in Values("where") /\ <<condition>> \in Values("having")
    BY ValuesOf
  <2>. QED BY <2>1, <2>2, SetOnceKeeps DEF Where, Having
<1>4. \A count \in Counts : (Limit(count) \/ Offset(count)) => IInv'
  <2>1. "limit" \in Clauses /\ "offset" \in Clauses
    BY DEF Clauses, CountClauses
  <2>2. \A count \in Counts : <<count>> \in Values("limit") /\ <<count>> \in Values("offset")
    BY ValuesOf
  <2>. QED BY <2>1, <2>2, SetOnceKeeps DEF Limit, Offset
<1>5. Distinct => IInv'
  <2>. SUFFICES ASSUME Distinct PROVE IInv'
    OBVIOUS
  <2>1. /\ outcome' \in {"ok", "rendered", "LogicError"}
        /\ text' \in Seq(Tokens)
        /\ ClausesInGrammarOrder'
    BY ReturnTyped DEF Distinct
  <2>2. from' = from /\ clauses' = clauses /\ distinct' = TRUE
    BY DEF Distinct
  <2>3. HoldsValues' /\ \A c \in Clauses : IsSet(c)' <=> IsSet(c)
    BY <2>2 DEF HoldsValues, IsSet
  <2>. QED BY <2>1, <2>2, <2>3 DEF TypeOK
<1>6. Move => IInv'
  BY MoveKeeps
<1>7. RenderPlain => IInv'
  BY RenderingKeeps DEF RenderPlain
<1>8. RenderFormatted => IInv'
  BY RenderingKeeps DEF RenderFormatted
<1>9. UNCHANGED vars => IInv'
  BY DEF vars, fields, TypeOK, HoldsValues, ClausesInGrammarOrder, IsSet
<1>. QED BY <1>1, <1>2, <1>3, <1>4, <1>5, <1>6, <1>7, <1>8, <1>9, Zenon DEF Next

\* The inductive invariant holds throughout.
LEMMA InvHolds == Spec => []IInv
BY InitIInv, NextIInv, PTL DEF Spec

\* ToString and ToStringFormatted return texts, and every clause holds a value
\* its setter took, or what moving from that value leaves (select_expr.cpp).
THEOREM TypeCorrect == Spec => []TypeOK
<1>1. IInv => TypeOK
  BY DEF IInv
<1>. QED BY <1>1, InvHolds, PTL

\* Whatever is set, in whatever order, ToString and ToStringFormatted write the
\* clauses in the order of the SQL grammar (select_expr.cpp).
THEOREM GrammarOrderKept == Spec => []ClausesInGrammarOrder
<1>1. IInv => ClausesInGrammarOrder
  BY DEF IInv
<1>. QED BY <1>1, InvHolds, PTL

\* ToStringFormatted says what ToString says, whatever the clauses hold.
THEOREM FormattedIsTheStatement == Spec => []FormattedAgrees
<1>1. IInv => FormattedAgrees
  <2>1. ASSUME TypeOK, HoldsValues, EnsureValid
        PROVE  Unlaid(ToStringFormattedText) = Unlaid(ToStringText)
    BY <2>1, RenderedTyped
  <2>. QED BY <2>1 DEF IInv, FormattedAgrees
<1>. QED BY <1>1, InvHolds, PTL

-----------------------------------------------------------------------------
\* What the abstract builder holds, and the statement it returned last.
Held == IF ~Alive THEN Blank ELSE Kept

Returned == IF outcome = "rendered" THEN ReadStatement[Unlaid(text)] ELSE Blank

Answers(how) == outcome' = how /\ Returned' = Blank

\* The abstract builder with nothing set.
LEMMA BlankPromise == Promise!Blank = Blank
BY DEF Promise!Blank, Promise!Unset, Blank, None

\* A call that returns no text answers as the abstract builder does.
LEMMA ReturnAnswers ==
  ASSUME NEW status \in {"ok", "LogicError"}, Return(status)
  PROVE  Answers(status)
BY DEF Return, Answers, Returned, Blank, None

\* The abstract actions, told by what is held and returned.
LEMMA PromiseAnswer ==
  ASSUME NEW how, Answers(how)
  PROVE  Promise!Answer(how)
BY BlankPromise, Zenon DEF Promise!Answer, Answers, Returned

\* Setting a clause is a step of the abstract builder.
LEMMA PromiseSets ==
  ASSUME Alive, Alive', NEW c \in Clauses, NEW value \in Values(c),
         Answers("ok"), Held[c] = <<>>, Held' = [Held EXCEPT ![c] = Some(value)], Held'[c] = Some(value)
  PROVE  Promise!Next
<1>1. Promise!Set(c)
  BY PromiseAnswer, Zenon DEF Promise!Set, Promise!Unset, Held, Kept
<1>. QED BY <1>1, Zenon DEF Promise!Next

\* So is refusing to set one a second time,
LEMMA PromiseRefuses ==
  ASSUME Alive, Alive', NEW c \in Clauses, Answers("LogicError"), Held[c] # <<>>, Held' = Held
  PROVE  Promise!Next
<1>1. Promise!Set(c)
  BY PromiseAnswer, Zenon DEF Promise!Set, Promise!Unset, Held, Kept
<1>. QED BY <1>1, Zenon DEF Promise!Next

\* raising a flag,
LEMMA PromiseRaises ==
  ASSUME Alive, Alive', Answers("ok"), Held' = [Held EXCEPT !["distinct"] = Some(<<>>)]
  PROVE  Promise!Next
<1>1. Promise!Raise("distinct")
  BY PromiseAnswer, Zenon DEF Promise!Raise, Held, Kept
<1>2. "distinct" \in {"distinct"}
  OBVIOUS
<1>. QED BY <1>1, <1>2, Zenon DEF Promise!Next

\* returning the statement that holds what was set,
LEMMA PromiseRenders ==
  ASSUME Alive, Alive', Held' = Held, outcome' = "rendered", Returned' = Held,
         Held["select"] # <<>>, Held["distinct"] = <<>> \/ Held["distinctOn"] = <<>>
  PROVE  Promise!Next
<1>1. Promise!Render
  BY Zenon DEF Promise!Render, Held, Kept, Returned, None
<1>. QED BY <1>1, Zenon DEF Promise!Next

\* refusing to return one while it is not complete,
LEMMA PromiseRejects ==
  ASSUME Alive, Alive', Held' = Held, Answers("LogicError"),
         ~(Held["select"] # <<>> /\ (Held["distinct"] = <<>> \/ Held["distinctOn"] = <<>>))
  PROVE  Promise!Next
<1>1. Promise!Render
  BY PromiseAnswer, Zenon DEF Promise!Render, Held, Kept, None
<1>. QED BY <1>1, Zenon DEF Promise!Next

\* moving from the builder,
LEMMA PromiseMoves ==
  ASSUME Alive, ~Alive', Answers("ok")
  PROVE  Promise!Next
<1>1. Held' = Blank
  BY DEF Held, Blank
<1>0. Alive' = FALSE
  BY DEF Alive
<1>2. Promise!Move
  BY <1>0, <1>1, BlankPromise, PromiseAnswer, Zenon DEF Promise!Move, Held, Kept
<1>. QED BY <1>2, Zenon DEF Promise!Next

\* and whatever is not a statement after that.
LEMMA PromiseEnds ==
  ASSUME ~Alive, ~Alive', Answers("ok") \/ Answers("LogicError")
  PROVE  Promise!Next
<1>1. Held = Blank /\ Held' = Blank
  BY DEF Held, Blank
<1>0. Alive' = Alive
  BY DEF Alive
<1>2. Promise!UseAfterMove
  BY <1>0, <1>1, PromiseAnswer, Zenon DEF Promise!UseAfterMove, Held, Kept
<1>. QED BY <1>2, Zenon DEF Promise!Next

\* A new builder is a new abstract builder.
LEMMA InitPromise == Init => Promise!Init
<1>. SUFFICES ASSUME Init PROVE Promise!Init
  OBVIOUS
<1>1. Alive /\ outcome = "ok"
  BY DEF Init, Alive, IsEmpty
<1>2. Kept = Blank
  BY DEF Init, Kept, Blank, None
<1>3. Held = Blank /\ Returned = Blank
  BY <1>1, <1>2 DEF Held, Returned
<1>4. "SelectExpr" \in {"SelectExpr"}
  OBVIOUS
<1>. QED BY <1>1, <1>3, <1>4, BlankPromise, Zenon DEF Promise!Init, Held, Kept, Returned

\* A setter keeps the promise.
LEMMA SetOncePromise ==
  ASSUME IInv, NEW c \in Clauses, NEW value \in Values(c), SetOnce(c, value)
  PROVE  Promise!Next
<1>1. from' = from /\ distinct' = distinct /\ (Alive <=> Alive') /\ DOMAIN clauses = Clauses /\ c # "distinct"
  BY DEF SetOnce, IInv, TypeOK, Alive, Clauses, ListClauses, ConditionClauses, CountClauses
<1>2. CASE ~Alive
  <2>1. Answers("ok") \/ Answers("LogicError")
    BY ReturnAnswers DEF SetOnce
  <2>. QED BY <1>1, <1>2, <2>1, PromiseEnds
<1>3. CASE Alive
  <2>1. Held = Kept /\ Held' = Kept' /\ Held[c] = clauses[c]
    BY <1>1, <1>3 DEF Held, Kept
  <2>2. CASE ~IsEmpty(clauses[c]) /\ Return("LogicError") /\ UNCHANGED clauses
    <3>1. Held' = Held
      BY <1>1, <2>1, <2>2 DEF Kept
    <3>2. Answers("LogicError")
      BY <2>2, ReturnAnswers
    <3>3. Held[c] # <<>>
      BY <2>1, <2>2 DEF IsEmpty
    <3>. QED BY <1>1, <1>3, <3>1, <3>2, <3>3, PromiseRefuses
  <2>3. CASE IsEmpty(clauses[c]) /\ clauses' = [clauses EXCEPT ![c] = Some(value)] /\ Return("ok")
    <3>1. Held' = [Held EXCEPT ![c] = Some(value)] /\ Held'[c] = Some(value)
      BY <1>1, <2>1, <2>3 DEF Kept
    <3>2. Answers("ok")
      BY <2>3, ReturnAnswers
    <3>3. Held[c] = <<>>
      BY <2>1, <2>3 DEF IsEmpty
    <3>. QED BY <1>1, <1>3, <3>1, <3>2, <3>3, PromiseSets
  <2>. QED BY <2>2, <2>3 DEF SetOnce
<1>. QED BY <1>2, <1>3

\* Distinct raises its flag, or is called after a move.
LEMMA DistinctPromise ==
  ASSUME IInv, Distinct
  PROVE  Promise!Next
<1>1. from' = from /\ clauses' = clauses /\ distinct' = TRUE /\ (Alive <=> Alive') /\ Answers("ok")
  BY ReturnAnswers DEF Distinct, Alive
<1>2. CASE ~Alive
  BY <1>1, <1>2, PromiseEnds
<1>3. CASE Alive
  <2>1. Held = Kept /\ Held' = Kept'
    BY <1>1, <1>3 DEF Held
  <2>2. Held' = [Held EXCEPT !["distinct"] = Some(<<>>)]
    BY <1>1, <2>1 DEF Kept
  <2>. QED BY <1>1, <1>3, <2>2, PromiseRaises
<1>. QED BY <1>2, <1>3

\* A move is a move of the abstract builder, the second one as well.
LEMMA MovePromise ==
  ASSUME IInv, Move
  PROVE  Promise!Next
<1>1. ~Alive' /\ Answers("ok")
  BY ReturnAnswers DEF Move, Alive, IsEmpty
<1>. QED BY <1>1, PromiseMoves, PromiseEnds

\* A rendering returns the clauses that were set, or none.
LEMMA RenderingPromise ==
  ASSUME IInv, NEW rendered \in {ToStringText, ToStringFormattedText}, Rendering(rendered)
  PROVE  Promise!Next
<1>1. /\ from' = from /\ distinct' = distinct /\ clauses' = clauses /\ (Alive <=> Alive')
      /\ Kept' = Kept
  BY DEF Rendering, fields, Alive, Kept
<1>2. CASE ~Alive
  <2>1. Answers("LogicError")
    BY <1>2, ReturnAnswers DEF Rendering, EnsureValid, Alive
  <2>. QED BY <1>1, <1>2, <2>1, PromiseEnds
<1>3. CASE Alive
  <2>1. Held = Kept /\ Held' = Held
    BY <1>1, <1>3 DEF Held
  <2>2. Held["select"] = clauses["select"] /\ Held["distinctOn"] = clauses["distinctOn"]
        /\ Held["distinct"] = IF distinct THEN Some(<<>>) ELSE None
    BY <2>1 DEF Kept, Clauses, ListClauses
  <2>3. EnsureValid <=> Held["select"] # <<>> /\ (Held["distinct"] = <<>> \/ Held["distinctOn"] = <<>>)
    BY <1>3, <2>2 DEF EnsureValid, IsSet, IsEmpty, Some, None, Alive
  <2>4. CASE ~EnsureValid
    <3>1. Answers("LogicError")
      BY <2>4, ReturnAnswers DEF Rendering
    <3>. QED BY <1>1, <1>3, <2>1, <2>3, <2>4, <3>1, PromiseRejects
  <2>5. CASE EnsureValid
    <3>1. outcome' = "rendered" /\ text' = rendered
      BY <2>5 DEF Rendering
    <3>2. Unlaid(rendered) = ToStringText
      BY <2>5, RenderedTyped DEF IInv
    <3>3. ReadStatement[ToStringText] = Kept
      BY <2>5, StatementReadsBack DEF IInv
    <3>4. Returned' = Held
      BY <2>1, <3>1, <3>2, <3>3, Zenon DEF Returned
    <3>. QED BY <1>1, <1>3, <2>1, <2>3, <2>5, <3>1, <3>4, PromiseRenders
  <2>. QED BY <2>4, <2>5
<1>. QED BY <1>2, <1>3

\* Every step is a step of the abstract builder or leaves it as it is.
LEMMA NextPromise == IInv /\ [Next]_vars => [Promise!Next]_Promise!vars
<1>. SUFFICES ASSUME IInv, [Next]_vars PROVE [Promise!Next]_Promise!vars
  OBVIOUS
<1>1. \A list \in TermLists : (DistinctOn(list) \/ Select(list) \/ GroupBy(list)) => Promise!Next
  <2>1. /\ "distinctOn" \in Clauses /\ "select" \in Clauses /\ "groupBy" \in Clauses
    BY DEF Clauses, ListClauses
  <2>. QED BY <2>1, ValuesOf, SetOncePromise DEF DistinctOn, Select, GroupBy
<1>2. \A list \in OrderLists : OrderBy(list) => Promise!Next
  <2>1. "orderBy" \in Clauses
    BY DEF Clauses, ListClauses
  <2>. QED BY <2>1, ValuesOf, SetOncePromise DEF OrderBy
<1>3. \A condition \in Conditions : (Where(condition) \/ Having(condition)) => Promise!Next
  <2>1. "where" \in Clauses /\ "having" \in Clauses
    BY DEF Clauses, ConditionClauses
  <2>2. \A condition \in Conditions : <<condition>> \in Values("where") /\ <<condition>> \in Values("having")
    BY ValuesOf
  <2>. QED BY <2>1, <2>2, SetOncePromise DEF Where, Having
<1>4. \A count \in Counts : (Limit(count) \/ Offset(count)) => Promise!Next
  <2>1. "limit" \in Clauses /\ "offset" \in Clauses
    BY DEF Clauses, CountClauses
  <2>2. \A count \in Counts : <<count>> \in Values("limit") /\ <<count>> \in Values("offset")
    BY ValuesOf
  <2>. QED BY <2>1, <2>2, SetOncePromise DEF Limit, Offset
<1>5. Distinct => Promise!Next
  BY DistinctPromise
<1>6. Move => Promise!Next
  BY MovePromise
<1>7. RenderPlain => Promise!Next
  BY RenderingPromise DEF RenderPlain
<1>8. RenderFormatted => Promise!Next
  BY RenderingPromise DEF RenderFormatted
<1>9. UNCHANGED vars => UNCHANGED Promise!vars
  <2>. SUFFICES ASSUME UNCHANGED vars PROVE UNCHANGED Promise!vars
    OBVIOUS
  <2>1. from' = from /\ distinct' = distinct /\ clauses' = clauses /\ outcome' = outcome /\ text' = text
    BY DEF vars, fields
  <2>2. Alive' = Alive /\ Held' = Held /\ Returned' = Returned
    BY <2>1 DEF Alive, Held, Kept, Returned
  <2>. QED BY <2>1, <2>2, Zenon DEF Promise!vars, Held, Kept, Returned
<1>. QED BY <1>1, <1>2, <1>3, <1>4, <1>5, <1>6, <1>7, <1>8, <1>9, Zenon DEF Next

\* The builder keeps what its documentation promises.
THEOREM PromiseKept == Spec => KeepsPromise
BY InitPromise, NextPromise, InvHolds, PTL DEF Spec, KeepsPromise, Promise!Spec
=============================================================================
