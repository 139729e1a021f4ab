-------------------------- MODULE UpdateDeleteProofs --------------------------
(***************************************************************************)
(* The UPDATE and DELETE builders: every member is the text of its terms,  *)
(* and the builders keep their promise, for all arguments.  Both           *)
(* statements are taken as clauses in one order of keywords, in which      *)
(* those of the other statement say nothing.                               *)
(***************************************************************************)
EXTENDS UpdateDelete, TextLemmas, TLAPS

Comma == ", "

\* The alphabet of what stands between the keywords of a statement.
Plain == Tokens \ (Keywords \cup {Comma})

\* What is in the alphabet, and that the terms hold no keyword and no comma.
LEMMA Alphabet ==
  /\ Keywords \subseteq Tokens /\ Comma \in Tokens /\ Comma \notin Keywords
  /\ "t" \in Tokens /\ "t" \notin Keywords
  /\ Separator = <<Comma>> /\ Separator \in Seq(Tokens)
  /\ <<"t">> \in Text /\ <<" = ">> \in Seq(Plain)
  /\ Plain \subseteq Tokens /\ Seq(Plain) \subseteq Seq(Tokens)
  /\ Text = Seq(Plain) \ {<<>>}
  /\ Text \subseteq Seq(Tokens) /\ Seq(Text) \subseteq Seq(Seq(Tokens))
  /\ Seq(Text) \subseteq TermsOver(Tokens, Keywords, Comma)
  /\ Seq(Text) \subseteq Seq(Seq(Tokens) \ {<<>>})
<1>1. /\ Keywords \subseteq Tokens /\ Comma \in Tokens /\ "t" \in Tokens /\ " = " \in Tokens
  BY UpdateDeleteAssumption, Zenon DEF Comma
<1>2. Comma \notin Keywords
  BY Zenon DEF Comma, Keywords
<1>3. "t" \notin Keywords /\ " = " \notin Keywords
  BY DEF Keywords
<1>4. "t" # Comma /\ " = " # Comma
  BY Zenon DEF Comma
<1>5. Text = Seq(Plain) \ {<<>>} /\ Separator = <<Comma>>
  BY Zenon DEF Text, Plain, Comma, Separator
<1>6. Plain \subseteq Tokens /\ "t" \in Plain /\ " = " \in Plain
  BY <1>1, <1>3, <1>4 DEF Plain
<1>7. <<"t">> \in Text /\ <<" = ">> \in Seq(Plain)
  <2>1. <<"t">> \in Seq(Plain) /\ <<" = ">> \in Seq(Plain)
    BY <1>6, TuplesTyped, Zenon
  <2>2. <<"t">> # <<>>
    OBVIOUS
  <2>. QED BY <1>5, <2>1, <2>2
<1>8. Seq(Plain) \subseteq Seq(Tokens)
  BY <1>6, SeqMonotonic
<1>9. Text \subseteq Seq(Tokens) /\ Text \subseteq Seq(Tokens) \ {<<>>}
  BY <1>5, <1>8
<1>10. Seq(Text) \subseteq Seq(Seq(Tokens)) /\ Seq(Text) \subseteq Seq(Seq(Tokens) \ {<<>>})
  BY <1>9, SeqMonotonic
<1>11. Seq(Text) \subseteq TermsOver(Tokens, Keywords, Comma)
  BY <1>5, SeqMonotonic DEF TermsOver, Plain
<1>12. Separator \in Seq(Tokens)
  BY <1>1, <1>5, TuplesTyped, Zenon
<1>. QED BY <1>1, <1>2, <1>3, <1>5, <1>6, <1>7, <1>8, <1>9, <1>10, <1>11, <1>12

\* The members as the texts of their terms, and the terms as texts that stand
\* between keywords.
IInv ==
  /\ TypeOK
  /\ \A c \in Clauses \cup {"set"} : accepted[c] \in Seq(Text)
  /\ kind = "DeleteFrom" => accepted["set"] = <<>>

\* An assignment is a text without keywords and commas.
LEMMA AssignmentText ==
  \A a \in Assignments : Assignment(a.column, a.value) \in Text
<1>1. ASSUME NEW a \in Assignments PROVE Assignment(a.column, a.value) \in Text
  <2>1. a.column \in Text /\ a.value \in Text
    BY UpdateDeleteAssumption, Zenon
  <2>2. a.column \in Seq(Plain) /\ a.value \in Seq(Plain) /\ a.column # <<>>
    BY <2>1, Alphabet
  <2>. DEFINE equals == <<" = ">>
  <2>3. equals \in Seq(Plain)
    BY Alphabet
  <2>. HIDE DEF equals
  <2>4. a.column \o equals \in Seq(Plain) /\ a.column \o equals # <<>>
    BY <2>2, <2>3, ConcatTyped, ConcatEqualIffEmpty
  <2>5. (a.column \o equals) \o a.value \in Seq(Plain) /\ (a.column \o equals) \o a.value # <<>>
    BY <2>2, <2>4, ConcatTyped, ConcatEqualIffEmpty
  <2>6. (a.column \o equals) \o a.value \in Text
    BY <2>5, Alphabet
  <2>. QED BY <2>6, Zenon DEF Assignment, equals
<1>. QED BY <1>1

\* The text of a list is empty only if the list is, and grows as Set has it grow.
LEMMA JoinedTexts ==
  \A terms \in Seq(Text) :
    /\ JoinCsv(terms) \in Seq(Tokens)
    /\ JoinCsv(terms) = <<>> <=> terms = <<>>
    /\ \A term \in Text : JoinCsv(Append(terms, term)) = Extended(JoinCsv(terms), term)
<1>1. ASSUME NEW terms \in Seq(Text)
      PROVE  /\ JoinCsv(terms) \in Seq(Tokens)
             /\ JoinCsv(terms) = <<>> <=> terms = <<>>
             /\ \A term \in Text : JoinCsv(Append(terms, term)) = Extended(JoinCsv(terms), term)
  <2>1. terms \in Seq(Seq(Tokens)) /\ terms \in Seq(Seq(Tokens) \ {<<>>}) /\ Separator \in Seq(Tokens)
    BY Alphabet
  <2>2. /\ JoinCsv(terms) \in Seq(Tokens)
        /\ \A x \in Seq(Tokens) : JoinCsv(Append(terms, x)) = JoinedCsv(JoinCsv(terms), x)
    BY <2>1, JoinCsvUnfolds
  <2>3. JoinCsv(terms) = <<>> <=> terms = <<>>
    BY <2>1, JoinCsvEmpty
  <2>4. ASSUME NEW term \in Text PROVE JoinCsv(Append(terms, term)) = Extended(JoinCsv(terms), term)
    <3>1. term \in Seq(Tokens)
      BY Alphabet
    <3>. QED BY <2>2, <3>1, Zenon DEF JoinedCsv, Extended
  <2>. QED BY <2>2, <2>3, <2>4
<1>. QED BY <1>1

\* Every member is a text, empty exactly when it was given nothing.
LEMMA MemberTyped ==
  ASSUME IInv
  PROVE  /\ table \in Seq(Tokens) /\ set \in Seq(Tokens)
         /\ set = JoinCsv(accepted["set"]) /\ (set = <<>> <=> accepted["set"] = <<>>)
         /\ \A c \in Clauses : /\ clauses[c] = JoinCsv(accepted[c])
                               /\ clauses[c] \in Seq(Tokens)
                               /\ clauses[c] = <<>> <=> accepted[c] = <<>>
<1>1. table \in Seq(Tokens)
  <2>1. table = <<>> \/ table = <<"t">>
    BY DEF IInv, TypeOK
  <2>2. <<"t">> \in Seq(Tokens)
    BY Alphabet, Zenon
  <2>3. <<>> \in Seq(Tokens)
    OBVIOUS
  <2>. QED BY <2>1, <2>2, <2>3, Zenon
<1>2. /\ set = JoinCsv(accepted["set"]) /\ accepted["set"] \in Seq(Text)
      /\ \A c \in Clauses : clauses[c] = JoinCsv(accepted[c]) /\ accepted[c] \in Seq(Text)
  BY DEF IInv, TypeOK
<1>. QED BY <1>1, <1>2, JoinedTexts

\* A clause with its keyword is a text.
LEMMA OptionalTyped ==
  ASSUME IInv
  PROVE  \A keyword \in Keywords, c \in Clauses : Optional(keyword, clauses[c]) \in Seq(Tokens)
<1>1. \A keyword \in Keywords : <<keyword>> \in Seq(Tokens)
  <2>1. \A keyword \in Keywords : keyword \in Tokens
    BY Alphabet
  <2>. QED BY <2>1, TuplesTyped, Zenon
<1>2. <<>> \in Seq(Tokens)
  OBVIOUS
<1>. QED BY <1>1, <1>2, MemberTyped, ConcatTyped, Zenon DEF Optional

\* A statement by its parts.
LEMMA StatementParts ==
  ASSUME IInv
  PROVE  /\ kind = "Update" =>
              Statement = (<<"UPDATE">> \o table)
                          \o ((<<"SET">> \o set)
                              \o (Optional("FROM", clauses["source"])
                                  \o (Optional("WHERE", clauses["where"])
                                      \o Optional("RETURNING", clauses["returning"]))))
         /\ kind # "Update" =>
              Statement = (<<"DELETE FROM">> \o table)
                          \o (Optional("USING", clauses["source"])
                              \o (Optional("WHERE", clauses["where"])
                                  \o Optional("RETURNING", clauses["returning"])))
         /\ Statement \in Seq(Tokens)
<1>. DEFINE V == Seq(Tokens)
<1>. DEFINE update == <<"UPDATE">>
<1>. DEFINE delete == <<"DELETE FROM">>
<1>. DEFINE assign == <<"SET">>
<1>. DEFINE from == Optional("FROM", clauses["source"])
<1>. DEFINE using == Optional("USING", clauses["source"])
<1>. DEFINE where == Optional("WHERE", clauses["where"])
<1>. DEFINE returning == Optional("RETURNING", clauses["returning"])
<1>1. update \in V /\ delete \in V /\ assign \in V
  <2>1. "UPDATE" \in Tokens /\ "DELETE FROM" \in Tokens /\ "SET" \in Tokens
    BY Alphabet DEF Keywords
  <2>. QED BY <2>1, TuplesTyped, Zenon
<1>2. from \in V /\ using \in V /\ where \in V /\ returning \in V
  BY OptionalTyped DEF Keywords, Clauses
<1>3. table \in V /\ set \in V
  BY MemberTyped
<1>4. Concats(V)
  BY ConcatsSeq
<1>5. kind = "Update" =>
        Statement = Cat(Cat(Cat(Cat(Cat(Cat(update, table), assign), set), from), where), returning)
  BY Zenon DEF Statement, Cat
<1>6. kind # "Update" => Statement = Cat(Cat(Cat(Cat(delete, table), using), where), returning)
  BY Zenon DEF Statement, Cat
<1>. HIDE DEF V, update, delete, assign, from, using, where, returning
<1>7. Cat(Cat(Cat(Cat(delete, table), using), where), returning)
        = Cat(Cat(delete, table), Cat(using, Cat(where, returning)))
  <2>1. Cat(delete, table) \in V
    BY <1>1, <1>3, <1>4, Zenon DEF Concats
  <2>. QED BY <1>2, <1>4, <2>1, RegroupThree
<1>8. Cat(Cat(Cat(Cat(Cat(Cat(update, table), assign), set), from), where), returning)
        = Cat(Cat(update, table), Cat(Cat(assign, set), Cat(from, Cat(where, returning))))
  <2>. DEFINE head == Cat(update, table)
  <2>. DEFINE assigns == Cat(assign, set)
  <2>1. head \in V /\ assigns \in V
    BY <1>1, <1>3, <1>4, Zenon DEF Concats
  <2>. HIDE DEF head
  <2>2. Cat(Cat(head, assign), set) = Cat(head, assigns)
    BY <1>1, <1>3, <1>4, <2>1, RegroupTwo
  <2>. HIDE DEF assigns
  <2>. DEFINE front == Cat(head, assigns)
  <2>3. front \in V /\ Cat(from, Cat(where, returning)) \in V
    BY <1>2, <1>4, <2>1, Zenon DEF Concats
  <2>. HIDE DEF front
  <2>4. Cat(Cat(Cat(front, from), where), returning) = Cat(front, Cat(from, Cat(where, returning)))
    BY <1>2, <1>4, <2>3, RegroupThree
  <2>5. Cat(front, Cat(from, Cat(where, returning))) = Cat(head, Cat(assigns, Cat(from, Cat(where, returning))))
    BY <1>4, <2>1, <2>3, RegroupTwo DEF front
  <2>. QED BY <2>2, <2>4, <2>5, Zenon DEF front, head, assigns
<1>9. Statement \in V
  <2>1. Cat(Cat(delete, table), Cat(using, Cat(where, returning))) \in V
    BY <1>1, <1>2, <1>3, <1>4, Zenon DEF Concats
  <2>2. Cat(Cat(update, table), Cat(Cat(assign, set), Cat(from, Cat(where, returning)))) \in V
    BY <1>1, <1>2, <1>3, <1>4, Zenon DEF Concats
  <2>. QED BY <1>5, <1>6, <1>7, <1>8, <2>1, <2>2, Zenon
<1>. QED BY <1>5, <1>6, <1>7, <1>8, <1>9, Zenon DEF Cat, V, update, delete, assign, from, using, where, returning

-----------------------------------------------------------------------------
\* None, or the one list.
Given(terms) == IF terms = <<>> THEN <<>> ELSE <<terms>>

\* What the clause of a keyword says, as the list of its terms.
Said ==
  [word \in Keywords |->
     CASE word = "UPDATE"      -> IF kind = "Update" THEN <<<<table>>>> ELSE <<>>
       [] word = "DELETE FROM" -> IF kind # "Update" THEN <<<<table>>>> ELSE <<>>
       [] word = "SET"         -> Given(accepted["set"])
       [] word = "FROM"        -> IF kind = "Update" THEN Given(accepted["source"]) ELSE <<>>
       [] word = "USING"       -> IF kind # "Update" THEN Given(accepted["source"]) ELSE <<>>
       [] word = "WHERE"       -> Given(accepted["where"])
       [] word = "RETURNING"   -> Given(accepted["returning"])]

\* The clauses of a statement one by one.
LEMMA SaidOf ==
  /\ Said["UPDATE"] = IF kind = "Update" THEN <<<<table>>>> ELSE <<>>
  /\ Said["DELETE FROM"] = IF kind # "Update" THEN <<<<table>>>> ELSE <<>>
  /\ Said["SET"] = Given(accepted["set"])
  /\ Said["FROM"] = IF kind = "Update" THEN Given(accepted["source"]) ELSE <<>>
  /\ Said["USING"] = IF kind # "Update" THEN Given(accepted["source"]) ELSE <<>>
  /\ Said["WHERE"] = Given(accepted["where"])
  /\ Said["RETURNING"] = Given(accepted["returning"])
BY DEF Said, Keywords

\* The order of the keywords, of both statements at once.
rank ==
  [word \in Keywords |->
     CASE word = "UPDATE" -> 1 [] word = "DELETE FROM" -> 2 [] word = "SET" -> 3
       [] word = "FROM" -> 4 [] word = "USING" -> 5 [] word = "WHERE" -> 6
       [] word = "RETURNING" -> 7]

\* Every keyword has a rank of its own.
LEMMA RankTyped ==
  /\ rank["UPDATE"] = 1 /\ rank["DELETE FROM"] = 2 /\ rank["SET"] = 3 /\ rank["FROM"] = 4
  /\ rank["USING"] = 5 /\ rank["WHERE"] = 6 /\ rank["RETURNING"] = 7
  /\ rank \in [Keywords -> 1..7]
  /\ \A v, w \in Keywords : rank[v] = rank[w] => v = w
<1>1. /\ rank["UPDATE"] = 1 /\ rank["DELETE FROM"] = 2 /\ rank["SET"] = 3 /\ rank["FROM"] = 4
      /\ rank["USING"] = 5 /\ rank["WHERE"] = 6 /\ rank["RETURNING"] = 7
  BY DEF rank, Keywords
<1>2. \A word \in Keywords :
        \/ word = "UPDATE" \/ word = "DELETE FROM" \/ word = "SET" \/ word = "FROM"
        \/ word = "USING" \/ word = "WHERE" \/ word = "RETURNING"
  BY DEF Keywords
<1>. DEFINE order == <<"UPDATE", "DELETE FROM", "SET", "FROM", "USING", "WHERE", "RETURNING">>
<1>3. /\ order[1] = "UPDATE" /\ order[2] = "DELETE FROM" /\ order[3] = "SET" /\ order[4] = "FROM"
      /\ order[5] = "USING" /\ order[6] = "WHERE" /\ order[7] = "RETURNING"
  OBVIOUS
<1>4. 1 \in 1..7 /\ 2 \in 1..7 /\ 3 \in 1..7 /\ 4 \in 1..7 /\ 5 \in 1..7 /\ 6 \in 1..7 /\ 7 \in 1..7
  OBVIOUS
<1>. HIDE DEF order
<1>5. \A word \in Keywords : rank[word] \in 1..7 /\ order[rank[word]] = word
  BY <1>1, <1>2, <1>3, <1>4, Zenon
<1>6. \A v, w \in Keywords : rank[v] = rank[w] => v = w
  BY <1>5, Zenon
<1>. DEFINE body(word) ==
     CASE word = "UPDATE" -> 1 [] word = "DELETE FROM" -> 2 [] word = "SET" -> 3
       [] word = "FROM" -> 4 [] word = "USING" -> 5 [] word = "WHERE" -> 6
       [] word = "RETURNING" -> 7
<1>7. rank = [word \in Keywords |-> body(word)]
  BY Zenon DEF rank
<1>. HIDE DEF body
<1>8. rank \in [Keywords -> 1..7]
  BY <1>5, <1>7
<1>. QED BY <1>1, <1>6, <1>8

Stated(word) == Written(word, Said[word])

\* What was given to a setter, written after its keyword.
LEMMA WrittenGiven ==
  ASSUME IInv, NEW c \in Clauses \cup {"set"}
  PROVE  \A keyword :
           Written(keyword, Given(accepted[c])) =
             IF accepted[c] = <<>> THEN <<>> ELSE <<keyword>> \o JoinCsv(accepted[c])
<1>. DEFINE terms == accepted[c]
<1>1. <<terms>> # <<>> /\ <<terms>>[1] = terms
  OBVIOUS
<1>. QED BY <1>1, Zenon DEF Written, Given

\* The text of every clause is the part of the statement that it stands for.
LEMMA StatedOf ==
  ASSUME IInv, Alive, IsComplete
  PROVE  /\ kind = "Update" =>
              /\ Stated("UPDATE") = <<"UPDATE">> \o table
              /\ Stated("DELETE FROM") = <<>>
              /\ Stated("SET") = <<"SET">> \o set
              /\ Stated("FROM") = Optional("FROM", clauses["source"])
              /\ Stated("USING") = <<>>
         /\ kind # "Update" =>
              /\ Stated("UPDATE") = <<>>
              /\ Stated("DELETE FROM") = <<"DELETE FROM">> \o table
              /\ Stated("SET") = <<>>
              /\ Stated("FROM") = <<>>
              /\ Stated("USING") = Optional("USING", clauses["source"])
         /\ Stated("WHERE") = Optional("WHERE", clauses["where"])
         /\ Stated("RETURNING") = Optional("RETURNING", clauses["returning"])
<1>1. \A c \in Clauses : \A keyword : Written(keyword, Given(accepted[c])) = Optional(keyword, clauses[c])
  BY WrittenGiven, MemberTyped, Zenon DEF Optional, IsEmpty
<1>2. "source" \in Clauses /\ "where" \in Clauses /\ "returning" \in Clauses
  BY DEF Clauses
<1>3. \A keyword : Written(keyword, <<>>) = <<>>
  BY Zenon DEF Written
<1>4. \A keyword : Written(keyword, <<<<table>>>>) = <<keyword>> \o table
  <2>1. <<<<table>>>> # <<>> /\ <<<<table>>>>[1] = <<table>>
    OBVIOUS
  <2>2. JoinCsv(<<table>>) = table
    BY MemberTyped, Alphabet, JoinCsvOne
  <2>. QED BY <2>1, <2>2, Zenon DEF Written
<1>5. kind = "Update" => Written("SET", Given(accepted["set"])) = <<"SET">> \o set
  <2>. SUFFICES ASSUME kind = "Update" PROVE Written("SET", Given(accepted["set"])) = <<"SET">> \o set
    OBVIOUS
  <2>1. accepted["set"] # <<>> /\ JoinCsv(accepted["set"]) = set
    BY MemberTyped DEF IsComplete, IsEmpty
  <2>. QED BY <2>1, WrittenGiven, Zenon
<1>6. kind # "Update" => Written("SET", Given(accepted["set"])) = <<>>
  <2>1. kind # "Update" => accepted["set"] = <<>>
    BY DEF IInv, TypeOK
  <2>. QED BY <1>3, <2>1, Zenon DEF Given
<1>. QED BY <1>1, <1>2, <1>3, <1>4, <1>5, <1>6, SaidOf, Zenon DEF Stated

\* Every clause says nothing, or one list of terms.
LEMMA SaidTyped ==
  ASSUME IInv, Alive
  PROVE  \A word \in Keywords :
           Said[word] = <<>> \/ \E terms \in TermsOver(Tokens, Keywords, Comma) : Said[word] = <<terms>>
<1>. DEFINE Fits(clause) == clause = <<>> \/ \E terms \in TermsOver(Tokens, Keywords, Comma) : clause = <<terms>>
<1>1. \A c \in Clauses \cup {"set"} : Fits(Given(accepted[c]))
  BY Alphabet, Zenon DEF IInv, Given
<1>2. Fits(<<<<table>>>>)
  <2>1. table \in Text
    BY Alphabet DEF IInv, TypeOK, Alive, IsEmpty
  <2>2. <<table>> \in Seq(Text)
    BY <2>1, TuplesTyped
  <2>. QED BY <2>2, Alphabet, Zenon
<1>3. Fits(<<>>)
  OBVIOUS
<1>. HIDE DEF Fits
<1>4. "source" \in Clauses /\ "where" \in Clauses /\ "returning" \in Clauses
  BY DEF Clauses
<1>5. \A word \in Keywords : Fits(Said[word])
  <2>1. \A word \in Keywords :
          \/ word = "UPDATE" \/ word = "DELETE FROM" \/ word = "SET" \/ word = "FROM"
          \/ word = "USING" \/ word = "WHERE" \/ word = "RETURNING"
    BY DEF Keywords
  <2>2. /\ Fits(Said["UPDATE"]) /\ Fits(Said["DELETE FROM"]) /\ Fits(Said["SET"]) /\ Fits(Said["FROM"])
        /\ Fits(Said["USING"]) /\ Fits(Said["WHERE"]) /\ Fits(Said["RETURNING"])
    BY <1>1, <1>2, <1>3, <1>4, SaidOf
  <2>. QED BY <2>1, <2>2, Zenon
<1>. QED BY <1>5 DEF Fits

\* The reader of this module reads terms.
LEMMA ReaderReads == ReadsTerms(TermsAhead, Tokens, Keywords, Comma)
<1>1. \E T : IsAhead(T, Tokens, Keywords, Comma)
  BY TermsAheadExists
<1>2. TermsAhead = CHOOSE T : IsAhead(T, Tokens, Keywords, Comma)
  BY Zenon DEF TermsAhead, IsAhead, Ahead, Comma
<1>3. IsAhead(TermsAhead, Tokens, Keywords, Comma)
  BY <1>1, <1>2, Zenon
<1>. QED BY <1>3, TermsAheadReads

\* The reference reader is the reader of TextLemmas.
LEMMA ReadClauseFrom ==
  ASSUME NEW ws, NEW keyword
  PROVE  ReadClause(ws, keyword) = ReadFrom(TermsAhead, ws, keyword)
BY Zenon DEF ReadClause, ReadFrom, Listed, TermsOf

\* A statement says what its clauses hold.
LEMMA StatementSays ==
  ASSUME IInv, Alive, IsComplete
  PROVE  Says(TermsAhead, Tokens, rank, Said, 0, Statement)
<1>. DEFINE SaysFrom(k, ws) == Says(TermsAhead, Tokens, rank, Said, k, ws)
<1>1. /\ rank \in [Keywords -> Nat] /\ \A v, w \in Keywords : rank[v] = rank[w] => v = w
      /\ \A w \in Keywords : rank[w] <= 7
  <2>1. rank \in [Keywords -> 1..7]
    BY RankTyped
  <2>2. rank \in [Keywords -> Nat] /\ \A w \in Keywords : rank[w] <= 7
    BY <2>1
  <2>. QED BY <2>2, RankTyped, Zenon
<1>2. SaysFrom(7, <<>>)
  BY <1>1, ReaderReads, SaysNothing
<1>3. ASSUME NEW keyword \in Keywords, NEW ws, SaysFrom(rank[keyword], ws)
      PROVE  SaysFrom(rank[keyword] - 1, Stated(keyword) \o ws)
  <2>1. Keywords \subseteq Tokens /\ Comma \in Tokens \ Keywords /\ Separator = <<Comma>>
    BY Alphabet
  <2>2. Says(TermsAhead, Tokens, rank, Said, rank[keyword], ws)
    BY <1>3
  <2>3. Said[keyword] = <<>> \/ \E terms \in TermsOver(Tokens, Keywords, Comma) : Said[keyword] = <<terms>>
    BY SaidTyped
  <2>4. Says(TermsAhead, Tokens, rank, Said, rank[keyword] - 1, Written(keyword, Said[keyword]) \o ws)
    <3>1. rank \in [Keywords -> Nat] /\ \A v, w \in Keywords : rank[v] = rank[w] => v = w
      BY <1>1
    <3>2. ReadsTerms(TermsAhead, Tokens, Keywords, Comma) /\ keyword \in Keywords
      BY ReaderReads
    <3>. QED BY ONLY <3>1, <3>2, <2>1, <2>2, <2>3, SaysMore
  <2>. QED BY <2>4, Zenon DEF Stated
<1>. DEFINE more(keyword, ws) == Stated(keyword) \o ws
<1>. DEFINE step(keyword, n, m) == \A ws : SaysFrom(n, ws) => SaysFrom(m, more(keyword, ws))
<1>4. \A keyword \in Keywords : \A n, m : rank[keyword] = n /\ n - 1 = m => step(keyword, n, m)
  BY <1>3, Zenon
<1>. HIDE DEF SaysFrom, more, step
<1>5. /\ "UPDATE" \in Keywords /\ "DELETE FROM" \in Keywords /\ "SET" \in Keywords
      /\ "FROM" \in Keywords /\ "USING" \in Keywords /\ "WHERE" \in Keywords
      /\ "RETURNING" \in Keywords
  BY DEF Keywords
<1>6. /\ step("UPDATE", 1, 0) /\ step("DELETE FROM", 2, 1) /\ step("SET", 3, 2)
      /\ step("FROM", 4, 3) /\ step("USING", 5, 4) /\ step("WHERE", 6, 5)
      /\ step("RETURNING", 7, 6)
  <2>1. /\ 7 - 1 = 6 /\ 6 - 1 = 5 /\ 5 - 1 = 4 /\ 4 - 1 = 3 /\ 3 - 1 = 2 /\ 2 - 1 = 1 /\ 1 - 1 = 0
    OBVIOUS
  <2>2. /\ rank["UPDATE"] = 1 /\ rank["DELETE FROM"] = 2 /\ rank["SET"] = 3 /\ rank["FROM"] = 4
        /\ rank["USING"] = 5 /\ rank["WHERE"] = 6 /\ rank["RETURNING"] = 7
    BY RankTyped, Zenon
  <2>. QED BY <1>4, <1>5, <2>1, <2>2
<1>7. SaysFrom(0, more("UPDATE", more("DELETE FROM", more("SET", more("FROM",
        more("USING", more("WHERE", more("RETURNING", <<>>))))))))
  BY <1>2, <1>6, Zenon DEF step
<1>. DEFINE V == Seq(Tokens)
<1>. DEFINE from == Optional("FROM", clauses["source"])
<1>. DEFINE using == Optional("USING", clauses["source"])
<1>. DEFINE where == Optional("WHERE", clauses["where"])
<1>. DEFINE returning == Optional("RETURNING", clauses["returning"])
<1>. DEFINE update == <<"UPDATE">> \o table
<1>. DEFINE delete == <<"DELETE FROM">> \o table
<1>. DEFINE assign == <<"SET">> \o set
<1>8. /\ from \in V /\ using \in V /\ where \in V /\ returning \in V
      /\ update \in V /\ delete \in V /\ assign \in V
  <2>1. \A keyword \in Keywords : <<keyword>> \in V
    BY Alphabet, TuplesTyped, Zenon
  <2>2. "source" \in Clauses /\ "where" \in Clauses /\ "returning" \in Clauses
    BY DEF Clauses
  <2>3. from \in V /\ using \in V /\ where \in V /\ returning \in V
    BY <1>5, <2>2, OptionalTyped, Zenon
  <2>4. update \in V /\ delete \in V /\ assign \in V
    BY <1>5, <2>1, MemberTyped, ConcatTyped, Zenon
  <2>. QED BY <2>3, <2>4
<1>9. \A s \in V : s \o <<>> = s /\ <<>> \o s = s
  BY ConcatEmptySeq
<1>10. \A s, t \in V : s \o t \in V
  BY ConcatTyped
<1>11. kind = "Update" =>
         /\ Stated("UPDATE") = update /\ Stated("DELETE FROM") = <<>> /\ Stated("SET") = assign
         /\ Stated("FROM") = from /\ Stated("USING") = <<>>
  BY StatedOf, Zenon
<1>12. kind # "Update" =>
         /\ Stated("UPDATE") = <<>> /\ Stated("DELETE FROM") = delete /\ Stated("SET") = <<>>
         /\ Stated("FROM") = <<>> /\ Stated("USING") = using
  BY StatedOf, Zenon
<1>13. Stated("WHERE") = where /\ Stated("RETURNING") = returning
  BY StatedOf, Zenon
<1>14. /\ kind = "Update" => Statement = update \o (assign \o (from \o (where \o returning)))
       /\ kind # "Update" => Statement = delete \o (using \o (where \o returning))
  BY StatementParts, Zenon
<1>. HIDE DEF V, from, using, where, returning, update, delete, assign
<1>15. CASE kind = "Update"
  <2>1. where \o returning \in V /\ from \o (where \o returning) \in V
        /\ assign \o (from \o (where \o returning)) \in V
    BY <1>8, <1>10, Zenon
  <2>2. more("RETURNING", <<>>) = returning
    BY <1>8, <1>9, <1>13, Zenon DEF more
  <2>3. more("WHERE", returning) = where \o returning
    BY <1>13, Zenon DEF more
  <2>4. more("USING", where \o returning) = where \o returning
    BY <1>9, <1>11, <1>15, <2>1, Zenon DEF more
  <2>5. more("FROM", where \o returning) = from \o (where \o returning)
    BY <1>11, <1>15, Zenon DEF more
  <2>6. more("SET", from \o (where \o returning)) = assign \o (from \o (where \o returning))
    BY <1>11, <1>15, Zenon DEF more
  <2>7. more("DELETE FROM", assign \o (from \o (where \o returning))) = assign \o (from \o (where \o returning))
    BY <1>9, <1>11, <1>15, <2>1, Zenon DEF more
  <2>8. more("UPDATE", assign \o (from \o (where \o returning))) = Statement
    BY <1>11, <1>14, <1>15, Zenon DEF more
  <2>9. SaysFrom(0, Statement)
    BY <1>7, <2>2, <2>3, <2>4, <2>5, <2>6, <2>7, <2>8, Zenon
  <2>. QED BY <2>9 DEF SaysFrom
<1>16. CASE kind # "Update"
  <2>1. where \o returning \in V /\ using \o (where \o returning) \in V
        /\ delete \o (using \o (where \o returning)) \in V
    BY <1>8, <1>10, Zenon
  <2>2. more("RETURNING", <<>>) = returning
    BY <1>8, <1>9, <1>13, Zenon DEF more
  <2>3. more("WHERE", returning) = where \o returning
    BY <1>13, Zenon DEF more
  <2>4. more("USING", where \o returning) = using \o (where \o returning)
    BY <1>12, <1>16, Zenon DEF more
  <2>5. more("FROM", using \o (where \o returning)) = using \o (where \o returning)
    BY <1>9, <1>12, <1>16, <2>1, Zenon DEF more
  <2>6. more("SET", using \o (where \o returning)) = using \o (where \o returning)
    BY <1>9, <1>12, <1>16, <2>1, Zenon DEF more
  <2>7. more("DELETE FROM", using \o (where \o returning)) = delete \o (using \o (where \o returning))
    BY <1>12, <1>16, Zenon DEF more
  <2>8. more("UPDATE", delete \o (using \o (where \o returning))) = Statement
    BY <1>9, <1>12, <1>14, <1>16, <2>1, Zenon DEF more
  <2>9. SaysFrom(0, Statement)
    BY <1>7, <2>2, <2>3, <2>4, <2>5, <2>6, <2>7, <2>8, Zenon
  <2>. QED BY <2>9 DEF SaysFrom
<1>. QED BY <1>15, <1>16

-----------------------------------------------------------------------------
\* A list of at most one text as a text.
LEMMA FlattenSeqOne ==
  /\ FlattenSeq(<<>>) = <<>>
  /\ \A x : FlattenSeq(<<x>>) = x
<1>1. FlattenSeq(<<>>) = <<>>
  BY DEF FlattenSeq
<1>2. ASSUME NEW x PROVE FlattenSeq(<<x>>) = x
  <2>. DEFINE seqs == <<x>>
  <2>. DEFINE Flattens(f) == f = [i \in 1..Len(seqs) |-> IF i = 1 THEN seqs[i] ELSE f[i-1] \o seqs[i]]
  <2>. DEFINE f0 == CHOOSE f : Flattens(f)
  <2>1. Len(seqs) = 1 /\ seqs[1] = x /\ 1..1 = {1} /\ 1..Len(seqs) = {1}
    OBVIOUS
  <2>2. FlattenSeq(seqs) = f0[Len(seqs)]
    <3>1. Len(seqs) # 0
      BY <2>1
    <3>. HIDE DEF seqs
    <3>. QED BY <3>1, Zenon DEF FlattenSeq
  <2>3. \E f : Flattens(f)
    <3>1. Flattens([i \in {1} |-> x])
      BY <2>1
    <3>. QED BY <3>1
  <2>4. Flattens(f0)
    BY <2>3, Zenon
  <2>5. f0[1] = x
    <3>. HIDE DEF f0
    <3>. QED BY <2>1, <2>4
  <2>. QED BY <2>1, <2>2, <2>5, Zenon
<1>. QED BY <1>1, <1>2

\* The statement of a live builder reads back as what the builder was given.
LEMMA StatementReadsBack ==
  ASSUME IInv, Alive, IsComplete
  PROVE  ReadStatement(Statement) = accepted
<1>1. \A word \in Keywords : ReadClause(Statement, word) = Said[word]
  <2>1. DOMAIN rank = Keywords /\ \A word \in Keywords : rank[word] > 0
    <3>1. rank \in [Keywords -> 1..7]
      BY RankTyped
    <3>. QED BY <3>1
  <2>2. \A word \in Keywords : ReadFrom(TermsAhead, Statement, word) = Said[word]
    BY <2>1, StatementSays DEF Says
  <2>. QED BY <2>2, ReadClauseFrom, Zenon
<1>2. \A c \in Clauses \cup {"set"} : ReadClause(Statement, Heading[c]) = Given(accepted[c])
  <2>1. /\ "SET" \in Keywords /\ "FROM" \in Keywords /\ "USING" \in Keywords
        /\ "WHERE" \in Keywords /\ "RETURNING" \in Keywords
    BY DEF Keywords
  <2>2. ReadClause(Statement, Heading["set"]) = Given(accepted["set"])
    BY <1>1, <2>1, SaidOf DEF Heading
  <2>3. ReadClause(Statement, Heading["where"]) = Given(accepted["where"])
    BY <1>1, <2>1, SaidOf DEF Heading
  <2>4. ReadClause(Statement, Heading["returning"]) = Given(accepted["returning"])
    BY <1>1, <2>1, SaidOf DEF Heading
  <2>5. ReadClause(Statement, Heading["source"]) = Given(accepted["source"])
    BY <1>1, <2>1, SaidOf DEF Heading
  <2>. QED BY <2>2, <2>3, <2>4, <2>5 DEF Clauses
<1>3. \A terms : FlattenSeq(Given(terms)) = terms
  BY FlattenSeqOne, Zenon DEF Given
<1>4. \A c \in Clauses \cup {"set"} : FlattenSeq(ReadClause(Statement, Heading[c])) = accepted[c]
  BY <1>2, <1>3
<1>5. ReadStatement(Statement) = [c \in Clauses \cup {"set"} |-> accepted[c]]
  BY <1>4, Zenon DEF ReadStatement
<1>6. accepted = [c \in Clauses \cup {"set"} |-> accepted[c]]
  BY DEF IInv, TypeOK
<1>. QED BY <1>5, <1>6

\* A complete statement names its table unless the builder was moved from, and
\* then it is an UPDATE, which asks for no more than a SET clause.
LEMMA StatementNamesTable ==
  ASSUME IInv, IsComplete
  PROVE  NamesNoTable(Statement) <=> ~Alive
<1>. DEFINE V == Seq(Tokens)
<1>1. /\ "UPDATE" \in Keywords /\ "DELETE FROM" \in Keywords /\ "SET" \in Keywords
  BY DEF Keywords
<1>2. \A keyword \in Keywords : <<keyword>> \in V
  BY Alphabet, TuplesTyped, Zenon
<1>3. ASSUME NEW first \in Keywords, NEW second \in Tokens, NEW rest \in V,
             Statement = (<<first>> \o <<second>>) \o rest
      PROVE  NamesNoTable(Statement) <=> second \in Keywords
  <2>1. <<first>> \o <<second>> = <<first, second>>
    BY PairConcat
  <2>2. <<first, second>> \in V
    BY Alphabet, TuplesTyped, Zenon
  <2>3. Len(<<first, second>>) = 2 /\ <<first, second>>[2] = second /\ Len(rest) \in Nat
    OBVIOUS
  <2>. DEFINE pair == <<first, second>>
  <2>. HIDE DEF pair
  <2>4. Len(pair \o rest) = Len(pair) + Len(rest) /\ \A i \in 1..Len(pair) : (pair \o rest)[i] = pair[i]
    BY <2>2, ConcatProperties DEF pair
  <2>5. Len(pair \o rest) # 1 /\ (pair \o rest)[2] = second
    BY <2>3, <2>4 DEF pair
  <2>6. Statement = pair \o rest
    BY <1>3, <2>1, Zenon DEF pair
  <2>. QED BY <2>5, <2>6, Zenon DEF NamesNoTable
<1>4. CASE Alive
  <2>1. table = <<"t">>
    BY <1>4 DEF IInv, TypeOK, Alive, IsEmpty
  <2>2. \E first \in Keywords, rest \in V : Statement = (<<first>> \o <<"t">>) \o rest
    <3>1. \A c \in Clauses, keyword \in Keywords : Optional(keyword, clauses[c]) \in V
      BY OptionalTyped
    <3>2. \A s, t \in V : s \o t \in V
      BY ConcatTyped
    <3>3. /\ "source" \in Clauses /\ "where" \in Clauses /\ "returning" \in Clauses
          /\ "FROM" \in Keywords /\ "USING" \in Keywords /\ "WHERE" \in Keywords
          /\ "RETURNING" \in Keywords
      BY DEF Clauses, Keywords
    <3>. DEFINE from == Optional("FROM", clauses["source"])
    <3>. DEFINE using == Optional("USING", clauses["source"])
    <3>. DEFINE where == Optional("WHERE", clauses["where"])
    <3>. DEFINE returning == Optional("RETURNING", clauses["returning"])
    <3>. DEFINE assign == <<"SET">> \o set
    <3>4. /\ from \in V /\ using \in V /\ where \in V /\ returning \in V /\ assign \in V
      BY <1>1, <1>2, <3>1, <3>2, <3>3, MemberTyped, Zenon
    <3>5. /\ kind = "Update" => Statement = (<<"UPDATE">> \o <<"t">>) \o (assign \o (from \o (where \o returning)))
          /\ kind # "Update" => Statement = (<<"DELETE FROM">> \o <<"t">>) \o (using \o (where \o returning))
      BY <2>1, StatementParts, Zenon
    <3>. HIDE DEF V, from, using, where, returning, assign
    <3>6. assign \o (from \o (where \o returning)) \in V /\ using \o (where \o returning) \in V
      BY <3>2, <3>4, Zenon
    <3>. QED BY <1>1, <3>5, <3>6, Zenon
  <2>3. "t" \in Tokens /\ "t" \notin Keywords
    BY Alphabet
  <2>. QED BY <1>3, <1>4, <2>2, <2>3
<1>5. CASE ~Alive
  <2>1. table = <<>> /\ kind = "Update"
    BY <1>5 DEF IInv, TypeOK, Alive, IsEmpty, IsComplete
  <2>2. \E rest \in V : Statement = (<<"UPDATE">> \o <<"SET">>) \o rest
    <3>. DEFINE update == <<"UPDATE">>
    <3>. DEFINE assign == <<"SET">>
    <3>. DEFINE tail == Optional("FROM", clauses["source"])
                        \o (Optional("WHERE", clauses["where"])
                            \o Optional("RETURNING", clauses["returning"]))
    <3>1. Statement = (update \o <<>>) \o ((assign \o set) \o tail)
      BY <2>1, StatementParts, Zenon
    <3>2. update \in V /\ assign \in V /\ set \in V
      BY <1>1, <1>2, MemberTyped
    <3>3. tail \in V
      <4>1. \A c \in Clauses, keyword \in Keywords : Optional(keyword, clauses[c]) \in V
        BY OptionalTyped
      <4>2. \A s, t \in V : s \o t \in V
        BY ConcatTyped
      <4>3. /\ "source" \in Clauses /\ "where" \in Clauses /\ "returning" \in Clauses
            /\ "FROM" \in Keywords /\ "WHERE" \in Keywords /\ "RETURNING" \in Keywords
        BY DEF Clauses, Keywords
      <4>. QED BY <4>1, <4>2, <4>3, Zenon
    <3>4. Concats(V)
      BY ConcatsSeq
    <3>5. update \o <<>> = update
      BY <3>2, ConcatEmptySeq
    <3>. HIDE DEF V, update, assign, tail
    <3>6. Statement = Cat(update, Cat(Cat(assign, set), tail))
      BY <3>1, <3>5, Zenon DEF Cat
    <3>7. Cat(Cat(assign, set), tail) = Cat(assign, Cat(set, tail)) /\ Cat(set, tail) \in V
      BY <3>2, <3>3, <3>4, Zenon DEF Concats
    <3>8. Statement = Cat(Cat(update, assign), Cat(set, tail))
      <4>. DEFINE rest == Cat(set, tail)
      <4>. HIDE DEF rest
      <4>1. rest \in V
        BY <3>7, Zenon DEF rest
      <4>2. Cat(Cat(update, assign), rest) = Cat(update, Cat(assign, rest))
        BY <3>2, <3>4, <4>1, RegroupTwo
      <4>. QED BY <3>6, <3>7, <4>2, Zenon DEF rest
    <3>. QED BY <3>7, <3>8, Zenon DEF Cat, update, assign
  <2>3. "SET" \in Tokens
    BY <1>1, Alphabet
  <2>. QED BY <1>1, <1>3, <1>5, <2>2, <2>3
<1>. QED BY <1>4, <1>5

-----------------------------------------------------------------------------
\* A new builder satisfies the invariant.
LEMMA InitIInv == Init => IInv
<1>. SUFFICES ASSUME Init PROVE IInv
  OBVIOUS
<1>1. JoinCsv(<<>>) = <<>>
  <2>1. <<>> \in Seq(Text)
    OBVIOUS
  <2>. QED BY <2>1, JoinedTexts
<1>2. \A c \in Clauses \cup {"set"} : accepted[c] = <<>>
  BY DEF Init, Asked
<1>3. accepted \in [Clauses \cup {"set"} -> Seq(Seq(Tokens))]
  BY DEF Init, Asked
<1>4. set = JoinCsv(accepted["set"]) /\ clauses = [c \in Clauses |-> JoinCsv(accepted[c])]
  <2>1. clauses = [c \in Clauses |-> <<>>] /\ set = <<>>
    BY DEF Init
  <2>2. \A c \in Clauses : JoinCsv(accepted[c]) = <<>>
    BY <1>1, <1>2
  <2>. QED BY <1>1, <1>2, <2>1, <2>2, Zenon
<1>5. text \in Seq(Tokens)
  BY DEF Init
<1>. QED BY <1>2, <1>3, <1>4, <1>5 DEF Init, IInv, TypeOK

\* A call that ends without a text, and leaves or sets the members rightly.
LEMMA ReturnTyped ==
  ASSUME NEW status \in {"ok", "LogicError"}, Return(status)
  PROVE  outcome' \in {"ok", "rendered", "LogicError"} /\ text' \in Seq(Tokens)
BY DEF Return

\* A call that throws keeps the invariant.
LEMMA ThrowKeeps ==
  ASSUME IInv, Throw
  PROVE  IInv'
<1>1. outcome' \in {"ok", "rendered", "LogicError"} /\ text' \in Seq(Tokens)
  BY ReturnTyped DEF Throw
<1>2. kind' = kind /\ table' = table /\ set' = set /\ clauses' = clauses /\ accepted' = accepted
  BY DEF Throw, fields
<1>. QED BY <1>1, <1>2, Zenon DEF IInv, TypeOK

\* A setter keeps the invariant: it throws, or sets an empty member.
LEMMA SetOnceKeeps ==
  ASSUME IInv, NEW c \in Clauses, NEW terms \in Seq(Text), SetOnce(c, terms)
  PROVE  IInv'
<1>1. CASE Throw
  BY <1>1, ThrowKeeps
<1>2. CASE /\ clauses' = [clauses EXCEPT ![c] = JoinCsv(terms)]
           /\ accepted' = [accepted EXCEPT ![c] = terms]
           /\ Return("ok")
           /\ UNCHANGED <<kind, table, set>>
  <2>1. outcome' \in {"ok", "rendered", "LogicError"} /\ text' \in Seq(Tokens)
    BY <1>2, ReturnTyped
  <2>2. terms \in Seq(Seq(Tokens)) /\ c # "set" /\ c \in Clauses \cup {"set"}
    BY Alphabet DEF Clauses
  <2>3. /\ accepted' \in [Clauses \cup {"set"} -> Seq(Seq(Tokens))]
        /\ \A d \in Clauses \cup {"set"} : accepted'[d] \in Seq(Text)
        /\ accepted'["set"] = accepted["set"]
        /\ accepted'[c] = terms /\ \A d \in Clauses \ {c} : accepted'[d] = accepted[d]
    BY <1>2, <2>2 DEF IInv, TypeOK
  <2>4. clauses' = [d \in Clauses |-> JoinCsv(accepted'[d])]
    <3>1. clauses = [d \in Clauses |-> JoinCsv(accepted[d])]
      BY DEF IInv, TypeOK
    <3>2. clauses' = [d \in Clauses |-> IF d = c THEN JoinCsv(terms) ELSE JoinCsv(accepted[d])]
      BY <1>2, <3>1
    <3>3. \A d \in Clauses : JoinCsv(accepted'[d]) = IF d = c THEN JoinCsv(terms) ELSE JoinCsv(accepted[d])
      BY <2>3, Zenon
    <3>. QED BY <3>2, <3>3, Zenon
  <2>5. kind' = kind /\ table' = table /\ set' = set
    BY <1>2
  <2>6. set' = JoinCsv(accepted'["set"])
    BY <2>3, <2>5, MemberTyped, Zenon
  <2>. QED BY <2>1, <2>3, <2>4, <2>5, <2>6 DEF IInv, TypeOK
<1>. QED BY <1>1, <1>2 DEF SetOnce

\* Update::Set keeps the invariant: the member grows as its list of terms does.
LEMMA SetKeeps ==
  ASSUME IInv, NEW assignment \in Assignments, Set(assignment.column, assignment.value)
  PROVE  IInv'
<1>. DEFINE new == Assignment(assignment.column, assignment.value)
<1>. DEFINE old == accepted["set"]
<1>1. new \in Text
  BY AssignmentText
<1>2. /\ kind = "Update" /\ kind' = kind /\ table' = table /\ clauses' = clauses
      /\ set' = Extended(set, new)
      /\ accepted' = [accepted EXCEPT !["set"] = Append(old, new)]
  BY Zenon DEF Set
<1>3. outcome' \in {"ok", "rendered", "LogicError"} /\ text' \in Seq(Tokens)
  BY ReturnTyped DEF Set
<1>. HIDE DEF new
<1>4. old \in Seq(Text) /\ "set" \notin Clauses
  BY DEF IInv, Clauses
<1>5. Append(old, new) \in Seq(Text) /\ Append(old, new) \in Seq(Seq(Tokens))
  <2>1. Append(old, new) \in Seq(Text)
    BY <1>1, <1>4
  <2>. QED BY <2>1, Alphabet
<1>6. /\ accepted' \in [Clauses \cup {"set"} -> Seq(Seq(Tokens))]
      /\ \A d \in Clauses \cup {"set"} : accepted'[d] \in Seq(Text)
      /\ accepted'["set"] = Append(old, new)
      /\ \A d \in Clauses : accepted'[d] = accepted[d]
  BY <1>2, <1>4, <1>5 DEF IInv, TypeOK
<1>7. set' = JoinCsv(accepted'["set"])
  BY <1>1, <1>2, <1>4, <1>6, MemberTyped, JoinedTexts, Zenon
<1>8. clauses' = [d \in Clauses |-> JoinCsv(accepted'[d])]
  <2>1. clauses = [d \in Clauses |-> JoinCsv(accepted[d])]
    BY DEF IInv, TypeOK
  <2>. QED BY <1>2, <1>6, <2>1, Zenon
<1>9. kind' = "Update" /\ table' \in {<<>>, <<"t">>}
  BY <1>2 DEF IInv, TypeOK
<1>. QED BY <1>3, <1>6, <1>7, <1>8, <1>9, Zenon DEF IInv, TypeOK

\* Moving from a builder keeps the invariant.
LEMMA MoveKeeps ==
  ASSUME IInv, Move
  PROVE  IInv'
<1>1. outcome' \in {"ok", "rendered", "LogicError"} /\ text' \in Seq(Tokens)
  BY ReturnTyped DEF Move
<1>2. JoinCsv(<<>>) = <<>>
  <2>1. <<>> \in Seq(Text)
    OBVIOUS
  <2>. QED BY <2>1, JoinedTexts
<1>3. \A c \in Clauses \cup {"set"} : accepted'[c] = <<>>
  BY DEF Move, Asked
<1>4. accepted' \in [Clauses \cup {"set"} -> Seq(Seq(Tokens))]
  BY DEF Move, Asked
<1>5. set' = JoinCsv(accepted'["set"]) /\ clauses' = [c \in Clauses |-> JoinCsv(accepted'[c])]
  <2>1. clauses' = [c \in Clauses |-> <<>>] /\ set' = <<>>
    BY DEF Move
  <2>2. \A c \in Clauses : JoinCsv(accepted'[c]) = <<>>
    BY <1>2, <1>3
  <2>. QED BY <1>2, <1>3, <2>1, <2>2, Zenon
<1>6. kind' = kind /\ table' = <<>>
  BY DEF Move
<1>. QED BY <1>1, <1>3, <1>4, <1>5, <1>6 DEF IInv, TypeOK

\* ToString keeps the invariant.
LEMMA RenderCallKeeps ==
  ASSUME IInv, RenderCall
  PROVE  IInv'
<1>1. CASE Throw
  BY <1>1, ThrowKeeps
<1>2. CASE outcome' = "rendered" /\ text' = Statement /\ UNCHANGED <<fields, accepted>>
  <2>1. outcome' \in {"ok", "rendered", "LogicError"} /\ text' \in Seq(Tokens)
    BY <1>2, StatementParts
  <2>2. kind' = kind /\ table' = table /\ set' = set /\ clauses' = clauses /\ accepted' = accepted
    BY <1>2 DEF fields
  <2>. QED BY <2>1, <2>2, Zenon DEF IInv, TypeOK
<1>. QED BY <1>1, <1>2 DEF RenderCall

\* What the setters that take one text are given.
LEMMA GivenTyped ==
  /\ \A item \in FromItems \cup Conditions : <<item>> \in Seq(Text)
  /\ \A items \in TermLists : items \in Seq(Text)
  /\ "source" \in Clauses /\ "where" \in Clauses /\ "returning" \in Clauses
<1>1. \A item \in FromItems \cup Conditions : <<item>> \in Seq(Text)
  <2>1. \A item \in FromItems \cup Conditions : item \in Text
    BY UpdateDeleteAssumption, Zenon
  <2>. QED BY <2>1, TuplesTyped, Zenon
<1>2. \A items \in TermLists : items \in Seq(Text)
  BY UpdateDeleteAssumption, Zenon
<1>. QED BY <1>1, <1>2 DEF Clauses

\* Every step keeps the invariant.
LEMMA NextIInv == IInv /\ [Next]_vars => IInv'
<1>. SUFFICES ASSUME IInv, [Next]_vars PROVE IInv'
  OBVIOUS
<1>1. \A assignment \in Assignments : Set(assignment.column, assignment.value) => IInv'
  BY SetKeeps
<1>2. \A item \in FromItems : (From(item) \/ Using(item)) => IInv'
  BY GivenTyped, SetOnceKeeps DEF From, Using
<1>3. \A exp \in Conditions : Where(exp) => IInv'
  BY GivenTyped, SetOnceKeeps DEF Where
<1>4. \A items \in TermLists : Returning(items) => IInv'
  BY GivenTyped, SetOnceKeeps DEF Returning
<1>5. SourceUnaliased => IInv'
  BY ThrowKeeps DEF SourceUnaliased
<1>6. Move => IInv'
  BY MoveKeeps
<1>7. RenderCall => IInv'
  BY RenderCallKeeps
<1>8. UNCHANGED vars => IInv'
  <2>. SUFFICES ASSUME UNCHANGED vars PROVE IInv'
    OBVIOUS
  <2>1. /\ kind' = kind /\ table' = table /\ set' = set /\ clauses' = clauses
        /\ accepted' = accepted /\ outcome' = outcome /\ text' = text
    BY DEF vars, fields
  <2>. QED BY <2>1, Zenon DEF IInv, TypeOK
<1>. QED BY <1>1, <1>2, <1>3, <1>4, <1>5, <1>6, <1>7, <1>8, Zenon DEF Next

\* The inductive invariant holds throughout.
LEMMA InvHolds == Spec => []IInv
BY InitIInv, NextIInv, PTL DEF Spec

\* Every member of Update and DeleteFrom is the text of the terms it was given
\* (update.cpp, delete_from.cpp).
THEOREM TypeCorrect == Spec => []TypeOK
<1>1. IInv => TypeOK
  BY DEF IInv
<1>. QED BY <1>1, InvHolds, PTL

-----------------------------------------------------------------------------
\* What the abstract builder holds, how its last call ended, and the statement
\* that call returned.
Held == IF Alive THEN accepted ELSE Asked

Ended == IF outcome = "rendered" /\ NamesNoTable(text) THEN "garbled" ELSE outcome

Returned == IF outcome = "rendered" /\ ~NamesNoTable(text) THEN ReadStatement(text) ELSE Asked

Answers(how) == Ended' = how /\ Returned' = Asked

\* The abstract builder with nothing set.
LEMMA BlankPromise == Promise!Blank = Asked
BY DEF Promise!Blank, Promise!Unset, Asked

\* A call that returns no text answers as the abstract builder does.
LEMMA ReturnAnswers ==
  ASSUME NEW status \in {"ok", "LogicError"}, Return(status)
  PROVE  Answers(status)
<1>1. outcome' = status /\ outcome' # "rendered"
  BY DEF Return
<1>. QED BY <1>1, Zenon DEF Answers, Ended, Returned, Asked

\* The abstract actions, told by what is held and returned.
LEMMA PromiseAnswer ==
  ASSUME NEW how, Answers(how)
  PROVE  Promise!Answer(how)
BY BlankPromise, Zenon DEF Promise!Answer, Answers, Ended, Returned

\* Setting a clause is a step of the abstract builder.
LEMMA PromiseSets ==
  ASSUME Alive, Alive', kind' = kind, NEW c \in Clauses, NEW terms \in Terms \cup {<<>>},
         Answers("ok"), Held[c] = <<>>, Held' = [Held EXCEPT ![c] = terms], Held'[c] = terms
  PROVE  Promise!Next
<1>1. Promise!Set(c)
  BY PromiseAnswer, Zenon DEF Promise!Set, Promise!Unset, Held
<1>. QED BY <1>1, Zenon DEF Promise!Next

\* So is refusing to set one,
LEMMA PromiseRefuses ==
  ASSUME Alive, Alive', kind' = kind, NEW c \in Clauses, Answers("LogicError"),
         Held[c] # <<>> \/ c \in {"source"}, Held' = Held
  PROVE  Promise!Next
<1>1. Promise!Set(c)
  BY PromiseAnswer, Zenon DEF Promise!Set, Promise!Unset, Held
<1>. QED BY <1>1, Zenon DEF Promise!Next

\* adding an assignment,
LEMMA PromiseAdds ==
  ASSUME Alive, Alive', kind' = kind, Answers("ok"),
         NEW terms \in Terms \cup {<<>>}, Held' = [Held EXCEPT !["set"] = @ \o terms]
  PROVE  Promise!Next
<1>1. Promise!Add("set")
  BY PromiseAnswer, Zenon DEF Promise!Add, Held
<1>2. "set" \in {"set"}
  OBVIOUS
<1>. QED BY <1>1, <1>2, Zenon DEF Promise!Next

\* returning the statement that holds what was asked for,
LEMMA PromiseRenders ==
  ASSUME Alive, Alive', kind' = kind, Held' = Held, Ended' = "rendered", Returned' = Held,
         kind = "Update" => Held["set"] # <<>>
  PROVE  Promise!Next
<1>1. Promise!Render
  BY Zenon DEF Promise!Render, Held, Ended, Returned
<1>. QED BY <1>1, Zenon DEF Promise!Next

\* refusing to return one while it is not complete,
LEMMA PromiseRejects ==
  ASSUME Alive, Alive', kind' = kind, Held' = Held, Answers("LogicError"),
         ~(kind = "Update" => Held["set"] # <<>>)
  PROVE  Promise!Next
<1>1. Promise!Render
  BY PromiseAnswer, Zenon DEF Promise!Render, Held
<1>. QED BY <1>1, Zenon DEF Promise!Next

\* moving from the builder,
LEMMA PromiseMoves ==
  ASSUME Alive, ~Alive', kind' = kind, Answers("ok")
  PROVE  Promise!Next
<1>1. Held' = Asked
  BY DEF Held, Asked
<1>2. Alive' = FALSE
  BY DEF Alive
<1>3. Promise!Move
  BY <1>1, <1>2, BlankPromise, PromiseAnswer, Zenon DEF Promise!Move, Held
<1>. QED BY <1>3, Zenon DEF Promise!Next

\* and whatever is not a statement after that.
LEMMA PromiseEnds ==
  ASSUME ~Alive, ~Alive', kind' = kind,
         Answers("ok") \/ Answers("LogicError") \/ Answers("garbled")
  PROVE  Promise!Next
<1>1. Held = Asked /\ Held' = Asked
  BY DEF Held, Asked
<1>2. Alive' = Alive
  BY DEF Alive
<1>3. Promise!UseAfterMove
  BY <1>1, <1>2, PromiseAnswer, Zenon DEF Promise!UseAfterMove, Held
<1>. QED BY <1>3, Zenon DEF Promise!Next

\* A new builder is a new abstract builder.
LEMMA InitPromise == Init => Promise!Init
<1>. SUFFICES ASSUME Init PROVE Promise!Init
  OBVIOUS
<1>1. Alive = TRUE /\ outcome = "ok" /\ accepted = Asked /\ kind \in {"Update", "DeleteFrom"}
  BY DEF Init, Alive, IsEmpty
<1>2. Held = Asked /\ Returned = Asked /\ Ended = "ok"
  BY <1>1 DEF Held, Returned, Ended
<1>. QED BY <1>1, <1>2, BlankPromise, Zenon DEF Promise!Init, Held, Ended, Returned

\* A setter that throws refuses: its clause is set, or its argument is no FROM item.
LEMMA ThrowPromise ==
  ASSUME IInv, Throw, NEW c \in Clauses, accepted[c] # <<>> \/ c \in {"source"}
  PROVE  Promise!Next
<1>1. kind' = kind /\ table' = table /\ accepted' = accepted /\ Answers("LogicError")
  BY ReturnAnswers DEF Throw, fields
<1>2. (Alive <=> Alive') /\ Held' = Held
  BY <1>1 DEF Alive, Held, Asked
<1>3. CASE Alive
  <2>1. Held = accepted
    BY <1>3 DEF Held
  <2>. QED BY <1>1, <1>2, <1>3, <2>1, PromiseRefuses
<1>. QED BY <1>1, <1>2, <1>3, PromiseEnds

\* A setter sets its clause or refuses to.
LEMMA SetOncePromise ==
  ASSUME IInv, NEW c \in Clauses, NEW terms \in Terms, SetOnce(c, terms)
  PROVE  Promise!Next
<1>1. CASE ~IsEmpty(clauses[c]) /\ Throw
  <2>1. accepted[c] # <<>>
    BY <1>1, MemberTyped DEF IsEmpty
  <2>. QED BY <1>1, <2>1, ThrowPromise
<1>2. CASE /\ IsEmpty(clauses[c])
           /\ accepted' = [accepted EXCEPT ![c] = terms]
           /\ Return("ok")
           /\ UNCHANGED <<kind, table, set>>
  <2>1. kind' = kind /\ table' = table /\ Answers("ok") /\ (Alive <=> Alive')
    BY <1>2, ReturnAnswers DEF Alive
  <2>2. CASE Alive
    <3>1. Held = accepted /\ Held' = accepted'
      BY <2>1, <2>2 DEF Held
    <3>2. Held[c] = <<>>
      BY <1>2, <3>1, MemberTyped DEF IsEmpty
    <3>3. Held' = [Held EXCEPT ![c] = terms] /\ Held'[c] = terms
      <4>1. accepted \in [Clauses \cup {"set"} -> Seq(Seq(Tokens))]
        BY DEF IInv, TypeOK
      <4>. QED BY <1>2, <3>1, <4>1
    <3>. QED BY <2>1, <2>2, <3>2, <3>3, PromiseSets
  <2>. QED BY <2>1, <2>2, PromiseEnds
<1>. QED BY <1>1, <1>2 DEF SetOnce

\* Update::Set adds one assignment.
LEMMA SetPromise ==
  ASSUME IInv, NEW assignment \in Assignments, Set(assignment.column, assignment.value)
  PROVE  Promise!Next
<1>. DEFINE new == Assignment(assignment.column, assignment.value)
<1>1. /\ kind' = kind /\ table' = table /\ Return("ok")
      /\ accepted' = [accepted EXCEPT !["set"] = Append(@, new)]
  BY Zenon DEF Set
<1>2. Answers("ok") /\ (Alive <=> Alive')
  BY <1>1, ReturnAnswers DEF Alive
<1>3. <<new>> \in Terms
  BY Zenon DEF Terms
<1>4. accepted["set"] \in Seq(Text) /\ new \in Text
  BY AssignmentText DEF IInv
<1>. HIDE DEF new
<1>5. Append(accepted["set"], new) = accepted["set"] \o <<new>>
  BY <1>4, AppendIsConcat
<1>6. CASE Alive
  <2>1. Held = accepted /\ Held' = accepted'
    BY <1>2, <1>6 DEF Held
  <2>2. Held' = [Held EXCEPT !["set"] = @ \o <<new>>]
    BY <1>1, <1>5, <2>1, Zenon
  <2>. QED BY <1>1, <1>2, <1>3, <1>6, <2>2, PromiseAdds
<1>. QED BY <1>1, <1>2, <1>6, PromiseEnds

\* A move is a move of the abstract builder, the second one as well.
LEMMA MovePromise ==
  ASSUME IInv, Move
  PROVE  Promise!Next
<1>1. ~Alive' /\ Answers("ok") /\ kind' = kind
  BY ReturnAnswers DEF Move, Alive, IsEmpty
<1>. QED BY <1>1, PromiseMoves, PromiseEnds

\* A rendering returns what was asked for, or no statement.
LEMMA RenderCallPromise ==
  ASSUME IInv, RenderCall
  PROVE  Promise!Next
<1>1. kind' = kind /\ table' = table /\ accepted' = accepted
  BY DEF RenderCall, Throw, fields
<1>2. (Alive <=> Alive') /\ Held' = Held
  BY <1>1 DEF Alive, Held, Asked
<1>3. CASE ~IsComplete
  <2>1. Answers("LogicError")
    BY <1>3, ReturnAnswers DEF RenderCall, Throw
  <2>2. CASE Alive
    <3>1. ~(kind = "Update" => Held["set"] # <<>>)
      BY <1>3, <2>2, MemberTyped DEF IsComplete, IsEmpty, Held, Alive
    <3>. QED BY <1>1, <1>2, <2>1, <2>2, <3>1, PromiseRejects
  <2>. QED BY <1>1, <1>2, <2>1, <2>2, PromiseEnds
<1>4. CASE IsComplete
  <2>1. outcome' = "rendered" /\ text' = Statement
    BY <1>4 DEF RenderCall
  <2>2. NamesNoTable(Statement) <=> ~Alive
    BY <1>4, StatementNamesTable
  <2>3. CASE Alive
    <3>1. Ended' = "rendered" /\ Returned' = ReadStatement(Statement)
      BY <1>1, <2>1, <2>2, <2>3, Zenon DEF Ended, Returned, ReadStatement, Heading
    <3>2. Held = accepted /\ ReadStatement(Statement) = accepted
      BY <1>4, <2>3, StatementReadsBack DEF Held
    <3>3. kind = "Update" => Held["set"] # <<>>
      BY <1>4, <3>2, MemberTyped DEF IsComplete, IsEmpty
    <3>. QED BY <1>1, <1>2, <2>3, <3>1, <3>2, <3>3, PromiseRenders
  <2>4. CASE ~Alive
    <3>1. Answers("garbled")
      BY <2>1, <2>2, <2>4, Zenon DEF Answers, Ended, Returned, Asked
    <3>. QED BY <1>1, <1>2, <2>4, <3>1, PromiseEnds
  <2>. QED BY <2>3, <2>4
<1>. QED BY <1>3, <1>4

\* Every step is a step of the abstract builder or leaves it as it is.
LEMMA NextPromise == IInv /\ [Next]_vars => [Promise!Next]_Promise!vars
<1>. SUFFICES ASSUME IInv, [Next]_vars PROVE [Promise!Next]_Promise!vars
  OBVIOUS
<1>1. \A assignment \in Assignments : Set(assignment.column, assignment.value) => Promise!Next
  BY SetPromise
<1>2. \A item \in FromItems : (From(item) \/ Using(item)) => Promise!Next
  <2>1. \A item \in FromItems : <<item>> \in Terms
    BY Zenon DEF Terms
  <2>. QED BY <2>1, GivenTyped, SetOncePromise DEF From, Using
<1>3. \A exp \in Conditions : Where(exp) => Promise!Next
  <2>1. \A exp \in Conditions : <<exp>> \in Terms
    BY Zenon DEF Terms
  <2>. QED BY <2>1, GivenTyped, SetOncePromise DEF Where
<1>4. \A items \in TermLists : Returning(items) => Promise!Next
  <2>1. \A items \in TermLists : items \in Terms
    BY Zenon DEF Terms
  <2>. QED BY <2>1, GivenTyped, SetOncePromise DEF Returning
<1>5. SourceUnaliased => Promise!Next
  <2>1. "source" \in Clauses /\ "source" \in {"source"}
    BY DEF Clauses
  <2>. QED BY <2>1, ThrowPromise DEF SourceUnaliased
<1>6. Move => Promise!Next
  BY MovePromise
<1>7. RenderCall => Promise!Next
  BY RenderCallPromise
<1>8. UNCHANGED vars => UNCHANGED Promise!vars
  <2>. SUFFICES ASSUME UNCHANGED vars PROVE UNCHANGED Promise!vars
    OBVIOUS
  <2>1. kind' = kind /\ table' = table /\ accepted' = accepted /\ outcome' = outcome /\ text' = text
    BY DEF vars, fields
  <2>2. Alive' = Alive /\ Held' = Held /\ Returned' = Returned /\ Ended' = Ended
    BY <2>1, Zenon DEF Alive, Held, Asked, Ended, Returned, ReadStatement, Heading
  <2>. QED BY <2>1, <2>2, Zenon DEF Promise!vars, Held, Ended, Returned
<1>. QED BY <1>1, <1>2, <1>3, <1>4, <1>5, <1>6, <1>7, <1>8, Zenon DEF Next

\* Whatever the order of the calls and the exceptions on the way, a statement that
\* Update or DeleteFrom returns makes the assignments that were asked for, in their
\* order, and holds the other clauses as they were set (docs/SQL.md:148-154); a
\* builder that was moved from returns none.
THEOREM PromiseKept == Spec => KeepsPromise
BY InitPromise, NextPromise, InvHolds, PTL DEF Spec, KeepsPromise, Promise!Spec
=============================================================================
