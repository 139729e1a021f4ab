--------------------------- MODULE CaseBuilderProofs ---------------------------
(***************************************************************************)
(* Theorems about the CASE builder, for any conditions, results, calls and *)
(* CASEs inside CASEs: the members are the texts of what was given, and    *)
(* what End returns reads back as that.                                    *)
(***************************************************************************)
EXTENDS CaseReading, TextLemmas

\* The recursion of ReadOn, over the first n tokens.
ReadsOn(f, s, ws, n) ==
  f = [k \in 0..n |-> IF k = 0 THEN s ELSE ReadToken(f[k-1], ws[k])]

\* It has a solution.
LEMMA ReadingExists ==
  ASSUME NEW s, NEW ws, NEW n \in Nat
  PROVE  \E f : ReadsOn(f, s, ws, n)
<1>. DEFINE T == {m \in 0..n : ~\E f : ReadsOn(f, s, ws, m)}
<1>1. SUFFICES ASSUME T # {} PROVE FALSE
  <2>1. n \in 0..n
    OBVIOUS
  <2>. QED BY <2>1, Zenon
<1>2. PICK m \in T : \A k \in T : m <= k
  <2>1. T \in SUBSET Nat
    OBVIOUS
  <2>. HIDE DEF T
  <2>. QED BY <1>1, <2>1, LeastNat
<1>3. m # 0
  <2>1. ReadsOn([k \in 0..0 |-> s], s, ws, 0)
    BY DEF ReadsOn
  <2>. QED BY <2>1
<1>4. m \in 1..n /\ m-1 \in 0..n /\ ~(m <= m-1)
  BY <1>3
<1>5. PICK f : ReadsOn(f, s, ws, m-1)
  <2>1. m-1 \notin T
    BY <1>2, <1>4
  <2>. QED BY <1>4, <2>1
<1>. DEFINE g == [k \in 0..m |-> IF k = 0 THEN s ELSE ReadToken(f[k-1], ws[k])]
<1>6. \A k \in 0..m-1 : g[k] = f[k]
  <2>1. \A k \in 0..m-1 : k \in 0..m
    BY <1>4
  <2>. QED BY <1>5, <2>1, Zenon DEF ReadsOn
<1>7. \A k \in 0..m : (IF k = 0 THEN s ELSE ReadToken(f[k-1], ws[k]))
                      = (IF k = 0 THEN s ELSE ReadToken(g[k-1], ws[k]))
  <2>1. \A k \in 0..m : k # 0 => k-1 \in 0..m-1
    BY <1>4
  <2>. HIDE DEF g
  <2>. QED BY <1>6, <2>1, Zenon
<1>8. ReadsOn(g, s, ws, m)
  <2>1. g = [k \in 0..m |-> IF k = 0 THEN s ELSE ReadToken(g[k-1], ws[k])]
    BY <1>7, Zenon
  <2>. QED BY <2>1 DEF ReadsOn
<1>. QED BY <1>8

\* f holds the states in which a text is read from s on.
States(f, s, ws) ==
  f[0] = s /\ \A k \in 1..Len(ws) : f[k] = ReadToken(f[k-1], ws[k])

\* ReadOn goes from left to right, token by token.
LEMMA ReadOnUnfolds ==
  ASSUME NEW s, NEW ws, Len(ws) \in Nat
  PROVE  \E f : States(f, s, ws) /\ ReadOn(s, ws) = f[Len(ws)]
<1>. DEFINE n == Len(ws)
<1>. DEFINE f == CHOOSE f : ReadsOn(f, s, ws, n)
<1>1. n \in Nat
  OBVIOUS
<1>2. ReadsOn(f, s, ws, n)
  <2>1. \E g : ReadsOn(g, s, ws, n)
    BY <1>1, ReadingExists
  <2>. QED BY <2>1, Zenon
<1>3. ReadOn(s, ws) = f[n]
  BY Zenon DEF ReadOn, ReadsOn
<1>. HIDE DEF f, n
<1>4. f[0] = s /\ \A k \in 1..n : f[k] = ReadToken(f[k-1], ws[k])
  <2>1. 0 \in 0..n /\ \A k \in 1..n : k \in 0..n /\ k # 0
    BY <1>1
  <2>. QED BY <1>2, <2>1, Zenon DEF ReadsOn
<1>. QED BY <1>3, <1>4 DEF n, States

\* What is read of two texts, one behind the other.
LEMMA ReadOnConcat ==
  ASSUME NEW s, NEW S, NEW a \in Seq(S), NEW b \in Seq(S)
  PROVE  ReadOn(s, a \o b) = ReadOn(ReadOn(s, a), b)
<1>. DEFINE m == Len(a)
<1>. DEFINE n == Len(b)
<1>. DEFINE c == a \o b
<1>1. /\ m \in Nat /\ n \in Nat /\ Len(c) \in Nat /\ Len(c) = m + n
      /\ \A k \in 1..m : c[k] = a[k]
      /\ \A k \in 1..n : c[m+k] = b[k]
  BY ConcatProperties, LenProperties
<1>. HIDE DEF c
<1>2. PICK f : States(f, s, c) /\ ReadOn(s, c) = f[m+n]
  BY <1>1, ReadOnUnfolds
<1>3. PICK g : States(g, s, a) /\ ReadOn(s, a) = g[m]
  BY <1>1, ReadOnUnfolds
<1>4. PICK h : States(h, ReadOn(s, a), b) /\ ReadOn(ReadOn(s, a), b) = h[n]
  BY <1>1, ReadOnUnfolds
<1>. HIDE DEF m, n
<1>a. f[0] = s /\ \A k \in 1..m+n : f[k] = ReadToken(f[k-1], c[k])
  BY <1>1, <1>2 DEF States
<1>b. g[0] = s /\ \A k \in 1..m : g[k] = ReadToken(g[k-1], a[k])
  BY <1>3 DEF States, m
<1>c. h[0] = ReadOn(s, a) /\ \A k \in 1..n : h[k] = ReadToken(h[k-1], b[k])
  BY <1>4 DEF States, n
<1>5. \A k \in 0..m : f[k] = g[k]
  <2>. DEFINE T == {k \in 0..m : f[k] # g[k]}
  <2>1. SUFFICES ASSUME T # {} PROVE FALSE
    OBVIOUS
  <2>2. PICK i \in T : \A k \in T : i <= k
    <3>1. T \in SUBSET Nat
      BY <1>1
    <3>. HIDE DEF T
    <3>. QED BY <2>1, <3>1, LeastNat
  <2>3. i # 0
    BY <1>a, <1>b
  <2>4. i \in 1..m /\ i \in 1..m+n /\ i-1 \in 0..m /\ ~(i <= i-1)
    BY <1>1, <2>3
  <2>5. f[i-1] = g[i-1]
    BY <2>2, <2>4
  <2>6. f[i] = g[i]
    BY <1>1, <1>a, <1>b, <2>4, <2>5, Zenon
  <2>. QED BY <2>6
<1>6. \A k \in 0..n : f[m+k] = h[k]
  <2>. DEFINE T == {k \in 0..n : f[m+k] # h[k]}
  <2>1. SUFFICES ASSUME T # {} PROVE FALSE
    OBVIOUS
  <2>2. PICK i \in T : \A k \in T : i <= k
    <3>1. T \in SUBSET Nat
      BY <1>1
    <3>. HIDE DEF T
    <3>. QED BY <2>1, <3>1, LeastNat
  <2>3. i # 0
    BY <1>1, <1>3, <1>c, <1>5
  <2>4. /\ i \in 1..n /\ m+i \in 1..m+n /\ i-1 \in 0..n /\ ~(i <= i-1)
        /\ (m+i)-1 = m+(i-1)
    BY <1>1, <2>3
  <2>5. f[m+(i-1)] = h[i-1]
    BY <2>2, <2>4
  <2>6. f[m+i] = h[i]
    BY <1>1, <1>a, <1>c, <2>4, <2>5, Zenon
  <2>. QED BY <2>6
<1>7. n \in 0..n
  BY <1>1
<1>. QED BY <1>2, <1>4, <1>6, <1>7 DEF c

\* A text of one token.
LEMMA ReadOnWord ==
  ASSUME NEW s, NEW word
  PROVE  ReadOn(s, <<word>>) = ReadToken(s, word)
<1>. DEFINE ws == <<word>>
<1>1. Len(ws) \in Nat /\ Len(ws) = 1 /\ ws[1] = word
  OBVIOUS
<1>. HIDE DEF ws
<1>2. PICK f : States(f, s, ws) /\ ReadOn(s, ws) = f[1]
  BY <1>1, ReadOnUnfolds
<1>3. f[1] = ReadToken(f[0], word) /\ f[0] = s
  BY <1>1, <1>2 DEF States
<1>. QED BY <1>2, <1>3 DEF ws

-----------------------------------------------------------------------------
\* A state of the reader.
At(place, pairs, when, part, open) ==
  [place |-> place, pairs |-> pairs, when |-> when, part |-> part, open |-> open]

\* What a token does where the part at hand goes on, and where it ends.
LEMMA TokenGoesOn ==
  ASSUME NEW place \in Parts, NEW pairs, NEW when, NEW part, NEW open \in Nat, NEW token,
         open > 0 \/ token \notin Keywords \ {"CASE"}
  PROVE  ReadToken(At(place, pairs, when, part, open), token)
           = At(place, pairs, when, Append(part, token), open + Opened(token))
<1>. DEFINE s == At(place, pairs, when, part, open)
<1>. DEFINE more == Append(part, token)
<1>. DEFINE depth == open + Opened(token)
<1>1. s.place = place /\ s.open = open /\ s.part = part
  BY DEF At
<1>3. [s EXCEPT !.part = more, !.open = depth] = At(place, pairs, when, more, depth)
  <2>. HIDE DEF more, depth
  <2>1. [s EXCEPT !.part = more] = At(place, pairs, when, more, open)
    BY DEF At
  <2>2. [At(place, pairs, when, more, open) EXCEPT !.open = depth] = At(place, pairs, when, more, depth)
    BY DEF At
  <2>3. [s EXCEPT !.part = more, !.open = depth] = [[s EXCEPT !.part = more] EXCEPT !.open = depth]
    <3>. HIDE DEF s
    <3>. QED OBVIOUS
  <2>. QED BY <2>1, <2>2, <2>3, Zenon
<1>. HIDE DEF s
<1>2. GoesOn(s, token)
  BY <1>1 DEF GoesOn
<1>. QED BY <1>1, <1>2, <1>3, Zenon DEF ReadToken, s

LEMMA TokenEnds ==
  ASSUME NEW place, NEW pairs, NEW when, NEW part, NEW token \in Keywords \ {"CASE"}
  PROVE  ReadToken(At(place, pairs, when, part, 0), token)
           = Ended(At(place, pairs, when, part, 0), token)
<1>. DEFINE s == At(place, pairs, when, part, 0)
<1>1. s.open = 0
  BY DEF At
<1>. HIDE DEF s
<1>2. ~GoesOn(s, token)
  BY <1>1 DEF GoesOn
<1>. QED BY <1>2, Zenon DEF ReadToken, s

LEMMA WordsEnd ==
  ASSUME NEW pairs, NEW when, NEW part
  PROVE  /\ Ended(At("case", pairs, when, part, 0), "WHEN") = At("when", pairs, when, <<>>, 0)
         /\ Ended(At("then", pairs, when, part, 0), "WHEN")
              = At("when", Append(pairs, <<when, part>>), when, <<>>, 0)
         /\ Ended(At("when", pairs, when, part, 0), "THEN") = At("then", pairs, part, <<>>, 0)
         /\ Ended(At("then", pairs, when, part, 0), "ELSE")
              = At("else", Append(pairs, <<when, part>>), when, <<>>, 0)
         /\ Ended(At("then", pairs, when, part, 0), "END")
              = At("end", Append(pairs, <<when, part>>), when, <<>>, 0)
         /\ Ended(At("else", pairs, when, part, 0), "END") = At("end", pairs, when, part, 0)
<1>1. Ended(At("case", pairs, when, part, 0), "WHEN") = At("when", pairs, when, <<>>, 0)
  BY DEF Ended, At, Pairs
<1>2. Ended(At("then", pairs, when, part, 0), "WHEN")
        = At("when", Append(pairs, <<when, part>>), when, <<>>, 0)
  BY DEF Ended, At, Pairs
<1>3. Ended(At("when", pairs, when, part, 0), "THEN") = At("then", pairs, part, <<>>, 0)
  BY DEF Ended, At, Pairs
<1>4. Ended(At("then", pairs, when, part, 0), "ELSE")
        = At("else", Append(pairs, <<when, part>>), when, <<>>, 0)
  BY DEF Ended, At, Pairs
<1>5. Ended(At("then", pairs, when, part, 0), "END")
        = At("end", Append(pairs, <<when, part>>), when, <<>>, 0)
  BY DEF Ended, At, Pairs
<1>6. Ended(At("else", pairs, when, part, 0), "END") = At("end", pairs, when, part, 0)
  BY DEF Ended, At, Pairs
<1>. QED BY <1>1, <1>2, <1>3, <1>4, <1>5, <1>6

LEMMA BeginningReads ==
  ReadToken(Beginning, "CASE") = At("case", <<>>, <<>>, <<>>, 0)
<1>1. ~GoesOn(Beginning, "CASE")
  BY DEF GoesOn, Beginning, Parts
<1>2. Ended(Beginning, "CASE") = At("case", <<>>, <<>>, <<>>, 0)
  BY DEF Ended, Beginning, At
<1>. QED BY <1>1, <1>2, Zenon DEF ReadToken

-----------------------------------------------------------------------------
\* A text that is read as part of any part, and one that is where a CASE is open
\* in it.
IsPart(ws) ==
  /\ ws \in Text
  /\ \A pairs, when : \A place \in Parts, part \in Text, open \in Nat :
       ReadOn(At(place, pairs, when, part, open), ws) = At(place, pairs, when, part \o ws, open)

IsInner(ws) ==
  /\ ws \in Text
  /\ \A pairs, when : \A place \in Parts, part \in Text, open \in Nat \ {0} :
       ReadOn(At(place, pairs, when, part, open), ws) = At(place, pairs, when, part \o ws, open)

LEMMA PartInner ==
  ASSUME NEW ws, IsPart(ws)
  PROVE  IsInner(ws)
BY DEF IsPart, IsInner

\* Texts put together are texts.
LEMMA TextsTyped ==
  /\ <<>> \in Text
  /\ \A a, b \in Text : a \o b \in Text
  /\ \A w \in Keywords : w \in Tokens /\ <<w>> \in Text
  /\ \A a \in Text : a \o <<>> = a /\ <<>> \o a = a
<1>1. \A a, b \in Text : a \o b \in Text
  BY ConcatTyped DEF Text
<1>2. \A w \in Keywords : w \in Tokens /\ <<w>> \in Text
  BY CaseAssumption DEF Text
<1>. QED BY <1>1, <1>2 DEF Text

LEMMA TextsAssociate ==
  ASSUME NEW a \in Text, NEW b \in Text, NEW c \in Text
  PROVE  (a \o b) \o c = a \o (b \o c)
BY DEF Text

LEMMA WordAppended ==
  ASSUME NEW a \in Text, NEW w \in Tokens
  PROVE  Append(a, w) = a \o <<w>>
BY DEF Text

LEMMA ReadOnBoth ==
  ASSUME NEW s, NEW a \in Text, NEW b \in Text
  PROVE  ReadOn(s, a \o b) = ReadOn(ReadOn(s, a), b)
BY ReadOnConcat DEF Text

LEMMA ReadOnNone ==
  ASSUME NEW s
  PROVE  ReadOn(s, <<>>) = s
<1>1. Len(<<>>) \in Nat /\ Len(<<>>) = 0
  OBVIOUS
<1>2. PICK f : States(f, s, <<>>) /\ ReadOn(s, <<>>) = f[Len(<<>>)]
  BY <1>1, ReadOnUnfolds
<1>. QED BY <1>1, <1>2 DEF States

LEMMA NoneIsPart == IsPart(<<>>)
BY ReadOnNone, TextsTyped DEF IsPart

LEMMA InnerBoth ==
  ASSUME NEW a, NEW b, IsInner(a), IsInner(b)
  PROVE  IsInner(a \o b)
<1>1. a \in Text /\ b \in Text /\ a \o b \in Text
  BY TextsTyped DEF IsInner
<1>. SUFFICES ASSUME NEW place \in Parts, NEW pairs, NEW when, NEW part \in Text, NEW open \in Nat \ {0}
              PROVE  ReadOn(At(place, pairs, when, part, open), a \o b)
                       = At(place, pairs, when, part \o (a \o b), open)
  BY <1>1 DEF IsInner
<1>. DEFINE s == At(place, pairs, when, part, open)
<1>2. ReadOn(s, a) = At(place, pairs, when, part \o a, open)
  BY DEF IsInner
<1>3. part \o a \in Text
  BY <1>1, TextsTyped
<1>4. ReadOn(At(place, pairs, when, part \o a, open), b) = At(place, pairs, when, (part \o a) \o b, open)
  BY <1>3 DEF IsInner
<1>5. ReadOn(s, a \o b) = ReadOn(ReadOn(s, a), b)
  BY <1>1, ReadOnBoth
<1>6. (part \o a) \o b = part \o (a \o b)
  BY <1>1, TextsAssociate
<1>. HIDE DEF s
<1>. QED BY <1>2, <1>4, <1>5, <1>6, Zenon DEF s

\* The words between CASE and END.
LEMMA WordInner ==
  ASSUME NEW word \in {"WHEN", "THEN", "ELSE"}
  PROVE  IsInner(<<word>>)
<1>1. word \in Keywords /\ word \in Tokens /\ <<word>> \in Text
  BY TextsTyped DEF Keywords
<1>2. Opened(word) = 0
  BY DEF Opened
<1>. SUFFICES ASSUME NEW place \in Parts, NEW pairs, NEW when, NEW part \in Text, NEW open \in Nat \ {0}
              PROVE  ReadOn(At(place, pairs, when, part, open), <<word>>)
                       = At(place, pairs, when, part \o <<word>>, open)
  BY <1>1 DEF IsInner
<1>3. open \in Nat /\ open > 0 /\ open + Opened(word) = open
  BY <1>2
<1>4. ReadToken(At(place, pairs, when, part, open), word)
        = At(place, pairs, when, Append(part, word), open + Opened(word))
  BY <1>3, TokenGoesOn
<1>5. Append(part, word) = part \o <<word>>
  BY <1>1, WordAppended
<1>. QED BY <1>3, <1>4, <1>5, ReadOnWord, Zenon

\* What stands between CASE and END is inner, so the whole is a part.
LEMMA CaseIsPart ==
  ASSUME NEW ws, IsInner(ws)
  PROVE  IsPart((<<"CASE">> \o ws) \o <<"END">>)
<1>. DEFINE all == (<<"CASE">> \o ws) \o <<"END">>
<1>1. /\ "CASE" \in Keywords /\ "END" \in Keywords
      /\ "CASE" \in Tokens /\ "END" \in Tokens
      /\ <<"CASE">> \in Text /\ <<"END">> \in Text
  BY TextsTyped DEF Keywords
<1>2. ws \in Text /\ <<"CASE">> \o ws \in Text /\ all \in Text
  BY <1>1, TextsTyped DEF IsInner
<1>3. Opened("CASE") = 1 /\ Opened("END") = -1
  BY DEF Opened
<1>. SUFFICES ASSUME NEW place \in Parts, NEW pairs, NEW when, NEW part \in Text, NEW open \in Nat
              PROVE  ReadOn(At(place, pairs, when, part, open), all)
                       = At(place, pairs, when, part \o all, open)
  BY <1>2 DEF IsPart
<1>. DEFINE s == At(place, pairs, when, part, open)
<1>. DEFINE a == part \o <<"CASE">>
<1>4. ReadOn(s, <<"CASE">>) = At(place, pairs, when, a, open + 1)
  <2>1. ReadToken(s, "CASE") = At(place, pairs, when, Append(part, "CASE"), open + Opened("CASE"))
    BY TokenGoesOn
  <2>2. Append(part, "CASE") = a
    BY <1>1, WordAppended
  <2>. QED BY <1>3, <2>1, <2>2, ReadOnWord
<1>5. a \in Text /\ open + 1 \in Nat \ {0} /\ open + 1 \in Nat /\ open + 1 > 0
  BY <1>1, TextsTyped
<1>. HIDE DEF a
<1>6. ReadOn(At(place, pairs, when, a, open + 1), ws) = At(place, pairs, when, a \o ws, open + 1)
  BY <1>5 DEF IsInner
<1>7. ReadOn(At(place, pairs, when, a \o ws, open + 1), <<"END">>)
        = At(place, pairs, when, (a \o ws) \o <<"END">>, open)
  <2>1. ReadToken(At(place, pairs, when, a \o ws, open + 1), "END")
          = At(place, pairs, when, Append(a \o ws, "END"), (open + 1) + Opened("END"))
    BY <1>5, TokenGoesOn
  <2>2. a \o ws \in Text
    BY <1>2, <1>5, TextsTyped
  <2>3. Append(a \o ws, "END") = (a \o ws) \o <<"END">>
    BY <1>1, <2>2, WordAppended
  <2>4. (open + 1) + Opened("END") = open
    BY <1>3
  <2>. QED BY <2>1, <2>3, <2>4, ReadOnWord
<1>8. (a \o ws) \o <<"END">> = part \o all
  <2>1. a \o ws = part \o (<<"CASE">> \o ws)
    BY <1>1, <1>2, TextsAssociate DEF a
  <2>. QED BY <1>1, <1>2, <2>1, TextsAssociate
<1>9. ReadOn(s, all) = ReadOn(ReadOn(ReadOn(s, <<"CASE">>), ws), <<"END">>)
  BY <1>1, <1>2, ReadOnBoth
<1>. HIDE DEF s, all
<1>. QED BY <1>4, <1>6, <1>7, <1>8, <1>9, Zenon DEF s

-----------------------------------------------------------------------------
\* The CASEs that are open after so many tokens.
Openings(f, ws) ==
  f[0] = 0 /\ \A k \in 1..Len(ws) : f[k] \in Int /\ f[k] = f[k-1] + Opened(ws[k])

LEMMA ClosedOpens ==
  ASSUME NEW ws \in Text, IsClosed(ws)
  PROVE  \E f : /\ Openings(f, ws) /\ f[Len(ws)] = 0
                /\ \A k \in 1..Len(ws) :
                     f[k] >= 0 /\ (ws[k] \in Keywords => f[k-1] + f[k] > 0)
<1>. DEFINE n == Len(ws)
<1>. DEFINE Is(f) == f = [k \in 0..n |-> IF k = 0 THEN 0 ELSE f[k-1] + Opened(ws[k])]
<1>. DEFINE f == CHOOSE f : Is(f)
<1>1. n \in Nat /\ DOMAIN ws = 1..n
  BY DEF Text
<1>2. \A w : Opened(w) \in Int
  BY DEF Opened
<1>3. \E g : Is(g)
  <2>. DEFINE step == [k \in 1..n |-> [v \in Int |-> v + Opened(ws[k])]]
  <2>1. step \in [1..n -> [Int -> Int]]
    BY <1>2
  <2>2. PICK g : Accumulates(g, Int, n, 0, step)
    <3>1. 0 \in Int
      OBVIOUS
    <3>. HIDE DEF n, step
    <3>. QED BY <1>1, <2>1, <3>1, Accumulation, Zenon DEF n
  <2>3. \A k \in 1..n : g[k] = g[k-1] + Opened(ws[k])
    <3>1. \A k \in 1..n : k-1 \in 0..n /\ g[k-1] \in Int
      BY <1>1, <2>2 DEF Accumulates
    <3>. QED BY <2>2, <3>1 DEF Accumulates
  <2>4. g = [k \in 0..n |-> g[k]]
    BY <2>2 DEF Accumulates
  <2>5. \A k \in 0..n : g[k] = IF k = 0 THEN 0 ELSE g[k-1] + Opened(ws[k])
    BY <1>1, <2>2, <2>3 DEF Accumulates
  <2>6. Is(g)
    <3>. HIDE DEF n
    <3>. QED BY <2>4, <2>5, Zenon
  <2>. QED BY <2>6
<1>4. Is(f)
  <2>. HIDE DEF Is
  <2>. QED BY <1>3, Zenon
<1>5. f[n] = 0 /\ \A k \in 1..n : f[k] >= 0 /\ (ws[k] \in Keywords => f[k-1] + f[k] > 0)
  <2>1. LET open == f
        IN  open[n] = 0 /\ \A k \in 1..n : open[k] >= 0 /\ (ws[k] \in Keywords => open[k-1] + open[k] > 0)
    BY <1>1, Zenon DEF IsClosed
  <2>. QED BY <2>1
<1>. HIDE DEF f
<1>6. f[0] = 0 /\ \A k \in 1..n : f[k] = f[k-1] + Opened(ws[k])
  <2>1. 0 \in 0..n /\ \A k \in 1..n : k \in 0..n /\ k # 0
    BY <1>1
  <2>. HIDE DEF n
  <2>. QED BY <1>4, <2>1, Zenon
<1>7. \A k \in 0..n : f[k] \in Int
  <2>. DEFINE T == {k \in 0..n : f[k] \notin Int}
  <2>1. SUFFICES ASSUME T # {} PROVE FALSE
    OBVIOUS
  <2>2. PICK i \in T : \A k \in T : i <= k
    <3>1. T \in SUBSET Nat
      BY <1>1
    <3>. HIDE DEF T
    <3>. QED BY <2>1, <3>1, LeastNat
  <2>3. i # 0
    BY <1>6
  <2>4. i \in 1..n /\ i-1 \in 0..n /\ ~(i <= i-1)
    BY <1>1, <2>3
  <2>5. f[i-1] \in Int
    BY <2>2, <2>4
  <2>6. f[i] \in Int
    BY <1>2, <1>6, <2>4, <2>5
  <2>. QED BY <2>6
<1>8. Openings(f, ws)
  <2>1. \A k \in 1..n : k \in 0..n
    BY <1>1
  <2>. QED BY <1>6, <1>7, <2>1 DEF Openings
<1>. QED BY <1>5, <1>8

\* A text in which every CASE is ended is a part.
LEMMA ClosedIsPart ==
  ASSUME NEW ws \in Text, IsClosed(ws)
  PROVE  IsPart(ws)
<1>. DEFINE n == Len(ws)
<1>1. n \in Nat /\ \A k \in 1..n : ws[k] \in Tokens
  BY LenProperties, ElementOfSeq DEF Text
<1>2. PICK d : /\ Openings(d, ws) /\ d[n] = 0
               /\ \A k \in 1..n : d[k] >= 0 /\ (ws[k] \in Keywords => d[k-1] + d[k] > 0)
  BY ClosedOpens
<1>3. d[0] = 0 /\ \A k \in 1..n : d[k] \in Int /\ d[k] = d[k-1] + Opened(ws[k])
  BY <1>2 DEF Openings
<1>4. \A k \in 0..n : d[k] \in Nat
  BY <1>1, <1>2, <1>3
<1>. SUFFICES ASSUME NEW pairs, NEW when, NEW place \in Parts, NEW part \in Text, NEW open \in Nat
              PROVE  ReadOn(At(place, pairs, when, part, open), ws)
                       = At(place, pairs, when, part \o ws, open)
  BY DEF IsPart
<1>. DEFINE s == At(place, pairs, when, part, open)
<1>5. PICK f : States(f, s, ws) /\ ReadOn(s, ws) = f[n]
  BY <1>1, ReadOnUnfolds
<1>6. f[0] = s /\ \A k \in 1..n : f[k] = ReadToken(f[k-1], ws[k])
  BY <1>5 DEF States
<1>. DEFINE upto(k) == part \o SubSeq(ws, 1, k)
<1>. DEFINE Claim(k) == f[k] = At(place, pairs, when, upto(k), open + d[k])
<1>7. /\ upto(0) = part /\ upto(n) = part \o ws
      /\ \A k \in 1..n : upto(k) = Append(upto(k-1), ws[k])
  <2>1. SubSeq(ws, 1, 0) = <<>> /\ SubSeq(ws, 1, n) = ws
    BY DEF Text
  <2>2. \A k \in 1..n : SubSeq(ws, 1, k) = Append(SubSeq(ws, 1, k-1), ws[k])
    BY DEF Text
  <2>3. \A k \in 0..n : SubSeq(ws, 1, k) \in Text
    BY <1>1 DEF Text
  <2>4. \A a \in Text, w \in Tokens : part \o Append(a, w) = Append(part \o a, w)
    BY DEF Text
  <2>5. \A k \in 1..n : k-1 \in 0..n
    BY <1>1
  <2>6. \A k \in 1..n : part \o SubSeq(ws, 1, k) = Append(part \o SubSeq(ws, 1, k-1), ws[k])
    BY <1>1, <2>2, <2>3, <2>4, <2>5, Zenon
  <2>7. part \o <<>> = part
    BY TextsTyped
  <2>. QED BY <2>1, <2>6, <2>7
<1>. HIDE DEF upto
<1>8. Claim(0)
  <2>1. open + d[0] = open
    BY <1>3
  <2>. QED BY <1>6, <1>7, <2>1
<1>9. \A k \in 1..n : Claim(k-1) => Claim(k)
  <2>. SUFFICES ASSUME NEW k \in 1..n, Claim(k-1) PROVE Claim(k)
    OBVIOUS
  <2>. DEFINE token == ws[k]
  <2>. DEFINE depth == open + d[k-1]
  <2>1. k-1 \in 0..n /\ d[k-1] \in Nat /\ d[k] \in Nat
    BY <1>1, <1>4
  <2>2. depth \in Nat /\ depth + Opened(token) = open + d[k]
    <3>1. Opened(token) \in Int
      BY DEF Opened
    <3>. QED BY <1>3, <2>1, <3>1
  <2>3. depth > 0 \/ token \notin Keywords \ {"CASE"}
    <3>1. SUFFICES ASSUME token \in Keywords \ {"CASE"} PROVE d[k-1] > 0
      BY <2>1
    <3>2. d[k-1] + d[k] > 0 /\ d[k] = d[k-1] + Opened(token)
      BY <1>2, <1>3, <3>1
    <3>3. Opened(token) \in {-1, 0}
      BY <3>1 DEF Opened
    <3>. QED BY <2>1, <3>2, <3>3
  <2>. HIDE DEF depth, token
  <2>4. ReadToken(At(place, pairs, when, upto(k-1), depth), token)
          = At(place, pairs, when, Append(upto(k-1), token), depth + Opened(token))
    BY <2>2, <2>3, TokenGoesOn
  <2>5. f[k] = ReadToken(f[k-1], token)
    BY <1>6 DEF token
  <2>6. f[k-1] = At(place, pairs, when, upto(k-1), depth)
    BY DEF depth
  <2>7. upto(k) = Append(upto(k-1), token)
    BY <1>7 DEF token
  <2>. QED BY <2>2, <2>4, <2>5, <2>6, <2>7, Zenon
<1>10. Claim(n)
  <2>. HIDE DEF Claim
  <2>. DEFINE T == {k \in 0..n : ~Claim(k)}
  <2>1. SUFFICES ASSUME T # {} PROVE FALSE
    BY <1>1
  <2>2. PICK i \in T : \A k \in T : i <= k
    <3>1. T \in SUBSET Nat
      BY <1>1
    <3>. HIDE DEF T
    <3>. QED BY <2>1, <3>1, LeastNat
  <2>3. i # 0
    BY <1>8
  <2>4. i \in 1..n /\ i-1 \in 0..n /\ ~(i <= i-1)
    BY <1>1, <2>3
  <2>5. Claim(i-1)
    BY <2>2, <2>4
  <2>. QED BY <1>9, <2>4, <2>5
<1>11. open + d[n] = open
  BY <1>2
<1>. QED BY <1>5, <1>7, <1>10, <1>11, Zenon

-----------------------------------------------------------------------------
\* A text behind another.
LEMMA FlattenMore ==
  ASSUME NEW S, NEW seqs \in Seq(Seq(S)), NEW last \in Seq(S)
  PROVE  FlattenSeq(Append(seqs, last)) = FlattenSeq(seqs) \o last
<1>. DEFINE more == Append(seqs, last)
<1>. DEFINE n == Len(seqs)
<1>1. /\ n \in Nat /\ more \in Seq(Seq(S)) /\ Len(more) = n + 1
      /\ more[n+1] = last /\ \A k \in 1..n : more[k] = seqs[k]
  BY AppendProperties, LenProperties
<1>. HIDE DEF more
<1>2. PICK h : /\ FlattenSeq(more) = h[n+1]
               /\ h[1] = more[1]
               /\ \A k \in 2..n+1 : h[k] = h[k-1] \o more[k]
               /\ \A k \in 1..n+1 : h[k] \in Seq(S)
  <2>1. Len(more) # 0
    BY <1>1
  <2>2. \E h : /\ FlattenSeq(more) = h[Len(more)]
               /\ h[1] = more[1]
               /\ \A k \in 2..Len(more) : h[k] = h[k-1] \o more[k]
               /\ \A k \in 1..Len(more) : h[k] \in Seq(S)
    BY <1>1, <2>1, FlattenUnfolds
  <2>3. Len(more) = n+1
    BY <1>1
  <2>. HIDE DEF n
  <2>. QED BY <2>2, <2>3
<1>3. CASE n = 0
  <2>1. seqs = <<>>
    BY <1>3
  <2>2. FlattenSeq(seqs) = <<>>
    BY <1>3, <2>1 DEF FlattenSeq
  <2>3. <<>> \o last = last
    OBVIOUS
  <2>. QED BY <1>1, <1>2, <1>3, <2>2, <2>3 DEF more
<1>4. CASE n # 0
  <2>1. PICK g : /\ FlattenSeq(seqs) = g[n]
                 /\ g[1] = seqs[1]
                 /\ \A k \in 2..n : g[k] = g[k-1] \o seqs[k]
                 /\ \A k \in 1..n : g[k] \in Seq(S)
    BY <1>4, FlattenUnfolds
  <2>. HIDE DEF n
  <2>2. \A k \in 1..n : h[k] = g[k]
    <3>. DEFINE T == {k \in 1..n : h[k] # g[k]}
    <3>1. SUFFICES ASSUME T # {} PROVE FALSE
      OBVIOUS
    <3>2. PICK i \in T : \A k \in T : i <= k
      <4>1. T \in SUBSET Nat
        BY <1>1
      <4>. HIDE DEF T
      <4>. QED BY <3>1, <4>1, LeastNat
    <3>3. 1 \in 1..n
      BY <1>1, <1>4
    <3>4. i # 1
      BY <1>1, <1>2, <2>1, <3>3
    <3>5. i \in 2..n /\ i \in 2..n+1 /\ i-1 \in 1..n /\ i \in 1..n /\ ~(i <= i-1)
      BY <1>1, <3>4
    <3>6. h[i-1] = g[i-1]
      BY <3>2, <3>5
    <3>7. h[i] = g[i]
      BY <1>1, <1>2, <2>1, <3>5, <3>6, Zenon
    <3>. QED BY <3>7
  <2>3. n+1 \in 2..n+1 /\ (n+1)-1 = n /\ n \in 1..n
    BY <1>1, <1>4
  <2>4. h[n+1] = h[n] \o last
    BY <1>1, <1>2, <2>3, Zenon
  <2>5. h[n+1] = FlattenSeq(seqs) \o last
    BY <2>1, <2>2, <2>3, <2>4, Zenon
  <2>. QED BY <1>2, <2>5, Zenon DEF more
<1>. QED BY <1>3, <1>4

\* The fragments of the pairs.
Fragments(pairs) == [n \in DOMAIN pairs |-> Branch(pairs[n][1], pairs[n][2])]

LEMMA EmptyFragments == FlattenSeq(Fragments(<<>>)) = <<>>
<1>1. Fragments(<<>>) = <<>>
  BY DEF Fragments
<1>2. Len(<<>>) = 0
  OBVIOUS
<1>. QED BY <1>1, <1>2 DEF FlattenSeq

LEMMA BranchTyped ==
  ASSUME NEW c \in Text, NEW r \in Text
  PROVE  Branch(c, r) \in Text /\ Branch(c, r) # <<>>
<1>1. /\ <<"WHEN">> \in Text /\ <<"THEN">> \in Text
      /\ <<"WHEN">> \o c \in Text /\ (<<"WHEN">> \o c) \o <<"THEN">> \in Text
  BY TextsTyped DEF Keywords
<1>2. Len(<<"WHEN">> \o c) = 1 + Len(c) /\ Len(c) \in Nat /\ Len(r) \in Nat
  BY <1>1 DEF Text
<1>3. Len(((<<"WHEN">> \o c) \o <<"THEN">>) \o r) = ((1 + Len(c)) + 1) + Len(r)
  BY <1>1, <1>2 DEF Text
<1>4. Len(<<>>) = 0
  OBVIOUS
<1>5. ((<<"WHEN">> \o c) \o <<"THEN">>) \o r # <<>>
  BY <1>2, <1>3, <1>4
<1>. QED BY <1>1, <1>5, TextsTyped DEF Branch

LEMMA FragmentsMore ==
  ASSUME NEW pairs \in Seq(Text \X Text), NEW c \in Text, NEW r \in Text
  PROVE  /\ Append(pairs, <<c, r>>) \in Seq(Text \X Text)
         /\ FlattenSeq(Fragments(Append(pairs, <<c, r>>)))
              = FlattenSeq(Fragments(pairs)) \o Branch(c, r)
<1>. DEFINE pair == <<c, r>>
<1>. DEFINE more == Append(pairs, pair)
<1>. DEFINE n == Len(pairs)
<1>1. pair \in Text \X Text /\ pair[1] = c /\ pair[2] = r
  OBVIOUS
<1>. HIDE DEF pair
<1>2. /\ n \in Nat /\ more \in Seq(Text \X Text) /\ Len(more) = n + 1
      /\ more[n+1] = pair /\ \A k \in 1..n : more[k] = pairs[k]
      /\ DOMAIN pairs = 1..n /\ DOMAIN more = 1..n+1
  BY <1>1, AppendProperties, LenProperties
<1>3. \A k \in 1..n : pairs[k] \in Text \X Text
  BY <1>2, ElementOfSeq
<1>4. \A p \in Text \X Text : Branch(p[1], p[2]) \in Text
  BY BranchTyped
<1>. HIDE DEF more
<1>5. Fragments(pairs) \in Seq(Text) /\ Len(Fragments(pairs)) = n
  BY <1>2, <1>3, <1>4 DEF Fragments
<1>6. Branch(c, r) \in Text
  BY BranchTyped
<1>. DEFINE old == Fragments(pairs)
<1>. DEFINE branch == Branch(c, r)
<1>7. Fragments(more) = Append(old, branch)
  <2>1. Append(old, branch) = [k \in 1..n+1 |-> IF k = n+1 THEN branch ELSE old[k]]
    <3>. HIDE DEF old, branch
    <3>1. old \in Seq(Text) /\ Len(old) = n /\ branch \in Text /\ n \in Nat
      BY <1>2, <1>5, <1>6 DEF old, branch
    <3>. HIDE DEF n
    <3>2. /\ Append(old, branch) \in Seq(Text) /\ Len(Append(old, branch)) = n + 1
          /\ Append(old, branch)[n+1] = branch
          /\ \A k \in 1..n : Append(old, branch)[k] = old[k]
      BY <3>1, AppendProperties
    <3>3. Append(old, branch) = [k \in 1..n+1 |-> Append(old, branch)[k]]
      <4>1. \A q \in Seq(Text) : Len(q) = n+1 => q = [k \in 1..n+1 |-> q[k]]
        OBVIOUS
      <4>. QED BY <3>2, <4>1
    <3>4. \A k \in 1..n+1 : k # n+1 => k \in 1..n
      BY <3>1
    <3>5. \A k \in 1..n+1 : Append(old, branch)[k] = IF k = n+1 THEN branch ELSE old[k]
      BY <3>2, <3>4, Zenon
    <3>. DEFINE appended == Append(old, branch)
    <3>. HIDE DEF appended
    <3>. QED BY <3>3, <3>5, Zenon DEF appended
  <2>2. \A k \in 1..n+1 : Branch(more[k][1], more[k][2]) = IF k = n+1 THEN branch ELSE old[k]
    <3>1. \A k \in 1..n : old[k] = Branch(pairs[k][1], pairs[k][2])
      BY <1>2 DEF Fragments
    <3>2. \A k \in 1..n+1 : k # n+1 => k \in 1..n
      BY <1>2
    <3>. HIDE DEF old, n
    <3>. QED BY <1>1, <1>2, <3>1, <3>2, Zenon
  <2>3. Fragments(more) = [k \in 1..n+1 |-> Branch(more[k][1], more[k][2])]
    <3>. HIDE DEF n
    <3>. QED BY <1>2, Zenon DEF Fragments
  <2>. HIDE DEF old, branch, n
  <2>. QED BY <2>1, <2>2, <2>3, Zenon
<1>8. FlattenSeq(Append(old, branch)) = FlattenSeq(old) \o branch
  <2>. HIDE DEF old, branch
  <2>1. old \in Seq(Seq(Tokens)) /\ branch \in Seq(Tokens)
    BY <1>5, <1>6 DEF old, branch, Text
  <2>. QED BY <2>1, FlattenMore
<1>. QED BY <1>2, <1>7, <1>8, Zenon DEF more, pair

\* A part read from its beginning.
LEMMA PartReads ==
  ASSUME NEW ws, IsPart(ws), NEW place \in Parts, NEW pairs, NEW when
  PROVE  ReadOn(At(place, pairs, when, <<>>, 0), ws) = At(place, pairs, when, ws, 0)
<1>1. <<>> \in Text /\ <<>> \o ws = ws /\ 0 \in Nat
  BY TextsTyped DEF IsPart
<1>. DEFINE none == <<>>
<1>2. none \in Text /\ none \o ws = ws
  BY <1>1
<1>. HIDE DEF none
<1>3. ReadOn(At(place, pairs, when, none, 0), ws) = At(place, pairs, when, none \o ws, 0)
  BY <1>1, <1>2 DEF IsPart
<1>. QED BY <1>2, <1>3 DEF none

\* A pair read: from CASE or behind a pair.
LEMMA BranchReads ==
  ASSUME NEW c, NEW r, IsPart(c), IsPart(r),
         NEW place \in {"case", "then"}, NEW pairs, NEW when, NEW part
  PROVE  ReadOn(At(place, pairs, when, part, 0), Branch(c, r))
           = At("then", IF place = "then" THEN Append(pairs, <<when, part>>) ELSE pairs, c, r, 0)
<1>. DEFINE s == At(place, pairs, when, part, 0)
<1>. DEFINE list == IF place = "then" THEN Append(pairs, <<when, part>>) ELSE pairs
<1>1. /\ "WHEN" \in Keywords \ {"CASE"} /\ "THEN" \in Keywords \ {"CASE"}
      /\ <<"WHEN">> \in Text /\ <<"THEN">> \in Text
      /\ "when" \in Parts /\ "then" \in Parts /\ 0 \in Nat
  BY TextsTyped DEF Keywords, Parts
<1>2. c \in Text /\ r \in Text /\ <<>> \in Text /\ <<>> \o c = c /\ <<>> \o r = r
  BY TextsTyped DEF IsPart
<1>3. <<"WHEN">> \o c \in Text /\ (<<"WHEN">> \o c) \o <<"THEN">> \in Text
  BY <1>1, <1>2, TextsTyped
<1>4. ReadOn(s, <<"WHEN">>) = At("when", list, when, <<>>, 0)
  <2>1. ReadToken(s, "WHEN") = Ended(s, "WHEN")
    BY <1>1, TokenEnds
  <2>2. Ended(s, "WHEN") = At("when", list, when, <<>>, 0)
    BY WordsEnd
  <2>. HIDE DEF s, list
  <2>. QED BY <2>1, <2>2, ReadOnWord, Zenon
<1>. HIDE DEF list
<1>5. ReadOn(At("when", list, when, <<>>, 0), c) = At("when", list, when, c, 0)
  BY <1>1, PartReads
<1>6. ReadOn(At("when", list, when, c, 0), <<"THEN">>) = At("then", list, c, <<>>, 0)
  <2>1. ReadToken(At("when", list, when, c, 0), "THEN") = Ended(At("when", list, when, c, 0), "THEN")
    BY <1>1, TokenEnds
  <2>2. Ended(At("when", list, when, c, 0), "THEN") = At("then", list, c, <<>>, 0)
    BY WordsEnd
  <2>. QED BY <2>1, <2>2, ReadOnWord, Zenon
<1>7. ReadOn(At("then", list, c, <<>>, 0), r) = At("then", list, c, r, 0)
  BY <1>1, PartReads
<1>. HIDE DEF s
<1>8. ReadOn(s, ((<<"WHEN">> \o c) \o <<"THEN">>) \o r)
        = ReadOn(ReadOn(ReadOn(ReadOn(s, <<"WHEN">>), c), <<"THEN">>), r)
  BY <1>1, <1>2, <1>3, ReadOnBoth
<1>9. ReadOn(s, ((<<"WHEN">> \o c) \o <<"THEN">>) \o r) = At("then", list, c, r, 0)
  BY <1>4, <1>5, <1>6, <1>7, <1>8, Zenon
<1>. QED BY <1>9 DEF s, list, Branch

LEMMA BranchInner ==
  ASSUME NEW c, NEW r, IsPart(c), IsPart(r)
  PROVE  IsInner(Branch(c, r))
<1>1. IsInner(<<"WHEN">>) /\ IsInner(<<"THEN">>) /\ IsInner(c) /\ IsInner(r)
  BY WordInner, PartInner
<1>2. IsInner(<<"WHEN">> \o c)
  BY <1>1, InnerBoth
<1>3. IsInner((<<"WHEN">> \o c) \o <<"THEN">>)
  BY <1>1, <1>2, InnerBoth
<1>4. IsInner(((<<"WHEN">> \o c) \o <<"THEN">>) \o r)
  BY <1>1, <1>3, InnerBoth
<1>. QED BY <1>4 DEF Branch

-----------------------------------------------------------------------------
\* The finished pairs, read behind CASE.
PairsRead(ws, list) ==
  IF ws = <<>> THEN list = <<>>
  ELSE \E pairs, when, part :
         /\ ReadOn(At("case", <<>>, <<>>, <<>>, 0), ws) = At("then", pairs, when, part, 0)
         /\ list = Append(pairs, <<when, part>>)

Given == [when : Text, pairs : Seq(Text \X Text), fallback : Text]

Outcomes == {"ok", "rendered", "LogicError"}

\* The inductive invariant: what the client holds and the last call returned, and
\* the members against what the builder was given.
HandOK ==
  /\ hasPendingWhen \in BOOLEAN
  /\ outcome \in Outcomes
  /\ \A e \in exprs : IsPart(e)
  /\ text \in Text

BuilderOK ==
  /\ given \in Given
  /\ IsPart(given.when) /\ IsPart(given.fallback)
  /\ hasPendingWhen => pendingWhen = given.when
  /\ elseText = given.fallback
  /\ whens = FlattenSeq(Fragments(given.pairs))
  /\ IsInner(whens)
  /\ PairsRead(whens, given.pairs)

Inv == HandOK /\ BuilderOK /\ EndReadsBack

\* One more pair.
LEMMA PairsReadMore ==
  ASSUME NEW ws, IsInner(ws), NEW list, PairsRead(ws, list), NEW c, NEW r, IsPart(c), IsPart(r)
  PROVE  /\ IsInner(ws \o Branch(c, r))
         /\ PairsRead(ws \o Branch(c, r), Append(list, <<c, r>>))
<1>. DEFINE branch == Branch(c, r)
<1>. DEFINE start == At("case", <<>>, <<>>, <<>>, 0)
<1>1. IsInner(branch) /\ branch \in Text /\ branch # <<>> /\ ws \in Text
  BY BranchInner, BranchTyped DEF IsPart, IsInner
<1>2. IsInner(ws \o branch)
  BY <1>1, InnerBoth
<1>3. ws \o branch # <<>>
  BY <1>1 DEF Text
<1>4. ReadOn(start, ws \o branch) = ReadOn(ReadOn(start, ws), branch)
  BY <1>1, ReadOnBoth
<1>5. \E pairs, when, part :
        /\ ReadOn(start, ws \o branch) = At("then", pairs, when, part, 0)
        /\ Append(list, <<c, r>>) = Append(pairs, <<when, part>>)
  <2>1. CASE ws = <<>>
    <3>1. list = <<>>
      BY <2>1 DEF PairsRead
    <3>2. ReadOn(start, ws) = start
      BY <2>1, ReadOnNone
    <3>3. ReadOn(start, branch) = At("then", <<>>, c, r, 0)
      BY BranchReads
    <3>. HIDE DEF start, branch
    <3>4. ReadOn(start, ws \o branch) = At("then", <<>>, c, r, 0)
      BY <1>4, <3>2, <3>3, Zenon
    <3>. QED BY <3>1, <3>4, Zenon
  <2>2. CASE ws # <<>>
    <3>1. PICK pairs, when, part :
            /\ ReadOn(start, ws) = At("then", pairs, when, part, 0)
            /\ list = Append(pairs, <<when, part>>)
      BY <2>2, Zenon DEF PairsRead
    <3>2. ReadOn(At("then", pairs, when, part, 0), branch)
            = At("then", Append(pairs, <<when, part>>), c, r, 0)
      BY BranchReads
    <3>. HIDE DEF start, branch
    <3>3. ReadOn(start, ws \o branch) = At("then", list, c, r, 0)
      BY <1>4, <3>1, <3>2, Zenon
    <3>. QED BY <3>3, Zenon
  <2>. QED BY <2>1, <2>2
<1>6. PairsRead(ws \o branch, Append(list, <<c, r>>))
  <2>. HIDE DEF branch
  <2>. QED BY <1>3, <1>5, Zenon DEF PairsRead
<1>. QED BY <1>2, <1>6

\* The text of the CASE is a part, and is read as what was given.
LEMMA CaseTextReads ==
  ASSUME BuilderOK, whens # <<>>
  PROVE  /\ IsPart(CaseText)
         /\ ReadCase(CaseText) = <<[pairs |-> given.pairs, fallback |-> given.fallback]>>
<1>. DEFINE tail == IF elseText # <<>> THEN <<"ELSE">> \o elseText ELSE <<>>
<1>. DEFINE start == At("case", <<>>, <<>>, <<>>, 0)
<1>1. /\ IsInner(whens) /\ whens \in Text
      /\ IsPart(elseText) /\ IsInner(elseText) /\ elseText \in Text
      /\ elseText = given.fallback
  BY PartInner DEF BuilderOK, IsInner, IsPart
<1>2. /\ "CASE" \in Keywords /\ <<"CASE">> \in Text /\ <<"END">> \in Text /\ <<"ELSE">> \in Text
      /\ "END" \in Keywords \ {"CASE"} /\ "ELSE" \in Keywords \ {"CASE"}
      /\ "else" \in Parts /\ "then" \in Parts
  BY TextsTyped DEF Keywords, Parts
<1>3. IsInner(tail) /\ tail \in Text
  <2>1. CASE elseText # <<>>
    <3>1. IsInner(<<"ELSE">>)
      BY WordInner
    <3>2. IsInner(<<"ELSE">> \o elseText)
      BY <1>1, <3>1, InnerBoth
    <3>. QED BY <2>1, <3>2 DEF IsInner
  <2>2. CASE elseText = <<>>
    <3>1. tail = <<>>
      BY <2>2
    <3>2. IsInner(<<>>)
      BY NoneIsPart, PartInner
    <3>3. <<>> \in Text
      BY DEF Text
    <3>. HIDE DEF tail
    <3>. QED BY <3>1, <3>2, <3>3
  <2>. QED BY <2>1, <2>2
<1>. HIDE DEF tail
<1>4. /\ CaseText = ((<<"CASE">> \o whens) \o tail) \o <<"END">>
      /\ (<<"CASE">> \o whens) \o tail = <<"CASE">> \o (whens \o tail)
  <2>1. CaseText = ((<<"CASE">> \o whens) \o tail) \o <<"END">>
    BY DEF CaseText, tail
  <2>. QED BY <1>1, <1>2, <1>3, <2>1, TextsAssociate
<1>5. IsPart(CaseText)
  <2>1. IsInner(whens \o tail)
    BY <1>1, <1>3, InnerBoth
  <2>2. IsPart((<<"CASE">> \o (whens \o tail)) \o <<"END">>)
    BY <2>1, CaseIsPart
  <2>. QED BY <1>4, <2>2, Zenon
<1>6. PICK pairs, when, part :
        /\ ReadOn(start, whens) = At("then", pairs, when, part, 0)
        /\ given.pairs = Append(pairs, <<when, part>>)
  BY Zenon DEF BuilderOK, PairsRead
<1>. DEFINE list == Append(pairs, <<when, part>>)
<1>7. ReadOn(Beginning, CaseText)
        = ReadOn(ReadOn(ReadOn(ReadOn(Beginning, <<"CASE">>), whens), tail), <<"END">>)
  <2>1. <<"CASE">> \o whens \in Text /\ (<<"CASE">> \o whens) \o tail \in Text
    BY <1>1, <1>2, <1>3, TextsTyped
  <2>. QED BY <1>1, <1>2, <1>3, <1>4, <2>1, ReadOnBoth
<1>8. ReadOn(Beginning, <<"CASE">>) = start
  BY BeginningReads, ReadOnWord
<1>. HIDE DEF start, list
<1>9. \E w : ReadOn(Beginning, CaseText) = At("end", list, w, elseText, 0)
  <2>1. CASE elseText # <<>>
    <3>1. ReadOn(At("then", pairs, when, part, 0), <<"ELSE">>) = At("else", list, when, <<>>, 0)
      <4>1. ReadToken(At("then", pairs, when, part, 0), "ELSE")
              = Ended(At("then", pairs, when, part, 0), "ELSE")
        BY <1>2, TokenEnds
      <4>2. Ended(At("then", pairs, when, part, 0), "ELSE") = At("else", list, when, <<>>, 0)
        BY WordsEnd DEF list
      <4>. QED BY <4>1, <4>2, ReadOnWord, Zenon
    <3>2. ReadOn(At("else", list, when, <<>>, 0), elseText) = At("else", list, when, elseText, 0)
      BY <1>1, <1>2, PartReads
    <3>3. ReadOn(At("else", list, when, elseText, 0), <<"END">>) = At("end", list, when, elseText, 0)
      <4>1. ReadToken(At("else", list, when, elseText, 0), "END")
              = Ended(At("else", list, when, elseText, 0), "END")
        BY <1>2, TokenEnds
      <4>2. Ended(At("else", list, when, elseText, 0), "END") = At("end", list, when, elseText, 0)
        BY WordsEnd
      <4>. QED BY <4>1, <4>2, ReadOnWord, Zenon
    <3>4. ReadOn(At("then", pairs, when, part, 0), tail) = At("else", list, when, elseText, 0)
      <4>1. tail = <<"ELSE">> \o elseText
        BY <2>1 DEF tail
      <4>2. ReadOn(At("then", pairs, when, part, 0), <<"ELSE">> \o elseText)
              = ReadOn(ReadOn(At("then", pairs, when, part, 0), <<"ELSE">>), elseText)
        BY <1>1, <1>2, ReadOnBoth
      <4>. QED BY <3>1, <3>2, <4>1, <4>2, Zenon
    <3>. QED BY <1>6, <1>7, <1>8, <3>3, <3>4, Zenon
  <2>2. CASE elseText = <<>>
    <3>1. ReadOn(At("then", pairs, when, part, 0), tail) = At("then", pairs, when, part, 0)
      BY <2>2, ReadOnNone DEF tail
    <3>2. ReadOn(At("then", pairs, when, part, 0), <<"END">>) = At("end", list, when, <<>>, 0)
      <4>1. ReadToken(At("then", pairs, when, part, 0), "END")
              = Ended(At("then", pairs, when, part, 0), "END")
        BY <1>2, TokenEnds
      <4>2. Ended(At("then", pairs, when, part, 0), "END") = At("end", list, when, <<>>, 0)
        BY WordsEnd DEF list
      <4>. QED BY <4>1, <4>2, ReadOnWord, Zenon
    <3>. QED BY <1>6, <1>7, <1>8, <2>2, <3>1, <3>2, Zenon
  <2>. QED BY <2>1, <2>2
<1>10. PICK w : ReadOn(Beginning, CaseText) = At("end", list, w, elseText, 0)
  BY <1>9
<1>11. /\ At("end", list, w, elseText, 0).place = "end"
       /\ At("end", list, w, elseText, 0).pairs = list
       /\ At("end", list, w, elseText, 0).part = elseText
  BY DEF At
<1>12. ReadCase(CaseText) = <<[pairs |-> list, fallback |-> elseText]>>
  BY <1>10, <1>11 DEF ReadCase
<1>13. list = given.pairs
  BY <1>6 DEF list
<1>. QED BY <1>1, <1>5, <1>12, <1>13

-----------------------------------------------------------------------------
LEMMA Initially == Init => Inv
<1>. SUFFICES ASSUME Init PROVE Inv
  OBVIOUS
<1>1. HandOK
  <2>1. \A e \in Results : e \in Text /\ IsClosed(e)
    BY CaseAssumption
  <2>2. \A e \in Results : IsPart(e)
    BY <2>1, ClosedIsPart
  <2>. QED BY <2>2, TextsTyped DEF Init, HandOK, Outcomes
<1>2. BuilderOK
  <2>1. given = Nothing /\ Nothing \in Given /\ Nothing.when = <<>> /\ Nothing.fallback = <<>>
        /\ Nothing.pairs = <<>>
    <3>1. <<>> \in Seq(Text \X Text)
      OBVIOUS
    <3>. QED BY <3>1, TextsTyped DEF Nothing, Given, Init
  <2>2. FlattenSeq(Fragments(<<>>)) = <<>>
    BY EmptyFragments
  <2>. QED BY <2>1, <2>2, NoneIsPart, PartInner DEF Init, BuilderOK, PairsRead
<1>3. EndReadsBack
  BY DEF Init, EndReadsBack
<1>. QED BY <1>1, <1>2, <1>3 DEF Inv

\* What is no step of End: the expressions and the text follow at once.
LEMMA ReturnKeeps ==
  ASSUME Inv, NEW status \in {"ok", "LogicError"}, Return(status), hasPendingWhen' \in BOOLEAN,
         BuilderOK'
  PROVE  Inv'
<1>1. outcome' = status /\ text' = <<>> /\ exprs' = exprs
  BY DEF Return
<1>2. HandOK'
  BY <1>1, TextsTyped DEF Inv, HandOK, Outcomes
<1>3. EndReadsBack'
  <2>1. outcome' # "rendered"
    BY <1>1
  <2>. QED BY <2>1 DEF EndReadsBack
<1>. QED BY <1>2, <1>3 DEF Inv

LEMMA ThrowKeeps ==
  ASSUME Inv, Throw
  PROVE  Inv'
<1>1. /\ whens' = whens /\ pendingWhen' = pendingWhen /\ elseText' = elseText
      /\ hasPendingWhen' = hasPendingWhen /\ given' = given
  BY DEF Throw, fields
<1>2. BuilderOK'
  BY <1>1 DEF Inv, BuilderOK
<1>3. hasPendingWhen' \in BOOLEAN
  BY <1>1 DEF Inv, HandOK
<1>. QED BY <1>2, <1>3, ReturnKeeps DEF Throw

LEMMA WhenKeeps ==
  ASSUME Inv, NEW cond \in Conditions, When(cond)
  PROVE  Inv'
<1>1. CASE hasPendingWhen /\ Throw
  BY <1>1, ThrowKeeps
<1>2. CASE /\ pendingWhen' = cond /\ hasPendingWhen' = TRUE
           /\ given' = [given EXCEPT !.when = cond]
           /\ Return("ok") /\ whens' = whens /\ elseText' = elseText
  <2>1. IsPart(cond) /\ cond \in Text
    BY CaseAssumption, ClosedIsPart
  <2>2. given \in Given
    BY DEF Inv, BuilderOK
  <2>3. /\ given' \in Given /\ given'.when = cond /\ given'.pairs = given.pairs
        /\ given'.fallback = given.fallback
    BY <1>2, <2>1, <2>2 DEF Given
  <2>4. BuilderOK'
    BY <1>2, <2>1, <2>3 DEF Inv, BuilderOK
  <2>. QED BY <1>2, <2>4, ReturnKeeps
<1>. QED BY <1>1, <1>2 DEF When

LEMMA ThenKeeps ==
  ASSUME Inv, NEW result \in exprs, Then(result)
  PROVE  Inv'
<1>1. CASE ~hasPendingWhen /\ Throw
  BY <1>1, ThrowKeeps
<1>2. CASE /\ hasPendingWhen
           /\ whens' = whens \o Branch(pendingWhen, result)
           /\ hasPendingWhen' = FALSE
           /\ given' = [given EXCEPT !.pairs = Append(@, <<given.when, result>>)]
           /\ Return("ok") /\ elseText' = elseText
  <2>. DEFINE c == given.when
  <2>. DEFINE list == given.pairs
  <2>. DEFINE more == Append(list, <<c, result>>)
  <2>1. /\ IsPart(result) /\ result \in Text /\ IsPart(c) /\ c \in Text
        /\ pendingWhen = c /\ given \in Given /\ list \in Seq(Text \X Text)
        /\ IsInner(whens) /\ PairsRead(whens, list)
        /\ whens = FlattenSeq(Fragments(list))
    BY <1>2 DEF Inv, HandOK, BuilderOK, IsPart, Given
  <2>. HIDE DEF c, list
  <2>2. /\ more \in Seq(Text \X Text)
        /\ FlattenSeq(Fragments(more)) = FlattenSeq(Fragments(list)) \o Branch(c, result)
    BY <2>1, FragmentsMore
  <2>3. IsInner(whens') /\ PairsRead(whens', more)
    BY <1>2, <2>1, PairsReadMore
  <2>4. /\ given' \in Given /\ given'.when = c /\ given'.pairs = more
        /\ given'.fallback = given.fallback
    <3>1. given' = [given EXCEPT !.pairs = more]
      BY <1>2 DEF c, list
    <3>. HIDE DEF more
    <3>. QED BY <2>1, <2>2, <3>1 DEF Given, c
  <2>5. whens' = FlattenSeq(Fragments(given'.pairs))
    BY <1>2, <2>1, <2>2, <2>4
  <2>. HIDE DEF more
  <2>6. PairsRead(whens', given'.pairs)
    BY <2>3, <2>4
  <2>7. IsPart(given'.fallback) /\ elseText' = given'.fallback
    BY <1>2, <2>4 DEF Inv, BuilderOK
  <2>8. BuilderOK'
    BY <1>2, <2>1, <2>3, <2>4, <2>5, <2>6, <2>7 DEF BuilderOK
  <2>. QED BY <1>2, <2>8, ReturnKeeps
<1>. QED BY <1>1, <1>2 DEF Then

LEMMA ElseKeeps ==
  ASSUME Inv, NEW result \in exprs, Else(result)
  PROVE  Inv'
<1>1. /\ elseText' = result /\ given' = [given EXCEPT !.fallback = result]
      /\ Return("ok") /\ whens' = whens /\ pendingWhen' = pendingWhen
      /\ hasPendingWhen' = hasPendingWhen
  BY DEF Else
<1>2. IsPart(result) /\ result \in Text /\ given \in Given /\ hasPendingWhen' \in BOOLEAN
  BY <1>1 DEF Inv, HandOK, BuilderOK, IsPart
<1>3. /\ given' \in Given /\ given'.when = given.when /\ given'.pairs = given.pairs
      /\ given'.fallback = result
  BY <1>1, <1>2 DEF Given
<1>4. BuilderOK'
  BY <1>1, <1>2, <1>3 DEF Inv, BuilderOK
<1>. QED BY <1>1, <1>2, <1>4, ReturnKeeps

LEMMA EndKeeps ==
  ASSUME Inv, End
  PROVE  Inv'
<1>1. CASE whens = <<>> /\ Throw
  BY <1>1, ThrowKeeps
<1>2. CASE /\ whens # <<>> /\ outcome' = "rendered" /\ text' = CaseText
           /\ exprs' = exprs \cup (IF Len(CaseText) <= MaxLength THEN {CaseText} ELSE {})
           /\ UNCHANGED <<fields, given>>
  <2>1. /\ whens' = whens /\ pendingWhen' = pendingWhen /\ elseText' = elseText
        /\ hasPendingWhen' = hasPendingWhen /\ given' = given
    BY <1>2 DEF fields
  <2>2. BuilderOK'
    BY <2>1 DEF Inv, BuilderOK
  <2>3. /\ IsPart(CaseText)
        /\ ReadCase(CaseText) = <<[pairs |-> given.pairs, fallback |-> given.fallback]>>
    BY <1>2, CaseTextReads DEF Inv
  <2>4. HandOK'
    <3>1. \A e \in exprs' : IsPart(e)
      BY <1>2, <2>3 DEF Inv, HandOK
    <3>2. text' \in Text
      BY <1>2, <2>3 DEF IsPart
    <3>. QED BY <1>2, <2>1, <3>1, <3>2 DEF Inv, HandOK, Outcomes
  <2>5. EndReadsBack'
    <3>1. ReadCase(text') = <<[pairs |-> given'.pairs, fallback |-> given'.fallback]>>
      BY <1>2, <2>1, <2>3
    <3>. QED BY <3>1 DEF EndReadsBack
  <2>. QED BY <2>2, <2>4, <2>5 DEF Inv
<1>. QED BY <1>1, <1>2 DEF End

\* Move and Case both start over; only Case resets the flag.
LEMMA EmptiedKeeps ==
  ASSUME Inv, Emptied, hasPendingWhen' \in BOOLEAN
  PROVE  Inv'
<1>1. /\ whens' = <<>> /\ pendingWhen' = <<>> /\ elseText' = <<>> /\ given' = Nothing
      /\ Return("ok")
  BY DEF Emptied
<1>2. /\ Nothing \in Given /\ Nothing.when = <<>> /\ Nothing.fallback = <<>>
      /\ Nothing.pairs = <<>>
  <2>1. <<>> \in Seq(Text \X Text)
    OBVIOUS
  <2>. QED BY <2>1, TextsTyped DEF Nothing, Given
<1>3. BuilderOK'
  BY <1>1, <1>2, EmptyFragments, NoneIsPart, PartInner DEF BuilderOK, PairsRead
<1>. QED BY <1>1, <1>3, ReturnKeeps

LEMMA Stepwise == Inv /\ [Next]_vars => Inv'
<1>. SUFFICES ASSUME Inv, [Next]_vars PROVE Inv'
  OBVIOUS
<1>1. ASSUME NEW cond \in Conditions, When(cond) PROVE Inv'
  BY <1>1, WhenKeeps
<1>2. ASSUME NEW result \in exprs, Then(result) \/ Else(result) PROVE Inv'
  BY <1>2, ThenKeeps, ElseKeeps
<1>3. CASE End
  BY <1>3, EndKeeps
<1>4. CASE Move
  <2>1. hasPendingWhen' \in BOOLEAN
    BY <1>4 DEF Move, Inv, HandOK
  <2>. QED BY <1>4, <2>1, EmptiedKeeps DEF Move
<1>5. CASE Case
  <2>1. hasPendingWhen' \in BOOLEAN
    BY <1>5 DEF Case
  <2>. QED BY <1>5, <2>1, EmptiedKeeps DEF Case
<1>6. CASE UNCHANGED vars
  BY <1>6 DEF vars, fields, Inv, HandOK, BuilderOK, EndReadsBack
<1>. QED BY <1>1, <1>2, <1>3, <1>4, <1>5, <1>6 DEF Next

LEMMA Invariant == Spec => []Inv
BY Initially, Stepwise, PTL DEF Spec

LEMMA InvTyped == Inv => TypeOK
<1>. SUFFICES ASSUME Inv PROVE TypeOK
  OBVIOUS
<1>1. hasPendingWhen \in BOOLEAN /\ exprs \subseteq Text /\ text \in Text /\ outcome \in Outcomes
  BY DEF Inv, HandOK, IsPart
<1>2. given.when \in Text /\ given.pairs \in Seq(Text \X Text) /\ given.fallback \in Text
  BY DEF Inv, BuilderOK, Given
<1>3. whens = FlattenSeq([n \in DOMAIN given.pairs |->
                           Branch(given.pairs[n][1], given.pairs[n][2])])
  BY DEF Inv, BuilderOK, Fragments
<1>. QED BY <1>1, <1>2, <1>3 DEF TypeOK, Inv, BuilderOK, Outcomes

-----------------------------------------------------------------------------
\* The members whens_, pending_when_ and else_ of a CaseBuilder are at any time
\* the texts of what it was given (case_builder.cpp:7-34), for any conditions,
\* results and order of calls, failed ones and moves included.
THEOREM TypeCorrect == Spec => []TypeOK
BY Invariant, InvTyped, PTL

\* case_builder.hpp:18-36, for any conditions and results and any number of
\* pairs, and for CASEs within CASEs to any depth: what End returns reads back
\* as the completed pairs, in their order, and the last ELSE.
THEOREM CasesReadBack == Spec => []EndReadsBack
<1>1. Inv => EndReadsBack
  BY DEF Inv
<1>. QED BY Invariant, <1>1, PTL
===============================================================================
