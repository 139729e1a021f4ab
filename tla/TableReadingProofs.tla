-------------------------- MODULE TableReadingProofs --------------------------
(***************************************************************************)
(* Theorems about table expressions, for any tables, joins, set            *)
(* operations, SELECTs and WITH queries put into one another: their texts  *)
(* read back as the calls that made them, in both renderings, and a WITH   *)
(* clause defines no name twice.                                           *)
(***************************************************************************)
EXTENDS TableReading, TextLemmas, FiniteSetTheorems

\* The recursion of Ended, n frames deep.
Ends(f, s, kinds, n) ==
  f = [k \in 0..n |-> IF k = 0 THEN s ELSE CompleteTop(f[k-1], kinds)]

\* It has a solution.
LEMMA EndingExists ==
  ASSUME NEW s, NEW kinds, NEW n \in Nat
  PROVE  \E f : Ends(f, s, kinds, n)
<1>. DEFINE T == {m \in 0..n : ~\E f : Ends(f, s, kinds, m)}
<1>1. SUFFICES ASSUME T # {} PROVE FALSE
  <2>1. n \in 0..n
    OBVIOUS
  <2>. QED BY <2>1, Zenon
<1>2. PICK m \in T : \A k \in T : m <= k
  <2>1. T \in SUBSET Nat
    OBVIOUS
  <2>. HIDE DEF T
  <2>. QED BY <1>1, <2>1, LeastNat
<1>3. m # 0
  <2>1. Ends([k \in 0..0 |-> s], s, kinds, 0)
    BY DEF Ends
  <2>. QED BY <2>1
<1>4. m \in 1..n /\ m-1 \in 0..n /\ ~(m <= m-1)
  BY <1>3
<1>5. PICK f : Ends(f, s, kinds, m-1)
  <2>1. m-1 \notin T
    BY <1>2, <1>4
  <2>. QED BY <1>4, <2>1
<1>. DEFINE g == [k \in 0..m |-> IF k = 0 THEN s ELSE CompleteTop(f[k-1], kinds)]
<1>6. \A k \in 0..m-1 : g[k] = f[k]
  <2>1. \A k \in 0..m-1 : k \in 0..m
    BY <1>4
  <2>. QED BY <1>5, <2>1, Zenon DEF Ends
<1>7. \A k \in 0..m : (IF k = 0 THEN s ELSE CompleteTop(f[k-1], kinds))
                      = (IF k = 0 THEN s ELSE CompleteTop(g[k-1], kinds))
  <2>1. \A k \in 0..m : k # 0 => k-1 \in 0..m-1
    BY <1>4
  <2>. HIDE DEF g
  <2>. QED BY <1>6, <2>1, Zenon
<1>8. Ends(g, s, kinds, m)
  <2>1. g = [k \in 0..m |-> IF k = 0 THEN s ELSE CompleteTop(g[k-1], kinds)]
    BY <1>7, Zenon
  <2>. QED BY <2>1 DEF Ends
<1>. QED BY <1>8

\* Ended goes through as many frames as there are.
LEMMA EndedUnfolds ==
  ASSUME NEW s, NEW kinds, s.stack.height \in Nat
  PROVE  \E f : /\ Ended(s, kinds) = f[s.stack.height]
                /\ f[0] = s
                /\ \A k \in 1..s.stack.height : f[k] = CompleteTop(f[k-1], kinds)
<1>. DEFINE n == s.stack.height
<1>. DEFINE f == CHOOSE f : Ends(f, s, kinds, n)
<1>1. n \in Nat
  OBVIOUS
<1>2. Ends(f, s, kinds, n)
  <2>1. \E g : Ends(g, s, kinds, n)
    BY EndingExists
  <2>. QED BY <2>1, Zenon
<1>3. Ended(s, kinds) = f[n]
  BY Zenon DEF Ended, Ends
<1>. HIDE DEF f, n
<1>4. f[0] = s /\ \A k \in 1..n : f[k] = CompleteTop(f[k-1], kinds)
  <2>1. 0 \in 0..n /\ \A k \in 1..n : k \in 0..n /\ k # 0
    BY <1>1
  <2>. QED BY <1>2, <2>1, Zenon DEF Ends
<1>. QED BY <1>3, <1>4 DEF n

\* What is not of these kinds stays, and all that is open around it.
LEMMA EndedStops ==
  ASSUME NEW s, NEW kinds, s.stack.height \in Nat,
         s.value = <<>> \/ s.stack.frame.kind \notin kinds
  PROVE  Ended(s, kinds) = s
<1>. DEFINE n == s.stack.height
<1>1. PICK f : /\ Ended(s, kinds) = f[n]
               /\ f[0] = s
               /\ \A k \in 1..n : f[k] = CompleteTop(f[k-1], kinds)
  BY EndedUnfolds
<1>2. CompleteTop(s, kinds) = s
  BY Zenon DEF CompleteTop
<1>3. n \in Nat
  OBVIOUS
<1>. HIDE DEF n
<1>4. \A k \in 0..n : f[k] = s
  <2>. DEFINE T == {k \in 0..n : f[k] # s}
  <2>1. SUFFICES ASSUME T # {} PROVE FALSE
    OBVIOUS
  <2>2. PICK m \in T : \A k \in T : m <= k
    <3>1. T \in SUBSET Nat
      BY <1>3
    <3>. HIDE DEF T
    <3>. QED BY <2>1, <3>1, LeastNat
  <2>3. m # 0
    BY <1>1
  <2>4. m \in 1..n /\ m-1 \in 0..n /\ ~(m <= m-1)
    BY <1>3, <2>3
  <2>5. f[m-1] = s
    BY <2>2, <2>4
  <2>6. f[m] = s
    BY <1>1, <1>2, <2>4, <2>5
  <2>. QED BY <2>6
<1>. QED BY <1>1, <1>3, <1>4

\* What is of these kinds is complete, and what is around it is looked at.
LEMMA EndedGoesOn ==
  ASSUME NEW stack, NEW frame, NEW tree, NEW kinds, stack.height \in Nat, frame.kind \in kinds
  PROVE  Ended(Holding(Push(frame, stack), tree), kinds)
           = Ended(Holding(stack, Complete(frame, tree)), kinds)
<1>. DEFINE s == Holding(Push(frame, stack), tree)
<1>. DEFINE r == Holding(stack, Complete(frame, tree))
<1>. DEFINE n == stack.height
<1>1. /\ s.stack.height = n + 1 /\ r.stack.height = n /\ n \in Nat
      /\ CompleteTop(s, kinds) = r
  <2>1. <<tree>> # <<>> /\ <<tree>>[1] = tree
    OBVIOUS
  <2>. QED BY <2>1 DEF Holding, Push, CompleteTop
<1>. HIDE DEF s, r, n
<1>2. PICK f : /\ Ended(s, kinds) = f[n+1]
               /\ f[0] = s
               /\ \A k \in 1..n+1 : f[k] = CompleteTop(f[k-1], kinds)
  <2>1. s.stack.height \in Nat
    BY <1>1
  <2>. QED BY <1>1, <2>1, EndedUnfolds
<1>3. PICK g : /\ Ended(r, kinds) = g[n]
               /\ g[0] = r
               /\ \A k \in 1..n : g[k] = CompleteTop(g[k-1], kinds)
  BY <1>1, EndedUnfolds
<1>4. \A k \in 0..n : f[k+1] = g[k]
  <2>. DEFINE T == {k \in 0..n : f[k+1] # g[k]}
  <2>1. SUFFICES ASSUME T # {} PROVE FALSE
    OBVIOUS
  <2>2. PICK m \in T : \A k \in T : m <= k
    <3>1. T \in SUBSET Nat
      BY <1>1
    <3>. HIDE DEF T
    <3>. QED BY <2>1, <3>1, LeastNat
  <2>3. m # 0
    <3>1. 1 \in 1..n+1 /\ 1-1 = 0 /\ 0+1 = 1
      BY <1>1
    <3>2. f[1] = r
      BY <1>1, <1>2, <3>1
    <3>. QED BY <1>3, <3>1, <3>2
  <2>4. m \in 1..n /\ m+1 \in 1..n+1 /\ (m+1)-1 = (m-1)+1 /\ m-1 \in 0..n /\ ~(m <= m-1)
    BY <1>1, <2>3
  <2>5. f[(m-1)+1] = g[m-1]
    BY <2>2, <2>4
  <2>6. f[m+1] = CompleteTop(f[(m+1)-1], kinds) /\ g[m] = CompleteTop(g[m-1], kinds)
    BY <1>2, <1>3, <2>4, Zenon
  <2>7. f[m+1] = g[m]
    BY <2>4, <2>5, <2>6, Zenon
  <2>. QED BY <2>7
<1>5. Ended(s, kinds) = Ended(r, kinds)
  BY <1>1, <1>2, <1>3, <1>4
<1>. QED BY <1>5 DEF s, r

-----------------------------------------------------------------------------
\* The recursion of ReadOn, over the first n tokens.
ReadsOn(f, s, text, n) ==
  f = [k \in 0..n |-> IF k = 0 THEN s ELSE ReadToken(f[k-1], text[k])]

\* It has a solution.
LEMMA ReadingExists ==
  ASSUME NEW s, NEW text, NEW n \in Nat
  PROVE  \E f : ReadsOn(f, s, text, n)
<1>. DEFINE T == {m \in 0..n : ~\E f : ReadsOn(f, s, text, m)}
<1>1. SUFFICES ASSUME T # {} PROVE FALSE
  <2>1. n \in 0..n
    OBVIOUS
  <2>. QED BY <2>1, Zenon
<1>2. PICK m \in T : \A k \in T : m <= k
  <2>1. T \in SUBSET Nat
    OBVIOUS
  <2>. HIDE DEF T
  <2>. QED BY <1>1, <2>1, LeastNat
<1>3. m # 0
  <2>1. ReadsOn([k \in 0..0 |-> s], s, text, 0)
    BY DEF ReadsOn
  <2>. QED BY <2>1
<1>4. m \in 1..n /\ m-1 \in 0..n /\ ~(m <= m-1)
  BY <1>3
<1>5. PICK f : ReadsOn(f, s, text, m-1)
  <2>1. m-1 \notin T
    BY <1>2, <1>4
  <2>. QED BY <1>4, <2>1
<1>. DEFINE g == [k \in 0..m |-> IF k = 0 THEN s ELSE ReadToken(f[k-1], text[k])]
<1>6. \A k \in 0..m-1 : g[k] = f[k]
  <2>1. \A k \in 0..m-1 : k \in 0..m
    BY <1>4
  <2>. QED BY <1>5, <2>1, Zenon DEF ReadsOn
<1>7. \A k \in 0..m : (IF k = 0 THEN s ELSE ReadToken(f[k-1], text[k]))
                      = (IF k = 0 THEN s ELSE ReadToken(g[k-1], text[k]))
  <2>1. \A k \in 0..m : k # 0 => k-1 \in 0..m-1
    BY <1>4
  <2>. HIDE DEF g
  <2>. QED BY <1>6, <2>1, Zenon
<1>8. ReadsOn(g, s, text, m)
  <2>1. g = [k \in 0..m |-> IF k = 0 THEN s ELSE ReadToken(g[k-1], text[k])]
    BY <1>7, Zenon
  <2>. QED BY <2>1 DEF ReadsOn
<1>. QED BY <1>8

\* f holds the states in which text is read from s on.
States(f, s, text) ==
  f[0] = s /\ \A k \in 1..Len(text) : f[k] = ReadToken(f[k-1], text[k])

\* ReadOn goes from left to right, token by token.
LEMMA ReadOnUnfolds ==
  ASSUME NEW s, NEW text, Len(text) \in Nat
  PROVE  \E f : States(f, s, text) /\ ReadOn(s, text) = f[Len(text)]
<1>. DEFINE n == Len(text)
<1>. DEFINE f == CHOOSE f : ReadsOn(f, s, text, n)
<1>1. n \in Nat
  OBVIOUS
<1>2. ReadsOn(f, s, text, n)
  <2>1. \E g : ReadsOn(g, s, text, n)
    BY <1>1, ReadingExists
  <2>. QED BY <2>1, Zenon
<1>3. ReadOn(s, text) = f[n]
  BY Zenon DEF ReadOn, ReadsOn
<1>. HIDE DEF f, n
<1>4. f[0] = s /\ \A k \in 1..n : f[k] = ReadToken(f[k-1], text[k])
  <2>1. 0 \in 0..n /\ \A k \in 1..n : k \in 0..n /\ k # 0
    BY <1>1
  <2>. QED BY <1>2, <2>1, Zenon DEF ReadsOn
<1>. QED BY <1>3, <1>4 DEF n, States

\* What is read of two texts, one behind the other.
LEMMA ReadOnConcat ==
  ASSUME NEW s, NEW S, NEW a \in Seq(S), NEW b \in Seq(S)
  PROVE  ReadOn(s, a \o b) = ReadOn(ReadOn(s, a), b)
<1>. DEFINE m == Len(a)
<1>. DEFINE n == Len(b)
<1>. DEFINE c == a \o b
<1>1. /\ m \in Nat /\ n \in Nat /\ Len(c) \in Nat /\ Len(c) = m + n
      /\ \A k \in 1..m : c[k] = a[k]
      /\ \A k \in 1..n : c[m+k] = b[k]
  BY ConcatProperties, LenProperties
<1>. HIDE DEF c
<1>2. PICK f : States(f, s, c) /\ ReadOn(s, c) = f[m+n]
  BY <1>1, ReadOnUnfolds
<1>3. PICK g : States(g, s, a) /\ ReadOn(s, a) = g[m]
  BY <1>1, ReadOnUnfolds
<1>4. PICK h : States(h, ReadOn(s, a), b) /\ ReadOn(ReadOn(s, a), b) = h[n]
  BY <1>1, ReadOnUnfolds
<1>. HIDE DEF m, n
<1>a. f[0] = s /\ \A k \in 1..m+n : f[k] = ReadToken(f[k-1], c[k])
  BY <1>1, <1>2 DEF States
<1>b. g[0] = s /\ \A k \in 1..m : g[k] = ReadToken(g[k-1], a[k])
  BY <1>3 DEF States, m
<1>c. h[0] = ReadOn(s, a) /\ \A k \in 1..n : h[k] = ReadToken(h[k-1], b[k])
  BY <1>4 DEF States, n
<1>5. \A k \in 0..m : f[k] = g[k]
  <2>. DEFINE T == {k \in 0..m : f[k] # g[k]}
  <2>1. SUFFICES ASSUME T # {} PROVE FALSE
    OBVIOUS
  <2>2. PICK i \in T : \A k \in T : i <= k
    <3>1. T \in SUBSET Nat
      BY <1>1
    <3>. HIDE DEF T
    <3>. QED BY <2>1, <3>1, LeastNat
  <2>3. i # 0
    BY <1>a, <1>b
  <2>4. i \in 1..m /\ i \in 1..m+n /\ i-1 \in 0..m /\ ~(i <= i-1)
    BY <1>1, <2>3
  <2>5. f[i-1] = g[i-1]
    BY <2>2, <2>4
  <2>6. f[i] = g[i]
    BY <1>1, <1>a, <1>b, <2>4, <2>5, Zenon
  <2>. QED BY <2>6
<1>6. \A k \in 0..n : f[m+k] = h[k]
  <2>. DEFINE T == {k \in 0..n : f[m+k] # h[k]}
  <2>1. SUFFICES ASSUME T # {} PROVE FALSE
    OBVIOUS
  <2>2. PICK i \in T : \A k \in T : i <= k
    <3>1. T \in SUBSET Nat
      BY <1>1
    <3>. HIDE DEF T
    <3>. QED BY <2>1, <3>1, LeastNat
  <2>3. i # 0
    BY <1>1, <1>3, <1>c, <1>5
  <2>4. /\ i \in 1..n /\ m+i \in 1..m+n /\ i-1 \in 0..n /\ ~(i <= i-1)
        /\ (m+i)-1 = m+(i-1)
    BY <1>1, <2>3
  <2>5. f[m+(i-1)] = h[i-1]
    BY <2>2, <2>4
  <2>6. f[m+i] = h[i]
    BY <1>1, <1>a, <1>c, <2>4, <2>5, Zenon
  <2>. QED BY <2>6
<1>7. n \in 0..n
  BY <1>1
<1>. QED BY <1>2, <1>4, <1>6, <1>7 DEF c

\* A text of one token.
LEMMA ReadOnWord ==
  ASSUME NEW s, NEW word
  PROVE  ReadOn(s, <<word>>) = ReadToken(s, word)
<1>. DEFINE text == <<word>>
<1>1. Len(text) \in Nat /\ Len(text) = 1 /\ text[1] = word
  OBVIOUS
<1>. HIDE DEF text
<1>2. PICK f : States(f, s, text) /\ ReadOn(s, text) = f[1]
  BY <1>1, ReadOnUnfolds
<1>3. f[1] = ReadToken(f[0], word) /\ f[0] = s
  BY <1>1, <1>2 DEF States
<1>. QED BY <1>2, <1>3 DEF text

\* Two words.
LEMMA ReadOnWords ==
  ASSUME NEW s, NEW a, NEW b
  PROVE  ReadOn(s, <<a, b>>) = ReadToken(ReadToken(s, a), b)
<1>. DEFINE text == <<a, b>>
<1>1. Len(text) \in Nat /\ Len(text) = 2 /\ text[1] = a /\ text[2] = b
  OBVIOUS
<1>. HIDE DEF text
<1>2. PICK f : States(f, s, text) /\ ReadOn(s, text) = f[2]
  BY <1>1, ReadOnUnfolds
<1>3. f[1] = ReadToken(s, a) /\ f[2] = ReadToken(f[1], b)
  BY <1>1, <1>2 DEF States
<1>. QED BY <1>2, <1>3 DEF text

\* A word more.
LEMMA ReadOnMore ==
  ASSUME NEW s, NEW S, NEW ws \in Seq(S), NEW word \in S
  PROVE  ReadOn(s, Append(ws, word)) = ReadToken(ReadOn(s, ws), word)
<1>1. <<word>> \in Seq(S) /\ Append(ws, word) = ws \o <<word>>
  OBVIOUS
<1>. DEFINE end == <<word>>
<1>. HIDE DEF end
<1>2. ReadOn(s, ws \o end) = ReadOn(ReadOn(s, ws), end)
  <2>1. end \in Seq(S)
    BY <1>1 DEF end
  <2>. QED BY ONLY <2>1, ws \in Seq(S), ReadOnConcat
<1>. QED BY <1>1, <1>2, ReadOnWord, Zenon DEF end

\* Texts put together are texts.
LEMMA TextsTyped ==
  /\ <<>> \in Text
  /\ \A a, b \in Text : a \o b \in Text
  /\ \A w \in Tokens : <<w>> \in Text
  /\ \A v, w \in Tokens : <<v, w>> \in Text
  /\ \A ws \in PlainText : ws \in Text /\ ws # <<>>
<1>1. \A a, b \in Text : a \o b \in Text
  BY ConcatTyped DEF Text
<1>2. \A ws \in PlainText : ws \in Text /\ ws # <<>>
  BY DEF PlainText, Words, Text
<1>3. /\ <<>> \in Text
      /\ \A w \in Tokens : <<w>> \in Text
      /\ \A v, w \in Tokens : <<v, w>> \in Text
  BY DEF Text
<1>. QED BY <1>1, <1>2, <1>3

\* The words the code writes are tokens, and none of the client's.
LEMMA KeywordsTyped ==
  /\ Keywords \subseteq Tokens /\ Keywords \cap Words = {}
  /\ \A w \in Keywords : <<w>> \in Text
BY TableAssumption, TextsTyped DEF Words

\* The one text behind the other.
LEMMA ReadOnBoth ==
  ASSUME NEW s
  PROVE  \A a, b \in Text : ReadOn(s, a \o b) = ReadOn(ReadOn(s, a), b)
BY ReadOnConcat DEF Text

-----------------------------------------------------------------------------
\* A stack on top of which this may be.
Stands(S, kinds) == S.height \in Nat /\ S.frame.kind \in kinds

\* In these places the text is read as the tree, and nothing is left open.
IsOperand(text, tree, places) ==
  /\ text \in Text
  /\ \A S : Stands(S, places) => ReadOn(Expecting(S), text) = Holding(S, tree)

\* There it is read as what is the tree when all that ends with it is complete.
EndsAs(s, S, tree) ==
  s.value # <<>> /\ Ended(s, Completed) = Ended(Holding(S, tree), Completed)

IsComplete(text, tree, places) ==
  /\ text \in Text
  /\ \A S : Stands(S, places) => EndsAs(ReadOn(Expecting(S), text), S, tree)

\* (The solver is not shown what a state is made of.)
LEMMA StateParts ==
  ASSUME NEW S, NEW tree
  PROVE  /\ Expecting(S).stack = S /\ Expecting(S).value = <<>>
         /\ Holding(S, tree).stack = S /\ Holding(S, tree).value = <<tree>>
         /\ Holding(S, tree).value # <<>> /\ Holding(S, tree).value[1] = tree
<1>1. <<tree>> # <<>> /\ <<tree>>[1] = tree
  OBVIOUS
<1>. QED BY <1>1 DEF Expecting, Holding

LEMMA StackParts ==
  ASSUME NEW S, NEW kind, NEW args
  PROVE  /\ Push(Frame(kind, args), S).frame.kind = kind
         /\ Push(Frame(kind, args), S).frame.args = args
         /\ Push(Frame(kind, args), S).below = S
         /\ S.height \in Nat => Push(Frame(kind, args), S).height \in Nat
         /\ S.height \in Nat => Push(Frame(kind, args), S).height = S.height + 1
BY DEF Push, Frame

\* An operand is complete.
LEMMA OperandComplete ==
  ASSUME NEW text, NEW tree, NEW places, NEW some \in SUBSET places, IsOperand(text, tree, places)
  PROVE  IsComplete(text, tree, some)
<1>. SUFFICES ASSUME NEW S, Stands(S, some)
              PROVE  EndsAs(ReadOn(Expecting(S), text), S, tree)
  BY Zenon DEF IsOperand, IsComplete
<1>1. ReadOn(Expecting(S), text) = Holding(S, tree)
  <2>1. Stands(S, places)
    BY Zenon DEF Stands
  <2>. QED BY <2>1, Zenon DEF IsOperand
<1>. QED BY <1>1, StateParts DEF EndsAs

\* Fewer places.
LEMMA CompleteThere ==
  ASSUME NEW text, NEW tree, NEW places, NEW some \in SUBSET places, IsComplete(text, tree, places)
  PROVE  IsComplete(text, tree, some)
BY Zenon DEF IsComplete, Stands

LEMMA OperandThere ==
  ASSUME NEW text, NEW tree, NEW places, NEW some \in SUBSET places, IsOperand(text, tree, places)
  PROVE  IsOperand(text, tree, some)
BY Zenon DEF IsOperand, Stands

-----------------------------------------------------------------------------
\* Where a part is to come, and behind one, a token is read so.
LEMMA TokenNext ==
  ASSUME NEW S, NEW token
  PROVE  ReadToken(Expecting(S), token) = ReadNext(S, token)
BY StateParts, Zenon DEF ReadToken

LEMMA TokenBehind ==
  ASSUME NEW s, NEW token, s.value # <<>>
  PROVE  ReadToken(s, token) = ReadBehind(s, token)
BY Zenon DEF ReadToken

\* The same of each keyword.  (The solver is not shown how it is spelled.)
LEMMA NextOpens ==
  ASSUME NEW S
  PROVE  ReadToken(Expecting(S), "(") = OpenBracket(S)
<1>. DEFINE token == "("
<1>1. token = "(" /\ token \notin Words
  BY KeywordsTyped DEF Keywords
<1>. HIDE DEF token
<1>2. ReadNext(S, token) = OpenBracket(S)
  BY <1>1 DEF ReadNext
<1>. QED BY <1>1, <1>2, TokenNext, Zenon

LEMMA NextSelect ==
  ASSUME NEW S, S.frame.kind \in StatementFrames
  PROVE  ReadToken(Expecting(S), "SELECT") = Inside("select", <<>>, S)
<1>. DEFINE token == "SELECT"
<1>1. token = "SELECT" /\ token \notin Words
  BY KeywordsTyped DEF Keywords
<1>. HIDE DEF token
<1>2. ReadNext(S, token) = Inside("select", <<>>, S)
  BY <1>1 DEF ReadNext
<1>. QED BY <1>1, <1>2, TokenNext, Zenon

LEMMA NextWith ==
  ASSUME NEW S, S.frame.kind \in StatementFrames \ {"main"}
  PROVE  ReadToken(Expecting(S), "WITH") = Inside("ctes", <<>>, S)
<1>. DEFINE token == "WITH"
<1>1. token = "WITH" /\ token \notin Words
  BY KeywordsTyped DEF Keywords
<1>. HIDE DEF token
<1>2. ReadNext(S, token) = Inside("ctes", <<>>, S)
  BY <1>1 DEF ReadNext
<1>. QED BY <1>1, <1>2, TokenNext, Zenon

LEMMA NextJoin ==
  ASSUME NEW S, S.frame.kind = "joining"
  PROVE  ReadToken(Expecting(S), "JOIN") = Inside("join", S.frame.args, S.below)
<1>. DEFINE token == "JOIN"
<1>1. token = "JOIN" /\ token \notin Words
  BY KeywordsTyped DEF Keywords
<1>. HIDE DEF token
<1>2. ReadNext(S, token) = Inside("join", S.frame.args, S.below)
  BY <1>1 DEF ReadNext
<1>. QED BY <1>1, <1>2, TokenNext, Zenon

LEMMA NextAs ==
  ASSUME NEW S, S.frame.kind = "cte"
  PROVE  ReadToken(Expecting(S), "AS") = Inside("cte as", S.frame.args, S.below)
<1>. DEFINE token == "AS"
<1>1. token = "AS" /\ token \notin Words
  BY KeywordsTyped DEF Keywords
<1>. HIDE DEF token
<1>2. ReadNext(S, token) = Inside("cte as", S.frame.args, S.below)
  BY <1>1 DEF ReadNext
<1>. QED BY <1>1, <1>2, TokenNext, Zenon

LEMMA NextComma ==
  ASSUME NEW S, S.frame.kind = "main"
  PROVE  ReadToken(Expecting(S), ", ") = Inside("ctes", S.frame.args, S.below)
<1>. DEFINE token == ", "
<1>1. token = ", " /\ token \notin Words
  BY KeywordsTyped DEF Keywords
<1>. HIDE DEF token
<1>2. ReadNext(S, token) = Inside("ctes", S.frame.args, S.below)
  BY <1>1 DEF ReadNext
<1>. QED BY <1>1, <1>2, TokenNext, Zenon

\* And of the client's words.
LEMMA NextWord ==
  ASSUME NEW S, NEW word \in Words
  PROVE  ReadToken(Expecting(S), word) = ReadWord(S, word)
<1>1. word \notin Keywords
  BY KeywordsTyped
<1>2. ReadNext(S, word) = ReadWord(S, word)
  BY <1>1 DEF ReadNext, Keywords
<1>. QED BY <1>2, TokenNext, Zenon

LEMMA BehindOn ==
  ASSUME NEW s, s.value # <<>>
  PROVE  ReadToken(s, "ON") = Qualified(s, "on")
<1>. DEFINE token == "ON"
<1>1. token = "ON" /\ token \notin JoinWords \cup SetOpWords /\ token \notin Words
  BY KeywordsTyped DEF JoinWords, PlainKinds, NaturalKinds, SetOpWords, Keywords
<1>. HIDE DEF token
<1>2. ReadBehind(s, token) = Qualified(s, "on")
  BY <1>1 DEF ReadBehind
<1>. QED BY <1>1, <1>2, TokenBehind, Zenon

LEMMA BehindUsing ==
  ASSUME NEW s, s.value # <<>>
  PROVE  ReadToken(s, "USING") = Qualified(s, "using")
<1>. DEFINE token == "USING"
<1>1. token = "USING" /\ token \notin JoinWords \cup SetOpWords /\ token \notin Words
  BY KeywordsTyped DEF JoinWords, PlainKinds, NaturalKinds, SetOpWords, Keywords
<1>. HIDE DEF token
<1>2. ReadBehind(s, token) = Qualified(s, "using")
  BY <1>1 DEF ReadBehind
<1>. QED BY <1>1, <1>2, TokenBehind, Zenon

LEMMA BehindAs ==
  ASSUME NEW s, s.value # <<>>, Aliasable(s)
  PROVE  ReadToken(s, "AS") = Inside("alias", s.value, s.stack)
<1>. DEFINE token == "AS"
<1>1. token = "AS" /\ token \notin JoinWords \cup SetOpWords /\ token \notin Words
  BY KeywordsTyped DEF JoinWords, PlainKinds, NaturalKinds, SetOpWords, Keywords
<1>. HIDE DEF token
<1>2. ReadBehind(s, token) = Inside("alias", s.value, s.stack)
  BY <1>1 DEF ReadBehind
<1>. QED BY <1>1, <1>2, TokenBehind, Zenon

LEMMA BehindFrom ==
  ASSUME NEW s, s.value # <<>>, s.stack.frame.kind = "select"
  PROVE  ReadToken(s, "FROM") = Inside("from", s.value, s.stack.below)
<1>. DEFINE token == "FROM"
<1>1. token = "FROM" /\ token \notin JoinWords \cup SetOpWords /\ token \notin Words
  BY KeywordsTyped DEF JoinWords, PlainKinds, NaturalKinds, SetOpWords, Keywords
<1>. HIDE DEF token
<1>2. ReadBehind(s, token) = Inside("from", s.value, s.stack.below)
  BY <1>1 DEF ReadBehind
<1>. QED BY <1>1, <1>2, TokenBehind, Zenon

LEMMA BehindComma ==
  ASSUME NEW s, s.value # <<>>, s.stack.frame.kind = "columns"
  PROVE  ReadToken(s, ", ") = 
             Inside("columns", Append(s.stack.frame.args, s.value[1]), s.stack.below)
<1>. DEFINE token == ", "
<1>1. token = ", " /\ token \notin JoinWords \cup SetOpWords /\ token \notin Words
  BY KeywordsTyped DEF JoinWords, PlainKinds, NaturalKinds, SetOpWords, Keywords
<1>. HIDE DEF token
<1>2. ReadBehind(s, token) = 
             Inside("columns", Append(s.stack.frame.args, s.value[1]), s.stack.below)
  BY <1>1 DEF ReadBehind
<1>. QED BY <1>1, <1>2, TokenBehind, Zenon

LEMMA BehindClose ==
  ASSUME NEW s, s.value # <<>>
  PROVE  ReadToken(s, ")") = CloseBracket(Ended(s, Completed))
<1>. DEFINE token == ")"
<1>1. token = ")" /\ token \notin JoinWords \cup SetOpWords /\ token \notin Words
  BY KeywordsTyped DEF JoinWords, PlainKinds, NaturalKinds, SetOpWords, Keywords
<1>. HIDE DEF token
<1>2. ReadBehind(s, token) = CloseBracket(Ended(s, Completed))
  BY <1>1 DEF ReadBehind
<1>. QED BY <1>1, <1>2, TokenBehind, Zenon

LEMMA BehindWord ==
  ASSUME NEW s, s.value # <<>>, NEW word \in Words
  PROVE  ReadToken(s, word) = MoreWords(s, word)
<1>1. word \notin Keywords
  BY KeywordsTyped
<1>2. ReadBehind(s, word) = MoreWords(s, word)
  BY <1>1 DEF ReadBehind, Keywords, JoinWords
<1>. QED BY <1>2, TokenBehind, Zenon

LEMMA BehindKind ==
  ASSUME NEW s, s.value # <<>>, NEW kind \in JoinWords
  PROVE  ReadToken(s, kind) = LET join == Ended(s, JoinFrames)
                              IN  Inside("joining", <<join.value[1], kind>>, join.stack)
<1>1. /\ kind \in Keywords
      /\ kind \notin SetOpWords \cup {"ON", "USING", "AS", "FROM", ", ", ")"} \cup Words
  BY KeywordsTyped DEF JoinWords, PlainKinds, NaturalKinds, SetOpWords, Keywords
<1>2. ReadBehind(s, kind) = LET join == Ended(s, JoinFrames)
                            IN  Inside("joining", <<join.value[1], kind>>, join.stack)
  BY <1>1 DEF ReadBehind
<1>. QED BY <1>2, TokenBehind, Zenon

LEMMA BehindSetOp ==
  ASSUME NEW s, s.value # <<>>, NEW kind \in SetOpWords
  PROVE  ReadToken(s, kind) = LET set == Ended(s, Completed \ {"main"})
                              IN  Inside("set operation", <<set.value[1], kind>>, set.stack)
<1>1. /\ kind \in Keywords
      /\ kind \notin JoinWords \cup {"ON", "USING", "AS", "FROM", ", ", ")"} \cup Words
  BY KeywordsTyped DEF JoinWords, PlainKinds, NaturalKinds, SetOpWords, Keywords
<1>2. ReadBehind(s, kind) = LET set == Ended(s, Completed \ {"main"})
                            IN  Inside("set operation", <<set.value[1], kind>>, set.stack)
  BY <1>1 DEF ReadBehind
<1>. QED BY <1>2, TokenBehind, Zenon

\* A complete text in brackets of any kind.
LEMMA InBrackets ==
  ASSUME NEW kind, kind \notin Completed, NEW args, NEW S, S.height \in Nat,
         NEW text, NEW tree, IsComplete(text, tree, {kind}),
         NEW s, ReadToken(s, "(") = Inside(kind, args, S)
  PROVE  /\ <<"(">> \o text \o <<")">> \in Text
         /\ ReadOn(s, <<"(">> \o text \o <<")">>)
              = CloseBracket(Holding(Push(Frame(kind, args), S), tree))
<1>. DEFINE open  == <<"(">>
<1>. DEFINE close == <<")">>
<1>. DEFINE T     == Push(Frame(kind, args), S)
<1>. DEFINE read  == ReadOn(Expecting(T), text)
<1>1. open \in Text /\ close \in Text /\ text \in Text
  BY KeywordsTyped DEF Keywords, IsComplete
<1>2. ReadOn(s, open) = Expecting(T)
  BY ReadOnWord, Zenon DEF Inside
<1>3. Stands(T, {kind})
  BY StackParts DEF Stands
<1>4. read.value # <<>> /\ Ended(read, Completed) = Ended(Holding(T, tree), Completed)
  BY <1>3, Zenon DEF IsComplete, EndsAs
<1>5. Ended(Holding(T, tree), Completed) = Holding(T, tree)
  BY StateParts, StackParts, EndedStops
<1>6. ReadOn(read, close) = CloseBracket(Holding(T, tree))
  BY <1>4, <1>5, ReadOnWord, BehindClose, Zenon
<1>. HIDE DEF open, close, T
<1>7. open \o text \in Text /\ open \o text \o close \in Text
  BY <1>1, TextsTyped, Zenon
<1>8. ReadOn(s, open \o text) = ReadOn(ReadOn(s, open), text)
  BY <1>1, ReadOnBoth, Zenon
<1>9. ReadOn(s, (open \o text) \o close) = ReadOn(ReadOn(s, open \o text), close)
  BY <1>1, <1>7, ReadOnBoth, Zenon
<1>. QED BY <1>2, <1>6, <1>7, <1>8, <1>9 DEF open, close, T

-----------------------------------------------------------------------------
\* From the one state the text leads to the other.
Leads(s, text, r) == text \in Text /\ ReadOn(s, text) = r

LEMMA LeadsOn ==
  ASSUME NEW s, NEW a, NEW r, NEW b, NEW q, Leads(s, a, r), Leads(r, b, q)
  PROVE  Leads(s, a \o b, q)
BY TextsTyped, ReadOnBoth DEF Leads

LEMMA LeadsWord ==
  ASSUME NEW s, NEW word \in Tokens, NEW r, ReadToken(s, word) = r
  PROVE  Leads(s, <<word>>, r)
BY TextsTyped, ReadOnWord, Zenon DEF Leads

LEMMA LeadsWords ==
  ASSUME NEW s, NEW v \in Tokens, NEW w \in Tokens, NEW r, NEW q,
         ReadToken(s, v) = r, ReadToken(r, w) = q
  PROVE  Leads(s, <<v, w>>, q)
BY TextsTyped, ReadOnWords DEF Leads

LEMMA OperandLeads ==
  ASSUME NEW text, NEW tree, NEW places, IsOperand(text, tree, places),
         NEW S, Stands(S, places)
  PROVE  Leads(Expecting(S), text, Holding(S, tree))
BY Zenon DEF IsOperand, Leads

\* Words of the client's are tokens.
LEMMA WordsTyped == Words \subseteq Tokens
BY DEF Words

\* A stack with this on top.
LEMMA StandsThere ==
  ASSUME NEW S, S.height \in Nat, NEW kind, NEW args, NEW places, kind \in places
  PROVE  Stands(Push(Frame(kind, args), S), places)
BY StackParts DEF Stands

-----------------------------------------------------------------------------
\* The name of a table.
LEMMA TableReads ==
  ASSUME NEW name \in Words
  PROVE  IsOperand(<<name>>, <<"table", name>>, TableFrames)
<1>. DEFINE tree == <<"table", name>>
<1>1. ASSUME NEW S, Stands(S, TableFrames)
      PROVE  Leads(Expecting(S), <<name>>, Holding(S, tree))
  <2>1. S.frame.kind \in TableFrames
    BY <1>1 DEF Stands
  <2>a. /\ S.frame.kind # "select" /\ S.frame.kind \notin {"on", "columns"}
        /\ S.frame.kind # "alias" /\ S.frame.kind # "ctes"
    BY <2>1 DEF TableFrames
  <2>2. ReadWord(S, name) = Holding(S, tree)
    BY <2>1, <2>a, Zenon DEF ReadWord
  <2>3. ReadToken(Expecting(S), name) = Holding(S, tree)
    BY <2>2, NextWord, Zenon
  <2>. QED BY <2>3, LeadsWord, WordsTyped, Zenon
<1>2. <<name>> \in Text
  BY TextsTyped, WordsTyped, Zenon
<1>. QED BY <1>1, <1>2, Zenon DEF IsOperand, Leads

\* A table expression in brackets.
LEMMA BracketReads ==
  ASSUME NEW text, NEW tree, IsComplete(text, tree, {"bracket"})
  PROVE  IsOperand(<<"(">> \o text \o <<")">>, tree, BracketFrames)
<1>. DEFINE all == <<"(">> \o text \o <<")">>
<1>0. "bracket" \notin Completed
  BY DEF Completed, JoinFrames
<1>1. ASSUME NEW S, Stands(S, BracketFrames)
      PROVE  all \in Text /\ ReadOn(Expecting(S), all) = Holding(S, tree)
  <2>1. S.height \in Nat /\ S.frame.kind \in BracketFrames
    BY <1>1 DEF Stands
  <2>a. S.frame.kind # "select" /\ S.frame.kind # "using" /\ S.frame.kind # "cte as"
    BY <2>1 DEF BracketFrames, StatementFrames, TableFrames
  <2>2. OpenBracket(S) = Inside("bracket", <<>>, S)
    BY <2>1, <2>a, Zenon DEF OpenBracket
  <2>3. ReadToken(Expecting(S), "(") = Inside("bracket", <<>>, S)
    BY <2>2, NextOpens, Zenon
  <2>. DEFINE T == Push(Frame("bracket", <<>>), S)
  <2>4. all \in Text /\ ReadOn(Expecting(S), all) = CloseBracket(Holding(T, tree))
    BY <1>0, <2>1, <2>3, InBrackets
  <2>5. T.frame.kind = "bracket" /\ T.below = S
    BY StackParts
  <2>. HIDE DEF T, all
  <2>6. CloseBracket(Holding(T, tree)) = Holding(S, tree)
    BY <2>5, StateParts DEF CloseBracket
  <2>. QED BY <2>4, <2>6, Zenon
<1>. DEFINE B == Push(Frame("bracket", <<>>), Bottom)
<1>2. Stands(B, BracketFrames)
  <2>1. Bottom.height \in Nat
    BY DEF Bottom
  <2>2. "bracket" \in BracketFrames
    BY DEF BracketFrames, StatementFrames
  <2>. QED BY <2>1, <2>2, StandsThere, Zenon
<1>. HIDE DEF all, B
<1>3. all \in Text
  BY <1>1, <1>2, Zenon
<1>. QED BY <1>1, <1>3, Zenon DEF IsOperand, all

\* A statement in brackets, where a select item is.
LEMMA SubqueryReads ==
  ASSUME NEW text, NEW tree, IsComplete(text, tree, {"subquery"})
  PROVE  IsOperand(<<"(">> \o text \o <<")">>, <<"subquery", tree>>, {"select"})
<1>. DEFINE all == <<"(">> \o text \o <<")">>
<1>. DEFINE item == <<"subquery", tree>>
<1>0. "subquery" \notin Completed
  BY DEF Completed, JoinFrames
<1>1. ASSUME NEW S, Stands(S, {"select"})
      PROVE  all \in Text /\ ReadOn(Expecting(S), all) = Holding(S, item)
  <2>1. S.height \in Nat /\ S.frame.kind = "select" /\ "select" \notin BracketFrames
    BY <1>1 DEF Stands, BracketFrames, StatementFrames, TableFrames
  <2>2. OpenBracket(S) = Inside("subquery", <<>>, S)
    BY <2>1, Zenon DEF OpenBracket
  <2>3. ReadToken(Expecting(S), "(") = Inside("subquery", <<>>, S)
    BY <2>2, NextOpens, Zenon
  <2>. DEFINE T == Push(Frame("subquery", <<>>), S)
  <2>4. all \in Text /\ ReadOn(Expecting(S), all) = CloseBracket(Holding(T, tree))
    BY <1>0, <2>1, <2>3, InBrackets
  <2>5. T.frame.kind = "subquery" /\ T.below = S
    BY StackParts
  <2>. HIDE DEF T, all
  <2>6. CloseBracket(Holding(T, tree)) = Holding(S, item)
    BY <2>5, StateParts DEF CloseBracket
  <2>. QED BY <2>4, <2>6, Zenon
<1>. DEFINE B == Push(Frame("select", <<>>), Bottom)
<1>2. Stands(B, {"select"})
  <2>1. Bottom.height \in Nat
    BY DEF Bottom
  <2>. QED BY <2>1, StandsThere, Zenon
<1>. HIDE DEF all, B, item
<1>3. all \in Text
  BY <1>1, <1>2, Zenon
<1>. QED BY <1>1, <1>3, Zenon DEF IsOperand, all, item

\* An alias belongs to the item just before it.
LEMMA AliasReads ==
  ASSUME NEW text, NEW tree, IsOperand(text, tree, TableFrames), tree[1] # "as",
         NEW name \in Words
  PROVE  IsOperand(text \o <<"AS", name>>, <<"as", tree, name>>, TableFrames)
<1>. DEFINE alias == <<"AS", name>>
<1>. DEFINE aliased == <<"as", tree, name>>
<1>. DEFINE as == "AS"
<1>a. as \in Tokens
  BY KeywordsTyped DEF Keywords
<1>b. <<tree>>[1] = tree
  OBVIOUS
<1>1. ASSUME NEW S, Stands(S, TableFrames)
      PROVE  Leads(Expecting(S), text \o alias, Holding(S, aliased))
  <2>1. S.height \in Nat /\ S.frame.kind \in TableFrames
    BY <1>1 DEF Stands
  <2>. DEFINE T == Push(Frame("alias", <<tree>>), S)
  <2>2. ReadToken(Holding(S, tree), as) = Expecting(T)
    <3>. DEFINE s == Holding(S, tree)
    <3>1. s.value # <<>> /\ s.value[1] = tree /\ s.value = <<tree>> /\ s.stack = S
      BY StateParts
    <3>. HIDE DEF s
    <3>2. Aliasable(s)
      BY <2>1, <3>1, Zenon DEF Aliasable
    <3>3. ReadToken(s, as) = Inside("alias", s.value, s.stack)
      BY <3>1, <3>2, BehindAs
    <3>. QED BY <3>1, <3>3, Zenon DEF s, Inside
  <2>3. /\ T.frame.kind = "alias" /\ T.frame.args = <<tree>> /\ T.below = S
        /\ "alias" \notin TableFrames
    <3>1. T.frame.kind = "alias" /\ T.frame.args = <<tree>> /\ T.below = S
      BY StackParts
    <3>. QED BY <3>1 DEF TableFrames
  <2>. HIDE DEF T
  <2>4. ReadWord(T, name) = Holding(S, aliased)
    <3>1. T.frame.kind # "select" /\ T.frame.kind \notin {"on", "columns"}
      BY <2>3
    <3>. QED BY <1>b, <2>3, <3>1, Zenon DEF ReadWord
  <2>5. ReadToken(Expecting(T), name) = Holding(S, aliased)
    BY <2>4, NextWord, Zenon
  <2>6. Leads(Holding(S, tree), alias, Holding(S, aliased))
    BY <1>a, <2>2, <2>5, LeadsWords, WordsTyped, Zenon
  <2>7. Leads(Expecting(S), text, Holding(S, tree))
    BY <1>1, OperandLeads, Zenon
  <2>. QED BY <2>6, <2>7, LeadsOn, Zenon
<1>2. text \o alias \in Text
  BY <1>a, TextsTyped, WordsTyped, Zenon DEF IsOperand
<1>. HIDE DEF alias, aliased
<1>. QED BY <1>1, <1>2, Zenon DEF IsOperand, Leads, alias, aliased

-----------------------------------------------------------------------------
\* More words of a select item.
LEMMA ExprGoesOn ==
  ASSUME NEW S, S.frame.kind = "select", NEW ws, NEW word \in Words
  PROVE  ReadToken(Holding(S, <<"expr", ws>>), word) = Holding(S, <<"expr", Append(ws, word)>>)
<1>. DEFINE tree == <<"expr", ws>>
<1>1. tree[1] = "expr" /\ tree[2] = ws
  OBVIOUS
<1>. HIDE DEF tree
<1>2. "select" \notin {"on", "columns"}
  OBVIOUS
<1>. DEFINE s == Holding(S, tree)
<1>a. s.stack = S /\ s.value # <<>> /\ s.value[1] = tree
  BY StateParts
<1>. HIDE DEF s
<1>3. MoreWords(s, word) = Holding(S, <<"expr", Append(tree[2], word)>>)
  <2>1. s.stack.frame.kind = "select" /\ s.value[1][1] = "expr"
    BY <1>1, <1>a
  <2>2. MoreWords(s, word) = Holding(s.stack, <<"expr", Append(s.value[1][2], word)>>)
    BY <1>2, <2>1, Zenon DEF MoreWords
  <2>. QED BY <1>a, <2>2, Zenon
<1>4. ReadToken(s, word) = MoreWords(s, word)
  BY <1>a, BehindWord, Zenon
<1>. QED BY <1>1, <1>3, <1>4, Zenon DEF tree, s

\* The text of a select item.
LEMMA ExprReads ==
  ASSUME NEW text \in PlainText
  PROVE  IsOperand(text, <<"expr", text>>, {"select"})
<1>1. ASSUME NEW S, Stands(S, {"select"})
      PROVE  ReadOn(Expecting(S), text) = Holding(S, <<"expr", text>>)
  <2>. DEFINE Read1(ws) == ReadOn(Expecting(S), ws) = Holding(S, <<"expr", ws>>)
  <2>. DEFINE P == {ws \in Seq(Words) : ws # <<>> => Read1(ws)}
  <2>1. S.frame.kind = "select"
    BY <1>1 DEF Stands
  <2>2. ASSUME NEW word \in Words PROVE Read1(<<word>>)
    <3>1. "select" \notin TableFrames /\ "select" \notin {"on", "columns"}
      BY DEF TableFrames
    <3>2. ReadWord(S, word) = Holding(S, <<"expr", <<word>>>>)
      BY <2>1, <3>1, Zenon DEF ReadWord
    <3>. QED BY <3>2, NextWord, ReadOnWord, Zenon
  <2>3. ASSUME NEW ws \in Seq(Words), NEW word \in Words, Read1(ws)
        PROVE  Read1(Append(ws, word))
    <3>1. ReadOn(Expecting(S), Append(ws, word)) = ReadToken(ReadOn(Expecting(S), ws), word)
      BY ReadOnMore
    <3>. QED BY <2>1, <2>3, <3>1, ExprGoesOn, Zenon
  <2>. HIDE DEF Read1
  <2>4. <<>> \in P
    OBVIOUS
  <2>5. ASSUME NEW ws \in Seq(Words), NEW word \in Words, ws \in P
        PROVE  Append(ws, word) \in P
    <3>1. Append(ws, word) \in Seq(Words)
      OBVIOUS
    <3>2. CASE ws = <<>>
      <4>1. Append(ws, word) = <<word>>
        BY <3>2
      <4>. QED BY <2>2, <3>1, <4>1, Zenon
    <3>3. CASE ws # <<>>
      BY <2>3, <2>5, <3>1, <3>3, Zenon
    <3>. QED BY <3>2, <3>3
  <2>. HIDE DEF P
  <2>6. Seq(Words) \subseteq P
    BY <2>4, <2>5, SequencesByAppend
  <2>. QED BY <2>6 DEF P, Read1, PlainText
<1>2. text \in Text
  BY TextsTyped
<1>. QED BY <1>1, <1>2, Zenon DEF IsOperand

\* The text of a condition, and that of a column.
LEMMA WordsRead ==
  ASSUME NEW text \in PlainText
  PROVE  IsOperand(text, text, {"on", "columns"})
<1>1. ASSUME NEW S, Stands(S, {"on", "columns"})
      PROVE  ReadOn(Expecting(S), text) = Holding(S, text)
  <2>. DEFINE Read1(ws) == ReadOn(Expecting(S), ws) = Holding(S, ws)
  <2>. DEFINE P == {ws \in Seq(Words) : ws # <<>> => Read1(ws)}
  <2>1. S.frame.kind \in {"on", "columns"} /\ S.frame.kind # "select"
    BY <1>1 DEF Stands
  <2>2. ASSUME NEW word \in Words PROVE Read1(<<word>>)
    <3>1. /\ S.frame.kind \notin TableFrames
          /\ S.frame.kind # "alias" /\ S.frame.kind # "ctes"
      BY <2>1 DEF TableFrames
    <3>2. ReadWord(S, word) = Holding(S, <<word>>)
      BY <2>1, <3>1, Zenon DEF ReadWord
    <3>. QED BY <3>2, NextWord, ReadOnWord, Zenon
  <2>3. ASSUME NEW ws \in Seq(Words), NEW word \in Words, Read1(ws)
        PROVE  Read1(Append(ws, word))
    <3>1. ReadOn(Expecting(S), Append(ws, word)) = ReadToken(ReadOn(Expecting(S), ws), word)
      BY ReadOnMore
    <3>. DEFINE s == Holding(S, ws)
    <3>a. s.stack = S /\ s.value # <<>> /\ s.value[1] = ws
      BY StateParts
    <3>. HIDE DEF s
    <3>2. MoreWords(s, word) = Holding(S, Append(ws, word))
      <4>1. s.stack.frame.kind \in {"on", "columns"} /\ s.stack.frame.kind # "select"
        BY <2>1, <3>a
      <4>2. MoreWords(s, word) = Holding(s.stack, Append(s.value[1], word))
        BY <4>1, Zenon DEF MoreWords
      <4>. QED BY <3>a, <4>2, Zenon
    <3>3. ReadToken(s, word) = MoreWords(s, word)
      BY <3>a, BehindWord, Zenon
    <3>. QED BY <2>3, <3>1, <3>2, <3>3, Zenon DEF s
  <2>. HIDE DEF Read1
  <2>4. <<>> \in P
    OBVIOUS
  <2>5. ASSUME NEW ws \in Seq(Words), NEW word \in Words, ws \in P
        PROVE  Append(ws, word) \in P
    <3>1. Append(ws, word) \in Seq(Words)
      OBVIOUS
    <3>2. CASE ws = <<>>
      <4>1. Append(ws, word) = <<word>>
        BY <3>2
      <4>. QED BY <2>2, <3>1, <4>1, Zenon
    <3>3. CASE ws # <<>>
      BY <2>3, <2>5, <3>1, <3>3, Zenon
    <3>. QED BY <3>2, <3>3
  <2>. HIDE DEF P
  <2>6. Seq(Words) \subseteq P
    BY <2>4, <2>5, SequencesByAppend
  <2>. QED BY <2>6 DEF P, Read1, PlainText
<1>2. text \in Text
  BY TextsTyped
<1>. QED BY <1>1, <1>2, Zenon DEF IsOperand

\* What joining makes of lists of columns.
LEMMA ColumnsJoin ==
  /\ \A x \in PlainText : JoinCsv(<<x>>) = x
  /\ \A columns \in Seq(PlainText) :
       /\ JoinCsv(columns) \in Text
       /\ columns # <<>> => JoinCsv(columns) # <<>>
       /\ columns # <<>> =>
            \A x \in PlainText : JoinCsv(Append(columns, x)) = (JoinCsv(columns) \o <<", ">>) \o x
<1>. DEFINE Terms == Text \ {<<>>}
<1>1. Separator \in Seq(Tokens) /\ PlainText \subseteq Terms /\ Text = Seq(Tokens)
  <2>1. Separator \in Text
    BY KeywordsTyped DEF Keywords, Separator
  <2>. QED BY <2>1, TextsTyped, Zenon DEF Text
<1>2. \A x \in PlainText : JoinCsv(<<x>>) = x
  BY <1>1, JoinCsvOne
<1>3. ASSUME NEW columns \in Seq(PlainText)
      PROVE  /\ JoinCsv(columns) \in Text
             /\ columns # <<>> => JoinCsv(columns) # <<>>
             /\ columns # <<>> =>
                  \A x \in PlainText : JoinCsv(Append(columns, x)) = (JoinCsv(columns) \o <<", ">>) \o x
  <2>. HIDE DEF Terms
  <2>1. columns \in Seq(Terms)
    BY <1>1, SeqMonotonic
  <2>2. columns \in Seq(Text)
    <3>1. Terms \subseteq Text
      BY DEF Terms
    <3>. QED BY <2>1, <3>1, SeqMonotonic
  <2>3. /\ JoinCsv(columns) \in Text
        /\ \A x \in Text : JoinCsv(Append(columns, x)) = JoinedCsv(JoinCsv(columns), x)
    BY ONLY <1>1, <2>2, JoinCsvUnfolds
  <2>4. JoinCsv(columns) = <<>> <=> columns = <<>>
    BY ONLY <1>1, <2>1, JoinCsvEmpty DEF Terms
  <2>5. ASSUME columns # <<>>, NEW x \in PlainText
        PROVE  JoinCsv(Append(columns, x)) = (JoinCsv(columns) \o <<", ">>) \o x
    <3>1. x \in Text
      BY TextsTyped
    <3>2. JoinCsv(columns) # <<>>
      BY <2>4, <2>5, Zenon
    <3>. QED BY <2>3, <3>1, <3>2, Zenon DEF JoinedCsv, IsEmpty
  <2>. QED BY <2>3, <2>4, <2>5, Zenon
<1>. QED BY <1>2, <1>3, Zenon

\* The columns of a USING clause, all but the last of which are kept in the frame.
LEMMA ColumnsRead ==
  ASSUME NEW S, S.height \in Nat, NEW columns \in Seq(PlainText), NEW last \in PlainText
  PROVE  Leads(Inside("columns", <<>>, S), JoinCsv(Append(columns, last)),
               Holding(Push(Frame("columns", columns), S), last))
<1>. DEFINE Good(front) ==
  \A x \in PlainText : Leads(Inside("columns", <<>>, S), JoinCsv(Append(front, x)),
                             Holding(Push(Frame("columns", front), S), x))
<1>. DEFINE P == {front \in Seq(PlainText) : Good(front)}
<1>. DEFINE comma == ", "
<1>a. comma = ", " /\ comma \in Tokens
  BY KeywordsTyped DEF Keywords
<1>. HIDE DEF comma
<1>1. ASSUME NEW front, NEW x \in PlainText
      PROVE  Leads(Inside("columns", front, S), x, Holding(Push(Frame("columns", front), S), x))
  <2>1. Stands(Push(Frame("columns", front), S), {"on", "columns"})
    BY StandsThere
  <2>. QED BY <2>1, WordsRead, OperandLeads, Zenon DEF Inside
<1>2. Good(<<>>)
  <2>1. ASSUME NEW x \in PlainText PROVE JoinCsv(Append(<<>>, x)) = x
    <3>1. Append(<<>>, x) = <<x>>
      OBVIOUS
    <3>. QED BY <3>1, ColumnsJoin, Zenon
  <2>. QED BY <1>1, <2>1, Zenon
<1>3. ASSUME NEW front \in Seq(PlainText), NEW y \in PlainText, Good(front)
      PROVE  Good(Append(front, y))
  <2>. DEFINE more == Append(front, y)
  <2>1. more \in Seq(PlainText) /\ more # <<>>
    OBVIOUS
  <2>2. Leads(Inside("columns", <<>>, S), JoinCsv(more),
              Holding(Push(Frame("columns", front), S), y))
    BY <1>3, Zenon
  <2>3. ReadToken(Holding(Push(Frame("columns", front), S), y), comma) = Inside("columns", more, S)
    <3>. DEFINE T == Push(Frame("columns", front), S)
    <3>1. T.frame.kind = "columns" /\ T.frame.args = front /\ T.below = S
      BY StackParts
    <3>. HIDE DEF T
    <3>. DEFINE s == Holding(T, y)
    <3>2. s.stack = T /\ s.value # <<>> /\ s.value[1] = y
      BY StateParts
    <3>. HIDE DEF s
    <3>3. ReadToken(s, comma) = Inside("columns", Append(s.stack.frame.args, s.value[1]), s.stack.below)
      BY <1>a, <3>1, <3>2, BehindComma
    <3>4. ReadToken(s, comma) = Inside("columns", more, S)
      BY <3>1, <3>2, <3>3
    <3>. QED BY <3>4 DEF s, T
  <2>4. Leads(Holding(Push(Frame("columns", front), S), y), <<comma>>, Inside("columns", more, S))
    BY <1>a, <2>3, LeadsWord, Zenon
  <2>. HIDE DEF more
  <2>5. ASSUME NEW x \in PlainText
        PROVE  Leads(Inside("columns", <<>>, S), JoinCsv(Append(more, x)),
                     Holding(Push(Frame("columns", more), S), x))
    <3>1. JoinCsv(Append(more, x)) = (JoinCsv(more) \o <<comma>>) \o x
      BY <1>a, <2>1, ColumnsJoin, Zenon
    <3>2. Leads(Inside("columns", <<>>, S), JoinCsv(more) \o <<comma>>, Inside("columns", more, S))
      BY <2>2, <2>4, LeadsOn, Zenon
    <3>3. Leads(Inside("columns", more, S), x, Holding(Push(Frame("columns", more), S), x))
      BY <1>1
    <3>. QED BY <3>1, <3>2, <3>3, LeadsOn, Zenon
  <2>. QED BY <2>5, Zenon DEF more
<1>. HIDE DEF Good
<1>4. <<>> \in P
  BY <1>2
<1>5. ASSUME NEW front \in Seq(PlainText), NEW y \in PlainText, front \in P
      PROVE  Append(front, y) \in P
  <2>1. Append(front, y) \in Seq(PlainText)
    OBVIOUS
  <2>. QED BY <1>3, <1>5, <2>1
<1>. HIDE DEF P
<1>6. Seq(PlainText) \subseteq P
  BY <1>4, <1>5, SequencesByAppend
<1>. QED BY <1>6 DEF P, Good

-----------------------------------------------------------------------------
\* What a frame completes is complete.
LEMMA CompleteEnds ==
  ASSUME NEW S, S.height \in Nat, NEW frame, frame.kind \in Completed, NEW tree
  PROVE  EndsAs(Holding(Push(frame, S), tree), S, Complete(frame, tree))
BY StateParts, EndedGoesOn DEF EndsAs

\* The same of a text read on top of the frame.
LEMMA CompleteInside ==
  ASSUME NEW S, S.height \in Nat, NEW kind \in Completed, NEW args,
         NEW text, NEW tree, IsComplete(text, tree, {kind})
  PROVE  EndsAs(ReadOn(Inside(kind, args, S), text), S, Complete(Frame(kind, args), tree))
<1>. DEFINE T == Push(Frame(kind, args), S)
<1>. DEFINE s == ReadOn(Expecting(T), text)
<1>1. Stands(T, {kind}) /\ Frame(kind, args).kind = kind
  BY StandsThere DEF Frame
<1>2. EndsAs(s, T, tree)
  BY <1>1, Zenon DEF IsComplete
<1>3. EndsAs(Holding(T, tree), S, Complete(Frame(kind, args), tree))
  BY <1>1, CompleteEnds
<1>. HIDE DEF s, T
<1>4. EndsAs(s, S, Complete(Frame(kind, args), tree))
  BY <1>2, <1>3 DEF EndsAs
<1>. QED BY <1>4 DEF s, T, Inside

\* The tree of a join, from what its frame keeps.
LEMMA JoinTrees ==
  ASSUME NEW l, NEW k, NEW r, NEW q
  PROVE  /\ Append(<<l, k>>, r) = <<l, k, r>>
         /\ JoinTree(<<l, k, r>>, q) = <<"join", k, l, r, q>>
<1>. DEFINE S == {l, k, r}
<1>. DEFINE x == Append(<<l, k>>, r)
<1>. DEFINE y == <<l, k, r>>
<1>a. x \in Seq(S) /\ Len(x) = 3 /\ x[1] = l /\ x[2] = k /\ x[3] = r
  <2>1. <<l, k>> \in Seq(S) /\ Len(<<l, k>>) = 2 /\ <<l, k>>[1] = l /\ <<l, k>>[2] = k /\ r \in S
    OBVIOUS
  <2>. QED BY <2>1, AppendProperties
<1>b. y \in Seq(S) /\ Len(y) = 3 /\ y[1] = l /\ y[2] = k /\ y[3] = r
  OBVIOUS
<1>c. \A i \in 1..3 : i = 1 \/ i = 2 \/ i = 3
  OBVIOUS
<1>. HIDE DEF x, y, S
<1>1. x = y
  BY <1>a, <1>b, <1>c, SeqEqual
<1>. DEFINE args == <<l, k, r>>
<1>2. args[1] = l /\ args[2] = k /\ args[3] = r
  OBVIOUS
<1>. HIDE DEF args
<1>3. JoinTree(args, q) = <<"join", k, l, r, q>>
  BY <1>2, Zenon DEF JoinTree
<1>. QED BY <1>1, <1>3 DEF args, x, y

\* Where a join starts.
JoinPlaces == {"bottom", "bracket", "from"}

\* The frame of a join when its second operand is read.
JoinFrame(l, kind, S) == Push(Frame("join", <<l, kind>>), S)

\* What follows it qualifies the join.
Qualifies(tail, l, kind, r, q) ==
  /\ tail \in Text
  /\ \A S : Stands(S, JoinPlaces) =>
       EndsAs(ReadOn(Holding(JoinFrame(l, kind, S), r), tail), S, <<"join", kind, l, r, q>>)

LEMMA JoinReads ==
  ASSUME NEW kind \in JoinWords, NEW a, NEW b, NEW l, NEW r,
         IsOperand(a, l, TableFrames), IsOperand(b, r, TableFrames),
         NEW tail, NEW q, Qualifies(tail, l, kind, r, q)
  PROVE  IsComplete(((a \o <<kind, "JOIN">>) \o b) \o tail, <<"join", kind, l, r, q>>, JoinPlaces)
<1>. DEFINE words == <<kind, "JOIN">>
<1>. DEFINE join  == "JOIN"
<1>. DEFINE tree  == <<"join", kind, l, r, q>>
<1>a. join \in Tokens /\ kind \in Tokens
  BY KeywordsTyped DEF Keywords, JoinWords
<1>1. ASSUME NEW S, Stands(S, JoinPlaces)
      PROVE  EndsAs(ReadOn(Expecting(S), ((a \o words) \o b) \o tail), S, tree)
  <2>1. S.height \in Nat /\ S.frame.kind \notin JoinFrames /\ Stands(S, TableFrames)
    BY <1>1 DEF Stands, JoinPlaces, JoinFrames, TableFrames
  <2>2. Leads(Expecting(S), a, Holding(S, l))
    BY <2>1, OperandLeads, Zenon
  <2>. DEFINE T == Push(Frame("joining", <<l, kind>>), S)
  <2>3. ReadToken(Holding(S, l), kind) = Expecting(T)
    <3>. DEFINE s == Holding(S, l)
    <3>1. s.value # <<>> /\ s.value[1] = l /\ s.stack = S
      BY StateParts
    <3>. HIDE DEF s
    <3>2. Ended(s, JoinFrames) = s
      BY <2>1, <3>1, EndedStops
    <3>3. ReadToken(s, kind) = Inside("joining", <<s.value[1], kind>>, s.stack)
      BY <3>1, <3>2, BehindKind
    <3>. QED BY <3>1, <3>3, Zenon DEF s, Inside
  <2>4. ReadToken(Expecting(T), join) = Expecting(JoinFrame(l, kind, S))
    <3>1. T.frame.kind = "joining" /\ T.frame.args = <<l, kind>> /\ T.below = S
      BY StackParts
    <3>. HIDE DEF T
    <3>2. ReadToken(Expecting(T), join) = Inside("join", T.frame.args, T.below)
      BY <3>1, NextJoin, Zenon
    <3>. QED BY <3>1, <3>2, Zenon DEF Inside, JoinFrame
  <2>5. Leads(Holding(S, l), words, Expecting(JoinFrame(l, kind, S)))
    BY <1>a, <2>3, <2>4, LeadsWords, Zenon
  <2>6. Leads(Expecting(JoinFrame(l, kind, S)), b, Holding(JoinFrame(l, kind, S), r))
    <3>1. Stands(JoinFrame(l, kind, S), TableFrames)
      BY <2>1, StandsThere DEF JoinFrame, TableFrames
    <3>. QED BY <3>1, OperandLeads, Zenon
  <2>. HIDE DEF words
  <2>7. Leads(Expecting(S), (a \o words) \o b, Holding(JoinFrame(l, kind, S), r))
    <3>1. Leads(Expecting(S), a \o words, Expecting(JoinFrame(l, kind, S)))
      BY <2>2, <2>5, LeadsOn, Zenon
    <3>. QED BY <2>6, <3>1, LeadsOn, Zenon
  <2>8. Leads(Holding(JoinFrame(l, kind, S), r), tail,
              ReadOn(Holding(JoinFrame(l, kind, S), r), tail))
    BY Zenon DEF Leads, Qualifies
  <2>9. Leads(Expecting(S), ((a \o words) \o b) \o tail,
              ReadOn(Holding(JoinFrame(l, kind, S), r), tail))
    <3>. DEFINE front == (a \o words) \o b
    <3>. DEFINE read  == ReadOn(Holding(JoinFrame(l, kind, S), r), tail)
    <3>. DEFINE frame == Holding(JoinFrame(l, kind, S), r)
    <3>. HIDE DEF front, read, frame
    <3>1. Leads(Expecting(S), front, frame) /\ Leads(frame, tail, read)
      BY <2>7, <2>8 DEF front, read, frame
    <3>2. Leads(Expecting(S), front \o tail, read)
      BY <3>1, LeadsOn, Zenon
    <3>. QED BY <3>2 DEF front, read
  <2>10. ReadOn(Expecting(S), ((a \o words) \o b) \o tail)
           = ReadOn(Holding(JoinFrame(l, kind, S), r), tail)
    BY <2>9, Zenon DEF Leads
  <2>11. EndsAs(ReadOn(Holding(JoinFrame(l, kind, S), r), tail), S, tree)
    BY <1>1, Zenon DEF Qualifies
  <2>. HIDE DEF tree
  <2>. QED BY <2>10, <2>11, Zenon
<1>2. ((a \o words) \o b) \o tail \in Text
  <2>1. words \in Text /\ a \in Text /\ b \in Text /\ tail \in Text
    BY <1>a, TextsTyped DEF IsOperand, Qualifies
  <2>. HIDE DEF words
  <2>. QED BY <2>1, TextsTyped, Zenon
<1>. HIDE DEF tree
<1>3. IsComplete(((a \o words) \o b) \o tail, tree, JoinPlaces)
  BY <1>1, <1>2, Zenon DEF IsComplete
<1>. QED BY <1>3 DEF tree

\* An empty text leads nowhere.
LEMMA ReadOnNone ==
  ASSUME NEW s
  PROVE  ReadOn(s, <<>>) = s
<1>. DEFINE text == <<>>
<1>1. Len(text) \in Nat /\ Len(text) = 0
  OBVIOUS
<1>. HIDE DEF text
<1>2. PICK f : States(f, s, text) /\ ReadOn(s, text) = f[0]
  BY <1>1, ReadOnUnfolds
<1>3. f[0] = s
  BY <1>2, Zenon DEF States
<1>. QED BY <1>2, <1>3, Zenon DEF text

\* A join that nothing qualifies.
LEMMA UnqualifiedReads ==
  ASSUME NEW l, NEW kind, NEW r
  PROVE  Qualifies(<<>>, l, kind, r, <<"unqualified">>)
<1>. DEFINE q    == <<"unqualified">>
<1>. DEFINE tree == <<"join", kind, l, r, q>>
<1>1. ASSUME NEW S, Stands(S, JoinPlaces)
      PROVE  EndsAs(ReadOn(Holding(JoinFrame(l, kind, S), r), <<>>), S, tree)
  <2>. DEFINE frame == Frame("join", <<l, kind>>)
  <2>1. /\ frame.kind = "join" /\ frame.args = <<l, kind>>
        /\ "join" \in Completed /\ S.height \in Nat
    BY <1>1 DEF Frame, Completed, JoinFrames, Stands
  <2>. HIDE DEF frame
  <2>2. EndsAs(Holding(Push(frame, S), r), S, Complete(frame, r))
    BY <2>1, CompleteEnds
  <2>3. Complete(frame, r) = JoinTree(Append(<<l, kind>>, r), q)
    <3>1. Complete(frame, r) = JoinTree(Append(frame.args, r), q)
      BY <2>1, Zenon DEF Complete
    <3>. QED BY <2>1, <3>1, Zenon
  <2>4. Complete(frame, r) = tree
    BY <2>3, JoinTrees, Zenon
  <2>5. ReadOn(Holding(JoinFrame(l, kind, S), r), <<>>) = Holding(Push(frame, S), r)
    BY ReadOnNone DEF JoinFrame, frame
  <2>. QED BY <2>2, <2>4, <2>5, Zenon
<1>2. <<>> \in Text
  BY TextsTyped, Zenon
<1>. QED BY <1>1, <1>2, Zenon DEF Qualifies

\* ON and USING look at the join whose operand has just been read.
LEMMA QualifierFollows ==
  ASSUME NEW l, NEW kind, NEW r, NEW S, NEW word
  PROVE  Qualified(Holding(JoinFrame(l, kind, S), r), word) = Inside(word, <<l, kind, r>>, S)
<1>. DEFINE s == Holding(JoinFrame(l, kind, S), r)
<1>1. s.value[1] = r /\ s.stack = JoinFrame(l, kind, S)
  BY StateParts
<1>. HIDE DEF s
<1>2. s.stack.frame.kind = "join" /\ s.stack.frame.args = <<l, kind>> /\ s.stack.below = S
  BY <1>1, StackParts DEF JoinFrame
<1>3. Qualified(s, word) = Inside(word, Append(s.stack.frame.args, s.value[1]), s.stack.below)
  BY <1>2, Zenon DEF Qualified
<1>4. Append(<<l, kind>>, r) = <<l, kind, r>>
  BY JoinTrees, Zenon
<1>. QED BY <1>1, <1>2, <1>3, <1>4, Zenon DEF s

\* A join with a condition.
LEMMA OnReads ==
  ASSUME NEW l, NEW kind, NEW r, NEW exp \in PlainText
  PROVE  Qualifies(<<"ON">> \o exp, l, kind, r, <<"on", exp>>)
<1>. DEFINE on   == "ON"
<1>. DEFINE q    == <<"on", exp>>
<1>. DEFINE tree == <<"join", kind, l, r, q>>
<1>a. on = "ON" /\ on \in Tokens
  BY KeywordsTyped DEF Keywords
<1>. HIDE DEF on
<1>1. ASSUME NEW S, Stands(S, JoinPlaces)
      PROVE  EndsAs(ReadOn(Holding(JoinFrame(l, kind, S), r), <<on>> \o exp), S, tree)
  <2>. DEFINE s     == Holding(JoinFrame(l, kind, S), r)
  <2>. DEFINE frame == Frame("on", <<l, kind, r>>)
  <2>1. /\ frame.kind = "on" /\ frame.args = <<l, kind, r>>
        /\ "on" \in Completed /\ S.height \in Nat
    BY <1>1 DEF Frame, Completed, JoinFrames, Stands
  <2>2. ReadToken(s, on) = Expecting(Push(frame, S))
    <3>1. s.value # <<>>
      BY StateParts
    <3>2. Qualified(s, "on") = Inside("on", <<l, kind, r>>, S)
      BY QualifierFollows
    <3>. HIDE DEF s
    <3>3. ReadToken(s, on) = Qualified(s, "on")
      BY <1>a, <3>1, BehindOn
    <3>. QED BY <3>2, <3>3, Zenon DEF Inside
  <2>3. Leads(s, <<on>>, Expecting(Push(frame, S)))
    BY <1>a, <2>2, LeadsWord, Zenon
  <2>4. Leads(Expecting(Push(frame, S)), exp, Holding(Push(frame, S), exp))
    <3>1. Stands(Push(frame, S), {"on", "columns"})
      BY <2>1, StandsThere
    <3>. HIDE DEF frame
    <3>. QED BY <3>1, WordsRead, OperandLeads, Zenon
  <2>. HIDE DEF frame, s
  <2>5. Leads(s, <<on>> \o exp, Holding(Push(frame, S), exp))
    BY <2>3, <2>4, LeadsOn, Zenon
  <2>6. EndsAs(Holding(Push(frame, S), exp), S, Complete(frame, exp))
    BY <2>1, CompleteEnds
  <2>7. Complete(frame, exp) = tree
    <3>1. frame.kind # "join"
      BY <2>1
    <3>2. Complete(frame, exp) = JoinTree(frame.args, q)
      BY <2>1, <3>1, Zenon DEF Complete
    <3>. QED BY <2>1, <3>2, JoinTrees, Zenon
  <2>8. ReadOn(s, <<on>> \o exp) = Holding(Push(frame, S), exp)
    BY <2>5, Zenon DEF Leads
  <2>. QED BY <2>6, <2>7, <2>8, Zenon DEF s
<1>2. <<on>> \o exp \in Text
  BY <1>a, TextsTyped, Zenon
<1>. QED BY <1>1, <1>2, Zenon DEF Qualifies, on

\* A join with columns.
LEMMA UsingReads ==
  ASSUME NEW l, NEW kind, NEW r, NEW columns \in Seq(PlainText), columns # <<>>
  PROVE  Qualifies((<<"USING", "(">> \o JoinCsv(columns)) \o <<")">>,
                   l, kind, r, <<"using", columns>>)
<1>. DEFINE using == "USING"
<1>. DEFINE open  == "("
<1>. DEFINE close == ")"
<1>. DEFINE q     == <<"using", columns>>
<1>. DEFINE tree  == <<"join", kind, l, r, q>>
<1>a. /\ using = "USING" /\ using \in Tokens /\ open = "(" /\ open \in Tokens
      /\ close = ")" /\ close \in Tokens
  BY KeywordsTyped DEF Keywords
<1>. HIDE DEF using, open, close
<1>b. PICK front \in Seq(PlainText), last \in PlainText : columns = Append(front, last)
  BY SequenceEmptyOrAppend
<1>. DEFINE text == (<<using, open>> \o JoinCsv(columns)) \o <<close>>
<1>1. ASSUME NEW S, Stands(S, JoinPlaces)
      PROVE  EndsAs(ReadOn(Holding(JoinFrame(l, kind, S), r), text), S, tree)
  <2>. DEFINE s     == Holding(JoinFrame(l, kind, S), r)
  <2>. DEFINE frame == Frame("using", <<l, kind, r>>)
  <2>. DEFINE T     == Push(frame, S)
  <2>. DEFINE U     == Push(Frame("columns", front), T)
  <2>1. /\ frame.kind = "using" /\ frame.args = <<l, kind, r>>
        /\ "using" \in Completed /\ S.height \in Nat
    BY <1>1 DEF Frame, Completed, JoinFrames, Stands
  <2>2. ReadToken(s, using) = Expecting(T)
    <3>1. s.value # <<>>
      BY StateParts
    <3>2. Qualified(s, "using") = Inside("using", <<l, kind, r>>, S)
      BY QualifierFollows
    <3>. HIDE DEF s
    <3>3. ReadToken(s, using) = Qualified(s, "using")
      BY <1>a, <3>1, BehindUsing
    <3>. QED BY <3>2, <3>3, Zenon DEF Inside
  <2>3. T.frame.kind = "using" /\ T.height \in Nat
    BY <2>1, StackParts
  <2>. HIDE DEF s, frame, T
  <2>4. ReadToken(Expecting(T), open) = Inside("columns", <<>>, T)
    <3>1. "using" \notin BracketFrames /\ "using" # "select"
      BY DEF BracketFrames, StatementFrames, TableFrames
    <3>2. OpenBracket(T) = Inside("columns", <<>>, T)
      BY <2>3, <3>1, Zenon DEF OpenBracket
    <3>. QED BY <1>a, <3>2, NextOpens, Zenon
  <2>5. Leads(s, <<using, open>>, Inside("columns", <<>>, T))
    BY <1>a, <2>2, <2>4, LeadsWords, Zenon
  <2>6. Leads(Inside("columns", <<>>, T), JoinCsv(columns), Holding(U, last))
    <3>1. Leads(Inside("columns", <<>>, T), JoinCsv(Append(front, last)), Holding(U, last))
      BY <2>3, ColumnsRead
    <3>. QED BY <1>b, <3>1
  <2>7. /\ U.frame.kind = "columns" /\ U.frame.args = front /\ U.below = T
        /\ U.height \in Nat
    BY <2>3, StackParts
  <2>. HIDE DEF U
  <2>8. ReadToken(Holding(U, last), close) = Holding(T, columns)
    <3>. DEFINE h == Holding(U, last)
    <3>1. h.value # <<>> /\ h.value[1] = last /\ h.stack = U
      BY StateParts
    <3>. HIDE DEF h
    <3>2. Ended(h, Completed) = h
      <4>1. "columns" \notin Completed
        BY DEF Completed, JoinFrames
      <4>. QED BY <2>7, <3>1, <4>1, EndedStops
    <3>3. CloseBracket(h) = Holding(h.stack.below, Append(h.stack.frame.args, h.value[1]))
      <4>1. h.stack.frame.kind = "columns"
        BY <2>7, <3>1
      <4>. QED BY <4>1, Zenon DEF CloseBracket
    <3>4. ReadToken(h, close) = CloseBracket(h)
      BY <1>a, <3>1, <3>2, BehindClose, Zenon
    <3>5. CloseBracket(h) = Holding(T, columns)
      BY <1>b, <2>7, <3>1, <3>3
    <3>. QED BY <3>4, <3>5, Zenon DEF h
  <2>9. Leads(Holding(U, last), <<close>>, Holding(T, columns))
    BY <1>a, <2>8, LeadsWord, Zenon
  <2>10. Leads(s, text, Holding(T, columns))
    <3>1. Leads(s, <<using, open>> \o JoinCsv(columns), Holding(U, last))
      BY <2>5, <2>6, LeadsOn, Zenon
    <3>. QED BY <2>9, <3>1, LeadsOn, Zenon
  <2>11. EndsAs(Holding(T, columns), S, Complete(frame, columns))
    BY <2>1, CompleteEnds DEF T
  <2>12. Complete(frame, columns) = tree
    <3>1. frame.kind # "join" /\ frame.kind # "on"
      BY <2>1
    <3>2. Complete(frame, columns) = JoinTree(frame.args, q)
      BY <2>1, <3>1, Zenon DEF Complete
    <3>. QED BY <2>1, <3>2, JoinTrees, Zenon
  <2>. HIDE DEF text, tree
  <2>13. ReadOn(s, text) = Holding(T, columns)
    BY <2>10, Zenon DEF Leads
  <2>. QED BY <2>11, <2>12, <2>13, Zenon DEF s
<1>2. text \in Text
  <2>1. <<using, open>> \in Text /\ JoinCsv(columns) \in Text /\ <<close>> \in Text
    BY <1>a, TextsTyped, ColumnsJoin, Zenon
  <2>. QED BY <2>1, TextsTyped, Zenon
<1>3. Qualifies(text, l, kind, r, q)
  <2>. HIDE DEF text
  <2>. QED BY <1>1, <1>2, Zenon DEF Qualifies
<1>. QED BY <1>3 DEF using, open, close

\* The text of a set operation, of which no part needs to be complete.
LEMMA SetOpReads ==
  ASSUME NEW kind \in SetOpWords, NEW a, NEW b, NEW l, NEW r,
         IsOperand(a, l, BracketFrames), IsOperand(b, r, BracketFrames)
  PROVE  IsComplete((a \o <<kind>>) \o b, <<"set operation", kind, l, r>>, StatementFrames)
<1>. DEFINE tree == <<"set operation", kind, l, r>>
<1>. DEFINE word == <<kind>>
<1>. DEFINE args == <<l, kind>>
<1>a. kind \in Tokens
  BY KeywordsTyped DEF Keywords
<1>b. args[1] = l /\ args[2] = kind
  OBVIOUS
<1>1. ASSUME NEW S, Stands(S, StatementFrames)
      PROVE  EndsAs(ReadOn(Expecting(S), (a \o word) \o b), S, tree)
  <2>. DEFINE frame == Frame("set operation", args)
  <2>1. /\ S.height \in Nat /\ Stands(S, BracketFrames)
        /\ S.frame.kind \notin Completed \ {"main"}
    BY <1>1 DEF Stands, StatementFrames, BracketFrames, Completed, JoinFrames
  <2>2. /\ frame.kind = "set operation" /\ frame.args = args
        /\ frame.kind \in Completed /\ frame.kind \in BracketFrames
    BY DEF Frame, Completed, BracketFrames
  <2>3. ReadToken(Holding(S, l), kind) = Expecting(Push(frame, S))
    <3>. DEFINE s == Holding(S, l)
    <3>1. s.value # <<>> /\ s.value[1] = l /\ s.stack = S
      BY StateParts
    <3>. HIDE DEF s
    <3>2. Ended(s, Completed \ {"main"}) = s
      <4>. DEFINE kinds == Completed \ {"main"}
      <4>1. s.stack.height \in Nat /\ s.stack.frame.kind \notin kinds
        BY <2>1, <3>1
      <4>. HIDE DEF kinds
      <4>2. Ended(s, kinds) = s
        BY <4>1, EndedStops
      <4>. QED BY <4>2 DEF kinds
    <3>3. ReadToken(s, kind) = Inside("set operation", <<s.value[1], kind>>, s.stack)
      BY <3>1, <3>2, BehindSetOp
    <3>. QED BY <3>1, <3>3, Zenon DEF s, Inside
  <2>4. Leads(Holding(S, l), word, Expecting(Push(frame, S)))
    BY <1>a, <2>3, LeadsWord, Zenon
  <2>5. Leads(Expecting(S), a, Holding(S, l))
    BY <2>1, OperandLeads, Zenon
  <2>6. Leads(Expecting(Push(frame, S)), b, Holding(Push(frame, S), r))
    <3>1. Stands(Push(frame, S), BracketFrames)
      BY <2>1, <2>2, StandsThere
    <3>. HIDE DEF frame
    <3>. QED BY <3>1, OperandLeads, Zenon
  <2>. HIDE DEF word, frame, args, tree
  <2>7. Leads(Expecting(S), (a \o word) \o b, Holding(Push(frame, S), r))
    <3>1. Leads(Expecting(S), a \o word, Expecting(Push(frame, S)))
      BY <2>4, <2>5, LeadsOn, Zenon
    <3>. QED BY <2>6, <3>1, LeadsOn, Zenon
  <2>8. EndsAs(Holding(Push(frame, S), r), S, Complete(frame, r))
    BY <2>1, <2>2, CompleteEnds
  <2>9. Complete(frame, r) = tree
    <3>1. /\ frame.kind # "join" /\ frame.kind # "on"
          /\ frame.kind # "using" /\ frame.kind # "from"
      BY <2>2
    <3>2. Complete(frame, r) = <<"set operation", frame.args[2], frame.args[1], r>>
      BY <2>2, <3>1, Zenon DEF Complete
    <3>. QED BY <1>b, <2>2, <3>2, Zenon DEF tree
  <2>10. ReadOn(Expecting(S), (a \o word) \o b) = Holding(Push(frame, S), r)
    BY <2>7, Zenon DEF Leads
  <2>. QED BY <2>8, <2>9, <2>10, Zenon
<1>2. (a \o word) \o b \in Text
  <2>1. word \in Text /\ a \in Text /\ b \in Text
    BY <1>a, TextsTyped DEF IsOperand
  <2>. HIDE DEF word
  <2>. QED BY <2>1, TextsTyped, Zenon
<1>. HIDE DEF tree, word
<1>3. IsComplete((a \o word) \o b, tree, StatementFrames)
  BY <1>1, <1>2, Zenon DEF IsComplete
<1>. QED BY <1>3 DEF tree, word

\* The text of a SELECT.
LEMMA SelectReads ==
  ASSUME NEW item, NEW i, IsOperand(item, i, {"select"}),
         NEW from, NEW t, IsComplete(from, t, {"from"})
  PROVE  IsComplete(((<<"SELECT">> \o item) \o <<"FROM">>) \o from,
                    <<"select", i, t>>, StatementFrames)
<1>. DEFINE tree == <<"select", i, t>>
<1>. DEFINE sel  == "SELECT"
<1>. DEFINE frm  == "FROM"
<1>. DEFINE args == <<i>>
<1>a. sel = "SELECT" /\ sel \in Tokens /\ frm = "FROM" /\ frm \in Tokens
  BY KeywordsTyped DEF Keywords
<1>b. args[1] = i
  OBVIOUS
<1>. HIDE DEF sel, frm
<1>1. ASSUME NEW S, Stands(S, StatementFrames)
      PROVE  EndsAs(ReadOn(Expecting(S), ((<<sel>> \o item) \o <<frm>>) \o from), S, tree)
  <2>. DEFINE T == Push(Frame("select", <<>>), S)
  <2>1. S.height \in Nat /\ S.frame.kind \in StatementFrames
    BY <1>1 DEF Stands
  <2>2. Leads(Expecting(S), <<sel>>, Expecting(T))
    <3>1. ReadToken(Expecting(S), sel) = Inside("select", <<>>, S)
      BY <1>a, <2>1, NextSelect, Zenon
    <3>. QED BY <1>a, <3>1, LeadsWord, Zenon DEF Inside
  <2>3. Stands(T, {"select"}) /\ T.frame.kind = "select" /\ T.below = S
    BY <2>1, StandsThere, StackParts
  <2>. HIDE DEF T
  <2>4. Leads(Expecting(T), item, Holding(T, i))
    BY <2>3, OperandLeads, Zenon
  <2>5. Leads(Holding(T, i), <<frm>>, Inside("from", args, S))
    <3>. DEFINE s == Holding(T, i)
    <3>1. s.value # <<>> /\ s.value = args /\ s.stack = T
      BY StateParts
    <3>. HIDE DEF s, args
    <3>2. ReadToken(s, frm) = Inside("from", s.value, s.stack.below)
      BY <1>a, <2>3, <3>1, BehindFrom
    <3>3. ReadToken(s, frm) = Inside("from", args, S)
      BY <2>3, <3>1, <3>2, Zenon
    <3>. QED BY <1>a, <3>3, LeadsWord, Zenon DEF s
  <2>6. EndsAs(ReadOn(Inside("from", args, S), from), S, Complete(Frame("from", args), t))
    <3>1. "from" \in Completed
      BY DEF Completed
    <3>. QED BY <2>1, <3>1, CompleteInside
  <2>7. Complete(Frame("from", args), t) = tree
    <3>. DEFINE frame == Frame("from", args)
    <3>1. /\ frame.kind = "from" /\ frame.args = args
          /\ frame.kind # "join" /\ frame.kind # "on" /\ frame.kind # "using"
      BY DEF Frame
    <3>. HIDE DEF frame, args
    <3>2. Complete(frame, t) = <<"select", frame.args[1], t>>
      BY <3>1, Zenon DEF Complete
    <3>. QED BY <1>b, <3>1, <3>2, Zenon DEF frame
  <2>. HIDE DEF args, tree
  <2>8. Leads(Expecting(S), (<<sel>> \o item) \o <<frm>>, Inside("from", args, S))
    <3>1. Leads(Expecting(S), <<sel>> \o item, Holding(T, i))
      BY <2>2, <2>4, LeadsOn, Zenon
    <3>. QED BY <2>5, <3>1, LeadsOn, Zenon
  <2>9. ReadOn(Expecting(S), ((<<sel>> \o item) \o <<frm>>) \o from)
          = ReadOn(Inside("from", args, S), from)
    <3>. DEFINE front == (<<sel>> \o item) \o <<frm>>
    <3>1. Leads(Expecting(S), front, Inside("from", args, S)) /\ from \in Text
      BY <2>8 DEF IsComplete
    <3>. HIDE DEF front
    <3>2. ReadOn(Expecting(S), front \o from) = ReadOn(ReadOn(Expecting(S), front), from)
      BY <3>1, ReadOnBoth, Zenon DEF Leads
    <3>. QED BY <3>1, <3>2, Zenon DEF Leads, front
  <2>. QED BY <2>6, <2>7, <2>9, Zenon
<1>2. ((<<sel>> \o item) \o <<frm>>) \o from \in Text
  BY <1>a, TextsTyped, Zenon DEF IsOperand, IsComplete
<1>. HIDE DEF tree
<1>3. IsComplete(((<<sel>> \o item) \o <<frm>>) \o from, tree, StatementFrames)
  BY <1>1, <1>2, Zenon DEF IsComplete
<1>. QED BY <1>3 DEF tree, sel, frm

-----------------------------------------------------------------------------
\* One CTE, behind those of the list.
LEMMA CteReads ==
  ASSUME NEW S, S.height \in Nat, NEW list, NEW name \in Words,
         NEW text, NEW tree, IsComplete(text, tree, {"query"})
  PROVE  Leads(Inside("ctes", list, S), <<name, "AS">> \o (<<"(">> \o text \o <<")">>),
               Inside("main", Append(list, <<name, tree>>), S))
<1>. DEFINE as   == "AS"
<1>. DEFINE args == <<list, name>>
<1>. DEFINE all  == <<"(">> \o text \o <<")">>
<1>a. as = "AS" /\ as \in Tokens /\ name \in Tokens
  BY KeywordsTyped, WordsTyped DEF Keywords
<1>b. args[1] = list /\ args[2] = name
  OBVIOUS
<1>. HIDE DEF as
<1>1. ReadToken(Inside("ctes", list, S), name) = Inside("cte", args, S)
  <2>. DEFINE T == Push(Frame("ctes", list), S)
  <2>1. /\ T.frame.kind = "ctes" /\ T.frame.args = list /\ T.below = S
        /\ "ctes" \notin TableFrames
    <3>1. T.frame.kind = "ctes" /\ T.frame.args = list /\ T.below = S
      BY StackParts
    <3>. QED BY <3>1 DEF TableFrames
  <2>. HIDE DEF T
  <2>2. /\ T.frame.kind \notin TableFrames /\ T.frame.kind # "select"
        /\ T.frame.kind \notin {"on", "columns"} /\ T.frame.kind # "alias"
    BY <2>1
  <2>3. ReadWord(T, name) = Inside("cte", <<T.frame.args, name>>, T.below)
    BY <2>1, <2>2, Zenon DEF ReadWord
  <2>4. ReadToken(Expecting(T), name) = Inside("cte", args, S)
    BY <2>1, <2>3, NextWord, Zenon
  <2>. QED BY <2>4 DEF T, Inside
<1>2. ReadToken(Inside("cte", args, S), as) = Inside("cte as", args, S)
  <2>. DEFINE T == Push(Frame("cte", args), S)
  <2>1. T.frame.kind = "cte" /\ T.frame.args = args /\ T.below = S
    BY StackParts
  <2>. HIDE DEF T, args
  <2>2. ReadToken(Expecting(T), as) = Inside("cte as", args, S)
    BY <1>a, <2>1, NextAs
  <2>. QED BY <2>2 DEF T, Inside
<1>3. Leads(Inside("ctes", list, S), <<name, as>>, Inside("cte as", args, S))
  BY <1>a, <1>1, <1>2, LeadsWords, Zenon
<1>4. ReadToken(Inside("cte as", args, S), "(") = Inside("query", args, S)
  <2>. HIDE DEF args
  <2>. DEFINE kind == "cte as"
  <2>. DEFINE T == Push(Frame(kind, args), S)
  <2>1. T.frame.kind = "cte as" /\ T.frame.args = args /\ T.below = S
    <3>. HIDE DEF kind
    <3>1. T.frame.kind = kind /\ T.frame.args = args /\ T.below = S
      BY StackParts
    <3>. QED BY <3>1 DEF kind
  <2>. HIDE DEF T, args
  <2>2. T.frame.kind \notin BracketFrames /\ T.frame.kind # "select" /\ T.frame.kind # "using"
    BY <2>1 DEF BracketFrames, StatementFrames, TableFrames
  <2>3. OpenBracket(T) = Inside("query", T.frame.args, T.below)
    BY <2>1, <2>2, Zenon DEF OpenBracket
  <2>4. ReadToken(Expecting(T), "(") = Inside("query", args, S)
    BY <2>1, <2>3, NextOpens
  <2>. QED BY <2>4 DEF T, Inside
<1>5. /\ all \in Text
      /\ ReadOn(Inside("cte as", args, S), all)
           = CloseBracket(Holding(Push(Frame("query", args), S), tree))
  <2>1. "query" \notin Completed
    BY DEF Completed, JoinFrames
  <2>. DEFINE kind == "query"
  <2>. DEFINE s == Inside("cte as", args, S)
  <2>2. kind \notin Completed /\ ReadToken(s, "(") = Inside(kind, args, S)
    BY <1>4, <2>1
  <2>3. IsComplete(text, tree, {kind})
    OBVIOUS
  <2>. HIDE DEF args, s, kind
  <2>4. all \in Text /\ ReadOn(s, all) = CloseBracket(Holding(Push(Frame(kind, args), S), tree))
    BY <2>2, <2>3, InBrackets
  <2>. QED BY <2>4 DEF s, kind
<1>6. CloseBracket(Holding(Push(Frame("query", args), S), tree))
        = Inside("main", Append(list, <<name, tree>>), S)
  <2>. DEFINE T == Push(Frame("query", args), S)
  <2>. DEFINE s == Holding(T, tree)
  <2>1. T.frame.kind = "query" /\ T.frame.args = args /\ T.below = S
    BY StackParts
  <2>2. s.value[1] = tree /\ s.stack = T
    BY StateParts
  <2>. HIDE DEF T, args, s
  <2>3. s.stack.frame.kind = "query"
    BY <2>1, <2>2
  <2>4. CloseBracket(s) = Inside("main", Append(s.stack.frame.args[1], <<s.stack.frame.args[2], s.value[1]>>),
                                 s.stack.below)
    BY <2>3, Zenon DEF CloseBracket
  <2>5. CloseBracket(s) = Inside("main", Append(list, <<name, tree>>), S)
    BY <1>b, <2>1, <2>2, <2>4, Zenon
  <2>. QED BY <2>5 DEF s, T
<1>. HIDE DEF all, args
<1>7. Leads(Inside("cte as", args, S), all, Inside("main", Append(list, <<name, tree>>), S))
  BY <1>5, <1>6, Zenon DEF Leads
<1>8. Leads(Inside("ctes", list, S), <<name, as>> \o all,
            Inside("main", Append(list, <<name, tree>>), S))
  BY <1>3, <1>7, LeadsOn, Zenon
<1>. QED BY <1>8 DEF as, all

\* The text of a WITH clause, up to the main query.
CtesRead(text, list) ==
  /\ text \in Text
  /\ \A S : S.height \in Nat => Leads(Inside("ctes", <<>>, S), text, Inside("main", list, S))

LEMMA CtesStart ==
  ASSUME NEW name \in Words, NEW text, NEW tree, IsComplete(text, tree, {"query"})
  PROVE  CtesRead(<<name, "AS">> \o (<<"(">> \o text \o <<")">>), <<<<name, tree>>>>)
<1>. DEFINE cte  == <<name, "AS">> \o (<<"(">> \o text \o <<")">>)
<1>. DEFINE pair == <<name, tree>>
<1>1. \A S : S.height \in Nat => Leads(Inside("ctes", <<>>, S), cte, Inside("main", Append(<<>>, pair), S))
  BY CteReads
<1>2. Append(<<>>, pair) = <<pair>>
  OBVIOUS
<1>3. Bottom.height \in Nat
  BY DEF Bottom
<1>. HIDE DEF cte, pair
<1>4. cte \in Text
  BY <1>1, <1>3, Zenon DEF Leads
<1>5. CtesRead(cte, <<pair>>)
  BY <1>1, <1>2, <1>4, Zenon DEF CtesRead
<1>. QED BY <1>5 DEF cte, pair

LEMMA CtesMore ==
  ASSUME NEW ctes, NEW list, CtesRead(ctes, list),
         NEW name \in Words, NEW text, NEW tree, IsComplete(text, tree, {"query"})
  PROVE  CtesRead((ctes \o <<", ">>) \o (<<name, "AS">> \o (<<"(">> \o text \o <<")">>)),
                  Append(list, <<name, tree>>))
<1>. DEFINE cte   == <<name, "AS">> \o (<<"(">> \o text \o <<")">>)
<1>. DEFINE pair  == <<name, tree>>
<1>. DEFINE comma == ", "
<1>a. comma = ", " /\ comma \in Tokens
  BY KeywordsTyped DEF Keywords
<1>1. \A S : S.height \in Nat => Leads(Inside("ctes", list, S), cte, Inside("main", Append(list, pair), S))
  BY CteReads
<1>. HIDE DEF cte, pair, comma
<1>2. ASSUME NEW S, S.height \in Nat
      PROVE  Leads(Inside("ctes", <<>>, S), (ctes \o <<comma>>) \o cte, Inside("main", Append(list, pair), S))
  <2>1. Leads(Inside("ctes", <<>>, S), ctes, Inside("main", list, S))
    BY <1>2, Zenon DEF CtesRead
  <2>2. ReadToken(Inside("main", list, S), comma) = Inside("ctes", list, S)
    <3>. DEFINE T == Push(Frame("main", list), S)
    <3>1. T.frame.kind = "main" /\ T.frame.args = list /\ T.below = S
      BY StackParts
    <3>. HIDE DEF T
    <3>2. ReadToken(Expecting(T), comma) = Inside("ctes", list, S)
      BY <1>a, <3>1, NextComma
    <3>. QED BY <3>2 DEF T, Inside
  <2>3. Leads(Inside("main", list, S), <<comma>>, Inside("ctes", list, S))
    BY <1>a, <2>2, LeadsWord, Zenon
  <2>4. Leads(Inside("ctes", <<>>, S), ctes \o <<comma>>, Inside("ctes", list, S))
    BY <2>1, <2>3, LeadsOn, Zenon
  <2>. QED BY <1>1, <1>2, <2>4, LeadsOn, Zenon
<1>3. Bottom.height \in Nat
  BY DEF Bottom
<1>4. (ctes \o <<comma>>) \o cte \in Text
  BY <1>2, <1>3, Zenon DEF Leads
<1>5. CtesRead((ctes \o <<comma>>) \o cte, Append(list, pair))
  BY <1>2, <1>4, Zenon DEF CtesRead
<1>. QED BY <1>5 DEF cte, pair, comma

\* The text of a WITH query.  It cannot be the main query of another.
LEMMA WithReads ==
  ASSUME NEW ctes, NEW list, CtesRead(ctes, list),
         NEW main, NEW m, IsComplete(main, m, {"main"})
  PROVE  IsComplete((<<"WITH">> \o ctes) \o main, <<"with", list, m>>, StatementFrames \ {"main"})
<1>. DEFINE word   == "WITH"
<1>. DEFINE tree   == <<"with", list, m>>
<1>. DEFINE places == StatementFrames \ {"main"}
<1>a. word = "WITH" /\ word \in Tokens
  BY KeywordsTyped DEF Keywords
<1>. HIDE DEF word
<1>1. ASSUME NEW S, Stands(S, places)
      PROVE  EndsAs(ReadOn(Expecting(S), (<<word>> \o ctes) \o main), S, tree)
  <2>1. S.height \in Nat /\ S.frame.kind \in places
    BY <1>1, Zenon DEF Stands
  <2>2. Leads(Expecting(S), <<word>>, Inside("ctes", <<>>, S))
    <3>1. ReadToken(Expecting(S), word) = Inside("ctes", <<>>, S)
      BY <1>a, <2>1, NextWith
    <3>. QED BY <1>a, <3>1, LeadsWord, Zenon
  <2>3. Leads(Inside("ctes", <<>>, S), ctes, Inside("main", list, S))
    BY <2>1, Zenon DEF CtesRead
  <2>. DEFINE front == <<word>> \o ctes
  <2>4. Leads(Expecting(S), front, Inside("main", list, S)) /\ main \in Text
    BY <2>2, <2>3, LeadsOn, Zenon DEF IsComplete
  <2>5. EndsAs(ReadOn(Inside("main", list, S), main), S, Complete(Frame("main", list), m))
    <3>1. "main" \in Completed
      BY DEF Completed
    <3>. QED BY <2>1, <3>1, CompleteInside
  <2>6. Complete(Frame("main", list), m) = tree
    <3>. DEFINE frame == Frame("main", list)
    <3>1. /\ frame.kind = "main" /\ frame.args = list
          /\ frame.kind # "join" /\ frame.kind # "on" /\ frame.kind # "using"
          /\ frame.kind # "from" /\ frame.kind # "set operation"
      BY DEF Frame
    <3>. HIDE DEF frame
    <3>2. Complete(frame, m) = <<"with", frame.args, m>>
      BY <3>1, Zenon DEF Complete
    <3>. QED BY <3>1, <3>2, Zenon DEF frame
  <2>. HIDE DEF front, tree
  <2>7. ReadOn(Expecting(S), front \o main) = ReadOn(ReadOn(Expecting(S), front), main)
    BY <2>4, ReadOnBoth, Zenon DEF Leads
  <2>8. EndsAs(ReadOn(Expecting(S), front \o main), S, tree)
    BY <2>4, <2>5, <2>6, <2>7, Zenon DEF Leads
  <2>. QED BY <2>8 DEF front
<1>2. (<<word>> \o ctes) \o main \in Text
  BY <1>a, TextsTyped, Zenon DEF CtesRead, IsComplete
<1>. HIDE DEF tree, places
<1>3. IsComplete((<<word>> \o ctes) \o main, tree, places)
  BY <1>1, <1>2, Zenon DEF IsComplete
<1>. QED BY <1>3 DEF tree, word, places

\* What is complete on its own is read back.
LEMMA CompleteRead ==
  ASSUME NEW text, NEW tree, IsComplete(text, tree, {"bottom"})
  PROVE  Read(text) = <<tree>>
<1>. DEFINE s == ReadOn(Expecting(Bottom), text)
<1>. DEFINE h == Holding(Bottom, tree)
<1>1. Bottom.height \in Nat /\ Bottom.frame.kind = "bottom" /\ "bottom" \notin Completed
  BY DEF Bottom, Frame, Completed, JoinFrames
<1>2. EndsAs(s, Bottom, tree)
  <2>1. Stands(Bottom, {"bottom"})
    BY <1>1 DEF Stands
  <2>. QED BY <2>1, Zenon DEF IsComplete
<1>3. h.stack = Bottom /\ h.value = <<tree>>
  BY StateParts
<1>4. Ended(h, Completed) = h
  <2>. HIDE DEF h
  <2>. QED BY <1>1, <1>3, EndedStops
<1>5. Ended(s, Completed) = h
  BY <1>2, <1>4, Zenon DEF EndsAs
<1>6. Read(text) = IF Ended(s, Completed).stack # Bottom THEN <<>> ELSE Ended(s, Completed).value
  BY Zenon DEF Read
<1>. HIDE DEF s, h
<1>. QED BY <1>3, <1>5, <1>6

-----------------------------------------------------------------------------
\* Leaving out layout, of texts.
LEMMA UnlaidTexts ==
  /\ \A a \in Text : Unlaid(a) \in Text
  /\ \A a, b \in Text : Unlaid(a \o b) = Unlaid(a) \o Unlaid(b)
  /\ Unlaid(<<>>) = <<>>
<1>1. \A a \in Text : Unlaid(a) \in Text
  BY UnlaidUnfolds DEF Text
<1>2. \A a, b \in Text : Unlaid(a \o b) = Unlaid(a) \o Unlaid(b)
  BY UnlaidConcat DEF Text
<1>. QED BY <1>1, <1>2, UnlaidNone

LEMMA UnlaidWords ==
  /\ <<"\n">> \in Text /\ <<"    ">> \in Text
  /\ Unlaid(<<"\n">>) = <<>> /\ Unlaid(<<"    ">>) = <<>>
  /\ \A w \in Keywords \cup Words : <<w>> \in Text /\ Unlaid(<<w>>) = <<w>>
<1>1. "\n" \in Layout /\ "    " \in Layout /\ Layout \subseteq Tokens
  BY TableAssumption DEF Layout
<1>2. (Keywords \cup Words) \cap Layout = {} /\ Keywords \cup Words \subseteq Tokens
  BY KeywordsTyped DEF Words, Keywords, Layout, PlainKinds, NaturalKinds, SetOpWords
<1>3. \A w \in Tokens : <<w>> \in Text
  BY TextsTyped, Zenon
<1>4. \A w \in Keywords \cup Words : w \in Tokens /\ w \notin Layout
  BY <1>2
<1>. QED BY <1>1, <1>3, <1>4, UnlaidWord, Zenon

\* What IndentBlock makes of a token.
IndentPiece(token) == IF token = "\n" THEN <<"\n", "    ">> ELSE <<token>>

LEMMA PieceUnlaid ==
  ASSUME NEW token \in Tokens
  PROVE  /\ IndentPiece(token) \in Text
         /\ Unlaid(IndentPiece(token)) = IF token \in Layout THEN <<>> ELSE <<token>>
<1>1. CASE token = "\n"
  <2>. DEFINE a == <<"\n">>
  <2>. DEFINE b == <<"    ">>
  <2>1. a \in Text /\ b \in Text /\ Unlaid(a) = <<>> /\ Unlaid(b) = <<>>
    BY UnlaidWords, Zenon
  <2>2. IndentPiece(token) = a \o b
    BY <1>1, PairConcat, Zenon DEF IndentPiece
  <2>. HIDE DEF a, b
  <2>3. <<>> \o <<>> = <<>>
    OBVIOUS
  <2>4. token \in Layout
    BY <1>1 DEF Layout
  <2>5. IndentPiece(token) \in Text
    BY <2>1, <2>2, TextsTyped, Zenon
  <2>6. Unlaid(a \o b) = Unlaid(a) \o Unlaid(b)
    BY <2>1, UnlaidTexts, Zenon
  <2>7. Unlaid(IndentPiece(token)) = <<>>
    BY <2>1, <2>2, <2>3, <2>6, Zenon
  <2>. QED BY <2>4, <2>5, <2>7, Zenon
<1>2. CASE token # "\n"
  BY <1>2, TextsTyped, UnlaidWord, Zenon DEF IndentPiece
<1>. QED BY <1>1, <1>2

\* Indenting a block changes its layout.
LEMMA IndentUnlaid ==
  ASSUME NEW block \in Text
  PROVE  IndentBlock(block) \in Text /\ Unlaid(IndentBlock(block)) = Unlaid(block)
<1>. DEFINE n == Len(block)
<1>. DEFINE pieces == [k \in DOMAIN block |-> IndentPiece(block[k])]
<1>. DEFINE join == [p \in Text \X Tokens |-> UnlaidMore(p[1], p[2])]
<1>1. n \in Nat /\ DOMAIN block = 1..n /\ \A k \in 1..n : block[k] \in Tokens
  BY LenProperties, ElementOfSeq DEF Text
<1>2. /\ pieces \in Seq(Text) /\ Len(pieces) = n
      /\ \A k \in 1..n : pieces[k] = IndentPiece(block[k])
  <2>1. \A k \in 1..n : IndentPiece(block[k]) \in Text
    BY <1>1, PieceUnlaid
  <2>. QED BY <1>1, <2>1
<1>3. PICK h : Gathers(h, Text, block, <<>>, join) /\ Unlaid(block) = h[n]
  <2>1. Gathered(Unlaid(block), Text, block, <<>>, join)
    BY UnlaidGathers DEF Text
  <2>. HIDE DEF join
  <2>. QED BY <2>1, Zenon DEF Gathered
<1>4. /\ h[0] = <<>>
      /\ \A k \in 1..n : h[k-1] \in Text /\ h[k] = UnlaidMore(h[k-1], block[k])
  <2>1. h \in [0..n -> Text] /\ h[0] = <<>> /\ \A k \in 1..n : h[k] = join[<<h[k-1], block[k]>>]
    BY <1>3, Zenon DEF Gathers
  <2>2. ASSUME NEW k \in 1..n
        PROVE  h[k-1] \in Text /\ h[k] = UnlaidMore(h[k-1], block[k])
    <3>1. k-1 \in 0..n /\ block[k] \in Tokens
      BY <1>1
    <3>2. h[k-1] \in Text
      BY <2>1, <3>1
    <3>3. join[<<h[k-1], block[k]>>] = UnlaidMore(h[k-1], block[k])
      BY <3>1, <3>2
    <3>. QED BY <2>1, <3>2, <3>3, Zenon
  <2>. QED BY <2>1, <2>2
<1>5. IndentBlock(block) = <<"    ">> \o FlattenSeq(pieces)
  BY DEF IndentBlock, IndentPiece
<1>. HIDE DEF n, pieces, join
<1>6. FlattenSeq(pieces) \in Text /\ Unlaid(FlattenSeq(pieces)) = h[n]
  <2>1. CASE n = 0
    <3>1. FlattenSeq(pieces) = <<>>
      <4>1. pieces = <<>>
        BY <1>2, <2>1
      <4>. QED BY <4>1 DEF FlattenSeq
    <3>. QED BY <1>4, <2>1, <3>1, UnlaidTexts, TextsTyped, Zenon
  <2>2. CASE n # 0
    <3>1. PICK g : /\ FlattenSeq(pieces) = g[n]
                   /\ g[1] = pieces[1]
                   /\ \A k \in 2..n : g[k] = g[k-1] \o pieces[k]
                   /\ \A k \in 1..n : g[k] \in Text
      <4>1. pieces \in Seq(Seq(Tokens)) /\ Len(pieces) # 0
        BY <1>2, <2>2 DEF Text
      <4>2. \E g : /\ FlattenSeq(pieces) = g[Len(pieces)]
                   /\ g[1] = pieces[1]
                   /\ \A k \in 2..Len(pieces) : g[k] = g[k-1] \o pieces[k]
                   /\ \A k \in 1..Len(pieces) : g[k] \in Seq(Tokens)
        BY ONLY <4>1, FlattenUnfolds
      <4>. QED BY <1>2, <4>2 DEF Text
    <3>2. \A k \in 1..n : /\ pieces[k] \in Text
                          /\ Unlaid(pieces[k]) = IF block[k] \in Layout THEN <<>> ELSE <<block[k]>>
      BY <1>1, <1>2, PieceUnlaid, Zenon
    <3>. DEFINE T == {k \in 1..n : Unlaid(g[k]) # h[k]}
    <3>3. SUFFICES ASSUME T # {} PROVE FALSE
      <4>1. n \in 1..n
        BY <1>1, <2>2
      <4>. QED BY <3>1, <4>1
    <3>4. PICK m \in T : \A k \in T : m <= k
      <4>1. T \in SUBSET Nat
        BY <1>1
      <4>. HIDE DEF T
      <4>. QED BY <3>3, <4>1, LeastNat
    <3>5. m \in 1..n /\ Unlaid(g[m]) # h[m]
      BY <3>4
    <3>. DEFINE tail == IF block[m] \in Layout THEN <<>> ELSE <<block[m]>>
    <3>6. h[m] = h[m-1] \o tail /\ Unlaid(pieces[m]) = tail /\ pieces[m] \in Text
      BY <1>4, <3>2, <3>5, Zenon DEF UnlaidMore
    <3>7. CASE m = 1
      <4>1. h[0] = <<>> /\ 1-1 = 0
        BY <1>4
      <4>2. tail \in Text
        BY <3>6, UnlaidTexts, Zenon
      <4>. HIDE DEF tail
      <4>3. <<>> \o tail = tail
        BY <4>2 DEF Text
      <4>. QED BY <3>1, <3>5, <3>6, <3>7, <4>1, <4>3
    <3>8. CASE m # 1
      <4>1. m \in 2..n /\ m-1 \in 1..n /\ ~(m <= m-1)
        BY <1>1, <3>5, <3>8
      <4>2. Unlaid(g[m-1]) = h[m-1]
        BY <3>4, <4>1
      <4>3. g[m] = g[m-1] \o pieces[m] /\ g[m-1] \in Text
        BY <3>1, <4>1
      <4>. HIDE DEF tail, T
      <4>4. Unlaid(g[m]) = h[m]
        BY <3>6, <4>2, <4>3, UnlaidTexts, ZenonT(40)
      <4>. QED BY <3>5, <4>4
    <3>. QED BY <3>7, <3>8
  <2>. QED BY <2>1, <2>2
<1>. DEFINE prefix == <<"    ">>
<1>7. prefix \in Text /\ Unlaid(prefix) = <<>>
  BY UnlaidWords, Zenon
<1>. HIDE DEF prefix
<1>8. IndentBlock(block) \in Text
  BY <1>5, <1>6, <1>7, TextsTyped, Zenon DEF prefix
<1>9. Unlaid(IndentBlock(block)) = <<>> \o Unlaid(FlattenSeq(pieces))
  BY <1>5, <1>6, <1>7, UnlaidTexts, Zenon DEF prefix
<1>10. <<>> \o Unlaid(FlattenSeq(pieces)) = Unlaid(FlattenSeq(pieces))
  <2>1. Unlaid(FlattenSeq(pieces)) \in Text
    BY <1>6, UnlaidTexts, Zenon
  <2>. QED BY <2>1 DEF Text
<1>. QED BY <1>3, <1>6, <1>8, <1>9, <1>10

-----------------------------------------------------------------------------
\* What the objects of each class hold.
LEMMA ObjectParts ==
  \A o \in Objects :
    /\ o.class \in {"Table", "SelectExpr", "Join", "SetOp", "WithQuery"}
    /\ o.class = "Table" => o.name \in Text
    /\ o.class = "SelectExpr" => o.from \in Text /\ o.select \in Seq(Text)
    /\ o.class = "Join" => /\ o.a \in Text /\ o.b \in Text /\ o.kind \in JoinWords
                           /\ o.natural \in BOOLEAN /\ o.on \in Text /\ o.using \in Text
    /\ o.class = "SetOp" => o.a \in Text /\ o.b \in Text /\ o.kind \in SetOpWords
    /\ o.class = "WithQuery" => /\ o.ctes \in Text /\ o.main \in Text
                                /\ o.ctesFormatted \in Text /\ o.mainFormatted \in Text
BY DEF Objects, JoinWords

\* Their texts, by class.
LEMMA TextsByClass ==
  ASSUME NEW o
  PROVE  /\ o.class = "Table" => ToStringPlain(o) = o.name
         /\ o.class = "Join" => ToStringPlain(o) = JoinText(o)
         /\ o.class = "SetOp" => ToStringPlain(o) = o.a \o <<o.kind>> \o o.b
         /\ o.class = "SelectExpr" => ToStringPlain(o) = SelectText(o)
         /\ o.class = "WithQuery" => ToStringPlain(o) = WithText(o)
         /\ o.class = "SelectExpr" => ToStringFormatted(o) = SelectTextFormatted(o)
         /\ o.class = "WithQuery" => ToStringFormatted(o) = WithTextFormatted(o)
         /\ o.class \in {"Table", "Join", "SetOp"} => ToStringFormatted(o) = ToStringPlain(o)
         /\ o.class = "Table" => ToStringBracketed(o) = ToStringPlain(o)
         /\ o.class # "Table" => ToStringBracketed(o) = <<"(">> \o ToStringPlain(o) \o <<")">>
<1>1. o.class = "Table" => ToStringPlain(o) = o.name
  BY DEF ToStringPlain
<1>2. o.class = "Join" => ToStringPlain(o) = JoinText(o)
  BY DEF ToStringPlain
<1>3. o.class = "SetOp" => ToStringPlain(o) = o.a \o <<o.kind>> \o o.b
  BY DEF ToStringPlain
<1>4. o.class = "SelectExpr" => ToStringPlain(o) = SelectText(o)
  BY DEF ToStringPlain
<1>5. o.class = "WithQuery" => ToStringPlain(o) = WithText(o)
  BY DEF ToStringPlain
<1>6. o.class = "SelectExpr" => ToStringFormatted(o) = SelectTextFormatted(o)
  BY DEF ToStringFormatted
<1>7. o.class = "WithQuery" => ToStringFormatted(o) = WithTextFormatted(o)
  BY DEF ToStringFormatted
<1>8. o.class \in {"Table", "Join", "SetOp"} => ToStringFormatted(o) = ToStringPlain(o)
  BY DEF ToStringFormatted
<1>9. /\ o.class = "Table" => ToStringBracketed(o) = ToStringPlain(o)
      /\ o.class # "Table" => ToStringBracketed(o) = <<"(">> \o ToStringPlain(o) \o <<")">>
  BY DEF ToStringBracketed
<1>. QED BY <1>1, <1>2, <1>3, <1>4, <1>5, <1>6, <1>7, <1>8, <1>9, Zenon

\* Putting texts together, with nothing or in another order.
LEMMA TextsTogether ==
  /\ \A a \in Text : <<>> \o a = a /\ a \o <<>> = a
  /\ \A a, b, c \in Text : (a \o b) \o c = a \o (b \o c)
BY Associative, SMTT(40) DEF Text

\* The qualification of a join, as its text has it.
OnPart(o)    == IF IsEmpty(o.on) THEN <<>> ELSE <<"ON">> \o o.on
UsingPart(o) == IF IsEmpty(o.using) THEN <<>> ELSE <<"USING", "(">> \o o.using \o <<")">>

JoinTail(o) == OnPart(o) \o UsingPart(o)

LEMMA JoinParts ==
  ASSUME NEW o \in Objects, o.class = "Join"
  PROVE  /\ ToStringPlain(o) \in Text
         /\ ToStringPlain(o) = ((o.a \o <<o.kind, "JOIN">>) \o o.b) \o JoinTail(o)
         /\ o.on = <<>> => JoinTail(o) = UsingPart(o)
         /\ o.using = <<>> => JoinTail(o) = OnPart(o)
<1>. DEFINE joining == <<o.kind, "JOIN">>
<1>. DEFINE front == (o.a \o joining) \o o.b
<1>1. o.a \in Text /\ o.b \in Text /\ o.kind \in JoinWords /\ o.on \in Text /\ o.using \in Text
  BY ObjectParts, Zenon
<1>2. "JOIN" \in Tokens /\ o.kind \in Tokens /\ "ON" \in Tokens /\ "USING" \in Tokens
        /\ "(" \in Tokens /\ ")" \in Tokens
  BY <1>1, KeywordsTyped DEF Keywords, JoinWords
<1>3. joining \in Text
  BY <1>2, TextsTyped, Zenon
<1>. HIDE DEF joining
<1>4. front \in Text
  BY <1>1, <1>3, TextsTyped, Zenon
<1>5. OnPart(o) \in Text
  BY <1>1, <1>2, TextsTyped, Zenon DEF OnPart
<1>6. UsingPart(o) \in Text
  BY <1>1, <1>2, TextsTyped, Zenon DEF UsingPart
<1>7. ToStringPlain(o) = (front \o OnPart(o)) \o UsingPart(o)
  BY TextsByClass, Zenon DEF JoinText, OnPart, UsingPart, joining
<1>. HIDE DEF front
<1>8. ToStringPlain(o) = front \o JoinTail(o) /\ JoinTail(o) \in Text /\ ToStringPlain(o) \in Text
  <2>. DEFINE on    == OnPart(o)
  <2>. DEFINE using == UsingPart(o)
  <2>. DEFINE plain == ToStringPlain(o)
  <2>1. on \in Text /\ using \in Text /\ plain = (front \o on) \o using
    BY <1>5, <1>6, <1>7
  <2>. HIDE DEF on, using, plain
  <2>2. (front \o on) \o using = front \o (on \o using)
    BY <1>4, <2>1, TextsTogether, Zenon
  <2>3. on \o using \in Text
    BY <2>1, TextsTyped, Zenon
  <2>4. front \o (on \o using) \in Text
    BY <1>4, <2>3, TextsTyped, Zenon
  <2>5. plain = front \o (on \o using) /\ on \o using \in Text /\ plain \in Text
    BY <2>1, <2>2, <2>3, <2>4, Zenon
  <2>. QED BY <2>5 DEF on, using, plain, JoinTail
<1>9. o.on = <<>> => JoinTail(o) = UsingPart(o)
  <2>1. o.on = <<>> => OnPart(o) = <<>>
    BY Zenon DEF OnPart, IsEmpty
  <2>. QED BY <1>6, <2>1, TextsTogether, Zenon DEF JoinTail
<1>10. o.using = <<>> => JoinTail(o) = OnPart(o)
  <2>1. o.using = <<>> => UsingPart(o) = <<>>
    BY Zenon DEF UsingPart, IsEmpty
  <2>. QED BY <1>5, <2>1, TextsTogether, Zenon DEF JoinTail
<1>. QED BY <1>8, <1>9, <1>10 DEF front, joining

LEMMA QuadTyped ==
  ASSUME NEW S
  PROVE  \A a, b, c, d \in S :
           <<a, b>> \in Seq(S) /\ <<a, b, c>> \in Seq(S) /\ <<a, b, c, d>> \in Seq(S)
OBVIOUS

\* Four tokens, put together.
LEMMA QuadConcat ==
  ASSUME NEW a, NEW b, NEW c, NEW d
  PROVE  <<a, b, c, d>> = <<a>> \o <<b, c, d>> /\ <<a, b, c, d>> = <<a, b, c>> \o <<d>>
<1>. DEFINE S == {a, b, c, d}
<1>. DEFINE all  == <<a, b, c, d>>
<1>. DEFINE cons == <<a>> \o <<b, c, d>>
<1>. DEFINE app  == <<a, b, c>> \o <<d>>
<1>1. all \in Seq(S) /\ Len(all) = 4 /\ all[1] = a /\ all[2] = b /\ all[3] = c /\ all[4] = d
  OBVIOUS
<1>2. cons \in Seq(S) /\ Len(cons) = 4 /\ cons[1] = a /\ cons[2] = b /\ cons[3] = c /\ cons[4] = d
  OBVIOUS
<1>3. app \in Seq(S) /\ Len(app) = 4 /\ app[1] = a /\ app[2] = b /\ app[3] = c /\ app[4] = d
  OBVIOUS
<1>4. \A s, t \in Seq(S) : Len(s) = 4 /\ Len(t) = 4
        /\ s[1] = t[1] /\ s[2] = t[2] /\ s[3] = t[3] /\ s[4] = t[4] => s = t
  <2>1. \A k \in 1..4 : k = 1 \/ k = 2 \/ k = 3 \/ k = 4
    OBVIOUS
  <2>. HIDE DEF S
  <2>. QED BY <2>1, SeqEqual
<1>. HIDE DEF S, all, cons, app
<1>5. all = cons /\ all = app
  BY <1>1, <1>2, <1>3, <1>4
<1>. QED BY <1>5 DEF all, cons, app

\* Every rendering is a text.
LEMMA RenderingsTyped ==
  ASSUME NEW o \in Objects, Renders(o)
  PROVE  /\ ToStringPlain(o) \in Text
         /\ ToStringBracketed(o) \in Text
         /\ ToStringFormatted(o) \in Text
         /\ o.class = "SelectExpr" => o.select # <<>> /\ o.select[1] \in Text
<1>. DEFINE selectHead == <<"SELECT", "\n", "    ">>
<1>. DEFINE fromHead   == <<"\n", "FROM", "\n", "    ">>
<1>. DEFINE withHead   == <<"WITH", "\n">>
<1>1. /\ "(" \in Tokens /\ ")" \in Tokens /\ "SELECT" \in Tokens /\ "FROM" \in Tokens
      /\ "WITH" \in Tokens /\ "\n" \in Tokens /\ "    " \in Tokens
  BY TableAssumption DEF Keywords, Layout
<1>2. o.class = "SelectExpr" => o.select # <<>> /\ o.select[1] \in Text
  <2>1. o.class = "SelectExpr" => o.select \in Seq(Text) /\ o.select # <<>>
    BY ObjectParts, Zenon DEF Renders, IsEmpty
  <2>. QED BY <2>1
<1>3. selectHead \in Text /\ fromHead \in Text /\ withHead \in Text
  BY <1>1, QuadTyped, Zenon DEF Text
<1>. HIDE DEF selectHead, fromHead, withHead
<1>4. ToStringPlain(o) \in Text
  <2>1. CASE o.class = "Table"
    BY <2>1, ObjectParts, TextsByClass, Zenon
  <2>2. CASE o.class = "Join"
    BY <2>2, JoinParts, Zenon
  <2>3. CASE o.class = "SetOp"
    <3>1. o.a \in Text /\ o.b \in Text /\ o.kind \in Tokens
      BY <2>3, ObjectParts, KeywordsTyped DEF Keywords
    <3>. QED BY <2>3, <3>1, TextsByClass, TextsTyped, Zenon
  <2>4. CASE o.class = "SelectExpr"
    <3>1. o.from \in Text
      BY <2>4, ObjectParts, Zenon
    <3>. QED BY <1>1, <1>2, <2>4, <3>1, TextsByClass, TextsTyped, ZenonT(60) DEF SelectText
  <2>5. CASE o.class = "WithQuery"
    <3>1. o.ctes \in Text /\ o.main \in Text
      BY <2>5, ObjectParts, Zenon
    <3>. QED BY <1>1, <2>5, <3>1, TextsByClass, TextsTyped, ZenonT(60) DEF WithText
  <2>. QED BY <2>1, <2>2, <2>3, <2>4, <2>5, ObjectParts
<1>5. ToStringBracketed(o) \in Text
  <2>1. <<"(">> \o ToStringPlain(o) \o <<")">> \in Text
    BY <1>1, <1>4, TextsTyped, Zenon
  <2>. QED BY <1>4, <2>1, TextsByClass, Zenon
<1>6. ToStringFormatted(o) \in Text
  <2>1. CASE o.class = "SelectExpr"
    <3>1. o.from \in Text
      BY <2>1, ObjectParts, Zenon
    <3>. QED BY <1>2, <1>3, <2>1, <3>1, TextsByClass, TextsTyped, ZenonT(60)
           DEF SelectTextFormatted, selectHead, fromHead
  <2>2. CASE o.class = "WithQuery"
    <3>1. o.ctesFormatted \in Text /\ o.mainFormatted \in Text
      BY <2>2, ObjectParts, Zenon
    <3>2. IndentBlock(o.ctesFormatted) \in Text
      BY <3>1, IndentUnlaid, Zenon
    <3>3. <<"\n">> \in Text
      BY <1>1, TextsTyped, Zenon
    <3>4. withHead \o IndentBlock(o.ctesFormatted) \o <<"\n">> \o o.mainFormatted \in Text
      BY <1>3, <3>1, <3>2, <3>3, TextsTyped, Zenon
    <3>5. ToStringFormatted(o)
            = withHead \o IndentBlock(o.ctesFormatted) \o <<"\n">> \o o.mainFormatted
      BY <2>2, TextsByClass, Zenon DEF WithTextFormatted, withHead
    <3>. QED BY <3>4, <3>5, Zenon
  <2>3. CASE o.class \in {"Table", "Join", "SetOp"}
    BY <1>4, <2>3, TextsByClass, Zenon
  <2>. QED BY <2>1, <2>2, <2>3, ObjectParts
<1>. QED BY <1>2, <1>4, <1>5, <1>6

-----------------------------------------------------------------------------
\* A join is qualified at most once, and not at all when it is natural.
QualifiedOnce(o) ==
  o.class = "Join" =>
    /\ o.on = <<>> \/ o.using = <<>>
    /\ o.natural => o.on = <<>> /\ o.using = <<>>

\* What the text of an object is to a reader, who takes it for what m says.
ReadsAs(o, m) ==
  /\ o.class = "Table" => m[1] \notin Statements /\ IsOperand(o.name, m, TableFrames)
  /\ o.class = "Join" =>
       /\ m[1] = "join"
       /\ \E l, r, q :
            /\ m = <<"join", o.kind, l, r, q>>
            /\ IsOperand(o.a, l, TableFrames)
            /\ IsOperand(o.b, r, TableFrames)
            /\ Qualifies(JoinTail(o), l, o.kind, r, q)
            /\ o.on = <<>> /\ o.using = <<>> => q = <<"unqualified">>
  /\ o.class = "SetOp" =>
       m[1] = "set operation" /\ IsComplete(ToStringPlain(o), m, StatementFrames)
  /\ o.class = "SelectExpr" =>
       /\ m[1] = "select"
       /\ \E t :
            /\ IsComplete(o.from, t, {"from"})
            /\ o.select = <<>> => m = <<"select", <<>>, t>>
            /\ o.select # <<>> =>
                 \E i : m = <<"select", i, t>> /\ IsOperand(o.select[1], i, {"select"})
  /\ o.class = "WithQuery" =>
       m[1] = "with" /\ IsComplete(ToStringPlain(o), m, StatementFrames \ {"main"})

\* The laid-out texts a WITH query took over differ from the others in layout.
LaysOut(o) ==
  o.class = "WithQuery" =>
    Unlaid(o.ctesFormatted) = Unlaid(o.ctes) /\ Unlaid(o.mainFormatted) = Unlaid(o.main)

EntryOK(x) ==
  /\ x.object \in Objects /\ x.sound \in BOOLEAN
  /\ QualifiedOnce(x.object)
  /\ x.sound => ReadsAs(x.object, x.meaning) /\ LaysOut(x.object)

StatementClasses == {"SelectExpr", "SetOp", "WithQuery"}

\* Which meanings are statements.
LEMMA StatementsByClass ==
  ASSUME NEW o \in Objects, NEW m, ReadsAs(o, m)
  PROVE  /\ m[1] \in Statements => o.class \in StatementClasses
         /\ o.class \in StatementClasses => m[1] \in Statements
         /\ o.class = "WithQuery" => m[1] = "with"
         /\ m[1] # "with" => o.class # "WithQuery"
<1>. DEFINE word == m[1]
<1>1. /\ o.class = "Table" => word \notin Statements
      /\ o.class = "Join" => word = "join"
      /\ o.class = "SetOp" => word = "set operation"
      /\ o.class = "SelectExpr" => word = "select"
      /\ o.class = "WithQuery" => word = "with"
  BY Zenon DEF ReadsAs
<1>2. o.class \in {"Table", "SelectExpr", "Join", "SetOp", "WithQuery"}
  BY ObjectParts
<1>. HIDE DEF word
<1>3. /\ word \in Statements => o.class \in StatementClasses
      /\ o.class \in StatementClasses => word \in Statements
      /\ o.class = "WithQuery" => word = "with"
      /\ word # "with" => o.class # "WithQuery"
  BY <1>1, <1>2 DEF StatementClasses, Statements
<1>. QED BY <1>3 DEF word

\* A statement is complete wherever one may stand, a WITH query not as the main
\* query of another.
LEMMA StatementReads ==
  ASSUME NEW o \in Objects, Renders(o), NEW m, ReadsAs(o, m), o.class \in StatementClasses
  PROVE  /\ IsComplete(ToStringPlain(o), m, StatementFrames \ {"main"})
         /\ m[1] # "with" => IsComplete(ToStringPlain(o), m, StatementFrames)
<1>. DEFINE plain == ToStringPlain(o)
<1>0. StatementFrames \ {"main"} \in SUBSET StatementFrames
  OBVIOUS
<1>1. CASE o.class = "SetOp"
  <2>1. IsComplete(plain, m, StatementFrames)
    BY <1>1, Zenon DEF ReadsAs
  <2>. QED BY <1>0, <2>1, CompleteThere, Zenon
<1>2. CASE o.class = "SelectExpr"
  <2>1. o.select # <<>>
    BY <1>2, Zenon DEF Renders, IsEmpty
  <2>2. PICK t : /\ IsComplete(o.from, t, {"from"})
                 /\ \E i : m = <<"select", i, t>> /\ IsOperand(o.select[1], i, {"select"})
    BY <1>2, <2>1, Zenon DEF ReadsAs
  <2>3. PICK i : m = <<"select", i, t>> /\ IsOperand(o.select[1], i, {"select"})
    BY <2>2
  <2>4. plain = ((<<"SELECT">> \o o.select[1]) \o <<"FROM">>) \o o.from
    BY <1>2, TextsByClass, Zenon DEF SelectText
  <2>5. IsComplete(((<<"SELECT">> \o o.select[1]) \o <<"FROM">>) \o o.from,
                   <<"select", i, t>>, StatementFrames)
    BY <2>2, <2>3, SelectReads
  <2>. HIDE DEF plain
  <2>6. IsComplete(plain, m, StatementFrames)
    BY <2>3, <2>4, <2>5, Zenon
  <2>. QED BY <1>0, <2>6, CompleteThere, Zenon DEF plain
<1>3. CASE o.class = "WithQuery"
  <2>1. IsComplete(plain, m, StatementFrames \ {"main"})
    BY <1>3, Zenon DEF ReadsAs
  <2>2. m[1] = "with"
    BY <1>3, Zenon DEF ReadsAs
  <2>. QED BY <2>1, <2>2
<1>. QED BY <1>1, <1>2, <1>3 DEF StatementClasses

\* A join is complete where it needs no brackets.
LEMMA JoinComplete ==
  ASSUME NEW o \in Objects, o.class = "Join", NEW m, ReadsAs(o, m)
  PROVE  IsComplete(ToStringPlain(o), m, JoinPlaces)
<1>. DEFINE kind == o.kind
<1>1. PICK l, r, q : /\ m = <<"join", kind, l, r, q>>
                     /\ IsOperand(o.a, l, TableFrames)
                     /\ IsOperand(o.b, r, TableFrames)
                     /\ Qualifies(JoinTail(o), l, kind, r, q)
  BY Zenon DEF ReadsAs
<1>2. kind \in JoinWords
  BY ObjectParts, Zenon
<1>3. ToStringPlain(o) = ((o.a \o <<kind, "JOIN">>) \o o.b) \o JoinTail(o)
  BY JoinParts, Zenon
<1>. HIDE DEF kind
<1>4. IsComplete(((o.a \o <<kind, "JOIN">>) \o o.b) \o JoinTail(o), <<"join", kind, l, r, q>>, JoinPlaces)
  BY <1>1, <1>2, JoinReads
<1>. DEFINE plain == ToStringPlain(o)
<1>5. plain = ((o.a \o <<kind, "JOIN">>) \o o.b) \o JoinTail(o)
  BY <1>3
<1>. HIDE DEF plain
<1>6. IsComplete(plain, m, JoinPlaces)
  BY <1>1, <1>4, <1>5, Zenon
<1>. QED BY <1>6 DEF plain

\* A FROM item is complete where it is one.
LEMMA FromItemReads ==
  ASSUME NEW o \in Objects, IsFromItem(o), NEW m, ReadsAs(o, m)
  PROVE  IsComplete(ToStringPlain(o), m, {"from"})
<1>1. CASE o.class = "Table"
  <2>1. IsOperand(o.name, m, TableFrames)
    BY <1>1, Zenon DEF ReadsAs
  <2>2. {"from"} \in SUBSET TableFrames
    BY DEF TableFrames
  <2>3. ToStringPlain(o) = o.name
    BY <1>1, TextsByClass, Zenon
  <2>. QED BY <2>1, <2>2, <2>3, OperandComplete, Zenon
<1>2. CASE o.class = "Join"
  <2>1. {"from"} \in SUBSET JoinPlaces
    BY DEF JoinPlaces
  <2>. QED BY <1>2, <2>1, JoinComplete, CompleteThere, Zenon
<1>. QED BY <1>1, <1>2 DEF IsFromItem

\* A text on its own, and what is put in brackets.
LEMMA ObjectReads ==
  ASSUME NEW o \in Objects, Renders(o), NEW m, ReadsAs(o, m)
  PROVE  /\ IsComplete(ToStringPlain(o), m, {"bottom"})
         /\ o.class # "Table" => IsComplete(ToStringPlain(o), m, {"bracket"})
<1>1. CASE o.class = "Table"
  <2>1. IsOperand(o.name, m, TableFrames)
    BY <1>1, Zenon DEF ReadsAs
  <2>2. {"bottom"} \in SUBSET TableFrames
    BY DEF TableFrames
  <2>3. ToStringPlain(o) = o.name
    BY <1>1, TextsByClass, Zenon
  <2>4. IsComplete(ToStringPlain(o), m, {"bottom"})
    BY <2>1, <2>2, <2>3, OperandComplete, Zenon
  <2>. QED BY <1>1, <2>4
<1>2. CASE o.class = "Join"
  <2>1. {"bottom"} \in SUBSET JoinPlaces /\ {"bracket"} \in SUBSET JoinPlaces
    BY DEF JoinPlaces
  <2>. QED BY <1>2, <2>1, JoinComplete, CompleteThere, Zenon
<1>3. CASE o.class \in StatementClasses
  <2>. DEFINE places == StatementFrames \ {"main"}
  <2>1. {"bottom"} \in SUBSET places /\ {"bracket"} \in SUBSET places
    BY DEF StatementFrames
  <2>2. IsComplete(ToStringPlain(o), m, places)
    BY <1>3, StatementReads, Zenon
  <2>. HIDE DEF places
  <2>. QED BY <2>1, <2>2, CompleteThere, Zenon
<1>. QED BY <1>1, <1>2, <1>3, ObjectParts DEF StatementClasses

\* Bracketed where an operand may stand, a statement where it may also be one
\* of a set operation.
LEMMA BracketedReads ==
  ASSUME NEW o \in Objects, Renders(o), NEW m, ReadsAs(o, m)
  PROVE  /\ IsOperand(ToStringBracketed(o), m, TableFrames)
         /\ o.class # "Table" => IsOperand(ToStringBracketed(o), m, BracketFrames)
<1>1. CASE o.class = "Table"
  <2>1. IsOperand(o.name, m, TableFrames)
    BY <1>1, Zenon DEF ReadsAs
  <2>2. ToStringBracketed(o) = o.name
    BY <1>1, TextsByClass, Zenon
  <2>3. IsOperand(ToStringBracketed(o), m, TableFrames)
    BY <2>1, <2>2, Zenon
  <2>. QED BY <1>1, <2>3
<1>2. CASE o.class # "Table"
  <2>1. IsComplete(ToStringPlain(o), m, {"bracket"})
    BY <1>2, ObjectReads, Zenon
  <2>2. ToStringBracketed(o) = <<"(">> \o ToStringPlain(o) \o <<")">>
    BY <1>2, TextsByClass, Zenon
  <2>3. IsOperand(<<"(">> \o ToStringPlain(o) \o <<")">>, m, BracketFrames)
    BY <2>1, BracketReads
  <2>4. IsOperand(ToStringBracketed(o), m, BracketFrames)
    BY <2>2, <2>3, Zenon
  <2>5. TableFrames \in SUBSET BracketFrames
    BY DEF BracketFrames
  <2>. QED BY <2>4, <2>5, OperandThere, Zenon
<1>. QED BY <1>1, <1>2

\* A statement in brackets is a subquery where a select item is.
LEMMA SubqueryItem ==
  ASSUME NEW o \in Objects, Renders(o), NEW m, ReadsAs(o, m), m[1] \in Statements
  PROVE  IsOperand(ToStringBracketed(o), <<"subquery", m>>, {"select"})
<1>1. o.class \in StatementClasses
  BY StatementsByClass, Zenon
<1>. DEFINE places == StatementFrames \ {"main"}
<1>2. {"subquery"} \in SUBSET places
  BY DEF StatementFrames
<1>3. IsComplete(ToStringPlain(o), m, places)
  BY <1>1, StatementReads, Zenon
<1>. HIDE DEF places
<1>4. IsComplete(ToStringPlain(o), m, {"subquery"})
  BY <1>2, <1>3, CompleteThere, Zenon
<1>5. IsOperand(<<"(">> \o ToStringPlain(o) \o <<")">>, <<"subquery", m>>, {"select"})
  BY <1>4, SubqueryReads
<1>6. ToStringBracketed(o) = <<"(">> \o ToStringPlain(o) \o <<")">>
  BY <1>1, TextsByClass DEF StatementClasses
<1>. QED BY <1>5, <1>6, Zenon

-----------------------------------------------------------------------------
\* Leaving out layout, of three or four texts together.
LEMMA UnlaidThree ==
  ASSUME NEW a \in Text, NEW b \in Text, NEW c \in Text
  PROVE  Unlaid((a \o b) \o c) = (Unlaid(a) \o Unlaid(b)) \o Unlaid(c)
<1>1. a \o b \in Text
  BY TextsTyped, Zenon
<1>2. Unlaid(a \o b) = Unlaid(a) \o Unlaid(b)
  BY UnlaidTexts, Zenon
<1>3. Unlaid((a \o b) \o c) = Unlaid(a \o b) \o Unlaid(c)
  BY <1>1, UnlaidTexts, Zenon
<1>. QED BY <1>2, <1>3, Zenon

UnlaysAll(a, b, c, d) ==
  Unlaid(((a \o b) \o c) \o d) = ((Unlaid(a) \o Unlaid(b)) \o Unlaid(c)) \o Unlaid(d)

LEMMA UnlaidFour ==
  ASSUME NEW a \in Text, NEW b \in Text, NEW c \in Text, NEW d \in Text
  PROVE  UnlaysAll(a, b, c, d)
<1>1. (a \o b) \o c \in Text
  BY TextsTyped, Zenon
<1>2. Unlaid((a \o b) \o c) = (Unlaid(a) \o Unlaid(b)) \o Unlaid(c)
  BY UnlaidThree
<1>3. Unlaid(((a \o b) \o c) \o d) = Unlaid((a \o b) \o c) \o Unlaid(d)
  BY <1>1, UnlaidTexts, Zenon
<1>. QED BY <1>2, <1>3, Zenon DEF UnlaysAll

UnlaysBefore(a, b, c, d) ==
  Unlaid(a \o ((b \o c) \o d)) = Unlaid(a) \o ((Unlaid(b) \o Unlaid(c)) \o Unlaid(d))

LEMMA UnlaidBefore ==
  ASSUME NEW a \in Text, NEW b \in Text, NEW c \in Text, NEW d \in Text
  PROVE  UnlaysBefore(a, b, c, d)
<1>1. (b \o c) \o d \in Text
  BY TextsTyped, Zenon
<1>2. Unlaid((b \o c) \o d) = (Unlaid(b) \o Unlaid(c)) \o Unlaid(d)
  BY UnlaidThree
<1>3. Unlaid(a \o ((b \o c) \o d)) = Unlaid(a) \o Unlaid((b \o c) \o d)
  BY <1>1, UnlaidTexts, Zenon
<1>. QED BY <1>2, <1>3, Zenon DEF UnlaysBefore

\* What layout leaves of the words between the parts of a text.
LEMMA UnlaidHeads ==
  /\ <<"SELECT", "\n", "    ">> \in Text
  /\ Unlaid(<<"SELECT", "\n", "    ">>) = <<"SELECT">>
  /\ <<"\n", "FROM", "\n", "    ">> \in Text
  /\ Unlaid(<<"\n", "FROM", "\n", "    ">>) = <<"FROM">>
  /\ <<"WITH", "\n">> \in Text
  /\ Unlaid(<<"WITH", "\n">>) = <<"WITH">>
  /\ <<", ", "\n">> \in Text
  /\ Unlaid(<<", ", "\n">>) = <<", ">>
  /\ <<"\n", ")">> \in Text
  /\ Unlaid(<<"\n", ")">>) = <<")">>
<1>. DEFINE nl   == "\n"
<1>. DEFINE four == "    "
<1>1. /\ <<nl>> \in Text /\ <<four>> \in Text
      /\ Unlaid(<<nl>>) = <<>> /\ Unlaid(<<four>>) = <<>>
  BY UnlaidWords, Zenon
<1>2. {"SELECT", "FROM", "WITH", ", ", ")"} \subseteq Keywords
  BY DEF Keywords
<1>. HIDE DEF nl, four
<1>3. ASSUME NEW word \in Keywords
      PROVE  /\ <<word, nl>> \in Text /\ Unlaid(<<word, nl>>) = <<word>>
             /\ <<nl, word>> \in Text /\ Unlaid(<<nl, word>>) = <<word>>
             /\ <<word, nl, four>> \in Text /\ Unlaid(<<word, nl, four>>) = <<word>>
             /\ <<nl, word, nl, four>> \in Text /\ Unlaid(<<nl, word, nl, four>>) = <<word>>
  <2>1. <<word>> \in Text /\ Unlaid(<<word>>) = <<word>>
    BY UnlaidWords, Zenon
  <2>2. <<word, nl>> = <<word>> \o <<nl>>
    BY PairConcat, Zenon
  <2>3. <<nl, word>> = <<nl>> \o <<word>>
    BY PairConcat, Zenon
  <2>4. <<word, nl, four>> = <<word, nl>> \o <<four>>
    BY TripleConcat, Zenon
  <2>5. <<nl, word, nl, four>> = <<nl>> \o <<word, nl, four>>
    BY QuadConcat
  <2>. DEFINE w == <<word>>
              n == <<nl>>
              f == <<four>>
  <2>6. w \in Text /\ Unlaid(w) = w /\ n \in Text /\ Unlaid(n) = <<>> /\ f \in Text /\ Unlaid(f) = <<>>
    BY <1>1, <2>1
  <2>. HIDE DEF w, n, f
  <2>7. w \o <<>> = w /\ <<>> \o w = w
    BY <2>6, TextsTogether, Zenon
  <2>8. w \o n \in Text /\ Unlaid(w \o n) = w
    <3>1. w \o n \in Text
      BY <2>6, TextsTyped, Zenon
    <3>2. Unlaid(w \o n) = Unlaid(w) \o Unlaid(n)
      BY <2>6, UnlaidTexts, Zenon
    <3>. QED BY <2>6, <2>7, <3>1, <3>2, Zenon
  <2>9. n \o w \in Text /\ Unlaid(n \o w) = w
    <3>1. n \o w \in Text
      BY <2>6, TextsTyped, Zenon
    <3>2. Unlaid(n \o w) = Unlaid(n) \o Unlaid(w)
      BY <2>6, UnlaidTexts, Zenon
    <3>. QED BY <2>6, <2>7, <3>1, <3>2, Zenon
  <2>10. (w \o n) \o f \in Text /\ Unlaid((w \o n) \o f) = w
    <3>1. Unlaid((w \o n) \o f) = (Unlaid(w) \o Unlaid(n)) \o Unlaid(f)
      BY <2>6, UnlaidThree
    <3>2. (w \o n) \o f \in Text
      BY <2>6, <2>8, TextsTyped, Zenon
    <3>. QED BY <2>6, <2>7, <3>1, <3>2, Zenon
  <2>11. n \o ((w \o n) \o f) \in Text /\ Unlaid(n \o ((w \o n) \o f)) = w
    <3>. DEFINE t == (w \o n) \o f
    <3>1. t \in Text /\ Unlaid(t) = w
      BY <2>10
    <3>. HIDE DEF t
    <3>2. n \o t \in Text /\ Unlaid(n \o t) = Unlaid(n) \o Unlaid(t)
      BY <2>6, <3>1, TextsTyped, UnlaidTexts, Zenon
    <3>3. Unlaid(n \o t) = w
      BY <2>6, <2>7, <3>1, <3>2, Zenon
    <3>. QED BY <3>2, <3>3 DEF t
  <2>. QED BY <2>2, <2>3, <2>4, <2>5, <2>8, <2>9, <2>10, <2>11, Zenon DEF w, n, f
<1>4. \A word \in Keywords :
             /\ <<word, nl>> \in Text /\ Unlaid(<<word, nl>>) = <<word>>
             /\ <<nl, word>> \in Text /\ Unlaid(<<nl, word>>) = <<word>>
             /\ <<word, nl, four>> \in Text /\ Unlaid(<<word, nl, four>>) = <<word>>
             /\ <<nl, word, nl, four>> \in Text /\ Unlaid(<<nl, word, nl, four>>) = <<word>>
  BY <1>3
<1>5. /\ "SELECT" \in Keywords /\ "FROM" \in Keywords /\ "WITH" \in Keywords
      /\ ", " \in Keywords /\ ")" \in Keywords
  BY <1>2
<1>. QED BY <1>4, <1>5, Zenon DEF nl, four

\* FormattedAgrees, of one object.
LEMMA ObjectLaidOut ==
  ASSUME NEW o \in Objects, Renders(o), LaysOut(o)
  PROVE  Unlaid(ToStringFormatted(o)) = Unlaid(ToStringPlain(o))
<1>1. CASE o.class \in {"Table", "Join", "SetOp"}
  <2>1. ToStringFormatted(o) = ToStringPlain(o)
    BY <1>1, TextsByClass, Zenon
  <2>. QED BY <2>1
<1>2. CASE o.class = "SelectExpr"
  <2>. DEFINE item  == o.select[1]
              from  == o.from
              head  == <<"SELECT", "\n", "    ">>
              next  == <<"\n", "FROM", "\n", "    ">>
              shead == <<"SELECT">>
              snext == <<"FROM">>
  <2>1. item \in Text /\ from \in Text
    BY <1>2, RenderingsTyped, ObjectParts, Zenon
  <2>2. head \in Text /\ next \in Text /\ Unlaid(head) = shead /\ Unlaid(next) = snext
    BY UnlaidHeads, Zenon
  <2>3. "SELECT" \in Keywords /\ "FROM" \in Keywords
    BY DEF Keywords
  <2>4. shead \in Text /\ snext \in Text /\ Unlaid(shead) = shead /\ Unlaid(snext) = snext
    BY <2>3, UnlaidWords, Zenon
  <2>5. ToStringFormatted(o) = ((head \o item) \o next) \o from
    BY <1>2, TextsByClass, Zenon DEF SelectTextFormatted
  <2>6. ToStringPlain(o) = ((shead \o item) \o snext) \o from
    BY <1>2, TextsByClass, Zenon DEF SelectText
  <2>. HIDE DEF item, from, head, next, shead, snext
  <2>a. head \in Text /\ next \in Text /\ shead \in Text /\ snext \in Text
    BY <2>2, <2>4
  <2>8. Unlaid(((head \o item) \o next) \o from)
          = ((Unlaid(head) \o Unlaid(item)) \o Unlaid(next)) \o Unlaid(from)
    <3>1. head \in Text /\ item \in Text /\ next \in Text /\ from \in Text
      BY <2>1, <2>a
    <3>2. UnlaysAll(head, item, next, from)
      BY <3>1, UnlaidFour, Zenon
    <3>. QED BY <3>2 DEF UnlaysAll
  <2>9. Unlaid(((shead \o item) \o snext) \o from)
          = ((Unlaid(shead) \o Unlaid(item)) \o Unlaid(snext)) \o Unlaid(from)
    <3>1. shead \in Text /\ item \in Text /\ snext \in Text /\ from \in Text
      BY <2>1, <2>a
    <3>2. UnlaysAll(shead, item, snext, from)
      BY <3>1, UnlaidFour, Zenon
    <3>. QED BY <3>2 DEF UnlaysAll
  <2>. QED BY <2>2, <2>4, <2>5, <2>6, <2>8, <2>9, Zenon
<1>3. CASE o.class = "WithQuery"
  <2>. DEFINE ctes  == o.ctes
              main  == o.main
              block == IndentBlock(o.ctesFormatted)
              last  == o.mainFormatted
              head  == <<"WITH", "\n">>
              shead == <<"WITH">>
              nl    == <<"\n">>
  <2>1. ctes \in Text /\ main \in Text /\ last \in Text /\ o.ctesFormatted \in Text
    BY <1>3, ObjectParts, Zenon
  <2>2. block \in Text /\ Unlaid(block) = Unlaid(ctes) /\ Unlaid(last) = Unlaid(main)
    BY <1>3, <2>1, IndentUnlaid, Zenon DEF LaysOut
  <2>3. head \in Text /\ Unlaid(head) = shead /\ nl \in Text /\ Unlaid(nl) = <<>>
    BY UnlaidHeads, UnlaidWords, Zenon
  <2>4. "WITH" \in Keywords
    BY DEF Keywords
  <2>5. shead \in Text /\ Unlaid(shead) = shead
    BY <2>4, UnlaidWords, Zenon
  <2>6. ToStringFormatted(o) = ((head \o block) \o nl) \o last
    BY <1>3, TextsByClass, Zenon DEF WithTextFormatted
  <2>7. ToStringPlain(o) = (shead \o ctes) \o main
    BY <1>3, TextsByClass, Zenon DEF WithText
  <2>. HIDE DEF ctes, main, block, last, head, shead, nl
  <2>a. head \in Text /\ block \in Text /\ nl \in Text /\ shead \in Text
    BY <2>2, <2>3, <2>5
  <2>9. Unlaid(((head \o block) \o nl) \o last)
          = ((Unlaid(head) \o Unlaid(block)) \o Unlaid(nl)) \o Unlaid(last)
    <3>1. head \in Text /\ block \in Text /\ nl \in Text /\ last \in Text
      BY <2>1, <2>a
    <3>2. UnlaysAll(head, block, nl, last)
      BY <3>1, UnlaidFour, Zenon
    <3>. QED BY <3>2 DEF UnlaysAll
  <2>10. Unlaid((shead \o ctes) \o main) = (Unlaid(shead) \o Unlaid(ctes)) \o Unlaid(main)
    <3>1. shead \in Text /\ ctes \in Text /\ main \in Text
      BY <2>1, <2>a
    <3>. QED BY ONLY <3>1, UnlaidThree, Zenon
  <2>11. (shead \o Unlaid(ctes)) \o <<>> = shead \o Unlaid(ctes)
    <3>1. shead \o Unlaid(ctes) \in Text
      BY <2>1, <2>5, UnlaidTexts, TextsTyped, Zenon
    <3>. QED BY <3>1, TextsTogether, Zenon
  <2>. QED BY <2>2, <2>3, <2>5, <2>6, <2>7, <2>9, <2>10, <2>11, Zenon
<1>. QED BY <1>1, <1>2, <1>3, ObjectParts

-----------------------------------------------------------------------------
\* A common table expression, in both renderings.
LEMMA CteTyped ==
  ASSUME NEW name \in Words, NEW o \in Objects, Renders(o)
  PROVE  Cte(name, o) \in Text /\ CteFormatted(name, o) \in Text
<1>1. name \in Tokens /\ "AS" \in Tokens /\ "(" \in Tokens /\ ")" \in Tokens /\ "\n" \in Tokens
  BY TableAssumption, WordsTyped DEF Keywords, Layout
<1>2. <<name, "AS">> \in Text /\ <<name, "AS", "(", "\n">> \in Text /\ <<"\n", ")">> \in Text
  BY <1>1, QuadTyped, Zenon DEF Text
<1>3. ToStringBracketed(o) \in Text /\ ToStringFormatted(o) \in Text
  BY RenderingsTyped, Zenon
<1>4. IndentBlock(ToStringFormatted(o)) \in Text
  BY <1>3, IndentUnlaid, Zenon
<1>5. Cte(name, o) \in Text
  BY <1>2, <1>3, TextsTyped, Zenon DEF Cte
<1>6. CteFormatted(name, o) \in Text
  BY <1>2, <1>4, TextsTyped, Zenon DEF CteFormatted
<1>. QED BY <1>5, <1>6

LEMMA CteLaidOut ==
  ASSUME NEW name \in Words, NEW o \in Objects, Renders(o), LaysOut(o), o.class # "Table"
  PROVE  Unlaid(CteFormatted(name, o)) = Unlaid(Cte(name, o))
<1>. DEFINE plain == ToStringPlain(o)
            block == IndentBlock(ToStringFormatted(o))
            pair  == <<name, "AS">>
            open  == <<"(">>
            close == <<")">>
            nl    == <<"\n">>
            back  == <<"\n", ")">>
            head  == <<name, "AS", "(", "\n">>
<1>1. plain \in Text /\ ToStringFormatted(o) \in Text
  BY RenderingsTyped, Zenon
<1>2. Unlaid(ToStringFormatted(o)) = Unlaid(plain)
  BY ObjectLaidOut, Zenon
<1>3. block \in Text /\ Unlaid(block) = Unlaid(plain)
  BY <1>1, <1>2, IndentUnlaid, Zenon
<1>4. "AS" \in Keywords /\ "(" \in Keywords /\ ")" \in Keywords
  BY DEF Keywords
<1>5. /\ open \in Text /\ Unlaid(open) = open /\ close \in Text /\ Unlaid(close) = close
      /\ nl \in Text /\ Unlaid(nl) = <<>> /\ back \in Text /\ Unlaid(back) = close
  BY <1>4, UnlaidWords, UnlaidHeads, Zenon
<1>6. pair \in Text
  <2>1. name \in Tokens /\ "AS" \in Tokens
    BY WordsTyped, KeywordsTyped DEF Keywords
  <2>. QED BY <2>1, TextsTyped, Zenon
<1>7. head = (pair \o open) \o nl
  <2>1. head = <<name, "AS", "(">> \o nl
    BY QuadConcat
  <2>2. <<name, "AS", "(">> = pair \o open
    BY TripleConcat, Zenon
  <2>. QED BY <2>1, <2>2, Zenon
<1>8. CteFormatted(name, o) = (head \o block) \o back
  BY DEF CteFormatted
<1>9. Cte(name, o) = pair \o ((open \o plain) \o close)
  BY TextsByClass, Zenon DEF Cte
<1>. HIDE DEF plain, block, pair, open, close, nl, back, head
<1>10. /\ pair \o open \in Text /\ head \in Text /\ head \o block \in Text
       /\ open \o plain \in Text /\ (open \o plain) \o close \in Text
  BY <1>1, <1>3, <1>5, <1>6, <1>7, TextsTyped, Zenon
<1>a. /\ plain \in Text /\ block \in Text /\ pair \in Text /\ open \in Text
      /\ close \in Text /\ nl \in Text /\ back \in Text /\ head \in Text
  BY <1>1, <1>3, <1>5, <1>6, <1>10
<1>11. /\ Unlaid(pair) \in Text /\ Unlaid(plain) \in Text
       /\ Unlaid(pair) \o open \in Text /\ open \o Unlaid(plain) \in Text
  BY <1>1, <1>5, <1>6, UnlaidTexts, TextsTyped, Zenon
<1>12. Unlaid(head) = Unlaid(pair) \o open
  <2>1. Unlaid(head) = (Unlaid(pair) \o Unlaid(open)) \o Unlaid(nl)
    <3>1. Unlaid((pair \o open) \o nl) = (Unlaid(pair) \o Unlaid(open)) \o Unlaid(nl)
      <4>1. pair \in Text /\ open \in Text /\ nl \in Text
        BY <1>a
      <4>. QED BY ONLY <4>1, UnlaidThree, Zenon
    <3>. QED BY <1>7, <3>1, Zenon
  <2>. QED BY <1>5, <1>11, <2>1, TextsTogether, Zenon
<1>13. Unlaid((head \o block) \o back) = ((Unlaid(pair) \o open) \o Unlaid(plain)) \o close
  <2>1. Unlaid((head \o block) \o back) = (Unlaid(head) \o Unlaid(block)) \o Unlaid(back)
    BY <1>a, UnlaidThree, ZenonT(60)
  <2>. QED BY <1>3, <1>5, <1>12, <2>1, Zenon
<1>14. Unlaid(pair \o ((open \o plain) \o close)) = Unlaid(pair) \o ((open \o Unlaid(plain)) \o close)
  <2>1. Unlaid(pair \o ((open \o plain) \o close))
          = Unlaid(pair) \o ((Unlaid(open) \o Unlaid(plain)) \o Unlaid(close))
    <3>1. pair \in Text /\ open \in Text /\ plain \in Text /\ close \in Text
      BY <1>a
    <3>2. UnlaysBefore(pair, open, plain, close)
      BY <3>1, UnlaidBefore, Zenon
    <3>. QED BY <3>2 DEF UnlaysBefore
  <2>. QED BY <1>5, <2>1, Zenon
<1>15. ((Unlaid(pair) \o open) \o Unlaid(plain)) \o close
         = Unlaid(pair) \o ((open \o Unlaid(plain)) \o close)
  <2>. DEFINE p == Unlaid(pair)
              u == Unlaid(plain)
  <2>1. p \in Text /\ u \in Text /\ open \in Text /\ close \in Text /\ open \o u \in Text
    BY <1>5, <1>11
  <2>. HIDE DEF p, u
  <2>2. (p \o open) \o u = p \o (open \o u)
    BY <2>1, TextsTogether, Zenon
  <2>3. (p \o (open \o u)) \o close = p \o ((open \o u) \o close)
    BY <2>1, TextsTogether, Zenon
  <2>4. ((p \o open) \o u) \o close = p \o ((open \o u) \o close)
    BY <2>2, <2>3, Zenon
  <2>. QED BY <2>4 DEF p, u
<1>. QED BY <1>8, <1>9, <1>13, <1>14, <1>15, Zenon

-----------------------------------------------------------------------------
\* The values in hand, and how calls end.
Outcomes == {"ok", "LogicError", "InvalidArgument", "InvalidIdentifier"}

HeldOK == (\A x \in held : EntryOK(x)) /\ outcome \in Outcomes

LEMMA ThrowKeeps ==
  ASSUME HeldOK, NEW exception \in Outcomes, Throw(exception)
  PROVE  HeldOK'
BY DEF HeldOK, Throw

LEMMA HoldKeeps ==
  ASSUME HeldOK, NEW object, NEW meaning, NEW sound, Hold(object, meaning, sound),
         EntryOK(Entry(object, meaning, sound))
  PROVE  HeldOK'
BY DEF HeldOK, Hold, Outcomes

LEMMA BecomeKeeps ==
  ASSUME HeldOK, NEW x, NEW object, NEW meaning, NEW sound, Become(x, object, meaning, sound),
         EntryOK(Entry(object, meaning, sound))
  PROVE  HeldOK'
BY DEF HeldOK, Become, Outcomes

LEMMA OutcomesTyped ==
  {"LogicError", "InvalidArgument", "InvalidIdentifier"} \subseteq Outcomes
BY DEF Outcomes

LEMMA EntryHolds ==
  ASSUME NEW o \in Objects, NEW m, NEW s \in BOOLEAN, QualifiedOnce(o),
         s => ReadsAs(o, m) /\ LaysOut(o)
  PROVE  EntryOK(Entry(o, m, s))
<1>1. /\ Entry(o, m, s).object = o /\ Entry(o, m, s).meaning = m /\ Entry(o, m, s).sound = s
  BY DEF Entry
<1>. QED BY <1>1, Zenon DEF EntryOK

\* What holds of one value.
LEMMA EntryParts ==
  ASSUME HeldOK, NEW x \in held
  PROVE  /\ x.object \in Objects /\ x.sound \in BOOLEAN
         /\ QualifiedOnce(x.object)
         /\ x.sound => ReadsAs(x.object, x.meaning) /\ LaysOut(x.object)
BY Zenon DEF HeldOK, EntryOK

-----------------------------------------------------------------------------
\* New values, by class.
LEMMA NewTable ==
  ASSUME NEW text \in Text, NEW m, NEW s \in BOOLEAN,
         s => m[1] \notin Statements /\ IsOperand(text, m, TableFrames)
  PROVE  EntryOK(Entry(Table(text), m, s))
<1>. DEFINE o == Table(text)
<1>1. o.class = "Table" /\ o.name = text
  BY DEF Table
<1>2. o \in Objects
  BY DEF Objects, Table
<1>3. o.class # "Join" /\ o.class # "SetOp" /\ o.class # "SelectExpr" /\ o.class # "WithQuery"
  BY <1>1
<1>. HIDE DEF o
<1>4. QualifiedOnce(o) /\ LaysOut(o)
  BY <1>3, Zenon DEF QualifiedOnce, LaysOut
<1>5. s => ReadsAs(o, m)
  BY <1>1, <1>3, Zenon DEF ReadsAs
<1>6. EntryOK(Entry(o, m, s))
  BY <1>2, <1>4, <1>5, EntryHolds, Zenon
<1>. QED BY <1>6 DEF o

LEMMA NewSelect ==
  ASSUME NEW o \in Objects, o.class = "SelectExpr", NEW m, NEW s \in BOOLEAN,
         s => ReadsAs(o, m)
  PROVE  EntryOK(Entry(o, m, s))
<1>1. QualifiedOnce(o) /\ LaysOut(o)
  BY DEF QualifiedOnce, LaysOut
<1>. QED BY <1>1, EntryHolds, Zenon

LEMMA AsKeeps ==
  ASSUME HeldOK, NEW x \in held, NEW name \in Aliases, As(x, name)
  PROVE  HeldOK'
<1>1. CASE Throw("InvalidIdentifier") \/ Throw("LogicError")
  BY <1>1, ThrowKeeps, OutcomesTyped
<1>2. CASE ~(Throw("InvalidIdentifier") \/ Throw("LogicError"))
  <2>. DEFINE o    == x.object
              m    == x.meaning
              s    == x.sound /\ m[1] # "as"
              text == ToStringBracketed(o) \o <<"AS", name>>
              tree == <<"as", m, name>>
  <2>1. name \notin Malformed /\ Renders(o) /\ Hold(Table(text), tree, s)
    BY <1>2, Zenon DEF As
  <2>2. name \in Words
    BY <2>1, TableAssumption
  <2>3. o \in Objects /\ x.sound \in BOOLEAN /\ (x.sound => ReadsAs(o, m))
    BY EntryParts, Zenon
  <2>4. text \in Text
    <3>1. ToStringBracketed(o) \in Text
      BY <2>1, <2>3, RenderingsTyped, Zenon
    <3>2. "AS" \in Tokens /\ name \in Tokens
      BY <2>2, WordsTyped, KeywordsTyped DEF Keywords
    <3>3. <<"AS", name>> \in Text
      BY <3>2, TextsTyped, Zenon
    <3>. QED BY <3>1, <3>3, TextsTyped, Zenon
  <2>5. s => IsOperand(text, tree, TableFrames)
    <3>. SUFFICES ASSUME s PROVE IsOperand(text, tree, TableFrames)
      OBVIOUS
    <3>1. IsOperand(ToStringBracketed(o), m, TableFrames)
      BY <2>1, <2>3, BracketedReads, Zenon
    <3>. QED BY <2>2, <3>1, AliasReads
  <2>6. tree[1] \notin Statements
    BY DEF Statements
  <2>7. s \in BOOLEAN
    BY <2>3
  <2>. HIDE DEF text, tree, s
  <2>8. EntryOK(Entry(Table(text), tree, s))
    BY <2>4, <2>5, <2>6, <2>7, NewTable, Zenon
  <2>. QED BY <2>1, <2>8, HoldKeeps, Zenon
<1>. QED BY <1>1, <1>2

LEMMA FromKeeps ==
  ASSUME HeldOK, NEW x \in held, From(x)
  PROVE  HeldOK'
<1>1. CASE Throw("LogicError")
  BY <1>1, ThrowKeeps, OutcomesTyped
<1>2. CASE ~Throw("LogicError")
  <2>. DEFINE from == x.object
              t    == x.meaning
              s    == x.sound
              text == ToStringPlain(from)
              o    == SelectExpr(text)
              m    == <<"select", <<>>, t>>
  <2>1. IsFromItem(from) /\ Hold(o, m, s)
    BY <1>2, Zenon DEF From, ToStringAsFromItem
  <2>2. from \in Objects /\ s \in BOOLEAN /\ (s => ReadsAs(from, t))
    BY EntryParts, Zenon
  <2>3. text \in Text
    <3>1. Renders(from)
      BY <2>1 DEF Renders, IsFromItem
    <3>. QED BY <2>2, <3>1, RenderingsTyped, Zenon
  <2>4. s => IsComplete(text, t, {"from"})
    BY <2>1, <2>2, FromItemReads, Zenon
  <2>5. o.class = "SelectExpr" /\ o.from = text /\ o.select = <<>>
    BY DEF SelectExpr, None
  <2>6. o \in Objects
    <3>1. <<>> \in Seq(Text)
      OBVIOUS
    <3>. QED BY <2>3, <3>1 DEF Objects, SelectExpr, None
  <2>7. m[1] = "select"
    OBVIOUS
  <2>8. o.class # "Table" /\ o.class # "Join" /\ o.class # "SetOp" /\ o.class # "WithQuery"
    BY <2>5
  <2>. HIDE DEF o, text
  <2>9. s => ReadsAs(o, m)
    <3>1. m = <<"select", <<>>, t>>
      OBVIOUS
    <3>. HIDE DEF m
    <3>. QED BY <2>4, <2>5, <2>7, <2>8, <3>1, Zenon DEF ReadsAs
  <2>. HIDE DEF m
  <2>10. EntryOK(Entry(o, m, s))
    BY <2>2, <2>5, <2>6, <2>9, NewSelect, Zenon
  <2>. QED BY <2>1, <2>10, HoldKeeps, Zenon
<1>. QED BY <1>1, <1>2

\* Select, of a text that reads as the item it is for.
LEMMA SelectKeeps ==
  ASSUME HeldOK, NEW x \in held, NEW item \in Text, NEW meaning, NEW sound \in BOOLEAN,
         sound => IsOperand(item, meaning, {"select"}),
         Select(x, item, meaning, sound)
  PROVE  HeldOK'
<1>1. CASE Throw("LogicError")
  BY <1>1, ThrowKeeps, OutcomesTyped
<1>2. CASE ~Throw("LogicError")
  <2>. DEFINE old == x.object
              o   == [old EXCEPT !.select = Some(item)]
              m   == <<"select", meaning, x.meaning[3]>>
              s   == x.sound /\ sound
  <2>1. old.class = "SelectExpr" /\ old.select = <<>> /\ Become(x, o, m, s)
    BY <1>2, Zenon DEF Select, IsEmpty
  <2>2. old \in Objects /\ x.sound \in BOOLEAN /\ (x.sound => ReadsAs(old, x.meaning))
    BY EntryParts, Zenon
  <2>3. old \in [class : {"SelectExpr"}, from : Text, select : Seq(Text)]
    BY <2>1, <2>2 DEF Objects
  <2>4. Some(item) \in Seq(Text) /\ Some(item) # <<>> /\ Some(item)[1] = item
    BY DEF Some
  <2>5. /\ o.class = "SelectExpr" /\ o.from = old.from /\ o.select = Some(item)
        /\ o \in [class : {"SelectExpr"}, from : Text, select : Seq(Text)]
    BY <2>1, <2>3, <2>4
  <2>6. o \in Objects
    BY <2>5 DEF Objects
  <2>7. o.class # "Table" /\ o.class # "Join" /\ o.class # "SetOp" /\ o.class # "WithQuery"
    BY <2>5
  <2>. HIDE DEF o
  <2>8. s => ReadsAs(o, m)
    <3>. SUFFICES ASSUME s PROVE ReadsAs(o, m)
      OBVIOUS
    <3>1. PICK t : IsComplete(old.from, t, {"from"}) /\ x.meaning = <<"select", <<>>, t>>
      BY <2>1, <2>2, Zenon DEF ReadsAs
    <3>2. m = <<"select", meaning, t>> /\ m[1] = "select"
      BY <3>1
    <3>3. IsOperand(o.select[1], meaning, {"select"})
      BY <2>4, <2>5, Zenon
    <3>. HIDE DEF m
    <3>. QED BY <2>4, <2>5, <2>7, <3>1, <3>2, <3>3, Zenon DEF ReadsAs
  <2>9. s \in BOOLEAN
    BY <2>2
  <2>. HIDE DEF m, s
  <2>10. EntryOK(Entry(o, m, s))
    BY <2>5, <2>6, <2>8, <2>9, NewSelect, Zenon
  <2>. QED BY <2>1, <2>10, BecomeKeeps, Zenon
<1>. QED BY <1>1, <1>2

LEMMA SelectItemKeeps ==
  ASSUME HeldOK, NEW x \in held, NEW item \in Items, Select(x, item, <<"expr", item>>, TRUE)
  PROVE  HeldOK'
<1>1. item \in PlainText
  BY TableAssumption
<1>. DEFINE meaning == <<"expr", item>>
<1>2. IsOperand(item, meaning, {"select"})
  BY <1>1, ExprReads
<1>3. item \in Text
  BY <1>1, TextsTyped, Zenon
<1>4. Select(x, item, meaning, TRUE)
  OBVIOUS
<1>. HIDE DEF meaning
<1>5. TRUE \in BOOLEAN /\ (TRUE => IsOperand(item, meaning, {"select"}))
  BY <1>2
<1>. QED BY <1>3, <1>4, <1>5, SelectKeeps, Zenon

LEMMA SelectSubqueryKeeps ==
  ASSUME HeldOK, NEW x \in held, NEW query \in held, SelectSubquery(x, query)
  PROVE  HeldOK'
<1>1. CASE Throw("LogicError")
  BY <1>1, ThrowKeeps, OutcomesTyped
<1>2. CASE ~Throw("LogicError")
  <2>. DEFINE q       == query.object
              item    == ToStringBracketed(q)
              meaning == <<"subquery", query.meaning>>
              sound   == SoundStatement(query)
  <2>1. Renders(q) /\ Select(x, item, meaning, sound)
    BY <1>2, Zenon DEF SelectSubquery
  <2>2. q \in Objects /\ query.sound \in BOOLEAN /\ (query.sound => ReadsAs(q, query.meaning))
    BY EntryParts, Zenon
  <2>3. item \in Text
    BY <2>1, <2>2, RenderingsTyped, Zenon
  <2>4. sound \in BOOLEAN
    BY <2>2 DEF SoundStatement
  <2>5. sound => IsOperand(item, meaning, {"select"})
    <3>. SUFFICES ASSUME sound PROVE IsOperand(item, meaning, {"select"})
      OBVIOUS
    <3>1. ReadsAs(q, query.meaning) /\ query.meaning[1] \in Statements
      BY <2>2 DEF SoundStatement
    <3>. QED BY <2>1, <2>2, <3>1, SubqueryItem
  <2>. HIDE DEF item, meaning, sound
  <2>. QED BY <2>1, <2>3, <2>4, <2>5, SelectKeeps, Zenon
<1>. QED BY <1>1, <1>2

-----------------------------------------------------------------------------
\* Joins, not yet qualified.
LEMMA NewJoin ==
  ASSUME NEW a \in Text, NEW b \in Text, NEW kind \in JoinKinds, NEW l, NEW r, NEW s \in BOOLEAN,
         s => IsOperand(a, l, TableFrames) /\ IsOperand(b, r, TableFrames),
         NEW o, o = [class |-> "Join", a |-> a, b |-> b, kind |-> kind.keyword,
                     natural |-> kind.natural, on |-> <<>>, using |-> <<>>],
         NEW m, m = <<"join", kind.keyword, l, r, <<"unqualified">>>>
  PROVE  EntryOK(Entry(o, m, s))
<1>. DEFINE keyword == kind.keyword
<1>. DEFINE q == <<"unqualified">>
<1>1. keyword \in JoinWords /\ kind.natural \in BOOLEAN
  BY TableAssumption DEF JoinWords
<1>2. /\ o.class = "Join" /\ o.a = a /\ o.b = b /\ o.kind = keyword
      /\ o.on = <<>> /\ o.using = <<>>
  OBVIOUS
<1>3. o \in Objects
  <2>1. <<>> \in Text
    BY TextsTyped, Zenon
  <2>. QED BY <1>1, <2>1 DEF Objects, JoinWords
<1>4. o.class # "Table" /\ o.class # "SetOp" /\ o.class # "SelectExpr" /\ o.class # "WithQuery"
  BY <1>2
<1>5. m = <<"join", keyword, l, r, q>> /\ m[1] = "join"
  OBVIOUS
<1>6. QualifiedOnce(o) /\ LaysOut(o)
  BY <1>2, <1>4, Zenon DEF QualifiedOnce, LaysOut
<1>7. Qualifies(JoinTail(o), l, keyword, r, q)
  <2>1. JoinTail(o) = UsingPart(o)
    BY <1>2, <1>3, JoinParts, Zenon
  <2>2. UsingPart(o) = <<>>
    BY <1>2, Zenon DEF UsingPart, IsEmpty
  <2>3. Qualifies(<<>>, l, keyword, r, q)
    BY UnqualifiedReads
  <2>. QED BY <2>1, <2>2, <2>3, Zenon
<1>. HIDE DEF keyword, q
<1>8. s => ReadsAs(o, m)
  <2>. SUFFICES ASSUME s PROVE ReadsAs(o, m)
    OBVIOUS
  <2>1. \E ll, rr, qq :
          /\ m = <<"join", o.kind, ll, rr, qq>>
          /\ IsOperand(o.a, ll, TableFrames)
          /\ IsOperand(o.b, rr, TableFrames)
          /\ Qualifies(JoinTail(o), ll, o.kind, rr, qq)
          /\ o.on = <<>> /\ o.using = <<>> => qq = <<"unqualified">>
    BY <1>2, <1>5, <1>7, Zenon DEF q
  <2>. QED BY <1>2, <1>4, <1>5, <2>1, Zenon DEF ReadsAs
<1>. QED BY <1>3, <1>6, <1>8, EntryHolds, Zenon

LEMMA JoinKeeps ==
  ASSUME HeldOK, NEW x \in held, NEW y \in held, NEW kind \in JoinKinds, Join(x, y, kind)
  PROVE  HeldOK'
<1>1. CASE Throw("LogicError")
  BY <1>1, ThrowKeeps, OutcomesTyped
<1>2. CASE ~Throw("LogicError")
  <2>. DEFINE a == ToStringBracketed(x.object)
              b == ToStringBracketed(y.object)
              l == x.meaning
              r == y.meaning
              s == x.sound /\ y.sound
              o == [class |-> "Join", a |-> a, b |-> b, kind |-> kind.keyword,
                    natural |-> kind.natural, on |-> <<>>, using |-> <<>>]
              m == <<"join", kind.keyword, l, r, <<"unqualified">>>>
  <2>1. Renders(x.object) /\ Renders(y.object) /\ Hold(o, m, s)
    BY <1>2, Zenon DEF Join, Operand
  <2>2. /\ x.object \in Objects /\ x.sound \in BOOLEAN /\ (x.sound => ReadsAs(x.object, l))
        /\ y.object \in Objects /\ y.sound \in BOOLEAN /\ (y.sound => ReadsAs(y.object, r))
    BY EntryParts, Zenon
  <2>3. a \in Text /\ b \in Text
    BY <2>1, <2>2, RenderingsTyped, Zenon
  <2>4. s => IsOperand(a, l, TableFrames) /\ IsOperand(b, r, TableFrames)
    BY <2>1, <2>2, BracketedReads, Zenon
  <2>5. s \in BOOLEAN
    BY <2>2
  <2>. HIDE DEF a, b, l, r, s
  <2>6. EntryOK(Entry(o, m, s))
    BY <2>3, <2>4, <2>5, NewJoin
  <2>. HIDE DEF o, m
  <2>. QED BY <2>1, <2>6, HoldKeeps, Zenon
<1>. QED BY <1>1, <1>2

\* What the fifth place of a meaning becomes.
Qualification(m, qualifier) ==
  [m EXCEPT ![5] = IF @ = <<"unqualified">> THEN qualifier ELSE @ \o qualifier]

LEMMA FifthPlace ==
  ASSUME NEW a, NEW b, NEW c, NEW d, NEW e, NEW f, NEW q
  PROVE  [<<a, b, c, d, e>> EXCEPT ![5] = IF @ = e THEN q ELSE f] = <<a, b, c, d, q>>
OBVIOUS

LEMMA QualificationIs ==
  ASSUME NEW k, NEW l, NEW r, NEW q, NEW m, m = <<"join", k, l, r, <<"unqualified">>>>
  PROVE  Qualification(m, q) = <<"join", k, l, r, q>>
<1>. DEFINE word == "join"
<1>. DEFINE none == <<"unqualified">>
<1>. DEFINE more == m[5] \o q
<1>1. Qualification(m, q) = [m EXCEPT ![5] = IF @ = none THEN q ELSE more]
  BY DEF Qualification
<1>2. m = <<word, k, l, r, none>>
  OBVIOUS
<1>. HIDE DEF word, none, more
<1>3. [<<word, k, l, r, none>> EXCEPT ![5] = IF @ = none THEN q ELSE more] = <<word, k, l, r, q>>
  BY FifthPlace
<1>. QED BY <1>1, <1>2, <1>3, Zenon DEF word

\* A join that is qualified now.
LEMMA QualifyKeeps ==
  ASSUME HeldOK, NEW x \in held, x.object.class = "Join",
         ~x.object.natural, x.object.on = <<>>, x.object.using = <<>>,
         NEW o \in Objects, o.class = "Join", ~o.natural, o.a = x.object.a, o.b = x.object.b,
         o.kind = x.object.kind, o.on = <<>> \/ o.using = <<>>, ~(o.on = <<>> /\ o.using = <<>>),
         NEW q, \A l, kind, r : Qualifies(JoinTail(o), l, kind, r, q),
         Qualify(x, o, q)
  PROVE  HeldOK'
<1>. DEFINE old == x.object
            m   == Qualification(x.meaning, q)
            s   == x.sound
<1>1. Become(x, o, m, s)
  BY DEF Qualify, Qualification
<1>2. s \in BOOLEAN /\ (s => ReadsAs(old, x.meaning))
  BY EntryParts, Zenon
<1>3. o.class # "Table" /\ o.class # "SetOp" /\ o.class # "SelectExpr" /\ o.class # "WithQuery"
  OBVIOUS
<1>4. QualifiedOnce(o) /\ LaysOut(o)
  BY <1>3, Zenon DEF QualifiedOnce, LaysOut
<1>5. s => ReadsAs(o, m)
  <2>. SUFFICES ASSUME s PROVE ReadsAs(o, m)
    OBVIOUS
  <2>1. PICK l, r, none :
           /\ x.meaning = <<"join", old.kind, l, r, none>>
           /\ IsOperand(old.a, l, TableFrames)
           /\ IsOperand(old.b, r, TableFrames)
           /\ none = <<"unqualified">>
    BY <1>2, Zenon DEF ReadsAs
  <2>2. m = <<"join", old.kind, l, r, q>>
    <3>1. x.meaning = <<"join", old.kind, l, r, <<"unqualified">>>>
      BY <2>1, Zenon
    <3>. QED BY <3>1, QualificationIs
  <2>3. m[1] = "join"
    BY <2>2
  <2>. HIDE DEF m
  <2>4. \E ll, rr, qq :
          /\ m = <<"join", o.kind, ll, rr, qq>>
          /\ IsOperand(o.a, ll, TableFrames)
          /\ IsOperand(o.b, rr, TableFrames)
          /\ Qualifies(JoinTail(o), ll, o.kind, rr, qq)
          /\ o.on = <<>> /\ o.using = <<>> => qq = <<"unqualified">>
    <3>1. m = <<"join", o.kind, l, r, q>>
      BY <2>2, Zenon
    <3>2. IsOperand(o.a, l, TableFrames) /\ IsOperand(o.b, r, TableFrames)
      BY <2>1, Zenon
    <3>3. Qualifies(JoinTail(o), l, o.kind, r, q)
      OBVIOUS
    <3>. QED BY <3>1, <3>2, <3>3, Zenon
  <2>. QED BY <1>3, <2>3, <2>4, Zenon DEF ReadsAs
<1>. HIDE DEF m
<1>6. EntryOK(Entry(o, m, s))
  BY <1>2, <1>4, <1>5, EntryHolds, Zenon
<1>. QED BY <1>1, <1>6, BecomeKeeps, Zenon

\* The joins among the objects.
JoinObjects ==
  [class : {"Join"}, a : Text, b : Text, kind : PlainKinds \cup NaturalKinds,
   natural : BOOLEAN, on : Text, using : Text]

LEMMA JoinsAre ==
  /\ JoinObjects \subseteq Objects
  /\ \A o \in Objects : o.class = "Join" => o \in JoinObjects
<1>1. JoinObjects \subseteq Objects
  BY DEF JoinObjects, Objects
<1>2. \A o \in Objects : o.class = "Join" => o \in JoinObjects
  BY DEF JoinObjects, Objects
<1>. QED BY <1>1, <1>2

LEMMA OnKeeps ==
  ASSUME HeldOK, NEW x \in held, NEW exp \in Conditions, On(x, exp)
  PROVE  HeldOK'
<1>1. CASE Throw("LogicError")
  BY <1>1, ThrowKeeps, OutcomesTyped
<1>2. CASE ~Throw("LogicError")
  <2>. DEFINE old == x.object
              o   == [old EXCEPT !.on = exp]
              q   == <<"on", exp>>
  <2>1. /\ old.class = "Join" /\ ~old.natural /\ old.using = <<>> /\ old.on = <<>>
        /\ Qualify(x, o, q)
    BY <1>2, Zenon DEF On, IsEmpty
  <2>2. exp \in PlainText /\ exp \in Text /\ exp # <<>>
    <3>1. exp \in PlainText
      BY TableAssumption
    <3>. QED BY <3>1, TextsTyped, Zenon
  <2>3. old \in JoinObjects
    BY <2>1, EntryParts, JoinsAre, Zenon
  <2>4. /\ o \in JoinObjects /\ o.class = "Join" /\ ~o.natural /\ o.a = old.a /\ o.b = old.b
        /\ o.kind = old.kind /\ o.on = exp /\ o.using = <<>>
    BY <2>1, <2>2, <2>3 DEF JoinObjects
  <2>5. o \in Objects
    BY <2>4, JoinsAre, Zenon
  <2>. HIDE DEF o
  <2>6. JoinTail(o) = <<"ON">> \o exp
    <3>1. JoinTail(o) = OnPart(o)
      BY <2>4, <2>5, JoinParts, Zenon
    <3>. QED BY <2>2, <2>4, <3>1, Zenon DEF OnPart, IsEmpty
  <2>7. ASSUME NEW l, NEW kind, NEW r
        PROVE  Qualifies(JoinTail(o), l, kind, r, q)
    <3>1. Qualifies(<<"ON">> \o exp, l, kind, r, q)
      BY <2>2, OnReads
    <3>. QED BY <2>6, <3>1, Zenon
  <2>. HIDE DEF q
  <2>8. \A l, kind, r : Qualifies(JoinTail(o), l, kind, r, q)
    BY <2>7
  <2>9. /\ old.class = "Join" /\ ~old.natural /\ old.on = <<>> /\ old.using = <<>>
        /\ (o.on = <<>> \/ o.using = <<>>) /\ ~(o.on = <<>> /\ o.using = <<>>)
    BY <2>1, <2>2, <2>4
  <2>. QED BY <2>1, <2>4, <2>5, <2>8, <2>9, QualifyKeeps, Zenon
<1>. QED BY <1>1, <1>2

LEMMA UsingKeeps ==
  ASSUME HeldOK, NEW x \in held, NEW columns \in ColumnLists, Using(x, columns)
  PROVE  HeldOK'
<1>1. CASE Throw("LogicError") \/ Throw("InvalidArgument")
  BY <1>1, ThrowKeeps, OutcomesTyped
<1>2. CASE ~(Throw("LogicError") \/ Throw("InvalidArgument"))
  <2>. DEFINE old == x.object
              csv == JoinCsv(columns)
              o   == [old EXCEPT !.using = csv]
              q   == <<"using", columns>>
  <2>1. /\ old.class = "Join" /\ ~old.natural /\ old.using = <<>> /\ old.on = <<>>
        /\ columns # <<>>
        /\ Qualify(x, o, q)
    BY <1>2, Zenon DEF Using, IsEmpty
  <2>2. columns \in Seq(PlainText)
    BY TableAssumption
  <2>a. csv \in Text /\ csv # <<>>
    BY <2>1, <2>2, ColumnsJoin, Zenon
  <2>. HIDE DEF csv
  <2>3. old \in JoinObjects
    BY <2>1, EntryParts, JoinsAre, Zenon
  <2>4. /\ o \in JoinObjects /\ o.class = "Join" /\ ~o.natural /\ o.a = old.a /\ o.b = old.b
        /\ o.kind = old.kind /\ o.using = csv /\ o.on = <<>>
    BY <2>1, <2>a, <2>3 DEF JoinObjects
  <2>5. o \in Objects
    BY <2>4, JoinsAre, Zenon
  <2>. HIDE DEF o
  <2>6. JoinTail(o) = (<<"USING", "(">> \o csv) \o <<")">>
    <3>1. JoinTail(o) = UsingPart(o)
      BY <2>4, <2>5, JoinParts, Zenon
    <3>. QED BY <2>a, <2>4, <3>1, Zenon DEF UsingPart, IsEmpty
  <2>7. ASSUME NEW l, NEW kind, NEW r
        PROVE  Qualifies(JoinTail(o), l, kind, r, q)
    <3>1. Qualifies((<<"USING", "(">> \o JoinCsv(columns)) \o <<")">>, l, kind, r, q)
      BY <2>1, <2>2, UsingReads
    <3>. QED BY <2>6, <3>1, Zenon DEF csv
  <2>. HIDE DEF q
  <2>8. \A l, kind, r : Qualifies(JoinTail(o), l, kind, r, q)
    BY <2>7
  <2>9. /\ old.class = "Join" /\ ~old.natural /\ old.on = <<>> /\ old.using = <<>>
        /\ (o.on = <<>> \/ o.using = <<>>) /\ ~(o.on = <<>> /\ o.using = <<>>)
    BY <2>1, <2>a, <2>4
  <2>. QED BY <2>1, <2>4, <2>5, <2>8, <2>9, QualifyKeeps, Zenon
<1>. QED BY <1>1, <1>2

-----------------------------------------------------------------------------
LEMMA SetOpKeeps ==
  ASSUME HeldOK, NEW x \in held, NEW y \in held, NEW kind \in SetOpKinds, SetOp(x, y, kind)
  PROVE  HeldOK'
<1>1. CASE Throw("LogicError")
  BY <1>1, ThrowKeeps, OutcomesTyped
<1>2. CASE ~Throw("LogicError")
  <2>. DEFINE a == ToStringBracketed(x.object)
              b == ToStringBracketed(y.object)
              l == x.meaning
              r == y.meaning
              s == SoundStatement(x) /\ SoundStatement(y)
              o == [class |-> "SetOp", a |-> a, b |-> b, kind |-> kind]
              m == <<"set operation", kind, l, r>>
  <2>1. Renders(x.object) /\ Renders(y.object) /\ Hold(o, m, s)
    BY <1>2, Zenon DEF SetOp
  <2>2. /\ x.object \in Objects /\ x.sound \in BOOLEAN /\ (x.sound => ReadsAs(x.object, l))
        /\ y.object \in Objects /\ y.sound \in BOOLEAN /\ (y.sound => ReadsAs(y.object, r))
    BY EntryParts, Zenon
  <2>3. a \in Text /\ b \in Text
    BY <2>1, <2>2, RenderingsTyped, Zenon
  <2>4. s => IsOperand(a, l, BracketFrames) /\ IsOperand(b, r, BracketFrames)
    <3>. SUFFICES ASSUME s PROVE IsOperand(a, l, BracketFrames) /\ IsOperand(b, r, BracketFrames)
      OBVIOUS
    <3>1. ReadsAs(x.object, l) /\ l[1] \in Statements /\ ReadsAs(y.object, r) /\ r[1] \in Statements
      BY <2>2 DEF SoundStatement
    <3>2. x.object.class # "Table" /\ y.object.class # "Table"
      BY <2>2, <3>1, StatementsByClass DEF StatementClasses
    <3>. QED BY <2>1, <2>2, <3>1, <3>2, BracketedReads, Zenon
  <2>5. s \in BOOLEAN
    BY <2>2 DEF SoundStatement
  <2>6. kind \in SetOpWords
    BY TableAssumption
  <2>7. o.class = "SetOp" /\ ToStringPlain(o) = (a \o <<kind>>) \o b
    <3>1. o.class = "SetOp" /\ o.a = a /\ o.b = b /\ o.kind = kind
      OBVIOUS
    <3>. HIDE DEF o
    <3>. QED BY <3>1, TextsByClass, Zenon
  <2>. HIDE DEF a, b, l, r, s
  <2>8. o \in Objects
    BY <2>3, <2>6 DEF Objects
  <2>9. o.class # "Table" /\ o.class # "Join" /\ o.class # "SelectExpr" /\ o.class # "WithQuery"
    BY <2>7
  <2>10. m[1] = "set operation"
    OBVIOUS
  <2>11. s => IsComplete((a \o <<kind>>) \o b, m, StatementFrames)
    BY <2>4, <2>6, SetOpReads
  <2>. HIDE DEF o, m
  <2>12. s => ReadsAs(o, m)
    BY <2>7, <2>9, <2>10, <2>11, Zenon DEF ReadsAs
  <2>13. QualifiedOnce(o) /\ LaysOut(o)
    BY <2>9, Zenon DEF QualifiedOnce, LaysOut
  <2>14. EntryOK(Entry(o, m, s))
    BY <2>5, <2>8, <2>12, <2>13, EntryHolds, Zenon
  <2>. QED BY <2>1, <2>14, HoldKeeps, Zenon
<1>. QED BY <1>1, <1>2

-----------------------------------------------------------------------------
\* The builder in hand.
Fields == {"ctes", "ctesFormatted", "names", "meaning", "sound"}

\* The names kept apart are those of the CTEs, and no two are equal.
NamesFollow(b) ==
  /\ b = [f \in Fields |-> b[f]]
  /\ b.names \in Seq(CteNames)
  /\ \E S : b.meaning \in Seq(S)
  /\ Len(b.meaning) = Len(b.names)
  /\ \A k \in 1..Len(b.names) : b.meaning[k][1] = b.names[k]
  /\ \A j, k \in 1..Len(b.names) : b.names[j] = b.names[k] => j = k

\* Its texts are of the CTEs it was given, unless a Main moved them out.
TextsFollow(b) ==
  /\ b.ctes \in Text /\ b.ctesFormatted \in Text /\ b.sound \in BOOLEAN
  /\ b.sound => Unlaid(b.ctesFormatted) = Unlaid(b.ctes) /\ CtesRead(b.ctes, b.meaning)

BuilderOK == with # None => NamesFollow(with[1]) /\ TextsFollow(with[1])

Inv == HeldOK /\ BuilderOK

\* An index of a sequence with one more element is an old one or the last.
LEMMA IndexSplit ==
  ASSUME NEW n \in Nat
  PROVE  \A k \in 1..n+1 : k \in 1..n \/ k = n+1
OBVIOUS

\* What Append does to a sequence, the outcome given a name.
LEMMA Appended ==
  ASSUME NEW S, NEW s \in Seq(S), NEW e \in S, NEW t, t = Append(s, e)
  PROVE  /\ t \in Seq(S)
         /\ Len(t) = Len(s) + 1
         /\ \A k \in 1..Len(s) : t[k] = s[k]
         /\ t[Len(s) + 1] = e
OBVIOUS

\* One more CTE, of a name not taken.
LEMMA OneMore ==
  ASSUME NEW b, NamesFollow(b), NEW name \in CteNames, ~Taken(b, name),
         NEW query, NEW c, c = [f \in Fields |-> c[f]],
         c.names = Append(b.names, name),
         c.meaning = Append(b.meaning, <<name, query>>)
  PROVE  NamesFollow(c)
<1>. DEFINE n == Len(b.names)
<1>1. n \in Nat /\ b.names \in Seq(CteNames)
  BY DEF NamesFollow
<1>2. PICK S : b.meaning \in Seq(S)
  BY DEF NamesFollow
<1>3. /\ c.meaning \in Seq(S \cup {<<name, query>>})
      /\ Len(c.meaning) = n + 1
      /\ \A k \in 1..n : c.meaning[k] = b.meaning[k]
      /\ c.meaning[n+1] = <<name, query>>
  <2>. DEFINE T == S \cup {<<name, query>>}
  <2>1. b.meaning \in Seq(T) /\ <<name, query>> \in T
    BY <1>2
  <2>2. Len(b.meaning) = n
    BY DEF NamesFollow
  <2>. HIDE DEF T
  <2>. DEFINE s == b.meaning
              t == c.meaning
              e == <<name, query>>
  <2>3. s \in Seq(T) /\ e \in T /\ t = Append(s, e)
    BY <2>1
  <2>. HIDE DEF s, t, e
  <2>4. /\ t \in Seq(T) /\ Len(t) = Len(s) + 1
        /\ \A k \in 1..Len(s) : t[k] = s[k]
        /\ t[Len(s)+1] = e
    BY <2>3, Appended
  <2>. QED BY <2>2, <2>4 DEF s, t, e, T
<1>4. /\ c.names \in Seq(CteNames) /\ Len(c.names) = n + 1
      /\ \A k \in 1..n : c.names[k] = b.names[k]
      /\ c.names[n+1] = name
  <2>. DEFINE s == b.names
              t == c.names
  <2>1. s \in Seq(CteNames) /\ t = Append(s, name)
    BY <1>1
  <2>. HIDE DEF s, t
  <2>2. /\ t \in Seq(CteNames) /\ Len(t) = Len(s) + 1
        /\ \A k \in 1..Len(s) : t[k] = s[k]
        /\ t[Len(s)+1] = name
    BY <2>1, Appended
  <2>. QED BY <2>2 DEF s, t
<1>7. \A k \in 1..n : b.names[k] # name
  BY <1>1 DEF Taken, ToSet
<1>8. \A k \in 1..n+1 : c.meaning[k][1] = c.names[k]
  <2>1. \A k \in 1..n : b.meaning[k][1] = b.names[k]
    BY DEF NamesFollow
  <2>2. <<name, query>>[1] = name
    OBVIOUS
  <2>. QED BY <1>1, <1>3, <1>4, <2>1, <2>2, IndexSplit
<1>9. \A j, k \in 1..n+1 : c.names[j] = c.names[k] => j = k
  <2>1. \A j, k \in 1..n : b.names[j] = b.names[k] => j = k
    BY DEF NamesFollow
  <2>. QED BY <1>1, <1>4, <1>7, <2>1, IndexSplit
<1>10. \E T : c.meaning \in Seq(T)
  BY <1>3
<1>. HIDE DEF n
<1>. QED BY <1>3, <1>4, <1>8, <1>9, <1>10 DEF NamesFollow

\* A CTE that is a statement, in both renderings.
LEMMA CteFits ==
  ASSUME NEW name \in CteNames, name \notin Malformed, NEW o \in Objects, Renders(o), LaysOut(o),
         NEW m, ReadsAs(o, m), m[1] \in Statements
  PROVE  /\ Cte(name, o) = <<name, "AS">> \o (<<"(">> \o ToStringPlain(o) \o <<")">>)
         /\ IsComplete(ToStringPlain(o), m, {"query"})
         /\ Unlaid(CteFormatted(name, o)) = Unlaid(Cte(name, o))
<1>1. name \in Words
  BY CteAssumption
<1>2. o.class \in StatementClasses
  BY StatementsByClass, Zenon
<1>3. o.class # "Table"
  BY <1>2 DEF StatementClasses
<1>4. Cte(name, o) = <<name, "AS">> \o (<<"(">> \o ToStringPlain(o) \o <<")">>)
  BY <1>3, TextsByClass, Zenon DEF Cte
<1>5. IsComplete(ToStringPlain(o), m, {"query"})
  <2>. DEFINE places == StatementFrames \ {"main"}
  <2>1. {"query"} \in SUBSET places
    BY DEF StatementFrames
  <2>2. IsComplete(ToStringPlain(o), m, places)
    BY <1>2, StatementReads, Zenon
  <2>. HIDE DEF places
  <2>. QED BY <2>1, <2>2, CompleteThere, Zenon
<1>6. Unlaid(CteFormatted(name, o)) = Unlaid(Cte(name, o))
  BY <1>1, <1>3, CteLaidOut, Zenon
<1>. QED BY <1>4, <1>5, <1>6

\* The texts of a builder with its first CTE.
LEMMA TextsStart ==
  ASSUME NEW name \in CteNames, name \notin Malformed, HeldOK, NEW x \in held, Renders(x.object),
         NEW b, b.ctes = Cte(name, x.object), b.ctesFormatted = CteFormatted(name, x.object),
         b.meaning = <<<<name, x.meaning>>>>, b.sound = SoundStatement(x)
  PROVE  TextsFollow(b)
<1>. DEFINE o == x.object
            m == x.meaning
<1>1. o \in Objects /\ x.sound \in BOOLEAN /\ (x.sound => ReadsAs(o, m) /\ LaysOut(o))
  BY EntryParts, Zenon
<1>2. name \in Words
  BY CteAssumption
<1>3. b.ctes \in Text /\ b.ctesFormatted \in Text
  BY <1>1, <1>2, CteTyped, Zenon
<1>4. b.sound \in BOOLEAN
  BY <1>1 DEF SoundStatement
<1>5. ASSUME b.sound
      PROVE  Unlaid(b.ctesFormatted) = Unlaid(b.ctes) /\ CtesRead(b.ctes, b.meaning)
  <2>1. ReadsAs(o, m) /\ LaysOut(o) /\ m[1] \in Statements
    BY <1>1, <1>5 DEF SoundStatement
  <2>2. /\ Cte(name, o) = <<name, "AS">> \o (<<"(">> \o ToStringPlain(o) \o <<")">>)
        /\ IsComplete(ToStringPlain(o), m, {"query"})
        /\ Unlaid(CteFormatted(name, o)) = Unlaid(Cte(name, o))
    BY <1>1, <2>1, CteFits
  <2>3. CtesRead(<<name, "AS">> \o (<<"(">> \o ToStringPlain(o) \o <<")">>), <<<<name, m>>>>)
    BY <1>2, <2>2, CtesStart
  <2>. QED BY <2>2, <2>3, Zenon
<1>. QED BY <1>3, <1>4, <1>5, Zenon DEF TextsFollow

\* The texts of a builder with one more CTE.
LEMMA TextsMore ==
  ASSUME NEW name \in CteNames, name \notin Malformed, HeldOK, NEW x \in held, Renders(x.object),
         NEW b, TextsFollow(b),
         NEW c, c.ctes = (b.ctes \o <<", ">>) \o Cte(name, x.object),
         c.ctesFormatted = (b.ctesFormatted \o <<", ", "\n">>) \o CteFormatted(name, x.object),
         c.meaning = Append(b.meaning, <<name, x.meaning>>),
         c.sound = (b.sound /\ SoundStatement(x))
  PROVE  TextsFollow(c)
<1>. DEFINE o     == x.object
            m     == x.meaning
            comma == <<", ">>
            lined == <<", ", "\n">>
            cte   == Cte(name, o)
            cteF  == CteFormatted(name, o)
<1>1. o \in Objects /\ x.sound \in BOOLEAN /\ (x.sound => ReadsAs(o, m) /\ LaysOut(o))
  BY EntryParts, Zenon
<1>2. name \in Words
  BY CteAssumption
<1>3. ", " \in Keywords
  BY DEF Keywords
<1>4. comma \in Text /\ Unlaid(comma) = comma /\ lined \in Text /\ Unlaid(lined) = comma
  BY <1>3, UnlaidWords, UnlaidHeads, Zenon
<1>5. cte \in Text /\ cteF \in Text
  BY <1>1, <1>2, CteTyped, Zenon
<1>6. b.ctes \in Text /\ b.ctesFormatted \in Text /\ b.sound \in BOOLEAN
  BY Zenon DEF TextsFollow
<1>7. c.sound \in BOOLEAN
  BY <1>1, <1>6 DEF SoundStatement
<1>8. c.ctes = (b.ctes \o comma) \o cte /\ c.ctesFormatted = (b.ctesFormatted \o lined) \o cteF
  OBVIOUS
<1>9. ASSUME c.sound
      PROVE  Unlaid(c.ctesFormatted) = Unlaid(c.ctes) /\ CtesRead(c.ctes, c.meaning)
  <2>1. ReadsAs(o, m) /\ LaysOut(o) /\ m[1] \in Statements /\ b.sound
    BY <1>1, <1>6, <1>9 DEF SoundStatement
  <2>2. /\ cte = <<name, "AS">> \o (<<"(">> \o ToStringPlain(o) \o <<")">>)
        /\ IsComplete(ToStringPlain(o), m, {"query"})
        /\ Unlaid(cteF) = Unlaid(cte)
    BY <1>1, <2>1, CteFits
  <2>3. Unlaid(b.ctesFormatted) = Unlaid(b.ctes) /\ CtesRead(b.ctes, b.meaning)
    BY <2>1, Zenon DEF TextsFollow
  <2>4. CtesRead((b.ctes \o <<", ">>) \o (<<name, "AS">> \o (<<"(">> \o ToStringPlain(o) \o <<")">>)),
                 Append(b.meaning, <<name, m>>))
    BY <1>2, <2>2, <2>3, CtesMore
  <2>5. CtesRead(c.ctes, c.meaning)
    BY <2>2, <2>4, Zenon
  <2>. HIDE DEF comma, lined, cte, cteF
  <2>6. Unlaid((b.ctes \o comma) \o cte) = (Unlaid(b.ctes) \o comma) \o Unlaid(cte)
    <3>1. b.ctes \in Text /\ comma \in Text /\ cte \in Text
      BY <1>4, <1>5, <1>6
    <3>2. Unlaid((b.ctes \o comma) \o cte) = (Unlaid(b.ctes) \o Unlaid(comma)) \o Unlaid(cte)
      BY ONLY <3>1, UnlaidThree, Zenon
    <3>. QED BY <1>4, <3>2, Zenon
  <2>7. Unlaid((b.ctesFormatted \o lined) \o cteF) = (Unlaid(b.ctesFormatted) \o comma) \o Unlaid(cteF)
    <3>1. b.ctesFormatted \in Text /\ lined \in Text /\ cteF \in Text
      BY <1>4, <1>5, <1>6
    <3>2. Unlaid((b.ctesFormatted \o lined) \o cteF)
            = (Unlaid(b.ctesFormatted) \o Unlaid(lined)) \o Unlaid(cteF)
      BY ONLY <3>1, UnlaidThree, Zenon
    <3>. QED BY <1>4, <3>2, Zenon
  <2>. QED BY <1>8, <2>2, <2>3, <2>5, <2>6, <2>7, Zenon
<1>. HIDE DEF comma, lined, cte, cteF
<1>10. c.ctes \in Text /\ c.ctesFormatted \in Text
  <2>1. b.ctes \o comma \in Text /\ b.ctesFormatted \o lined \in Text
    BY <1>4, <1>6, TextsTyped, Zenon
  <2>2. (b.ctes \o comma) \o cte \in Text
    BY <1>5, <2>1, TextsTyped, Zenon
  <2>3. (b.ctesFormatted \o lined) \o cteF \in Text
    BY <1>5, <2>1, TextsTyped, Zenon
  <2>. QED BY <1>8, <2>2, <2>3, Zenon
<1>. QED BY <1>7, <1>9, <1>10, Zenon DEF TextsFollow

-----------------------------------------------------------------------------
LEMMA WithStartKeeps ==
  ASSUME Inv, NEW x \in held, NEW name \in CteNames, WithStart(name, x)
  PROVE  Inv'
<1>1. CASE (Throw("InvalidIdentifier") \/ Throw("LogicError")) /\ UNCHANGED with
  <2>1. HeldOK'
    BY <1>1, ThrowKeeps, OutcomesTyped DEF Inv
  <2>. QED BY <1>1, <2>1 DEF Inv, BuilderOK
<1>2. CASE ~((Throw("InvalidIdentifier") \/ Throw("LogicError")) /\ UNCHANGED with)
  <2>. DEFINE b == [ctes          |-> Cte(name, x.object),
                    ctesFormatted |-> CteFormatted(name, x.object),
                    names         |-> <<name>>,
                    meaning       |-> <<<<name, x.meaning>>>>,
                    sound         |-> SoundStatement(x)]
  <2>1. /\ name \notin Malformed /\ Renders(x.object) /\ with' = Some(b)
        /\ outcome' = "ok" /\ UNCHANGED held
    BY <1>2, Zenon DEF WithStart
  <2>2. b = [f \in Fields |-> b[f]]
    BY DEF Fields
  <2>3. /\ b.names = <<name>> /\ b.meaning = <<<<name, x.meaning>>>>
        /\ b.ctes = Cte(name, x.object) /\ b.ctesFormatted = CteFormatted(name, x.object)
        /\ b.sound = SoundStatement(x)
    OBVIOUS
  <2>. HIDE DEF b
  <2>4. b.meaning \in Seq({<<name, x.meaning>>}) /\ b.names \in Seq(CteNames)
    BY <2>3
  <2>5. /\ Len(b.names) = 1 /\ b.names[1] = name
        /\ Len(b.meaning) = 1 /\ b.meaning[1][1] = name
    BY <2>3
  <2>6. \E S : b.meaning \in Seq(S)
    BY <2>4
  <2>7. NamesFollow(b)
    BY <2>2, <2>4, <2>5, <2>6 DEF NamesFollow
  <2>8. TextsFollow(b)
    BY <2>1, <2>3, TextsStart DEF Inv
  <2>9. with'[1] = b
    BY <2>1 DEF Some
  <2>10. BuilderOK'
    BY <2>7, <2>8, <2>9 DEF BuilderOK, NamesFollow, TextsFollow
  <2>11. HeldOK'
    BY <2>1 DEF Inv, HeldOK, Outcomes
  <2>. QED BY <2>10, <2>11 DEF Inv
<1>. QED BY <1>1, <1>2

LEMMA WithKeeps ==
  ASSUME Inv, NEW x \in held, NEW name \in CteNames, With(name, x)
  PROVE  Inv'
<1>1. CASE (Throw("InvalidIdentifier") \/ Throw("LogicError")) /\ UNCHANGED with
  <2>1. HeldOK'
    BY <1>1, ThrowKeeps, OutcomesTyped DEF Inv
  <2>. QED BY <1>1, <2>1 DEF Inv, BuilderOK
<1>2. CASE ~((Throw("InvalidIdentifier") \/ Throw("LogicError")) /\ UNCHANGED with)
  <2>. DEFINE b == with[1]
              ctes          == b.ctes \o <<", ">> \o Cte(name, x.object)
              ctesFormatted == b.ctesFormatted \o <<", ", "\n">> \o CteFormatted(name, x.object)
              names         == Append(b.names, name)
              meaning       == Append(b.meaning, <<name, x.meaning>>)
              sound         == b.sound /\ SoundStatement(x)
              c == [b EXCEPT !.ctes = ctes, !.ctesFormatted = ctesFormatted, !.names = names,
                             !.meaning = meaning, !.sound = sound]
  <2>1. /\ with # None /\ name \notin Malformed /\ Renders(x.object) /\ ~Taken(b, name)
        /\ with' = Some(c) /\ outcome' = "ok" /\ UNCHANGED held
    BY <1>2 DEF With
  <2>2. NamesFollow(b) /\ TextsFollow(b)
    BY <2>1 DEF Inv, BuilderOK
  <2>3. b = [f \in Fields |-> b[f]]
    BY <2>2 DEF NamesFollow
  <2>. HIDE DEF b, ctes, ctesFormatted, names, meaning, sound
  <2>4. /\ c = [f \in Fields |-> c[f]]
        /\ c.ctes = ctes /\ c.ctesFormatted = ctesFormatted
        /\ c.names = names /\ c.meaning = meaning /\ c.sound = sound
    BY <2>3 DEF Fields
  <2>. HIDE DEF c
  <2>5. NamesFollow(c)
    BY <2>1, <2>2, <2>4, OneMore DEF names, meaning
  <2>6. TextsFollow(c)
    BY <2>1, <2>2, <2>4, TextsMore DEF Inv, ctes, ctesFormatted, meaning, sound
  <2>9. with'[1] = c
    BY <2>1 DEF Some
  <2>10. BuilderOK'
    BY <2>5, <2>6, <2>9 DEF BuilderOK, NamesFollow, TextsFollow
  <2>11. HeldOK'
    BY <2>1 DEF Inv, HeldOK, Outcomes
  <2>. QED BY <2>10, <2>11 DEF Inv
<1>. QED BY <1>1, <1>2

\* The query Main makes.
LEMMA NewWithQuery ==
  ASSUME NEW b, TextsFollow(b), HeldOK, NEW x \in held, Renders(x.object),
         NEW o, o = [class         |-> "WithQuery",
                     ctes          |-> b.ctes,
                     main          |-> ToStringPlain(x.object),
                     ctesFormatted |-> b.ctesFormatted,
                     mainFormatted |-> ToStringFormatted(x.object)],
         NEW m, m = <<"with", b.meaning, x.meaning>>,
         NEW s, s = (b.sound /\ SoundStatement(x) /\ x.meaning[1] # "with")
  PROVE  EntryOK(Entry(o, m, s))
<1>. DEFINE main == x.object
            t    == x.meaning
<1>1. main \in Objects /\ x.sound \in BOOLEAN /\ (x.sound => ReadsAs(main, t) /\ LaysOut(main))
  BY EntryParts, Zenon
<1>2. b.ctes \in Text /\ b.ctesFormatted \in Text /\ b.sound \in BOOLEAN
  BY Zenon DEF TextsFollow
<1>3. ToStringPlain(main) \in Text /\ ToStringFormatted(main) \in Text
  BY <1>1, RenderingsTyped, Zenon
<1>4. s \in BOOLEAN
  BY <1>1, <1>2 DEF SoundStatement
<1>5. /\ o.class = "WithQuery" /\ o.ctes = b.ctes /\ o.main = ToStringPlain(main)
      /\ o.ctesFormatted = b.ctesFormatted /\ o.mainFormatted = ToStringFormatted(main)
  OBVIOUS
<1>6. o \in Objects
  BY <1>2, <1>3 DEF Objects
<1>7. o.class # "Table" /\ o.class # "Join" /\ o.class # "SetOp" /\ o.class # "SelectExpr"
  BY <1>5
<1>8. m[1] = "with"
  OBVIOUS
<1>9. ASSUME s PROVE ReadsAs(o, m) /\ LaysOut(o)
  <2>1. /\ ReadsAs(main, t) /\ LaysOut(main) /\ t[1] \in Statements /\ t[1] # "with"
        /\ Unlaid(b.ctesFormatted) = Unlaid(b.ctes) /\ CtesRead(b.ctes, b.meaning)
    BY <1>1, <1>2, <1>9 DEF SoundStatement, TextsFollow
  <2>2. IsComplete(ToStringPlain(main), t, {"main"})
    <3>1. main.class \in StatementClasses
      BY <1>1, <2>1, StatementsByClass, Zenon
    <3>2. IsComplete(ToStringPlain(main), t, StatementFrames)
      BY <1>1, <2>1, <3>1, StatementReads, Zenon
    <3>3. {"main"} \in SUBSET StatementFrames
      BY DEF StatementFrames
    <3>. QED BY <3>2, <3>3, CompleteThere, Zenon
  <2>3. IsComplete((<<"WITH">> \o b.ctes) \o ToStringPlain(main), <<"with", b.meaning, t>>,
                   StatementFrames \ {"main"})
    BY <2>1, <2>2, WithReads
  <2>4. ToStringPlain(o) = (<<"WITH">> \o b.ctes) \o ToStringPlain(main)
    BY <1>5, TextsByClass, Zenon DEF WithText
  <2>5. IsComplete(ToStringPlain(o), m, StatementFrames \ {"main"})
    <3>1. m = <<"with", b.meaning, t>>
      OBVIOUS
    <3>. HIDE DEF main, t
    <3>. QED BY <2>3, <2>4, <3>1, Zenon
  <2>6. ReadsAs(o, m)
    BY <1>5, <1>7, <1>8, <2>5, Zenon DEF ReadsAs
  <2>7. Unlaid(ToStringFormatted(main)) = Unlaid(ToStringPlain(main))
    BY <1>1, <2>1, ObjectLaidOut, Zenon
  <2>8. LaysOut(o)
    BY <1>5, <2>1, <2>7, Zenon DEF LaysOut
  <2>. QED BY <2>6, <2>8
<1>10. QualifiedOnce(o)
  BY <1>7, Zenon DEF QualifiedOnce
<1>. QED BY <1>4, <1>6, <1>9, <1>10, EntryHolds, Zenon

LEMMA MainKeeps ==
  ASSUME Inv, NEW x \in held, Main(x)
  PROVE  Inv'
<1>. DEFINE b == with[1]
<1>0. with # None /\ NamesFollow(b) /\ TextsFollow(b)
  BY DEF Main, Inv, BuilderOK
<1>1. CASE Renders(x.object)
  <2>. DEFINE o == [class         |-> "WithQuery",
                    ctes          |-> b.ctes,
                    main          |-> ToStringPlain(x.object),
                    ctesFormatted |-> b.ctesFormatted,
                    mainFormatted |-> ToStringFormatted(x.object)]
              m == <<"with", b.meaning, x.meaning>>
              s == b.sound /\ SoundStatement(x) /\ x.meaning[1] # "with"
  <2>1. Hold(o, m, s) /\ with' = None
    BY <1>1, Zenon DEF Main
  <2>2. EntryOK(Entry(o, m, s))
    <3>. HIDE DEF b
    <3>. QED BY <1>0, <1>1, NewWithQuery DEF Inv
  <2>. HIDE DEF o, m, s
  <2>3. HeldOK'
    BY <2>1, <2>2, HoldKeeps, Zenon DEF Inv
  <2>. QED BY <2>1, <2>3 DEF Inv, BuilderOK
<1>2. CASE ~Renders(x.object)
  <2>1. /\ Throw("LogicError")
        /\ \E left \in {<<>>, b.ctes}, leftFormatted \in {<<>>, b.ctesFormatted} :
             with' = Some([b EXCEPT !.ctes = left, !.ctesFormatted = leftFormatted, !.sound = FALSE])
    BY <1>2 DEF Main
  <2>2. PICK left \in {<<>>, b.ctes}, leftFormatted \in {<<>>, b.ctesFormatted} :
          with' = Some([b EXCEPT !.ctes = left, !.ctesFormatted = leftFormatted, !.sound = FALSE])
    BY <2>1
  <2>. DEFINE c == [b EXCEPT !.ctes = left, !.ctesFormatted = leftFormatted, !.sound = FALSE]
  <2>3. with'[1] = c
    BY <2>2 DEF Some
  <2>4. b = [f \in Fields |-> b[f]]
    BY <1>0 DEF NamesFollow
  <2>5. /\ c = [f \in Fields |-> c[f]] /\ c.names = b.names /\ c.meaning = b.meaning
        /\ c.ctes = left /\ c.ctesFormatted = leftFormatted /\ c.sound = FALSE
    BY <2>4 DEF Fields
  <2>6. left \in Text /\ leftFormatted \in Text
    BY <1>0, TextsTyped DEF TextsFollow
  <2>. HIDE DEF b, c
  <2>7. NamesFollow(c)
    BY <1>0, <2>5 DEF NamesFollow
  <2>8. TextsFollow(c)
    BY <2>5, <2>6, Zenon DEF TextsFollow
  <2>9. BuilderOK'
    BY <2>3, <2>7, <2>8 DEF BuilderOK, NamesFollow, TextsFollow
  <2>10. HeldOK'
    BY <2>1, ThrowKeeps, OutcomesTyped DEF Inv
  <2>. QED BY <2>9, <2>10 DEF Inv
<1>. QED BY <1>1, <1>2

-----------------------------------------------------------------------------
LEMMA Initially == WithInit => Inv
<1>. SUFFICES ASSUME WithInit PROVE Inv
  OBVIOUS
<1>1. ASSUME NEW name \in TableNames
      PROVE  EntryOK(Entry(Table(<<name>>), <<"table", name>>, TRUE))
  <2>. DEFINE text == <<name>>
              m    == <<"table", name>>
  <2>1. name \in Words
    BY TableAssumption
  <2>2. IsOperand(text, m, TableFrames)
    BY <2>1, TableReads
  <2>3. text \in Text
    BY <2>1, WordsTyped, TextsTyped
  <2>4. m[1] \notin Statements
    BY DEF Statements
  <2>5. TRUE \in BOOLEAN /\ (TRUE => m[1] \notin Statements /\ IsOperand(text, m, TableFrames))
    BY <2>2, <2>4
  <2>. HIDE DEF text, m
  <2>6. EntryOK(Entry(Table(text), m, TRUE))
    BY <2>3, <2>5, NewTable, Zenon
  <2>. QED BY <2>6 DEF text, m
<1>2. HeldOK
  <2>1. \A x \in held : EntryOK(x)
    <3>1. ASSUME NEW x \in held PROVE EntryOK(x)
      <4>1. PICK name \in TableNames : x = Entry(Table(<<name>>), <<"table", name>>, TRUE)
        BY DEF WithInit, Init
      <4>2. EntryOK(Entry(Table(<<name>>), <<"table", name>>, TRUE))
        BY <1>1
      <4>. QED BY <4>1, <4>2, Zenon
    <3>. QED BY <3>1
  <2>2. outcome \in Outcomes
    BY DEF WithInit, Init, Outcomes
  <2>. QED BY <2>1, <2>2 DEF HeldOK
<1>3. BuilderOK
  BY DEF WithInit, BuilderOK
<1>. QED BY <1>2, <1>3 DEF Inv

LEMMA TablesKeep ==
  ASSUME HeldOK, TableNext
  PROVE  HeldOK'
<1>1. ASSUME NEW x \in held, NEW name \in Aliases, As(x, name) PROVE HeldOK'
  BY <1>1, AsKeeps
<1>2. ASSUME NEW x \in held, From(x) PROVE HeldOK'
  BY <1>2, FromKeeps
<1>3. ASSUME NEW x \in held, NEW item \in Items, Select(x, item, <<"expr", item>>, TRUE) PROVE HeldOK'
  BY <1>3, SelectItemKeeps
<1>4. ASSUME NEW x \in held, NEW exp \in Conditions, On(x, exp) PROVE HeldOK'
  BY <1>4, OnKeeps
<1>5. ASSUME NEW x \in held, NEW columns \in ColumnLists, Using(x, columns) PROVE HeldOK'
  BY <1>5, UsingKeeps
<1>6. ASSUME NEW x \in held, NEW y \in held, SelectSubquery(x, y) PROVE HeldOK'
  BY <1>6, SelectSubqueryKeeps
<1>7. ASSUME NEW x \in held, NEW y \in held, NEW kind \in JoinKinds, Join(x, y, kind) PROVE HeldOK'
  BY <1>7, JoinKeeps
<1>8. ASSUME NEW x \in held, NEW y \in held, NEW kind \in SetOpKinds, SetOp(x, y, kind) PROVE HeldOK'
  BY <1>8, SetOpKeeps
<1>. QED BY <1>1, <1>2, <1>3, <1>4, <1>5, <1>6, <1>7, <1>8, Zenon DEF TableNext

LEMMA Stepwise == Inv /\ [Next]_vars => Inv'
<1>. SUFFICES ASSUME Inv, [Next]_vars PROVE Inv'
  OBVIOUS
<1>1. CASE UNCHANGED vars
  BY <1>1 DEF Inv, HeldOK, BuilderOK, vars
<1>2. ASSUME TableNext, UNCHANGED with PROVE Inv'
  <2>1. HeldOK'
    BY <1>2, TablesKeep DEF Inv
  <2>. QED BY <1>2, <2>1 DEF Inv, BuilderOK
<1>3. ASSUME NEW x \in held, NEW name \in CteNames, WithStart(name, x) PROVE Inv'
  BY <1>3, WithStartKeeps
<1>4. ASSUME NEW x \in held, NEW name \in CteNames, With(name, x) PROVE Inv'
  BY <1>4, WithKeeps
<1>5. ASSUME NEW x \in held, Main(x) PROVE Inv'
  BY <1>5, MainKeeps
<1>. QED BY <1>1, <1>2, <1>3, <1>4, <1>5, Zenon DEF Next

LEMMA Invariant == Spec => []Inv
BY Initially, Stepwise, PTL DEF Spec

-----------------------------------------------------------------------------
\* At most one of the two clauses of a join is there.
LEMMA ClausesCounted ==
  ASSUME NEW o, QualifiedOnce(o), o.class = "Join"
  PROVE  Cardinality({c \in {"on", "using"} : o[c] # <<>>}) <= IF o.natural THEN 0 ELSE 1
<1>. DEFINE there == {c \in {"on", "using"} : o[c] # <<>>}
<1>1. /\ o.on = <<>> \/ o.using = <<>>
      /\ o.natural => o.on = <<>> /\ o.using = <<>>
  BY Zenon DEF QualifiedOnce
<1>2. there = {} \/ there = {"on"} \/ there = {"using"}
  BY <1>1
<1>3. o.natural => there = {}
  BY <1>1
<1>. HIDE DEF there
<1>4. Cardinality({}) = 0 /\ Cardinality({"on"}) = 1 /\ Cardinality({"using"}) = 1
  BY FS_EmptySet, FS_Singleton
<1>5. Cardinality(there) <= IF o.natural THEN 0 ELSE 1
  BY <1>2, <1>3, <1>4
<1>. QED BY <1>5 DEF there

\* The names of the CTEs, as TypeOK and CteNamesDiffer have them.
LEMMA NamesOf ==
  ASSUME NEW b, NamesFollow(b)
  PROVE  /\ b.names = [k \in DOMAIN b.meaning |-> b.meaning[k][1]]
         /\ IsInjective([k \in DOMAIN b.meaning |-> b.meaning[k][1]])
<1>1. DOMAIN b.meaning = 1..Len(b.names)
  BY DEF NamesFollow
<1>2. b.names = [k \in 1..Len(b.names) |-> b.names[k]]
  <2>. DEFINE s == b.names
  <2>1. s \in Seq(CteNames)
    BY DEF NamesFollow
  <2>. HIDE DEF s
  <2>2. s \in [1..Len(s) -> CteNames]
    BY <2>1, LenProperties
  <2>3. s = [k \in 1..Len(s) |-> s[k]]
    BY <2>2
  <2>. QED BY <2>3 DEF s
<1>3. \A k \in DOMAIN b.meaning : b.meaning[k][1] = b.names[k]
  BY <1>1 DEF NamesFollow
<1>4. b.names = [k \in DOMAIN b.meaning |-> b.meaning[k][1]]
  BY <1>1, <1>2, <1>3
<1>5. IsInjective([k \in DOMAIN b.meaning |-> b.meaning[k][1]])
  BY <1>1, <1>3, ZenonT(60) DEF NamesFollow, IsInjective
<1>. QED BY <1>4, <1>5

LEMMA InvTyped == Inv => TypeOK
<1>. SUFFICES ASSUME Inv PROVE TypeOK
  OBVIOUS
<1>1. \A x \in held : x.object \in Objects /\ x.sound \in BOOLEAN
  BY EntryParts DEF Inv
<1>2. \A x \in held : x.object.class = "Join" =>
        Cardinality({c \in {"on", "using"} : x.object[c] # <<>>})
          <= IF x.object.natural THEN 0 ELSE 1
  <2>1. ASSUME NEW x \in held, x.object.class = "Join"
        PROVE  Cardinality({c \in {"on", "using"} : x.object[c] # <<>>})
                 <= IF x.object.natural THEN 0 ELSE 1
    <3>1. QualifiedOnce(x.object)
      BY EntryParts DEF Inv
    <3>. QED BY <2>1, <3>1, ClausesCounted
  <2>. QED BY <2>1, Zenon
<1>3. with # None =>
        /\ with[1].ctes \in Text /\ with[1].ctesFormatted \in Text
        /\ with[1].sound \in BOOLEAN
        /\ with[1].names = [k \in DOMAIN with[1].meaning |-> with[1].meaning[k][1]]
  BY NamesOf, Zenon DEF Inv, BuilderOK, TextsFollow
<1>4. outcome \in Outcomes
  BY DEF Inv, HeldOK
<1>. QED BY <1>1, <1>2, <1>3, <1>4, Zenon DEF TypeOK, Outcomes

\* What is known of a value that renders and came out of sound calls.
LEMMA SoundParts ==
  ASSUME Inv, NEW x \in Sound
  PROVE  /\ x.object \in Objects /\ Renders(x.object)
         /\ ReadsAs(x.object, x.meaning) /\ LaysOut(x.object)
<1>1. x \in held /\ Renders(x.object) /\ x.sound
  BY DEF Sound
<1>. QED BY <1>1, EntryParts DEF Inv

LEMMA InvReads == Inv => ReadsBack
<1>. SUFFICES ASSUME Inv, NEW x \in Sound PROVE Read(ToStringPlain(x.object)) = <<x.meaning>>
  BY DEF ReadsBack
<1>1. IsComplete(ToStringPlain(x.object), x.meaning, {"bottom"})
  BY SoundParts, ObjectReads, Zenon
<1>. QED BY <1>1, CompleteRead, Zenon

LEMMA InvAgrees == Inv => FormattedAgrees
<1>. SUFFICES ASSUME Inv, NEW x \in Sound
              PROVE  Unlaid(ToStringFormatted(x.object)) = Unlaid(ToStringPlain(x.object))
  BY DEF FormattedAgrees
<1>. QED BY SoundParts, ObjectLaidOut, Zenon

LEMMA InvDiffers == Inv => CteNamesDiffer
BY NamesOf, Zenon DEF Inv, BuilderOK, CteNamesDiffer

-----------------------------------------------------------------------------
\* Every value stays an object of the hierarchy, for any names, clauses and
\* nesting; no join ever has both ON and USING (join.cpp:33-52), and a natural
\* one has neither.
THEOREM TypeCorrect == Spec => []TypeOK
BY Invariant, InvTyped, PTL

\* virtual_table.hpp:26-28, for any tables, names, clauses and nesting: the text
\* of a value reads back as the calls that made it.  Bracketed it is an operand,
\* select item, set operation or CTE wherever one may stand.
THEOREM TextsReadBack == Spec => []ReadsBack
BY Invariant, InvReads, PTL

\* virtual_table.hpp:16-23, for the same values: ToStringFormatted is ToString
\* in another layout, however deep the blocks are indented.
THEOREM FormattedOnlyLaidOut == Spec => []FormattedAgrees
BY Invariant, InvAgrees, PTL

\* with.hpp:52-54, for any names, queries and length of the WITH clause: no name
\* is defined twice, whatever was refused and whichever Main threw on the way.
THEOREM CteNamesStayDifferent == Spec => []CteNamesDiffer
BY Invariant, InvDiffers, PTL
=============================================================================
