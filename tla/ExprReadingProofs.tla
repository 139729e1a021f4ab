-------------------------- MODULE ExprReadingProofs --------------------------
(***************************************************************************)
(* Theorems about ExprReading: for every client that says what it means,   *)
(* the parentheses the code writes are enough wherever the grammar takes   *)
(* the operands at all, and no comment is opened but by negating a         *)
(* negative integer.                                                       *)
(*                                                                         *)
(* The first goes by what a text does to the reader in any state that may  *)
(* meet it.  Reads(text, tree, level, place): on every stack that admits   *)
(* an operator of this level in this place, the text leaves what its tree  *)
(* would leave; Refers(text, tree): what it leaves may be selected from.   *)
(* Every operator is shown to read so over operands that do, one level     *)
(* tighter or in brackets (Alike, Congruent); every method builds a node   *)
(* that is read the same with all its brackets and with those the code     *)
(* writes, once its operands fit where they are put (Faithful); so the two *)
(* renderings of a node are read as one tree.  The second goes by what     *)
(* stands next to what (Fits).                                             *)
(***************************************************************************)
EXTENDS ExprReading, NodeProofs

\* The recursion of Applied, n operators deep.
Applies(f, s, level, n) ==
  f = [k \in 0..n |-> IF k = 0 THEN s ELSE ApplyTop(f[k-1], level)]

\* It has a solution.
LEMMA ApplyingExists ==
  ASSUME NEW s, NEW level, NEW n \in Nat
  PROVE  \E f : Applies(f, s, level, n)
<1>. DEFINE T == {m \in 0..n : ~\E f : Applies(f, s, level, m)}
<1>1. SUFFICES ASSUME T # {} PROVE FALSE
  <2>1. n \in 0..n
    OBVIOUS
  <2>. QED BY <2>1, Zenon
<1>2. PICK m \in T : \A k \in T : m <= k
  <2>1. T \in SUBSET Nat
    OBVIOUS
  <2>. HIDE DEF T
  <2>. QED BY <1>1, <2>1, LeastNat
<1>3. m # 0
  <2>1. Applies([k \in 0..0 |-> s], s, level, 0)
    BY DEF Applies
  <2>. QED BY <2>1
<1>4. m \in 1..n /\ m-1 \in 0..n /\ ~(m <= m-1)
  BY <1>3
<1>5. PICK f : Applies(f, s, level, m-1)
  <2>1. m-1 \notin T
    BY <1>2, <1>4
  <2>. QED BY <1>4, <2>1
<1>. DEFINE g == [k \in 0..m |-> IF k = 0 THEN s ELSE ApplyTop(f[k-1], level)]
<1>6. \A k \in 0..m-1 : g[k] = f[k]
  <2>1. \A k \in 0..m-1 : k \in 0..m
    BY <1>4
  <2>. QED BY <1>5, <2>1, Zenon DEF Applies
<1>7. \A k \in 0..m : (IF k = 0 THEN s ELSE ApplyTop(f[k-1], level))
                      = (IF k = 0 THEN s ELSE ApplyTop(g[k-1], level))
  <2>1. \A k \in 0..m : k # 0 => k-1 \in 0..m-1
    BY <1>4
  <2>. HIDE DEF g
  <2>. QED BY <1>6, <2>1, Zenon
<1>8. Applies(g, s, level, m)
  <2>1. g = [k \in 0..m |-> IF k = 0 THEN s ELSE ApplyTop(g[k-1], level)]
    BY <1>7, Zenon
  <2>. QED BY <2>1 DEF Applies
<1>. QED BY <1>8

\* Applied goes through as many operators as the stack holds.
LEMMA AppliedUnfolds ==
  ASSUME NEW s, NEW level, s.stack.height \in Nat
  PROVE  \E f : /\ Applied(s, level) = f[s.stack.height]
                /\ f[0] = Settled(s)
                /\ \A k \in 1..s.stack.height : f[k] = ApplyTop(f[k-1], level)
<1>. DEFINE n == s.stack.height
<1>. DEFINE f == CHOOSE f : Applies(f, Settled(s), level, n)
<1>1. n \in Nat
  OBVIOUS
<1>2. Applies(f, Settled(s), level, n)
  <2>1. \E g : Applies(g, Settled(s), level, n)
    BY ApplyingExists
  <2>. QED BY <2>1, Zenon
<1>3. Applied(s, level) = f[n]
  BY Zenon DEF Applied, Applies
<1>. HIDE DEF f, n
<1>4. f[0] = Settled(s) /\ \A k \in 1..n : f[k] = ApplyTop(f[k-1], level)
  <2>1. 0 \in 0..n /\ \A k \in 1..n : k \in 0..n /\ k # 0
    BY <1>1
  <2>. QED BY <1>2, <2>1, Zenon DEF Applies
<1>. QED BY <1>3, <1>4 DEF n

\* An operator that binds looser stays, and all below it.
LEMMA AppliedStops ==
  ASSUME NEW s, NEW level \in Nat, s.stack.height \in Nat,
         s.stack.frame.level \in Nat, s.stack.frame.level > level
  PROVE  Applied(s, level) = Settled(s)
<1>. DEFINE n == s.stack.height
<1>1. PICK f : /\ Applied(s, level) = f[n]
               /\ f[0] = Settled(s)
               /\ \A k \in 1..n : f[k] = ApplyTop(f[k-1], level)
  BY AppliedUnfolds
<1>2. ApplyTop(Settled(s), level) = Settled(s)
  BY DEF ApplyTop, Settled
<1>3. n \in Nat
  OBVIOUS
<1>. HIDE DEF n
<1>4. \A k \in 0..n : f[k] = Settled(s)
  <2>. DEFINE T == {k \in 0..n : f[k] # Settled(s)}
  <2>1. SUFFICES ASSUME T # {} PROVE FALSE
    OBVIOUS
  <2>2. PICK m \in T : \A k \in T : m <= k
    <3>1. T \in SUBSET Nat
      BY <1>3
    <3>. HIDE DEF T
    <3>. QED BY <2>1, <3>1, LeastNat
  <2>3. m # 0
    BY <1>1
  <2>4. m \in 1..n /\ m-1 \in 0..n /\ ~(m <= m-1)
    BY <1>3, <2>3
  <2>5. f[m-1] = Settled(s)
    BY <2>2, <2>4
  <2>6. f[m] = Settled(s)
    BY <1>1, <1>2, <2>4, <2>5
  <2>. QED BY <2>6
<1>. QED BY <1>1, <1>3, <1>4

\* One that binds as tight takes its operand, and the next is looked at.
LEMMA AppliedGoesOn ==
  ASSUME NEW stack, NEW frame, NEW tree, NEW level \in Nat,
         stack.height \in Nat, frame.level \in Nat, frame.level <= level
  PROVE  Applied(Holding(Push(frame, stack), tree), level)
           = Applied(Holding(stack, Tree(frame.word, frame.args \o <<tree>>)), level)
<1>. DEFINE s == Holding(Push(frame, stack), tree)
<1>. DEFINE r == Holding(stack, Tree(frame.word, frame.args \o <<tree>>))
<1>. DEFINE n == stack.height
<1>1. /\ s.stack.height = n + 1 /\ r.stack.height = n /\ n \in Nat
      /\ Settled(s) = s /\ Settled(r) = r /\ ApplyTop(s, level) = r
  BY DEF Holding, Push, ApplyTop, Settled
<1>. HIDE DEF s, r, n
<1>2. PICK f : /\ Applied(s, level) = f[n+1]
               /\ f[0] = s
               /\ \A k \in 1..n+1 : f[k] = ApplyTop(f[k-1], level)
  <2>1. s.stack.height \in Nat
    BY <1>1
  <2>. QED BY <1>1, <2>1, AppliedUnfolds
<1>3. PICK g : /\ Applied(r, level) = g[n]
               /\ g[0] = r
               /\ \A k \in 1..n : g[k] = ApplyTop(g[k-1], level)
  BY <1>1, AppliedUnfolds
<1>4. \A k \in 0..n : f[k+1] = g[k]
  <2>. DEFINE T == {k \in 0..n : f[k+1] # g[k]}
  <2>1. SUFFICES ASSUME T # {} PROVE FALSE
    OBVIOUS
  <2>2. PICK m \in T : \A k \in T : m <= k
    <3>1. T \in SUBSET Nat
      BY <1>1
    <3>. HIDE DEF T
    <3>. QED BY <2>1, <3>1, LeastNat
  <2>3. m # 0
    <3>1. 1 \in 1..n+1 /\ 1-1 = 0 /\ 0+1 = 1
      BY <1>1
    <3>2. f[1] = r
      BY <1>1, <1>2, <3>1
    <3>. QED BY <1>3, <3>1, <3>2
  <2>4. m \in 1..n /\ m+1 \in 1..n+1 /\ (m+1)-1 = (m-1)+1 /\ m-1 \in 0..n /\ ~(m <= m-1)
    BY <1>1, <2>3
  <2>5. f[(m-1)+1] = g[m-1]
    BY <2>2, <2>4
  <2>6. f[m+1] = ApplyTop(f[(m+1)-1], level) /\ g[m] = ApplyTop(g[m-1], level)
    BY <1>2, <1>3, <2>4, Zenon
  <2>7. f[m+1] = g[m]
    BY <2>4, <2>5, <2>6, Zenon
  <2>. QED BY <2>7
<1>5. Applied(s, level) = Applied(r, level)
  BY <1>1, <1>2, <1>3, <1>4
<1>. QED BY <1>5 DEF s, r

\* Whether a field may be selected makes no difference to it.
LEMMA AppliedReferring ==
  ASSUME NEW stack, NEW tree, NEW level
  PROVE  Applied(Referring(stack, tree), level) = Applied(Holding(stack, tree), level)
BY Zenon DEF Applied, Settled, Referring, Holding

-----------------------------------------------------------------------------
\* The recursion of ReadOn, over the first n tokens.
ReadsOn(f, s, text, n) ==
  f = [k \in 0..n |-> IF k = 0 THEN s ELSE ReadToken(f[k-1], text[k])]

\* It has a solution.
LEMMA ReadingExists ==
  ASSUME NEW s, NEW text, NEW n \in Nat
  PROVE  \E f : ReadsOn(f, s, text, n)
<1>. DEFINE T == {m \in 0..n : ~\E f : ReadsOn(f, s, text, m)}
<1>1. SUFFICES ASSUME T # {} PROVE FALSE
  <2>1. n \in 0..n
    OBVIOUS
  <2>. QED BY <2>1, Zenon
<1>2. PICK m \in T : \A k \in T : m <= k
  <2>1. T \in SUBSET Nat
    OBVIOUS
  <2>. HIDE DEF T
  <2>. QED BY <1>1, <2>1, LeastNat
<1>3. m # 0
  <2>1. ReadsOn([k \in 0..0 |-> s], s, text, 0)
    BY DEF ReadsOn
  <2>. QED BY <2>1
<1>4. m \in 1..n /\ m-1 \in 0..n /\ ~(m <= m-1)
  BY <1>3
<1>5. PICK f : ReadsOn(f, s, text, m-1)
  <2>1. m-1 \notin T
    BY <1>2, <1>4
  <2>. QED BY <1>4, <2>1
<1>. DEFINE g == [k \in 0..m |-> IF k = 0 THEN s ELSE ReadToken(f[k-1], text[k])]
<1>6. \A k \in 0..m-1 : g[k] = f[k]
  <2>1. \A k \in 0..m-1 : k \in 0..m
    BY <1>4
  <2>. QED BY <1>5, <2>1, Zenon DEF ReadsOn
<1>7. \A k \in 0..m : (IF k = 0 THEN s ELSE ReadToken(f[k-1], text[k]))
                      = (IF k = 0 THEN s ELSE ReadToken(g[k-1], text[k]))
  <2>1. \A k \in 0..m : k # 0 => k-1 \in 0..m-1
    BY <1>4
  <2>. HIDE DEF g
  <2>. QED BY <1>6, <2>1, Zenon
<1>8. ReadsOn(g, s, text, m)
  <2>1. g = [k \in 0..m |-> IF k = 0 THEN s ELSE ReadToken(g[k-1], text[k])]
    BY <1>7, Zenon
  <2>. QED BY <2>1 DEF ReadsOn
<1>. QED BY <1>8

\* f holds the states in which text is read from s on.
States(f, s, text) ==
  f[0] = s /\ \A k \in 1..Len(text) : f[k] = ReadToken(f[k-1], text[k])

\* ReadOn goes from left to right, token by token.
LEMMA ReadOnUnfolds ==
  ASSUME NEW s, NEW text, Len(text) \in Nat
  PROVE  \E f : States(f, s, text) /\ ReadOn(s, text) = f[Len(text)]
<1>. DEFINE n == Len(text)
<1>. DEFINE f == CHOOSE f : ReadsOn(f, s, text, n)
<1>1. n \in Nat
  OBVIOUS
<1>2. ReadsOn(f, s, text, n)
  <2>1. \E g : ReadsOn(g, s, text, n)
    BY <1>1, ReadingExists
  <2>. QED BY <2>1, Zenon
<1>3. ReadOn(s, text) = f[n]
  BY Zenon DEF ReadOn, ReadsOn
<1>. HIDE DEF f, n
<1>4. f[0] = s /\ \A k \in 1..n : f[k] = ReadToken(f[k-1], text[k])
  <2>1. 0 \in 0..n /\ \A k \in 1..n : k \in 0..n /\ k # 0
    BY <1>1
  <2>. QED BY <1>2, <2>1, Zenon DEF ReadsOn
<1>. QED BY <1>3, <1>4 DEF n, States

\* What is read of two texts, one behind the other.
LEMMA ReadOnConcat ==
  ASSUME NEW s, NEW S, NEW a \in Seq(S), NEW b \in Seq(S)
  PROVE  ReadOn(s, a \o b) = ReadOn(ReadOn(s, a), b)
<1>. DEFINE m == Len(a)
<1>. DEFINE n == Len(b)
<1>. DEFINE c == a \o b
<1>1. /\ m \in Nat /\ n \in Nat /\ Len(c) \in Nat /\ Len(c) = m + n
      /\ \A k \in 1..m : c[k] = a[k]
      /\ \A k \in 1..n : c[m+k] = b[k]
  BY ConcatProperties, LenProperties
<1>. HIDE DEF c
<1>2. PICK f : States(f, s, c) /\ ReadOn(s, c) = f[m+n]
  BY <1>1, ReadOnUnfolds
<1>3. PICK g : States(g, s, a) /\ ReadOn(s, a) = g[m]
  BY <1>1, ReadOnUnfolds
<1>4. PICK h : States(h, ReadOn(s, a), b) /\ ReadOn(ReadOn(s, a), b) = h[n]
  BY <1>1, ReadOnUnfolds
<1>. HIDE DEF m, n
<1>a. f[0] = s /\ \A k \in 1..m+n : f[k] = ReadToken(f[k-1], c[k])
  BY <1>1, <1>2 DEF States
<1>b. g[0] = s /\ \A k \in 1..m : g[k] = ReadToken(g[k-1], a[k])
  BY <1>3 DEF States, m
<1>c. h[0] = ReadOn(s, a) /\ \A k \in 1..n : h[k] = ReadToken(h[k-1], b[k])
  BY <1>4 DEF States, n
<1>5. \A k \in 0..m : f[k] = g[k]
  <2>. DEFINE T == {k \in 0..m : f[k] # g[k]}
  <2>1. SUFFICES ASSUME T # {} PROVE FALSE
    OBVIOUS
  <2>2. PICK i \in T : \A k \in T : i <= k
    <3>1. T \in SUBSET Nat
      BY <1>1
    <3>. HIDE DEF T
    <3>. QED BY <2>1, <3>1, LeastNat
  <2>3. i # 0
    BY <1>a, <1>b
  <2>4. i \in 1..m /\ i \in 1..m+n /\ i-1 \in 0..m /\ ~(i <= i-1)
    BY <1>1, <2>3
  <2>5. f[i-1] = g[i-1]
    BY <2>2, <2>4
  <2>6. f[i] = g[i]
    BY <1>1, <1>a, <1>b, <2>4, <2>5, Zenon
  <2>. QED BY <2>6
<1>6. \A k \in 0..n : f[m+k] = h[k]
  <2>. DEFINE T == {k \in 0..n : f[m+k] # h[k]}
  <2>1. SUFFICES ASSUME T # {} PROVE FALSE
    OBVIOUS
  <2>2. PICK i \in T : \A k \in T : i <= k
    <3>1. T \in SUBSET Nat
      BY <1>1
    <3>. HIDE DEF T
    <3>. QED BY <2>1, <3>1, LeastNat
  <2>3. i # 0
    BY <1>1, <1>3, <1>c, <1>5
  <2>4. /\ i \in 1..n /\ m+i \in 1..m+n /\ i-1 \in 0..n /\ ~(i <= i-1)
        /\ (m+i)-1 = m+(i-1)
    BY <1>1, <2>3
  <2>5. f[m+(i-1)] = h[i-1]
    BY <2>2, <2>4
  <2>6. f[m+i] = h[i]
    BY <1>1, <1>a, <1>c, <2>4, <2>5, Zenon
  <2>. QED BY <2>6
<1>7. n \in 0..n
  BY <1>1
<1>. QED BY <1>2, <1>4, <1>6, <1>7 DEF c

\* A text of one token.
LEMMA ReadOnWord ==
  ASSUME NEW s, NEW word
  PROVE  ReadOn(s, <<word>>) = ReadToken(s, word)
<1>. DEFINE text == <<word>>
<1>1. Len(text) \in Nat /\ Len(text) = 1 /\ text[1] = word
  OBVIOUS
<1>. HIDE DEF text
<1>2. PICK f : States(f, s, text) /\ ReadOn(s, text) = f[1]
  BY <1>1, ReadOnUnfolds
<1>3. f[1] = ReadToken(f[0], word) /\ f[0] = s
  BY <1>1, <1>2 DEF States
<1>. QED BY <1>2, <1>3 DEF text

\* Three texts.
LEMMA ReadOnThree ==
  ASSUME NEW s, NEW a \in Text, NEW b \in Text, NEW c \in Text
  PROVE  /\ a \o b \o c \in Text
         /\ ReadOn(s, a \o b \o c) = ReadOn(ReadOn(ReadOn(s, a), b), c)
<1>1. a \o b \in Text /\ a \o b \o c \in Text
  BY WordsTyped, Zenon
<1>2. ReadOn(s, (a \o b) \o c) = ReadOn(ReadOn(s, a \o b), c)
  <2>. DEFINE ab == a \o b
  <2>1. ab \in Seq(Tokens) /\ c \in Seq(Tokens)
    BY <1>1 DEF Text
  <2>. HIDE DEF ab
  <2>2. ReadOn(s, ab \o c) = ReadOn(ReadOn(s, ab), c)
    BY ONLY <2>1, ReadOnConcat
  <2>. QED BY <2>2 DEF ab
<1>3. ReadOn(s, a \o b) = ReadOn(ReadOn(s, a), b)
  BY ReadOnConcat DEF Text
<1>. QED BY <1>1, <1>2, <1>3, Zenon

\* Two, three and four words.
LEMMA ReadOnWords ==
  ASSUME NEW s, NEW a, NEW b
  PROVE  /\ ReadOn(s, <<a, b>>) = ReadToken(ReadToken(s, a), b)
         /\ \A c : ReadOn(s, <<a, b, c>>) = ReadToken(ReadToken(ReadToken(s, a), b), c)
         /\ \A c, d : ReadOn(s, <<a, b, c, d>>)
                         = ReadToken(ReadToken(ReadToken(ReadToken(s, a), b), c), d)
<1>1. ReadOn(s, <<a, b>>) = ReadToken(ReadToken(s, a), b)
  <2>. DEFINE text == <<a, b>>
  <2>1. Len(text) \in Nat /\ Len(text) = 2 /\ text[1] = a /\ text[2] = b
    OBVIOUS
  <2>. HIDE DEF text
  <2>2. PICK f : States(f, s, text) /\ ReadOn(s, text) = f[2]
    BY <2>1, ReadOnUnfolds
  <2>3. f[1] = ReadToken(s, a) /\ f[2] = ReadToken(f[1], b)
    BY <2>1, <2>2 DEF States
  <2>. QED BY <2>2, <2>3 DEF text
<1>2. ASSUME NEW c
      PROVE  ReadOn(s, <<a, b, c>>) = ReadToken(ReadToken(ReadToken(s, a), b), c)
  <2>. DEFINE text == <<a, b, c>>
  <2>1. Len(text) \in Nat /\ Len(text) = 3 /\ text[1] = a /\ text[2] = b /\ text[3] = c
    OBVIOUS
  <2>. HIDE DEF text
  <2>2. PICK f : States(f, s, text) /\ ReadOn(s, text) = f[3]
    BY <2>1, ReadOnUnfolds
  <2>3. f[1] = ReadToken(s, a) /\ f[2] = ReadToken(f[1], b) /\ f[3] = ReadToken(f[2], c)
    BY <2>1, <2>2 DEF States
  <2>. QED BY <2>2, <2>3 DEF text
<1>3. ASSUME NEW c, NEW d
      PROVE  ReadOn(s, <<a, b, c, d>>)
        = ReadToken(ReadToken(ReadToken(ReadToken(s, a), b), c), d)
  <2>. DEFINE text == <<a, b, c, d>>
  <2>1. /\ Len(text) \in Nat /\ Len(text) = 4
        /\ text[1] = a /\ text[2] = b /\ text[3] = c /\ text[4] = d
    OBVIOUS
  <2>. HIDE DEF text
  <2>2. PICK f : States(f, s, text) /\ ReadOn(s, text) = f[4]
    BY <2>1, ReadOnUnfolds
  <2>3. /\ f[1] = ReadToken(s, a) /\ f[2] = ReadToken(f[1], b)
        /\ f[3] = ReadToken(f[2], c) /\ f[4] = ReadToken(f[3], d)
    BY <2>1, <2>2 DEF States
  <2>. QED BY <2>2, <2>3 DEF text
<1>. QED BY <1>1, <1>2, <1>3

\* White space leaves no trace.
LEMMA SpaceSkipped ==
  ASSUME NEW s
  PROVE  ReadToken(s, " ") = s
BY DEF ReadToken

\* A word with space around it.
LEMMA ReadOnSpaced ==
  ASSUME NEW s, NEW op
  PROVE  /\ ReadOn(s, <<op>>) = ReadToken(s, op)
         /\ ReadOn(s, <<op, " ">>) = ReadToken(s, op)
         /\ ReadOn(s, <<" ", op>>) = ReadToken(s, op)
         /\ ReadOn(s, <<" ", op, " ">>) = ReadToken(s, op)
<1>. DEFINE space == " "
<1>1. \A r : ReadToken(r, space) = r
  BY SpaceSkipped
<1>. HIDE DEF space
<1>2. /\ ReadOn(s, <<op, space>>) = ReadToken(ReadToken(s, op), space)
      /\ ReadOn(s, <<space, op>>) = ReadToken(ReadToken(s, space), op)
      /\ ReadOn(s, <<space, op, space>>) = ReadToken(ReadToken(ReadToken(s, space), op), space)
  BY ReadOnWords
<1>3. ReadOn(s, <<op>>) = ReadToken(s, op)
  BY ReadOnWord
<1>4. /\ ReadOn(s, <<op, space>>) = ReadToken(s, op)
      /\ ReadOn(s, <<space, op>>) = ReadToken(s, op)
      /\ ReadOn(s, <<space, op, space>>) = ReadToken(s, op)
  BY <1>1, <1>2
<1>. QED BY <1>3, <1>4, Zenon DEF space

\* What is read of two texts of tokens.
LEMMA ReadOnTwo ==
  ASSUME NEW a \in Text, NEW b \in Text
  PROVE  a \o b \in Text /\ \A s : ReadOn(s, a \o b) = ReadOn(ReadOn(s, a), b)
<1>1. a \o b \in Text
  BY WordsTyped, Zenon
<1>2. ASSUME NEW s PROVE ReadOn(s, a \o b) = ReadOn(ReadOn(s, a), b)
  BY ReadOnConcat DEF Text
<1>. QED BY <1>1, <1>2

-----------------------------------------------------------------------------
\* A stack on which an operator of this level may stand: what is below binds
\* looser, it is not a dot, and if it is the lower bound of a BETWEEN, the place is
\* one for that and the operator binds tighter than BETWEEN.
Admits(stack, level, place) ==
  /\ stack.height \in Nat
  /\ stack.frame.level \in Nat
  /\ stack.frame.level > level
  /\ stack.frame.kind # "field"
  /\ stack.frame.kind = "between" => stack.within = "between"
  /\ stack.within = "between" => place = "bound" /\ level < 11

\* Wherever an operator of this level may stand, text is read as tree: the
\* operators it leaves on the stack take their operands with the next one that
\* binds no tighter, and nothing below them is touched before.  The place is
\* "anywhere" or, for a text that may stand in the lower bound of a BETWEEN as
\* well, "bound".
Reads(text, tree, level, place) ==
  /\ text \in Text
  /\ \A stack : Admits(stack, level, place) =>
       LET read == ReadOn(Expecting(stack), text)
       IN  /\ read.value # <<>>
           /\ read.stack.within = stack.within
           /\ \A looser \in level..Loosest :
                Applied(read, looser) = Applied(Holding(stack, tree), looser)

\* What may stand at a level may stand wherever a looser one may.
LEMMA ReadsLoosely ==
  ASSUME NEW text, NEW tree, NEW level \in Nat, NEW looser \in Nat, NEW place,
         level <= looser, Reads(text, tree, level, place)
  PROVE  Reads(text, tree, looser, place)
<1>1. \A stack : Admits(stack, looser, place) => Admits(stack, level, place)
  BY DEF Admits
<1>2. looser..Loosest \subseteq level..Loosest
  BY DEF Loosest
<1>. QED BY <1>1, <1>2 DEF Reads

\* What is read somewhere is read so outside of every lower bound of a BETWEEN.
LEMMA ReadsAnywhere ==
  ASSUME NEW text, NEW tree, NEW level, NEW place, Reads(text, tree, level, place)
  PROVE  Reads(text, tree, level, "anywhere")
<1>1. \A stack : Admits(stack, level, "anywhere") => Admits(stack, level, place)
  BY DEF Admits
<1>. QED BY <1>1 DEF Reads

\* Up to the level of what waits on the stack, it is an operand and no more.
LEMMA ReadsOperand ==
  ASSUME NEW text, NEW tree, NEW level \in Nat, NEW place, NEW stack,
         Reads(text, tree, level, place), Admits(stack, level, place),
         NEW looser \in level..Loosest, stack.frame.level > looser
  PROVE  LET read == ReadOn(Expecting(stack), text)
         IN  /\ read.value # <<>> /\ read.stack.within = stack.within
             /\ Applied(read, looser) = Holding(stack, tree)
<1>1. looser \in Nat
  BY DEF Loosest
<1>2. Holding(stack, tree).stack = stack /\ Settled(Holding(stack, tree)) = Holding(stack, tree)
  BY DEF Holding, Settled
<1>3. Applied(Holding(stack, tree), looser) = Holding(stack, tree)
  BY <1>1, <1>2, AppliedStops DEF Admits
<1>. QED BY <1>3 DEF Reads

\* A text read as one operand without further ado.
LEMMA HeldReads ==
  ASSUME NEW text \in Text, NEW tree, NEW level, NEW place,
         \A stack : Admits(stack, level, place) =>
           ReadOn(Expecting(stack), text) \in {Holding(stack, tree), Referring(stack, tree)}
  PROVE  Reads(text, tree, level, place)
<1>1. \A stack : /\ Holding(stack, tree).value # <<>> /\ Holding(stack, tree).stack = stack
                 /\ Referring(stack, tree).value # <<>> /\ Referring(stack, tree).stack = stack
  BY DEF Holding, Referring
<1>2. \A stack, looser :
        Applied(Referring(stack, tree), looser) = Applied(Holding(stack, tree), looser)
  BY AppliedReferring
<1>. QED BY <1>1, <1>2 DEF Reads

\* A text from which a field or an element may be selected, wherever it stands.
Takes(stack) == stack.height \in Nat /\ stack.frame.kind # "field"

Refers(text, tree) ==
  /\ text \in Text
  /\ \A stack : Takes(stack) => ReadOn(Expecting(stack), text) = Referring(stack, tree)

LEMMA RefersReads ==
  ASSUME NEW text, NEW tree, Refers(text, tree), NEW level, NEW place
  PROVE  Reads(text, tree, level, place)
<1>1. \A stack : Admits(stack, level, place) => Takes(stack)
  BY DEF Admits, Takes
<1>. QED BY <1>1, HeldReads DEF Refers

\* What an opening bracket leaves admits everything.
LEMMA OpenAdmits ==
  ASSUME NEW kind \in {"list", "call", "index"}, NEW word, NEW args, NEW stack,
         stack.height \in Nat, NEW level \in 0..Loosest, NEW place
  PROVE  /\ Admits(Push(Open(kind, word, args), stack), level, place)
         /\ Push(Open(kind, word, args), stack).frame.level > Loosest
BY DEF Admits, Push, Open, Frame, Loosest

\* What a BETWEEN leaves admits what may stand in its lower bound.
LEMMA BoundAdmits ==
  ASSUME NEW word, NEW args, NEW stack, stack.height \in Nat, NEW level \in 0..10
  PROVE  /\ Admits(Push(Open("between", word, args), stack), level, "bound")
         /\ Push(Open("between", word, args), stack).frame.level > Loosest
BY DEF Admits, Push, Open, Frame, Loosest

-----------------------------------------------------------------------------
\* What the lower bound of a BETWEEN has no room for, where it is met there.
Refused(stack, token) == stack.within = "between" /\ token \in NeverInBound

\* Any other token is read for what it is.
LEMMA OperatorTaken ==
  ASSUME NEW s, NEW token, token # " ", ~Refused(s.stack, token), s.value # <<>>
  PROVE  ReadToken(s, token) = ReadOperator(s, token)
BY DEF ReadToken, Refused

LEMMA OperandTaken ==
  ASSUME NEW stack, NEW token, token # " ", ~Refused(stack, token),
         stack.frame.kind # "field"
  PROVE  ReadToken(Expecting(stack), token) = ReadOperand(stack, token)
BY DEF ReadToken, Refused, Expecting

\* Plain words and brackets never are.
LEMMA BoundWords ==
  /\ NeverInBound \subseteq PrefixWords \cup NeverFirst
  /\ NeverInBound \cap {" ", "(", ")", "[", "]", ",", ".", "AND", "-"} = {}
<1>1. NeverInBound = {"COLLATE c", "NOT", "DISTINCT", "AS t", "OR", "= ANY", "<> ALL",
                      "IS TRUE", "IS FALSE", "IS NULL", "IS NOT NULL"}
                     \cup MatchWords \cup BetweenWords
  BY DEF NeverInBound
<1>2. NeverInBound \subseteq PrefixWords \cup NeverFirst
  <2>1. {"NOT", "DISTINCT"} \subseteq PrefixWords
    BY DEF PrefixWords
  <2>2. {"COLLATE c", "AS t", "IS TRUE", "IS FALSE", "IS NULL", "IS NOT NULL"} \subseteq PostfixWords
    BY DEF PostfixWords
  <2>3. {"OR", "= ANY", "<> ALL"} \cup MatchWords \subseteq InfixWords
    BY DEF InfixWords, CompareWords
  <2>. QED BY <1>1, <2>1, <2>2, <2>3 DEF NeverFirst
<1>. QED BY <1>1, <1>2 DEF MatchWords, BetweenWords

\* A plain word is an operand.
LEMMA PlainWord ==
  ASSUME NEW word, Plain(word), NEW stack, stack.frame.kind # "field"
  PROVE  ReadToken(Expecting(stack), word)
           = IF word \in Constants THEN Holding(stack, Tree(word, <<>>))
             ELSE Referring(stack, Tree(word, <<>>))
<1>1. word # " " /\ ~Refused(stack, word)
  BY BoundWords DEF Plain, Refused
<1>2. ReadToken(Expecting(stack), word) = ReadOperand(stack, word)
  BY <1>1, OperandTaken
<1>3. word \notin PrefixWords /\ word \notin NeverFirst /\ word # "(" /\ word # ")"
  BY DEF Plain
<1>4. word \in Constants => ReadOperand(stack, word) = Holding(stack, Tree(word, <<>>))
  BY <1>3 DEF ReadOperand
<1>5. word \notin Constants => ReadOperand(stack, word) = Referring(stack, Tree(word, <<>>))
  BY <1>3 DEF ReadOperand
<1>. QED BY <1>2, <1>4, <1>5

\* A plain word is read as itself, and binds tightest of all.
LEMMA WordReads ==
  ASSUME NEW word \in Tokens, Plain(word), NEW place
  PROVE  Reads(<<word>>, Tree(word, <<>>), 0, place)
<1>1. <<word>> \in Text
  BY WordsTyped, Zenon
<1>2. \A stack : stack.frame.kind # "field" =>
        ReadOn(Expecting(stack), <<word>>)
          \in {Holding(stack, Tree(word, <<>>)), Referring(stack, Tree(word, <<>>))}
  BY PlainWord, ReadOnWord
<1>. QED BY <1>1, <1>2, HeldReads DEF Admits

\* A name is.
LEMMA NameRefers ==
  ASSUME NEW word \in Tokens, NameWord(word)
  PROVE  Refers(<<word>>, Tree(word, <<>>))
<1>1. <<word>> \in Text
  BY WordsTyped, Zenon
<1>2. \A stack : stack.frame.kind # "field" =>
        ReadOn(Expecting(stack), <<word>>) = Referring(stack, Tree(word, <<>>))
  BY PlainWord, ReadOnWord DEF NameWord
<1>. QED BY <1>1, <1>2 DEF Refers, Takes

-----------------------------------------------------------------------------
\* An infix operator of this level, other than AND.
BindsInfix(op, level) ==
  /\ op \in InfixWords \ {"AND"}
  /\ op \notin PostfixWords \cup BetweenWords \cup {" ", "(", ")", "[", "]", ",", "."}
  /\ Level(op) = level
  /\ level \in 1..16
  /\ level < 11 => op \notin NeverInBound

\* What a BETWEEN has no room for is spelled in letters.
LEMMA BoundOwn == NeverInBound \subseteq OwnWords
BY DEF NeverInBound, OwnWords, Punctuation, PostfixWords

\* Those of the client.
LEMMA CustomsBindInfix ==
  ASSUME HonestOperators, NEW custom \in CustomOperators, custom.op \notin Malformed
  PROVE  BindsInfix(custom.op, custom.precedence)
<1>1. custom.op \notin OwnWords /\ custom.precedence = Level(custom.op)
  BY DEF HonestOperators
<1>2. custom.op \in InfixWords
  BY DEF InfixWords, Accepted
<1>. DEFINE op == custom.op
<1>3. op \notin OwnWords
  BY <1>1
<1>. HIDE DEF op
<1>4. /\ op # "AND"
      /\ op \notin PostfixWords \cup BetweenWords \cup {" ", "(", ")", "[", "]", ",", "."}
      /\ op \notin {"AS t", "DISTINCT"}
  BY <1>3 DEF OwnWords, Punctuation
<1>6. op \notin NeverInBound
  BY <1>3, BoundOwn
<1>5. Level(op) \in 1..16
  <2>1. \/ Level(op) = 5 \/ Level(op) = 7
        \/ Level(op) = 8 \/ Level(op) = 9 \/ Level(op) = 10 \/ Level(op) = 11
        \/ Level(op) = 12 \/ Level(op) = 13 \/ Level(op) = 14 \/ Level(op) = 15
        \/ Level(op) = 16
    BY <1>4 DEF Level, BetweenWords, MatchWords, CompareWords, IsWords
  <2>. QED BY <2>1
<1>. QED BY <1>1, <1>2, <1>4, <1>5, <1>6 DEF BindsInfix, op

\* Those of the methods, at the level the method passes.
LEMMA MethodsAreInfix ==
  /\ BindsInfix("^", kExp) /\ BindsInfix("||", kAnyOther)
  /\ \A op \in {"*", "/", "%"} : BindsInfix(op, kMul)
  /\ \A op \in {"+", "-"} : BindsInfix(op, kPlus)
  /\ \A op \in MatchWords : BindsInfix(op, kBetween)
  /\ \A op \in CompareWords : BindsInfix(op, kCompare)
  /\ \A op \in {"IS DISTINCT FROM", "IS NOT DISTINCT FROM"} : BindsInfix(op, kIs)
  /\ BindsInfix("OR", kOr)
BY DEF BindsInfix, InfixWords, PostfixWords, BetweenWords, MatchWords, CompareWords, IsWords,
       NeverInBound, Level, kExp, kAnyOther, kMul, kPlus, kBetween, kCompare, kIs, kOr

\* What an operator does that has all its operands but the last.
LEMMA InfixToken ==
  ASSUME NEW op, NEW level, BindsInfix(op, level), NEW s, s.value # <<>>,
         s.stack.within = "between" => level < 11
  PROVE  ReadToken(s, op)
           = LET rest == Applied(s, level)
             IN  Expecting(Push(Frame("operator", op, level, rest.value), rest.stack))
<1>1. ReadToken(s, op) = ReadOperator(s, op)
  BY OperatorTaken DEF Refused, BindsInfix
<1>2. ReadOperator(s, op) = ReadInfix(s, op)
  BY DEF ReadOperator, BindsInfix
<1>. QED BY <1>1, <1>2 DEF ReadInfix, BindsInfix

\* The same of the AND of two conditions.
LEMMA AndToken ==
  ASSUME NEW s, s.value # <<>>, Applied(s, 15).stack.frame.kind # "between"
  PROVE  ReadToken(s, "AND")
           = LET rest == Applied(s, 15)
             IN  Expecting(Push(Frame("operator", "AND", 15, rest.value), rest.stack))
<1>1. ReadToken(s, "AND") = ReadOperator(s, "AND")
  BY OperatorTaken, BoundWords DEF Refused
<1>2. ReadOperator(s, "AND") = ReadAnd(s)
  <2>. DEFINE token == "AND"
  <2>1. token = "AND" /\ token \notin PostfixWords \cup BetweenWords \cup {"[", "]", "(", ",", ")", "."}
    BY DEF PostfixWords, BetweenWords
  <2>. HIDE DEF token
  <2>. QED BY <2>1 DEF ReadOperator
<1>3. Level("AND") = 15
  BY DEF Level, BetweenWords, MatchWords, CompareWords, IsWords
<1>. QED BY <1>1, <1>2, <1>3 DEF ReadAnd, ReadInfix

\* A prefix operator of this level.
BindsPrefix(op, level) ==
  /\ op \in PrefixWords
  /\ op \notin NeverFirst \cup {" ", "(", ")"}
  /\ PrefixLevel(op) = level
  /\ level \in 1..17
  /\ level < 11 => op \notin NeverInBound

\* A postfix operator of this level.
BindsPostfix(op, level) ==
  /\ op \in PostfixWords
  /\ op \notin InfixWords \cup BetweenWords \cup {" ", "(", ")", "[", "]", ",", "."}
  /\ Level(op) = level
  /\ level \in 1..17

\* No operator of the client's is spelled like a word or bracket.
LEMMA CustomsUnspelled ==
  ASSUME HonestOperators
  PROVE  (Accepted(CustomOperators) \cup Accepted(PrefixOperators)) \cap OwnWords = {}
BY DEF HonestOperators, Accepted

\* The prefix operators of the methods, of lists and of the client.
LEMMA MethodsArePrefix ==
  ASSUME HonestOperators
  PROVE  /\ BindsPrefix("-", kUnaryPlus) /\ BindsPrefix("NOT", kNot) /\ BindsPrefix("DISTINCT", kExtract)
         /\ \A custom \in PrefixOperators :
              custom.op \notin Malformed => BindsPrefix(custom.op, custom.precedence)
<1>1. BindsPrefix("-", kUnaryPlus) /\ BindsPrefix("NOT", kNot) /\ BindsPrefix("DISTINCT", kExtract)
  BY DEF BindsPrefix, PrefixWords, NeverFirst, PostfixWords, BetweenWords, MatchWords, CompareWords,
         IsWords, NeverInBound, PrefixLevel, Level, kUnaryPlus, kNot, kExtract
<1>2. ASSUME NEW custom \in PrefixOperators, custom.op \notin Malformed
      PROVE  BindsPrefix(custom.op, custom.precedence)
  <2>. DEFINE op == custom.op
  <2>1. op \notin OwnWords /\ custom.precedence = PrefixLevel(op) /\ op \in PrefixWords
    BY <1>2 DEF HonestOperators, PrefixWords, Accepted
  <2>. HIDE DEF op
  <2>2. op \notin NeverFirst \cup {" ", "(", ")"} /\ op \notin {"AS t", "DISTINCT"}
    BY <2>1 DEF OwnWords, Punctuation, NeverFirst
  <2>3. \/ Level(op) = 5 \/ Level(op) = 7
        \/ Level(op) = 8 \/ Level(op) = 9 \/ Level(op) = 10 \/ Level(op) = 11
        \/ Level(op) = 12 \/ Level(op) = 13 \/ Level(op) = 14 \/ Level(op) = 15
        \/ Level(op) = 16
    BY <2>2 DEF Level, BetweenWords, MatchWords, CompareWords, IsWords
  <2>4. PrefixLevel(op) \in 1..17
    BY <2>3 DEF PrefixLevel
  <2>5. op \notin NeverInBound
    BY <2>1, BoundOwn
  <2>. QED BY <2>1, <2>2, <2>4, <2>5 DEF BindsPrefix, op
<1>. QED BY <1>1, <1>2

\* The postfix operators, and the brackets.
LEMMA MethodsArePostfix ==
  ASSUME HonestOperators
  PROVE  /\ BindsPostfix("COLLATE c", kCollate) /\ BindsPostfix("AS t", kExtract)
         /\ \A op \in {"IS TRUE", "IS FALSE", "IS NULL", "IS NOT NULL"} : BindsPostfix(op, kIs)
         /\ \A op \in BetweenWords :
              op \notin InfixWords \cup PostfixWords \cup {" ", "(", ")", "[", "]", ",", ".", "AND"}
                /\ Level(op) = 11
         /\ \A op \in {" ", "(", ")", "[", "]", ",", "."} :
              op \notin InfixWords \cup PostfixWords \cup BetweenWords \cup PrefixWords
<1>1. Accepted(CustomOperators) \cap OwnWords = {} /\ Accepted(PrefixOperators) \cap OwnWords = {}
  BY CustomsUnspelled
<1>2. PostfixWords \cup BetweenWords \cup {" ", "(", ")", "[", "]", ",", "."} \subseteq OwnWords
  BY DEF OwnWords, Punctuation
<1>3. /\ \A op \in PostfixWords : op \notin InfixWords \cup BetweenWords
      /\ \A op \in BetweenWords : op \notin InfixWords \cup PostfixWords
      /\ \A op \in {" ", "(", ")", "[", "]", ",", "."} :
           op \notin InfixWords \cup PostfixWords \cup BetweenWords \cup PrefixWords
  BY <1>1, <1>2 DEF InfixWords, PrefixWords, PostfixWords, BetweenWords, MatchWords, CompareWords
<1>5. \A op \in BetweenWords :
        op \notin {" ", "(", ")", "[", "]", ",", ".", "AND"} /\ Level(op) = 11
  BY DEF Level, BetweenWords, MatchWords, CompareWords, IsWords
<1>6. /\ BindsPostfix("COLLATE c", kCollate) /\ BindsPostfix("AS t", kExtract)
      /\ \A op \in {"IS TRUE", "IS FALSE", "IS NULL", "IS NOT NULL"} : BindsPostfix(op, kIs)
  <2>1. /\ Level("COLLATE c") = 5 /\ Level("AS t") = 17
        /\ \A op \in {"IS TRUE", "IS FALSE", "IS NULL", "IS NOT NULL"} : Level(op) = 13
    BY DEF Level, BetweenWords, MatchWords, CompareWords, IsWords
  <2>2. /\ {"COLLATE c", "AS t", "IS TRUE", "IS FALSE", "IS NULL", "IS NOT NULL"} = PostfixWords
        /\ \A op \in PostfixWords : op \notin {" ", "(", ")", "[", "]", ",", "."}
    BY DEF PostfixWords
  <2>3. \A op \in PostfixWords, level \in 1..17 : Level(op) = level => BindsPostfix(op, level)
    BY <1>3, <2>2 DEF BindsPostfix
  <2>4. 5 \in 1..17 /\ 17 \in 1..17 /\ 13 \in 1..17
    OBVIOUS
  <2>5. /\ "COLLATE c" \in PostfixWords /\ "AS t" \in PostfixWords
        /\ {"IS TRUE", "IS FALSE", "IS NULL", "IS NOT NULL"} \subseteq PostfixWords
    BY DEF PostfixWords
  <2>6. /\ BindsPostfix("COLLATE c", 5) /\ BindsPostfix("AS t", 17)
        /\ \A op \in {"IS TRUE", "IS FALSE", "IS NULL", "IS NOT NULL"} : BindsPostfix(op, 13)
    BY <2>1, <2>3, <2>4, <2>5, Zenon
  <2>. QED BY <2>6 DEF kCollate, kExtract, kIs
<1>. QED BY <1>3, <1>5, <1>6

-----------------------------------------------------------------------------
\* What each token does.
LEMMA PrefixToken ==
  ASSUME NEW op, NEW level, BindsPrefix(op, level), NEW stack,
         stack.frame.kind # "field", stack.within = "between" => level < 11
  PROVE  ReadToken(Expecting(stack), op)
           = Expecting(Push(Frame("operator", op, level, <<>>), stack))
<1>1. ReadToken(Expecting(stack), op) = ReadOperand(stack, op)
  BY OperandTaken DEF Refused, BindsPrefix
<1>2. op \in PrefixWords /\ op \notin {"(", ")"} /\ op \notin NeverFirst /\ PrefixLevel(op) = level
  BY DEF BindsPrefix
<1>3. ReadOperand(stack, op) = Expecting(Push(Frame("operator", op, level, <<>>), stack))
  BY <1>2 DEF ReadOperand
<1>. QED BY <1>1, <1>3

\* A postfix operator takes what binds tighter, and is an operand again.
LEMMA PostfixToken ==
  ASSUME NEW op, NEW level, BindsPostfix(op, level), NEW s, s.value # <<>>,
         s.stack.within # "between"
  PROVE  ReadToken(s, op)
           = LET rest == Applied(s, level) IN Holding(rest.stack, Tree(op, rest.value))
<1>1. ReadToken(s, op) = ReadOperator(s, op)
  BY OperatorTaken DEF Refused, BindsPostfix
<1>2. op # "AND"
  BY DEF BindsPostfix, PostfixWords
<1>. QED BY <1>1, <1>2 DEF ReadOperator, BindsPostfix

\* BETWEEN takes what binds tighter, and waits for its AND.
LEMMA BetweenToken ==
  ASSUME HonestOperators, NEW op \in BetweenWords, NEW s, s.value # <<>>,
         s.stack.within # "between"
  PROVE  ReadToken(s, op)
           = LET rest == Applied(s, 11)
             IN  Expecting(Push(Open("between", op, rest.value), rest.stack))
<1>1. op \notin InfixWords \cup PostfixWords \cup {" ", "(", ")", "[", "]", ",", ".", "AND"}
      /\ Level(op) = 11
  BY MethodsArePostfix
<1>2. ReadToken(s, op) = ReadOperator(s, op)
  BY <1>1, OperatorTaken DEF Refused
<1>. QED BY <1>1, <1>2 DEF ReadOperator

\* The AND that meets a waiting BETWEEN is its own.
LEMMA BetweenAndToken ==
  ASSUME NEW op, NEW args, NEW stack, NEW tree, NEW s, s.value # <<>>,
         Applied(s, 15) = Holding(Push(Open("between", op, args), stack), tree)
  PROVE  ReadToken(s, "AND")
           = Expecting(Push(Frame("operator", op, 11, args \o <<tree>>), stack))
<1>1. ReadToken(s, "AND") = ReadAnd(s)
  <2>. DEFINE token == "AND"
  <2>1. token = "AND" /\ token \notin PostfixWords \cup BetweenWords \cup {"[", "]", "(", ",", ")", "."}
    BY DEF PostfixWords, BetweenWords
  <2>. HIDE DEF token
  <2>2. ReadToken(s, token) = ReadOperator(s, token)
    BY <2>1, OperatorTaken, BoundWords DEF Refused
  <2>3. ReadOperator(s, token) = ReadAnd(s)
    BY <2>1 DEF ReadOperator
  <2>. QED BY <2>1, <2>2, <2>3
<1>2. Level("AND") = 15 /\ Level("BETWEEN") = 11
  BY DEF Level, BetweenWords, MatchWords, CompareWords, IsWords
<1>. DEFINE rest == Holding(Push(Open("between", op, args), stack), tree)
<1>3. /\ rest.stack.frame.kind = "between" /\ rest.stack.frame.word = op
      /\ rest.stack.frame.args = args /\ rest.stack.below = stack /\ rest.value = <<tree>>
  BY DEF Holding, Push, Open, Frame
<1>4. Applied(s, Level("AND")) = rest
  BY <1>2
<1>. HIDE DEF rest
<1>5. ReadAnd(s) = Another(rest, "operator", 11)
  BY <1>2, <1>3, <1>4 DEF ReadAnd
<1>. QED BY <1>1, <1>3, <1>5 DEF Another

\* The opening brackets: of a list, of the arguments of a name, of an index; and
\* the dot.
LEMMA OpenTokens ==
  ASSUME HonestOperators, NEW stack
  PROVE  /\ stack.frame.kind # "field" =>
              ReadToken(Expecting(stack), "(") = Expecting(Push(Open("list", "list", <<>>), stack))
         /\ \A word, s : s \in {Holding(stack, Tree(word, <<>>)), Referring(stack, Tree(word, <<>>))} =>
              ReadToken(s, "(") = Expecting(Push(Open("call", word, <<>>), stack))
         /\ \A tree : ReadToken(Referring(stack, tree), "[")
                        = Expecting(Push(Open("index", "[", <<tree>>), stack))
         /\ \A tree : ReadToken(Referring(stack, tree), ".")
                        = Expecting(Push(Open("field", ".", <<tree>>), stack))
<1>1. \A op \in {"(", "[", "."} :
        op \notin InfixWords \cup PostfixWords \cup BetweenWords \cup PrefixWords
  BY MethodsArePostfix
<1>2. "(" \notin NeverFirst
  BY <1>1 DEF NeverFirst
<1>3. ASSUME stack.frame.kind # "field"
      PROVE  ReadToken(Expecting(stack), "(") = Expecting(Push(Open("list", "list", <<>>), stack))
  <2>1. ReadToken(Expecting(stack), "(") = ReadOperand(stack, "(")
    BY <1>3, OperandTaken, BoundWords DEF Refused
  <2>2. ReadOperand(stack, "(") = Expecting(Push(Open("list", "list", <<>>), stack))
    BY <1>1, <1>2 DEF ReadOperand
  <2>. QED BY <2>1, <2>2
<1>4. ASSUME NEW word,
             NEW s \in {Holding(stack, Tree(word, <<>>)), Referring(stack, Tree(word, <<>>))}
      PROVE  ReadToken(s, "(") = Expecting(Push(Open("call", word, <<>>), stack))
  <2>1. /\ s.stack = stack /\ s.value # <<>>
        /\ s.value[1].op = word /\ s.value[1].args = <<>>
    BY <1>4 DEF Holding, Referring, Tree
  <2>2. ReadToken(s, "(") = ReadOperator(s, "(")
    BY <2>1, OperatorTaken, BoundWords DEF Refused
  <2>. QED BY <1>1, <2>1, <2>2 DEF ReadOperator
<1>5. ASSUME NEW tree
      PROVE  /\ ReadToken(Referring(stack, tree), "[")
                  = Expecting(Push(Open("index", "[", <<tree>>), stack))
             /\ ReadToken(Referring(stack, tree), ".")
                  = Expecting(Push(Open("field", ".", <<tree>>), stack))
  <2>. DEFINE s == Referring(stack, tree)
  <2>1. s.stack = stack /\ s.value = <<tree>> /\ s.value # <<>> /\ s.refers = TRUE
    BY DEF Referring
  <2>. HIDE DEF s
  <2>2. ReadToken(s, "[") = ReadOperator(s, "[") /\ ReadToken(s, ".") = ReadOperator(s, ".")
    BY <2>1, OperatorTaken, BoundWords DEF Refused
  <2>3. ReadOperator(s, "[") = Expecting(Push(Open("index", "[", s.value), s.stack))
    BY <1>1, <2>1 DEF ReadOperator
  <2>4. ReadOperator(s, ".") = Expecting(Push(Open("field", ".", s.value), s.stack))
    BY <1>1, <2>1 DEF ReadOperator
  <2>. QED BY <2>1, <2>2, <2>3, <2>4 DEF s
<1>. QED BY <1>3, <1>4, <1>5

\* The tree of what stands in brackets.
ListTree(args) == IF Len(args) = 1 THEN args[1] ELSE Tree("list", args)

\* Everything behind the bracket at the top is one operand.
AtBracket(s, kind, word, args, stack, tree) ==
  /\ s.value # <<>>
  /\ Applied(s, 17) = Holding(Push(Open(kind, word, args), stack), tree)

\* What closes or continues that bracket.
LEMMA ClosingWords ==
  ASSUME HonestOperators, NEW op \in {")", "]", ","}, NEW s, s.value # <<>>
  PROVE  /\ op \notin InfixWords \cup PostfixWords \cup BetweenWords
         /\ ReadToken(s, op) = ReadOperator(s, op)
<1>1. ReadToken(s, op) = ReadOperator(s, op)
  BY OperatorTaken, BoundWords DEF Refused
<1>. QED BY <1>1, MethodsArePostfix

\* A comma ends an item of the brackets, whatever operators it held.
LEMMA CommaToken ==
  ASSUME HonestOperators, NEW s, NEW kind \in {"list", "call"}, NEW word, NEW args, NEW stack, NEW tree,
         AtBracket(s, kind, word, args, stack, tree)
  PROVE  ReadToken(s, ",") = Expecting(Push(Open(kind, word, args \o <<tree>>), stack))
<1>. DEFINE all == Holding(Push(Open(kind, word, args), stack), tree)
<1>1. /\ all.stack.frame.kind = kind /\ all.stack.frame.word = word
      /\ all.stack.frame.args = args /\ all.stack.below = stack /\ all.value = <<tree>>
  BY DEF Holding, Push, Open, Frame
<1>2. s.value # <<>> /\ Applied(s, Loosest) = all
  BY DEF Loosest, AtBracket
<1>. HIDE DEF all
<1>3. ReadToken(s, ",") = NextItem(all)
  <2>1. /\ "," \notin InfixWords \cup PostfixWords \cup BetweenWords
        /\ ReadToken(s, ",") = ReadOperator(s, ",")
    BY <1>2, ClosingWords
  <2>. QED BY <1>2, <2>1 DEF ReadOperator
<1>. QED BY <1>1, <1>3 DEF NextItem, Another, Open

\* The bracket that closes a list, or the brackets around an operand.
LEMMA CloseListToken ==
  ASSUME HonestOperators, NEW s, NEW word, NEW args, NEW stack, NEW tree,
         AtBracket(s, "list", word, args, stack, tree)
  PROVE  /\ Len(args \o <<tree>>) = 1 =>
              ReadToken(s, ")") = Referring(stack, ListTree(args \o <<tree>>))
         /\ Len(args \o <<tree>>) # 1 =>
              ReadToken(s, ")") = Holding(stack, ListTree(args \o <<tree>>))
<1>. DEFINE all == Holding(Push(Open("list", word, args), stack), tree)
<1>1. /\ all.stack.frame.kind = "list" /\ all.stack.frame.word = word
      /\ all.stack.frame.args = args /\ all.stack.below = stack /\ all.value = <<tree>>
  BY DEF Holding, Push, Open, Frame
<1>2. s.value # <<>> /\ Applied(s, Loosest) = all
  BY DEF Loosest, AtBracket
<1>. HIDE DEF all
<1>3. ReadToken(s, ")") = CloseBracket(all)
  <2>1. /\ ")" \notin InfixWords \cup PostfixWords \cup BetweenWords
        /\ ReadToken(s, ")") = ReadOperator(s, ")")
    BY <1>2, ClosingWords
  <2>. QED BY <1>2, <2>1 DEF ReadOperator
<1>. QED BY <1>1, <1>3 DEF CloseBracket, ListTree

\* The bracket that closes the arguments of a call.
LEMMA CloseCallToken ==
  ASSUME HonestOperators, NEW s, NEW word, NEW args, NEW stack, NEW tree,
         AtBracket(s, "call", word, args, stack, tree)
  PROVE  ReadToken(s, ")") = Holding(stack, Tree(word, args \o <<tree>>))
<1>. DEFINE all == Holding(Push(Open("call", word, args), stack), tree)
<1>1. /\ all.stack.frame.kind = "call" /\ all.stack.frame.word = word
      /\ all.stack.frame.args = args /\ all.stack.below = stack /\ all.value = <<tree>>
  BY DEF Holding, Push, Open, Frame
<1>2. s.value # <<>> /\ Applied(s, Loosest) = all
  BY DEF Loosest, AtBracket
<1>. HIDE DEF all
<1>3. ReadToken(s, ")") = CloseBracket(all)
  <2>1. /\ ")" \notin InfixWords \cup PostfixWords \cup BetweenWords
        /\ ReadToken(s, ")") = ReadOperator(s, ")")
    BY <1>2, ClosingWords
  <2>. QED BY <1>2, <2>1 DEF ReadOperator
<1>. QED BY <1>1, <1>3 DEF CloseBracket

\* The bracket that closes an index.
LEMMA CloseIndexToken ==
  ASSUME HonestOperators, NEW s, NEW word, NEW args, NEW stack, NEW tree,
         AtBracket(s, "index", word, args, stack, tree)
  PROVE  ReadToken(s, "]") = Referring(stack, Tree("[]", args \o <<tree>>))
<1>. DEFINE all == Holding(Push(Open("index", word, args), stack), tree)
<1>1. /\ all.stack.frame.kind = "index" /\ all.stack.frame.word = word
      /\ all.stack.frame.args = args /\ all.stack.below = stack /\ all.value = <<tree>>
  BY DEF Holding, Push, Open, Frame
<1>2. s.value # <<>> /\ Applied(s, Loosest) = all
  BY DEF Loosest, AtBracket
<1>. HIDE DEF all
<1>3. ReadToken(s, "]") = CloseIndex(all)
  <2>1. /\ "]" \notin InfixWords \cup PostfixWords \cup BetweenWords
        /\ ReadToken(s, "]") = ReadOperator(s, "]")
    BY <1>2, ClosingWords
  <2>. QED BY <1>2, <2>1 DEF ReadOperator
<1>. QED BY <1>1, <1>3 DEF CloseIndex

\* A call without arguments.
LEMMA EmptyCallToken ==
  ASSUME HonestOperators, NEW word, NEW stack
  PROVE  ReadToken(Expecting(Push(Open("call", word, <<>>), stack)), ")")
           = Holding(stack, Tree(word, <<>>))
<1>1. ")" \notin PrefixWords /\ ")" \notin NeverFirst
  BY MethodsArePostfix DEF NeverFirst
<1>. DEFINE push == Push(Open("call", word, <<>>), stack)
<1>2. /\ push.frame.kind = "call" /\ push.frame.args = <<>> /\ push.frame.word = word
      /\ push.below = stack
  BY DEF Push, Open, Frame
<1>. HIDE DEF push
<1>3. ReadToken(Expecting(push), ")") = ReadOperand(push, ")")
  BY <1>2, OperandTaken, BoundWords DEF Refused
<1>4. ReadOperand(push, ")") = Holding(stack, Tree(word, <<>>))
  BY <1>1, <1>2 DEF ReadOperand
<1>. QED BY <1>3, <1>4 DEF push

-----------------------------------------------------------------------------
\* What stands in front of an operator's last operand, up to where the operand
\* begins: the operator waits on the stack with those it has.
Leads(lead, op, level, args, place) ==
  /\ lead \in Text
  /\ \A stack : Admits(stack, level, place) =>
       ReadOn(Expecting(stack), lead) = Expecting(Push(Frame("operator", op, level, args), stack))

\* An operand that binds tighter makes it a whole.
LEMMA LastOperand ==
  ASSUME NEW lead, NEW op, NEW level \in 1..17, NEW args, NEW place, Leads(lead, op, level, args, place),
         NEW b, NEW tree, Reads(b, tree, level-1, place)
  PROVE  Reads(lead \o b, Tree(op, args \o <<tree>>), level, place)
<1>1. lead \in Text /\ b \in Text /\ lead \o b \in Text
  <2>1. lead \in Text /\ b \in Text
    BY DEF Leads, Reads
  <2>. QED BY <2>1, WordsTyped, Zenon
<1>2. ASSUME NEW stack, Admits(stack, level, place)
      PROVE  LET read == ReadOn(Expecting(stack), lead \o b)
             IN  /\ read.value # <<>> /\ read.stack.within = stack.within
                 /\ \A looser \in level..Loosest :
                      Applied(read, looser)
                        = Applied(Holding(stack, Tree(op, args \o <<tree>>)), looser)
  <2>. DEFINE frame == Frame("operator", op, level, args)
  <2>. DEFINE push  == Push(frame, stack)
  <2>1. ReadOn(Expecting(stack), lead \o b) = ReadOn(Expecting(push), b)
    <3>1. ReadOn(Expecting(stack), lead \o b) = ReadOn(ReadOn(Expecting(stack), lead), b)
      BY <1>1, ReadOnConcat DEF Text
    <3>. QED BY <1>2, <3>1 DEF Leads
  <2>2. Admits(push, level-1, place) /\ push.within = stack.within
    BY <1>2 DEF Admits, Push, Frame
  <2>3. /\ ReadOn(Expecting(push), b).value # <<>>
        /\ ReadOn(Expecting(push), b).stack.within = push.within
        /\ \A looser \in level-1..Loosest :
             Applied(ReadOn(Expecting(push), b), looser) = Applied(Holding(push, tree), looser)
    <3>. HIDE DEF push
    <3>. QED BY <2>2, Zenon DEF Reads
  <2>4. \A looser \in level..Loosest : looser \in level-1..Loosest /\ looser \in Nat /\ level <= looser
    BY DEF Loosest
  <2>5. \A looser \in level..Loosest :
          Applied(Holding(push, tree), looser)
            = Applied(Holding(stack, Tree(op, args \o <<tree>>)), looser)
    <3>1. TAKE looser \in level..Loosest
    <3>2. /\ stack.height \in Nat /\ frame.level \in Nat /\ frame.level <= looser /\ looser \in Nat
          /\ frame.word = op /\ frame.args = args
      BY <1>2, <2>4 DEF Admits, Frame
    <3>. HIDE DEF frame
    <3>3. Applied(Holding(Push(frame, stack), tree), looser)
            = Applied(Holding(stack, Tree(frame.word, frame.args \o <<tree>>)), looser)
      BY <3>2, AppliedGoesOn
    <3>. QED BY <3>2, <3>3
  <2>. HIDE DEF push
  <2>. QED BY <2>1, <2>2, <2>3, <2>4, <2>5
<1>. QED BY <1>1, <1>2 DEF Reads

\* The first operand, once the operator has come.
LEMMA FirstOperand ==
  ASSUME NEW a, NEW tree, NEW level \in 1..17, NEW place, Reads(a, tree, level-1, place),
         NEW stack, Admits(stack, level, place)
  PROVE  LET read == ReadOn(Expecting(stack), a)
         IN  read.value # <<>> /\ Applied(read, level) = Holding(stack, tree)
<1>1. level-1 \in Nat /\ level \in level-1..Loosest /\ Admits(stack, level-1, place)
  BY DEF Loosest, Admits
<1>2. stack.frame.level > level
  BY DEF Admits
<1>. QED BY <1>1, <1>2, ReadsOperand

\* What waited for its end before it still does.
LEMMA FirstWithin ==
  ASSUME NEW a, NEW tree, NEW level \in 1..17, NEW place, Reads(a, tree, level-1, place),
         NEW stack, Admits(stack, level, place)
  PROVE  ReadOn(Expecting(stack), a).stack.within = stack.within
<1>1. Admits(stack, level-1, place)
  BY DEF Admits
<1>. QED BY <1>1 DEF Reads

\* An operator as the methods write it.
LEMMA InfixLeads ==
  ASSUME NEW a, NEW tree, NEW op \in Tokens, NEW level, NEW place,
         BindsInfix(op, level) \/ (op = "AND" /\ level = 15), Reads(a, tree, level-1, place)
  PROVE  /\ Leads(a \o <<" ", op, " ">>, op, level, <<tree>>, place)
         /\ Leads(a \o <<op>>, op, level, <<tree>>, place)
<1>1. a \in Text /\ level \in 1..17
  <2>1. BindsInfix(op, level) => level \in 1..16
    BY DEF BindsInfix
  <2>. QED BY <2>1 DEF Reads
<1>2. /\ <<" ", op, " ">> \in Text /\ <<op>> \in Text
      /\ a \o <<" ", op, " ">> \in Text /\ a \o <<op>> \in Text
  <2>1. <<" ", op, " ">> \in Text /\ <<op>> \in Text
    BY Keywords, WordsTyped, Zenon
  <2>. QED BY <1>1, <2>1, WordsTyped, Zenon
<1>3. ASSUME NEW stack, Admits(stack, level, place)
      PROVE  ReadToken(ReadOn(Expecting(stack), a), op)
               = Expecting(Push(Frame("operator", op, level, <<tree>>), stack))
  <2>. DEFINE read == ReadOn(Expecting(stack), a)
  <2>1. /\ read.value # <<>> /\ Applied(read, level) = Holding(stack, tree)
        /\ read.stack.within = "between" => level < 11
    <3>1. /\ read.value # <<>> /\ Applied(read, level) = Holding(stack, tree)
          /\ read.stack.within = stack.within
      <4>1. ReadOn(Expecting(stack), a).value # <<>>
        BY <1>1, <1>3, FirstOperand
      <4>2. Applied(ReadOn(Expecting(stack), a), level) = Holding(stack, tree)
        BY <1>1, <1>3, FirstOperand
      <4>3. ReadOn(Expecting(stack), a).stack.within = stack.within
        BY <1>1, <1>3, FirstWithin
      <4>. QED BY <4>1, <4>2, <4>3
    <3>2. stack.within = "between" => level < 11
      BY <1>3 DEF Admits
    <3>. QED BY <3>1, <3>2
  <2>2. Holding(stack, tree).value = <<tree>> /\ Holding(stack, tree).stack = stack
    BY DEF Holding
  <2>. HIDE DEF read
  <2>3. CASE BindsInfix(op, level)
    <3>1. ReadToken(read, op)
            = LET rest == Applied(read, level)
              IN  Expecting(Push(Frame("operator", op, level, rest.value), rest.stack))
      BY <2>1, <2>3, InfixToken
    <3>. QED BY <2>1, <2>2, <3>1, Zenon DEF read
  <2>4. CASE op = "AND" /\ level = 15
    <3>1. stack.frame.kind # "between"
      BY <1>3, <2>4 DEF Admits
    <3>2. Applied(read, 15) = Holding(stack, tree)
      BY <2>1, <2>4
    <3>3. ReadToken(read, "AND")
            = LET rest == Applied(read, 15)
              IN  Expecting(Push(Frame("operator", "AND", 15, rest.value), rest.stack))
      BY <2>1, <2>2, <3>1, <3>2, AndToken
    <3>. QED BY <2>2, <2>4, <3>2, <3>3, Zenon DEF read
  <2>. QED BY <2>3, <2>4, Zenon
<1>4. \A s : ReadOn(s, <<op>>) = ReadToken(s, op) /\ ReadOn(s, <<" ", op, " ">>) = ReadToken(s, op)
  BY ReadOnSpaced, Zenon
<1>5. /\ \A s : ReadOn(s, a \o <<op>>) = ReadOn(ReadOn(s, a), <<op>>)
      /\ \A s : ReadOn(s, a \o <<" ", op, " ">>) = ReadOn(ReadOn(s, a), <<" ", op, " ">>)
  BY <1>1, <1>2, ReadOnTwo, Zenon
<1>. QED BY <1>2, <1>3, <1>4, <1>5, Zenon DEF Leads

\* An infix operator between two operands that bind tighter.
LEMMA InfixReads ==
  ASSUME NEW a, NEW left, NEW op \in Tokens, NEW level, NEW b, NEW right, NEW place,
         BindsInfix(op, level) \/ (op = "AND" /\ level = 15),
         Reads(a, left, level-1, place), Reads(b, right, level-1, place)
  PROVE  /\ Reads(a \o <<" ", op, " ">> \o b, Tree(op, <<left>> \o <<right>>), level, place)
         /\ Reads(a \o <<op>> \o b, Tree(op, <<left>> \o <<right>>), level, place)
<1>1. level \in 1..17
  <2>1. BindsInfix(op, level) => level \in 1..16
    BY DEF BindsInfix
  <2>. QED BY <2>1
<1>2. /\ Leads(a \o <<" ", op, " ">>, op, level, <<left>>, place)
      /\ Leads(a \o <<op>>, op, level, <<left>>, place)
  BY InfixLeads
<1>. DEFINE spaced == a \o <<" ", op, " ">>
<1>. DEFINE close  == a \o <<op>>
<1>. HIDE DEF spaced, close
<1>3. Leads(spaced, op, level, <<left>>, place) /\ Leads(close, op, level, <<left>>, place)
  BY <1>2 DEF spaced, close
<1>4. /\ Reads(spaced \o b, Tree(op, <<left>> \o <<right>>), level, place)
      /\ Reads(close \o b, Tree(op, <<left>> \o <<right>>), level, place)
  BY <1>1, <1>3, LastOperand
<1>. QED BY <1>4 DEF spaced, close

\* A prefix operator before an operand that binds tighter.
LEMMA PrefixReads ==
  ASSUME NEW op \in Tokens, NEW level, BindsPrefix(op, level), NEW b, NEW tree,
         NEW place, Reads(b, tree, level-1, place)
  PROVE  /\ Reads(<<op, " ">> \o b, Tree(op, <<>> \o <<tree>>), level, place)
         /\ Reads(<<op>> \o b, Tree(op, <<>> \o <<tree>>), level, place)
<1>1. level \in 1..17
  BY DEF BindsPrefix
<1>2. <<op, " ">> \in Text /\ <<op>> \in Text
  BY Keywords, WordsTyped, Zenon
<1>3. \A s : ReadOn(s, <<op>>) = ReadToken(s, op) /\ ReadOn(s, <<op, " ">>) = ReadToken(s, op)
  BY ReadOnSpaced, Zenon
<1>4. Leads(<<op, " ">>, op, level, <<>>, place) /\ Leads(<<op>>, op, level, <<>>, place)
  <2>1. \A stack : Admits(stack, level, place) =>
          ReadToken(Expecting(stack), op)
            = Expecting(Push(Frame("operator", op, level, <<>>), stack))
    BY PrefixToken DEF Admits
  <2>. QED BY <1>2, <1>3, <2>1, Zenon DEF Leads
<1>. DEFINE spaced == <<op, " ">>
<1>. DEFINE close  == <<op>>
<1>. DEFINE none   == <<>>
<1>. HIDE DEF spaced, close, none
<1>5. Leads(spaced, op, level, none, place) /\ Leads(close, op, level, none, place)
  BY <1>4 DEF spaced, close, none
<1>6. /\ Reads(spaced \o b, Tree(op, none \o <<tree>>), level, place)
      /\ Reads(close \o b, Tree(op, none \o <<tree>>), level, place)
  BY <1>1, <1>5, LastOperand
<1>. QED BY <1>6 DEF spaced, close, none

\* A postfix operator behind one.
LEMMA PostfixReads ==
  ASSUME NEW op \in Tokens, NEW level, BindsPostfix(op, level), NEW a, NEW tree,
         NEW place, place = "bound" => level >= 11, Reads(a, tree, level-1, place)
  PROVE  Reads(a \o <<" ", op>>, Tree(op, <<tree>>), level, place)
<1>1. a \in Text /\ level \in 1..17
  BY DEF Reads, BindsPostfix
<1>2. <<" ", op>> \in Text /\ a \o <<" ", op>> \in Text
  <2>1. <<" ", op>> \in Text
    BY Keywords, WordsTyped, Zenon
  <2>. QED BY <1>1, <2>1, WordsTyped, Zenon
<1>3. \A s : ReadOn(s, a \o <<" ", op>>) = ReadToken(ReadOn(s, a), op)
  <2>1. \A s : ReadOn(s, a \o <<" ", op>>) = ReadOn(ReadOn(s, a), <<" ", op>>)
    BY <1>1, <1>2, ReadOnTwo, Zenon
  <2>2. \A s : ReadOn(s, <<" ", op>>) = ReadToken(s, op)
    BY ReadOnSpaced, Zenon
  <2>. QED BY <2>1, <2>2, Zenon
<1>4. ASSUME NEW stack, Admits(stack, level, place)
      PROVE  ReadToken(ReadOn(Expecting(stack), a), op) = Holding(stack, Tree(op, <<tree>>))
  <2>. DEFINE read == ReadOn(Expecting(stack), a)
  <2>1. /\ read.value # <<>> /\ Applied(read, level) = Holding(stack, tree)
        /\ read.stack.within # "between"
    <3>1. /\ read.value # <<>> /\ Applied(read, level) = Holding(stack, tree)
          /\ read.stack.within = stack.within
      <4>1. ReadOn(Expecting(stack), a).value # <<>>
        BY <1>1, <1>4, FirstOperand
      <4>2. Applied(ReadOn(Expecting(stack), a), level) = Holding(stack, tree)
        BY <1>1, <1>4, FirstOperand
      <4>3. ReadOn(Expecting(stack), a).stack.within = stack.within
        BY <1>1, <1>4, FirstWithin
      <4>. QED BY <4>1, <4>2, <4>3
    <3>2. stack.within # "between"
      BY <1>1, <1>4 DEF Admits
    <3>. QED BY <3>1, <3>2
  <2>2. Holding(stack, tree).value = <<tree>> /\ Holding(stack, tree).stack = stack
    BY DEF Holding
  <2>. HIDE DEF read
  <2>3. ReadToken(read, op) = Holding(stack, Tree(op, <<tree>>))
    BY <2>1, <2>2, PostfixToken
  <2>. QED BY <2>3 DEF read
<1>. QED BY <1>2, <1>3, <1>4, HeldReads

\* A BETWEEN with its first AND.
LEMMA BetweenReads ==
  ASSUME HonestOperators, NEW op \in BetweenWords, op \in Tokens, NEW x, NEW tree, NEW a, NEW low,
         NEW b, NEW high, NEW place, Reads(x, tree, 10, place), Reads(a, low, 10, "bound"),
         Reads(b, high, 10, place)
  PROVE  Reads(((x \o <<" ", op, " ">> \o a) \o <<" ", "AND", " ">>) \o b,
               Tree(op, (<<tree>> \o <<low>>) \o <<high>>), 11, place)
<1>. DEFINE first == <<" ", op, " ">>
<1>. DEFINE then  == <<" ", "AND", " ">>
<1>1. x \in Text /\ a \in Text /\ first \in Text /\ then \in Text
  <2>1. first \in Text /\ then \in Text
    BY Keywords, WordsTyped, Zenon
  <2>. QED BY <2>1 DEF Reads
<1>2. /\ \A s : ReadOn(s, first) = ReadToken(s, op)
      /\ \A s : ReadOn(s, then) = ReadToken(s, "AND")
  BY ReadOnSpaced, Zenon
<1>. HIDE DEF first, then
<1>. DEFINE lead == (x \o first \o a) \o then
<1>3. /\ lead \in Text
      /\ \A s : ReadOn(s, lead)
                 = ReadToken(ReadOn(ReadToken(ReadOn(s, x), op), a), "AND")
  <2>. DEFINE half == x \o first \o a
  <2>1. half \in Text /\ \A s : ReadOn(s, half) = ReadOn(ReadOn(ReadOn(s, x), first), a)
    BY <1>1, ReadOnThree
  <2>. HIDE DEF half
  <2>2. half \o then \in Text /\ \A s : ReadOn(s, half \o then) = ReadOn(ReadOn(s, half), then)
    BY <1>1, <2>1, ReadOnTwo
  <2>3. \A s : ReadOn(s, half \o then) = ReadToken(ReadOn(ReadToken(ReadOn(s, x), op), a), "AND")
    BY <1>2, <2>1, <2>2
  <2>. QED BY <2>2, <2>3 DEF half
<1>. DEFINE args == <<tree>> \o <<low>>
<1>4. ASSUME NEW stack, Admits(stack, 11, place)
      PROVE  ReadToken(ReadOn(ReadToken(ReadOn(Expecting(stack), x), op), a), "AND")
               = Expecting(Push(Frame("operator", op, 11, args), stack))
  <2>. DEFINE r1 == ReadOn(Expecting(stack), x)
  <2>. DEFINE push == Push(Open("between", op, <<tree>>), stack)
  <2>. DEFINE r2 == ReadOn(Expecting(push), a)
  <2>1. r1.value # <<>> /\ Applied(r1, 11) = Holding(stack, tree) /\ r1.stack.within # "between"
    <3>1. 11 \in 1..17 /\ 11-1 = 10
      OBVIOUS
    <3>2. /\ r1.value # <<>> /\ Applied(r1, 11) = Holding(stack, tree)
          /\ r1.stack.within = stack.within
      <4>1. ReadOn(Expecting(stack), x).value # <<>>
        BY <3>1, <1>4, FirstOperand
      <4>2. Applied(ReadOn(Expecting(stack), x), 11) = Holding(stack, tree)
        BY <3>1, <1>4, FirstOperand
      <4>3. ReadOn(Expecting(stack), x).stack.within = stack.within
        BY <3>1, <1>4, FirstWithin
      <4>. QED BY <4>1, <4>2, <4>3
    <3>3. stack.within # "between"
      BY <1>4 DEF Admits
    <3>. QED BY <3>2, <3>3
  <2>2. Holding(stack, tree).value = <<tree>> /\ Holding(stack, tree).stack = stack
    BY DEF Holding
  <2>3. ReadToken(r1, op) = Expecting(push)
    <3>. HIDE DEF r1
    <3>1. ReadToken(r1, op)
            = LET rest == Applied(r1, 11)
              IN  Expecting(Push(Open("between", op, rest.value), rest.stack))
      BY <2>1, BetweenToken
    <3>. QED BY <2>1, <2>2, <3>1, Zenon
  <2>4. Admits(push, 10, "bound") /\ push.frame.level > 15
    <3>1. stack.height \in Nat /\ 10 \in 0..10
      BY <1>4 DEF Admits
    <3>2. Admits(push, 10, "bound") /\ push.frame.level > Loosest
      BY <3>1, BoundAdmits
    <3>. QED BY <3>2 DEF Loosest, Admits
  <2>5. r2.value # <<>> /\ Applied(r2, 15) = Holding(push, low)
    <3>1. 10 \in Nat /\ 15 \in 10..Loosest
      BY DEF Loosest
    <3>. HIDE DEF push
    <3>. QED BY <2>4, <3>1, ReadsOperand
  <2>6. ReadToken(r2, "AND") = Expecting(Push(Frame("operator", op, 11, args), stack))
    <3>. HIDE DEF r2
    <3>. QED BY <2>5, BetweenAndToken
  <2>. QED BY <2>3, <2>6
<1>5. Leads(lead, op, 11, args, place)
  <2>. HIDE DEF lead, args
  <2>. QED BY <1>3, <1>4 DEF Leads
<1>6. Reads(lead \o b, Tree(op, args \o <<high>>), 11, place)
  <2>. HIDE DEF lead, args
  <2>1. 11 \in 1..17 /\ 11-1 = 10
    OBVIOUS
  <2>. QED BY <1>5, <2>1, LastOperand
<1>. QED BY <1>6, Zenon DEF first, then

-----------------------------------------------------------------------------
\* One or more expressions with commas between them, read behind a bracket:
\* all but the last are operands of the bracket by then.
Items(text, init, last) ==
  /\ text \in Text
  /\ \A kind \in {"list", "call"} : \A word, stack : stack.height \in Nat =>
       AtBracket(ReadOn(Expecting(Push(Open(kind, word, <<>>), stack)), text),
                 kind, word, init, stack, last)

\* An expression of any level is an item.
LEMMA OneItem ==
  ASSUME NEW text, NEW tree, NEW level \in 0..17, Reads(text, tree, level, "anywhere")
  PROVE  Items(text, <<>>, tree)
<1>1. ASSUME NEW kind \in {"list", "call"}, NEW word, NEW stack, stack.height \in Nat
      PROVE  AtBracket(ReadOn(Expecting(Push(Open(kind, word, <<>>), stack)), text),
                       kind, word, <<>>, stack, tree)
  <2>. DEFINE push == Push(Open(kind, word, <<>>), stack)
  <2>1. Admits(push, level, "anywhere") /\ push.frame.level > 17
    <3>1. level \in 0..Loosest
      BY DEF Loosest
    <3>. QED BY <1>1, <3>1, OpenAdmits DEF Loosest
  <2>2. 17 \in level..Loosest /\ level \in Nat
    BY DEF Loosest
  <2>. HIDE DEF push
  <2>3. LET read == ReadOn(Expecting(push), text)
        IN  read.value # <<>> /\ Applied(read, 17) = Holding(push, tree)
    BY <2>1, <2>2, ReadsOperand
  <2>. QED BY <2>3 DEF push, AtBracket
<1>. QED BY <1>1 DEF Items, Reads

\* Another one may follow behind a comma.
LEMMA OneMoreItem ==
  ASSUME HonestOperators, NEW items, NEW init, NEW last, Items(items, init, last),
         NEW text, NEW tree, NEW level \in 0..17, Reads(text, tree, level, "anywhere")
  PROVE  Items(items \o <<",", " ">> \o text, init \o <<last>>, tree)
<1>. DEFINE comma == <<",", " ">>
<1>1. items \in Text /\ comma \in Text /\ text \in Text
  BY Keywords, WordsTyped, Zenon DEF Items, Reads
<1>2. \A s : ReadOn(s, comma) = ReadToken(s, ",")
  BY ReadOnSpaced, Zenon
<1>. HIDE DEF comma
<1>3. /\ items \o comma \o text \in Text
      /\ \A s : ReadOn(s, items \o comma \o text) = ReadOn(ReadToken(ReadOn(s, items), ","), text)
  <2>1. /\ items \o comma \o text \in Text
        /\ \A s : ReadOn(s, items \o comma \o text) = ReadOn(ReadOn(ReadOn(s, items), comma), text)
    BY <1>1, ReadOnThree
  <2>. QED BY <1>2, <2>1
<1>4. ASSUME NEW kind \in {"list", "call"}, NEW word, NEW stack, stack.height \in Nat
      PROVE  AtBracket(ReadOn(Expecting(Push(Open(kind, word, <<>>), stack)),
                              items \o comma \o text),
                       kind, word, init \o <<last>>, stack, tree)
  <2>. DEFINE read1 == ReadOn(Expecting(Push(Open(kind, word, <<>>), stack)), items)
  <2>. DEFINE push  == Push(Open(kind, word, init \o <<last>>), stack)
  <2>1. AtBracket(read1, kind, word, init, stack, last)
    BY <1>4, Zenon DEF Items
  <2>2. ReadToken(read1, ",") = Expecting(push)
    <3>. HIDE DEF read1
    <3>. QED BY <2>1, CommaToken, Zenon
  <2>3. Admits(push, level, "anywhere") /\ push.frame.level > 17
    <3>1. level \in 0..Loosest
      BY DEF Loosest
    <3>. QED BY <1>4, <3>1, OpenAdmits DEF Loosest
  <2>4. 17 \in level..Loosest /\ level \in Nat
    BY DEF Loosest
  <2>5. LET read == ReadOn(Expecting(push), text)
        IN  read.value # <<>> /\ Applied(read, 17) = Holding(push, tree)
    <3>. HIDE DEF push
    <3>. QED BY <2>3, <2>4, ReadsOperand
  <2>6. ReadOn(Expecting(Push(Open(kind, word, <<>>), stack)), items \o comma \o text)
          = ReadOn(Expecting(push), text)
    BY <1>3, <2>2
  <2>. QED BY <2>5, <2>6, Zenon DEF AtBracket
<1>. QED BY <1>3, <1>4, Zenon DEF Items, comma

\* What stands in brackets: one expression refers, a list does not.
LEMMA BracketsClose ==
  ASSUME HonestOperators, NEW items, NEW init, NEW last, Items(items, init, last)
  PROVE  /\ <<"(">> \o items \o <<")">> \in Text
         /\ \A stack : Takes(stack) =>
              LET text == <<"(">> \o items \o <<")">>
              IN  /\ Len(init \o <<last>>) = 1 =>
                       ReadOn(Expecting(stack), text) = Referring(stack, ListTree(init \o <<last>>))
                  /\ Len(init \o <<last>>) # 1 =>
                       ReadOn(Expecting(stack), text) = Holding(stack, ListTree(init \o <<last>>))
<1>. DEFINE open == <<"(">>
<1>. DEFINE close == <<")">>
<1>1. items \in Text /\ open \in Text /\ close \in Text
  BY Keywords, WordsTyped, Zenon DEF Items
<1>2. \A s : ReadOn(s, open) = ReadToken(s, "(") /\ ReadOn(s, close) = ReadToken(s, ")")
  BY ReadOnWord, Zenon
<1>. HIDE DEF open, close
<1>3. /\ open \o items \o close \in Text
      /\ \A s : ReadOn(s, open \o items \o close) = ReadToken(ReadOn(ReadToken(s, "("), items), ")")
  BY <1>1, <1>2, ReadOnThree
<1>4. ASSUME NEW stack, Takes(stack)
      PROVE  /\ Len(init \o <<last>>) = 1 =>
                  ReadOn(Expecting(stack), open \o items \o close)
                    = Referring(stack, ListTree(init \o <<last>>))
             /\ Len(init \o <<last>>) # 1 =>
                  ReadOn(Expecting(stack), open \o items \o close)
                    = Holding(stack, ListTree(init \o <<last>>))
  <2>. DEFINE read == ReadOn(Expecting(Push(Open("list", "list", <<>>), stack)), items)
  <2>1. ReadToken(Expecting(stack), "(") = Expecting(Push(Open("list", "list", <<>>), stack))
    BY <1>4, OpenTokens DEF Takes
  <2>2. stack.height \in Nat
    BY <1>4 DEF Takes
  <2>3. AtBracket(read, "list", "list", init, stack, last)
    BY <2>2, Zenon DEF Items
  <2>4. /\ Len(init \o <<last>>) = 1 =>
             ReadToken(read, ")") = Referring(stack, ListTree(init \o <<last>>))
        /\ Len(init \o <<last>>) # 1 =>
             ReadToken(read, ")") = Holding(stack, ListTree(init \o <<last>>))
    <3>. HIDE DEF read
    <3>. QED BY <2>3, CloseListToken, Zenon
  <2>5. ReadOn(Expecting(stack), open \o items \o close) = ReadToken(read, ")")
    BY <1>3, <2>1
  <2>. HIDE DEF read
  <2>. QED BY <2>4, <2>5, Zenon
<1>. QED BY <1>3, <1>4, Zenon DEF open, close

\* A list in brackets is an operand.
LEMMA ListReads ==
  ASSUME HonestOperators, NEW items, NEW init, NEW last, Items(items, init, last), NEW place
  PROVE  Reads(<<"(">> \o items \o <<")">>, ListTree(init \o <<last>>), 0, place)
<1>. DEFINE text == <<"(">> \o items \o <<")">>
<1>. DEFINE tree == ListTree(init \o <<last>>)
<1>1. /\ text \in Text
      /\ \A stack : Takes(stack) =>
           ReadOn(Expecting(stack), text) \in {Holding(stack, tree), Referring(stack, tree)}
  BY BracketsClose, Zenon
<1>2. \A stack : Admits(stack, 0, place) => Takes(stack)
  BY DEF Admits, Takes
<1>. HIDE DEF text, tree
<1>3. Reads(text, tree, 0, place)
  BY <1>1, <1>2, HeldReads
<1>. QED BY <1>3 DEF text, tree

\* One expression in brackets is the expression, and may be selected from.
LEMMA BracketRefers ==
  ASSUME HonestOperators, NEW text, NEW tree, NEW level \in 0..17,
         Reads(text, tree, level, "anywhere")
  PROVE  Refers(<<"(">> \o text \o <<")">>, tree)
<1>. DEFINE args == <<>> \o <<tree>>
<1>1. Items(text, <<>>, tree)
  BY OneItem
<1>2. Len(args) = 1 /\ args[1] = tree
  <2>1. args = <<tree>>
    OBVIOUS
  <2>. QED BY <2>1
<1>3. ListTree(args) = tree
  <2>. HIDE DEF args
  <2>. QED BY <1>2 DEF ListTree
<1>4. /\ <<"(">> \o text \o <<")">> \in Text
      /\ \A stack : Takes(stack) /\ Len(args) = 1 =>
           ReadOn(Expecting(stack), <<"(">> \o text \o <<")">>) = Referring(stack, ListTree(args))
  <2>1. <<"(">> \o text \o <<")">> \in Text
    BY <1>1, BracketsClose, Zenon
  <2>2. ASSUME NEW stack, Takes(stack), Len(args) = 1
        PROVE  ReadOn(Expecting(stack), <<"(">> \o text \o <<")">>) = Referring(stack, ListTree(args))
    BY <1>1, <2>2, BracketsClose, Zenon
  <2>. QED BY <2>1, <2>2, Zenon
<1>. HIDE DEF args
<1>. QED BY <1>2, <1>3, <1>4, Zenon DEF Refers

\* What opens the brackets of a call.
Calls(lead, name) ==
  /\ lead \in Text
  /\ \A stack : Takes(stack) =>
       ReadOn(Expecting(stack), lead) = Expecting(Push(Open("call", name, <<>>), stack))

\* A plain name with an opening bracket, spaced or not, begins a call.
LEMMA NamesCall ==
  ASSUME HonestOperators, NEW name \in Tokens, Plain(name)
  PROVE  Calls(<<name, "(">>, name) /\ Calls(<<name, " ", "(">>, name)
<1>. DEFINE open  == "("
<1>. DEFINE space == " "
<1>1. <<name, open>> \in Text /\ <<name, space, open>> \in Text
  BY Keywords, WordsTyped, Zenon
<1>2. \A stack : Takes(stack) =>
        ReadToken(ReadToken(Expecting(stack), name), open)
          = Expecting(Push(Open("call", name, <<>>), stack))
  <2>1. \A stack : Takes(stack) =>
          ReadToken(Expecting(stack), name)
            \in {Holding(stack, Tree(name, <<>>)), Referring(stack, Tree(name, <<>>))}
    BY PlainWord DEF Takes
  <2>. QED BY <2>1, OpenTokens, Zenon
<1>3. \A r : ReadToken(r, space) = r
  BY SpaceSkipped
<1>. HIDE DEF open, space
<1>4. ASSUME NEW stack, Takes(stack)
      PROVE  /\ ReadOn(Expecting(stack), <<name, open>>)
                  = Expecting(Push(Open("call", name, <<>>), stack))
             /\ ReadOn(Expecting(stack), <<name, space, open>>)
                  = Expecting(Push(Open("call", name, <<>>), stack))
  <2>. DEFINE s == Expecting(stack)
  <2>. HIDE DEF s
  <2>1. /\ ReadOn(s, <<name, open>>) = ReadToken(ReadToken(s, name), open)
        /\ ReadOn(s, <<name, space>>) = ReadToken(ReadToken(s, name), space)
        /\ ReadOn(s, <<name, space, open>>) = ReadToken(ReadToken(ReadToken(s, name), space), open)
    BY ReadOnWords
  <2>. QED BY <1>2, <1>3, <1>4, <2>1 DEF s
<1>5. Calls(<<name, open>>, name) /\ Calls(<<name, space, open>>, name)
  BY <1>1, <1>4, Zenon DEF Calls
<1>. QED BY <1>5, Zenon DEF open, space

\* A call is an atom.
LEMMA CallReads ==
  ASSUME HonestOperators, NEW lead, NEW name, Calls(lead, name),
         NEW items, NEW init, NEW last, Items(items, init, last), NEW place
  PROVE  Reads(lead \o items \o <<")">>, Tree(name, init \o <<last>>), 0, place)
<1>. DEFINE close == <<")">>
<1>1. items \in Text /\ lead \in Text /\ close \in Text
  BY Keywords, WordsTyped, Zenon DEF Items, Calls
<1>2. \A s : ReadOn(s, close) = ReadToken(s, ")")
  BY ReadOnWord, Zenon
<1>. HIDE DEF close
<1>3. /\ lead \o items \o close \in Text
      /\ \A s : ReadOn(s, lead \o items \o close) = ReadToken(ReadOn(ReadOn(s, lead), items), ")")
  BY <1>1, <1>2, ReadOnThree
<1>4. ASSUME NEW stack, Admits(stack, 0, place)
      PROVE  ReadOn(Expecting(stack), lead \o items \o close)
               = Holding(stack, Tree(name, init \o <<last>>))
  <2>. DEFINE read == ReadOn(Expecting(Push(Open("call", name, <<>>), stack)), items)
  <2>1. ReadOn(Expecting(stack), lead) = Expecting(Push(Open("call", name, <<>>), stack))
    BY <1>4, Zenon DEF Calls, Admits, Takes
  <2>2. stack.height \in Nat
    BY <1>4 DEF Admits
  <2>3. AtBracket(read, "call", name, init, stack, last)
    BY <2>2, Zenon DEF Items
  <2>4. ReadToken(read, ")") = Holding(stack, Tree(name, init \o <<last>>))
    <3>. HIDE DEF read
    <3>. QED BY <2>3, CloseCallToken, Zenon
  <2>. QED BY <1>3, <2>1, <2>4
<1>5. Reads(lead \o items \o close, Tree(name, init \o <<last>>), 0, place)
  BY <1>3, <1>4, HeldReads
<1>. QED BY <1>5 DEF close

\* A call without arguments is an operand.
LEMMA EmptyCallReads ==
  ASSUME HonestOperators, NEW lead, NEW name, Calls(lead, name), NEW place
  PROVE  Reads(lead \o <<")">>, Tree(name, <<>>), 0, place)
<1>. DEFINE close == <<")">>
<1>1. lead \in Text /\ close \in Text
  BY Keywords, WordsTyped, Zenon DEF Calls
<1>2. \A s : ReadOn(s, close) = ReadToken(s, ")")
  BY ReadOnWord, Zenon
<1>. HIDE DEF close
<1>3. /\ lead \o close \in Text
      /\ \A s : ReadOn(s, lead \o close) = ReadToken(ReadOn(s, lead), ")")
  BY <1>1, <1>2, ReadOnTwo
<1>4. ASSUME NEW stack, Admits(stack, 0, place)
      PROVE  ReadOn(Expecting(stack), lead \o close) = Holding(stack, Tree(name, <<>>))
  <2>1. ReadOn(Expecting(stack), lead) = Expecting(Push(Open("call", name, <<>>), stack))
    BY <1>4, Zenon DEF Calls, Admits, Takes
  <2>. QED BY <1>3, <2>1, EmptyCallToken
<1>5. Reads(lead \o close, Tree(name, <<>>), 0, place)
  BY <1>3, <1>4, HeldReads
<1>. QED BY <1>5 DEF close

\* A subscript, behind what may be selected from; the index stands in brackets.
LEMMA IndexRefers ==
  ASSUME HonestOperators, NEW a, NEW array, Refers(a, array),
         NEW b, NEW index, Reads(b, index, 16, "anywhere")
  PROVE  Refers(((a \o <<"[">>) \o b) \o <<"]">>, Tree("[]", <<array>> \o <<index>>))
<1>. DEFINE open == <<"[">>
<1>. DEFINE close == <<"]">>
<1>1. a \in Text /\ b \in Text /\ open \in Text /\ close \in Text
  BY Keywords, WordsTyped, Zenon DEF Reads, Refers
<1>2. \A s : ReadOn(s, open) = ReadToken(s, "[") /\ ReadOn(s, close) = ReadToken(s, "]")
  BY ReadOnWord, Zenon
<1>. HIDE DEF open, close
<1>. DEFINE text == ((a \o open) \o b) \o close
<1>3. text \in Text /\ \A s : ReadOn(s, text) = ReadToken(ReadOn(ReadToken(ReadOn(s, a), "["), b), "]")
  <2>. DEFINE half == a \o open \o b
  <2>1. half \in Text /\ \A s : ReadOn(s, half) = ReadOn(ReadOn(ReadOn(s, a), open), b)
    BY <1>1, ReadOnThree
  <2>. HIDE DEF half
  <2>2. half \o close \in Text /\ \A s : ReadOn(s, half \o close) = ReadOn(ReadOn(s, half), close)
    BY <1>1, <2>1, ReadOnTwo
  <2>3. \A s : ReadOn(s, half \o close) = ReadToken(ReadOn(ReadToken(ReadOn(s, a), "["), b), "]")
    BY <1>2, <2>1, <2>2
  <2>. QED BY <2>2, <2>3 DEF half
<1>4. ASSUME NEW stack, Takes(stack)
      PROVE  ReadToken(ReadOn(ReadToken(ReadOn(Expecting(stack), a), "["), b), "]")
               = Referring(stack, Tree("[]", <<array>> \o <<index>>))
  <2>. DEFINE push == Push(Open("index", "[", <<array>>), stack)
  <2>. DEFINE r2 == ReadOn(Expecting(push), b)
  <2>1. ReadOn(Expecting(stack), a) = Referring(stack, array)
    BY <1>4 DEF Refers
  <2>2. ReadToken(ReadOn(Expecting(stack), a), "[") = Expecting(push)
    BY <2>1, OpenTokens
  <2>3. Admits(push, 16, "anywhere") /\ push.frame.level > 17
    <3>1. stack.height \in Nat /\ 16 \in 0..Loosest
      BY <1>4 DEF Takes, Loosest
    <3>2. Admits(push, 16, "anywhere") /\ push.frame.level > Loosest
      BY <3>1, OpenAdmits
    <3>. QED BY <3>2 DEF Loosest
  <2>4. r2.value # <<>> /\ Applied(r2, 17) = Holding(push, index)
    <3>1. 16 \in Nat /\ 17 \in 16..Loosest
      BY DEF Loosest
    <3>. HIDE DEF push
    <3>. QED BY <2>3, <3>1, ReadsOperand
  <2>5. ReadToken(r2, "]") = Referring(stack, Tree("[]", <<array>> \o <<index>>))
    <3>1. AtBracket(r2, "index", "[", <<array>>, stack, index)
      BY <2>4, Zenon DEF AtBracket
    <3>. HIDE DEF r2
    <3>. QED BY <3>1, CloseIndexToken, Zenon
  <2>. QED BY <2>2, <2>5
<1>5. Refers(text, Tree("[]", <<array>> \o <<index>>))
  <2>. HIDE DEF text
  <2>. QED BY <1>3, <1>4 DEF Refers
<1>. QED BY <1>5 DEF open, close

\* A field.
LEMMA DotRefers ==
  ASSUME HonestOperators, NEW a, NEW tree, Refers(a, tree), NEW field \in Tokens, NameWord(field)
  PROVE  Refers((a \o <<".">>) \o <<field>>, Tree(".", <<tree>> \o <<Tree(field, <<>>)>>))
<1>. DEFINE dot == <<".">>
<1>. DEFINE name == <<field>>
<1>1. a \in Text /\ dot \in Text /\ name \in Text
  BY Keywords, WordsTyped, Zenon DEF Refers
<1>2. \A s : ReadOn(s, dot) = ReadToken(s, ".") /\ ReadOn(s, name) = ReadToken(s, field)
  BY ReadOnWord, Zenon
<1>. HIDE DEF dot, name
<1>3. /\ (a \o dot) \o name \in Text
      /\ \A s : ReadOn(s, (a \o dot) \o name) = ReadToken(ReadToken(ReadOn(s, a), "."), field)
  <2>1. /\ (a \o dot) \o name \in Text
        /\ \A s : ReadOn(s, (a \o dot) \o name) = ReadOn(ReadOn(ReadOn(s, a), dot), name)
    BY <1>1, ReadOnThree
  <2>. QED BY <1>2, <2>1
<1>4. ASSUME NEW stack, Takes(stack)
      PROVE  ReadToken(ReadToken(ReadOn(Expecting(stack), a), "."), field)
               = Referring(stack, Tree(".", <<tree>> \o <<Tree(field, <<>>)>>))
  <2>. DEFINE push == Push(Open("field", ".", <<tree>>), stack)
  <2>1. ReadToken(ReadOn(Expecting(stack), a), ".") = Expecting(push)
    <3>1. ReadOn(Expecting(stack), a) = Referring(stack, tree)
      BY <1>4 DEF Refers
    <3>. QED BY <3>1, OpenTokens
  <2>2. push.frame.kind = "field" /\ push.frame.args = <<tree>> /\ push.below = stack
    BY DEF Push, Open, Frame
  <2>3. field # " " /\ ~Refused(push, field)
    BY BoundWords DEF NameWord, Plain, Refused
  <2>. HIDE DEF push
  <2>4. ReadToken(Expecting(push), field) = ReadField(push, field)
    BY <2>2, <2>3 DEF ReadToken, Refused, Expecting
  <2>5. ReadField(push, field) = Referring(stack, Tree(".", Append(<<tree>>, Tree(field, <<>>))))
    BY <2>2 DEF ReadField
  <2>6. Append(<<tree>>, Tree(field, <<>>)) = <<tree>> \o <<Tree(field, <<>>)>>
    OBVIOUS
  <2>. QED BY <2>1, <2>4, <2>5, <2>6
<1>5. Refers((a \o dot) \o name, Tree(".", <<tree>> \o <<Tree(field, <<>>)>>))
  BY <1>3, <1>4 DEF Refers
<1>. QED BY <1>5 DEF dot, name

-----------------------------------------------------------------------------
\* Two texts that read as one tree wherever an operator of this level may stand.
Alike(a, b, level, place) == \E tree : Reads(a, tree, level, place) /\ Reads(b, tree, level, place)

\* Such texts are texts.
LEMMA AlikeTyped ==
  ASSUME NEW a, NEW b, NEW level, NEW place, Alike(a, b, level, place)
  PROVE  a \in Text /\ b \in Text
BY DEF Alike, Reads

\* What reads alike at a level reads alike at a looser one.
LEMMA AlikeLoosely ==
  ASSUME NEW a, NEW b, NEW level \in Nat, NEW looser \in Nat, NEW place, level <= looser, Alike(a, b, level, place)
  PROVE  Alike(a, b, looser, place)
BY ReadsLoosely, Zenon DEF Alike

\* What reads alike somewhere reads alike outside of every BETWEEN.
LEMMA AlikeAnywhere ==
  ASSUME NEW a, NEW b, NEW level, NEW place, Alike(a, b, level, place)
  PROVE  Alike(a, b, level, "anywhere")
BY ReadsAnywhere, Zenon DEF Alike

\* Two texts that read as one tree, wherever they stand, and may be selected from.
RefersAlike(a, b) == \E tree : Refers(a, tree) /\ Refers(b, tree)

\* Brackets around both change nothing and can be selected from.
LEMMA AlikeBracketed ==
  ASSUME HonestOperators, NEW a, NEW b, NEW level \in 0..17, Alike(a, b, level, "anywhere")
  PROVE  RefersAlike(<<"(">> \o a \o <<")">>, <<"(">> \o b \o <<")">>)
BY BracketRefers, Zenon DEF Alike, RefersAlike

\* Nor does a pair around one of them.
LEMMA AlikeHalfBracketed ==
  ASSUME HonestOperators, NEW a, NEW b, RefersAlike(a, b)
  PROVE  RefersAlike(a, <<"(">> \o b \o <<")">>)
<1>1. PICK tree : Refers(a, tree) /\ Refers(b, tree)
  BY Zenon DEF RefersAlike
<1>2. Reads(b, tree, 0, "anywhere") /\ 0 \in 0..17
  BY <1>1, RefersReads
<1>3. Refers(<<"(">> \o b \o <<")">>, tree)
  BY <1>2, BracketRefers
<1>. QED BY <1>1, <1>3, Zenon DEF RefersAlike

\* They read alike at any level and place.
LEMMA RefersAlikeReads ==
  ASSUME NEW a, NEW b, RefersAlike(a, b), NEW level, NEW place
  PROVE  Alike(a, b, level, place)
BY RefersReads, Zenon DEF Alike, RefersAlike

\* Nor does leaving them out where NeedsParens says so: an operand that binds
\* Leaving the brackets out changes nothing where operators of a looser level may
\* stand.
LEMMA AlikeBare ==
  ASSUME HonestOperators, NEW a, NEW b, NEW level \in 0..17, NEW looser \in level..17, NEW place,
         Alike(a, b, level, place)
  PROVE  Alike(a, <<"(">> \o b \o <<")">>, looser, place)
<1>. DEFINE full == <<"(">> \o b \o <<")">>
<1>1. PICK tree : Reads(a, tree, level, place) /\ Reads(b, tree, level, place)
  BY Zenon DEF Alike
<1>2. Reads(b, tree, level, "anywhere")
  BY <1>1, ReadsAnywhere
<1>3. Refers(full, tree)
  BY <1>2, BracketRefers
<1>. HIDE DEF full
<1>4. Reads(full, tree, looser, place)
  BY <1>3, RefersReads
<1>5. Reads(a, tree, looser, place)
  <2>1. level \in Nat /\ looser \in Nat /\ level <= looser
    OBVIOUS
  <2>. QED BY <1>1, <2>1, ReadsLoosely
<1>. QED BY <1>4, <1>5, Zenon DEF Alike, full

\* An infix operator, and the dot without spaces, over such operands.
LEMMA AlikeInfix ==
  ASSUME NEW a, NEW a2, NEW op \in Tokens, NEW level, NEW place, NEW b, NEW b2,
         BindsInfix(op, level) \/ (op = "AND" /\ level = 15),
         Alike(a, a2, level-1, place), Alike(b, b2, level-1, place)
  PROVE  /\ Alike(a \o <<" ", op, " ">> \o b, a2 \o <<" ", op, " ">> \o b2, level, place)
         /\ Alike(a \o <<op>> \o b, a2 \o <<op>> \o b2, level, place)
<1>1. PICK left : Reads(a, left, level-1, place) /\ Reads(a2, left, level-1, place)
  BY Zenon DEF Alike
<1>2. PICK right : Reads(b, right, level-1, place) /\ Reads(b2, right, level-1, place)
  BY Zenon DEF Alike
<1>3. /\ Reads(a \o <<" ", op, " ">> \o b, Tree(op, <<left>> \o <<right>>), level, place)
      /\ Reads(a \o <<op>> \o b, Tree(op, <<left>> \o <<right>>), level, place)
  BY <1>1, <1>2, InfixReads
<1>4. /\ Reads(a2 \o <<" ", op, " ">> \o b2, Tree(op, <<left>> \o <<right>>), level, place)
      /\ Reads(a2 \o <<op>> \o b2, Tree(op, <<left>> \o <<right>>), level, place)
  BY <1>1, <1>2, InfixReads
<1>. QED BY <1>3, <1>4, Zenon DEF Alike

\* A prefix operator over an operand that binds tighter.
LEMMA AlikePrefix ==
  ASSUME NEW op \in Tokens, NEW level, NEW place, BindsPrefix(op, level), NEW b, NEW b2,
         Alike(b, b2, level-1, place)
  PROVE  /\ Alike(<<op, " ">> \o b, <<op, " ">> \o b2, level, place)
         /\ Alike(<<op>> \o b, <<op>> \o b2, level, place)
<1>1. PICK tree : Reads(b, tree, level-1, place) /\ Reads(b2, tree, level-1, place)
  BY Zenon DEF Alike
<1>2. /\ Reads(<<op, " ">> \o b, Tree(op, <<>> \o <<tree>>), level, place)
      /\ Reads(<<op>> \o b, Tree(op, <<>> \o <<tree>>), level, place)
  BY <1>1, PrefixReads
<1>3. /\ Reads(<<op, " ">> \o b2, Tree(op, <<>> \o <<tree>>), level, place)
      /\ Reads(<<op>> \o b2, Tree(op, <<>> \o <<tree>>), level, place)
  BY <1>1, PrefixReads
<1>. QED BY <1>2, <1>3, Zenon DEF Alike

\* A postfix operator over an operand that binds tighter.
LEMMA AlikePostfix ==
  ASSUME NEW op \in Tokens, NEW level, NEW place, BindsPostfix(op, level), NEW a, NEW a2,
         place = "bound" => level >= 11, Alike(a, a2, level-1, place)
  PROVE  Alike(a \o <<" ", op>>, a2 \o <<" ", op>>, level, place)
BY PostfixReads, Zenon DEF Alike

\* BETWEEN over three operands that bind tighter.
LEMMA AlikeBetween ==
  ASSUME HonestOperators, NEW op \in BetweenWords, op \in Tokens, NEW x, NEW x2, NEW a, NEW a2,
         NEW b, NEW b2, NEW place, Alike(x, x2, 10, place), Alike(a, a2, 10, "bound"), Alike(b, b2, 10, place)
  PROVE  Alike(((x \o <<" ", op, " ">> \o a) \o <<" ", "AND", " ">>) \o b,
               ((x2 \o <<" ", op, " ">> \o a2) \o <<" ", "AND", " ">>) \o b2, 11, place)
<1>1. PICK tree : Reads(x, tree, 10, place) /\ Reads(x2, tree, 10, place)
  BY Zenon DEF Alike
<1>2. PICK low : Reads(a, low, 10, "bound") /\ Reads(a2, low, 10, "bound")
  BY Zenon DEF Alike
<1>3. PICK high : Reads(b, high, 10, place) /\ Reads(b2, high, 10, place)
  BY Zenon DEF Alike
<1>. DEFINE meaning == Tree(op, (<<tree>> \o <<low>>) \o <<high>>)
<1>4. Reads(((x \o <<" ", op, " ">> \o a) \o <<" ", "AND", " ">>) \o b, meaning, 11, place)
  BY <1>1, <1>2, <1>3, BetweenReads
<1>5. Reads(((x2 \o <<" ", op, " ">> \o a2) \o <<" ", "AND", " ">>) \o b2, meaning, 11, place)
  BY <1>1, <1>2, <1>3, BetweenReads
<1>. HIDE DEF meaning
<1>. QED BY <1>4, <1>5, Zenon DEF Alike

\* An index of any level behind what may be selected from.
LEMMA AlikeIndex ==
  ASSUME HonestOperators, NEW a, NEW a2, NEW b, NEW b2,
         RefersAlike(a, a2), Alike(b, b2, 16, "anywhere")
  PROVE  RefersAlike(((a \o <<"[">>) \o b) \o <<"]">>, ((a2 \o <<"[">>) \o b2) \o <<"]">>)
<1>1. PICK array : Refers(a, array) /\ Refers(a2, array)
  BY Zenon DEF RefersAlike
<1>2. PICK index : Reads(b, index, 16, "anywhere") /\ Reads(b2, index, 16, "anywhere")
  BY Zenon DEF Alike
<1>. DEFINE meaning == Tree("[]", <<array>> \o <<index>>)
<1>3. Refers(((a \o <<"[">>) \o b) \o <<"]">>, meaning)
  BY <1>1, <1>2, IndexRefers
<1>4. Refers(((a2 \o <<"[">>) \o b2) \o <<"]">>, meaning)
  BY <1>1, <1>2, IndexRefers
<1>. HIDE DEF meaning
<1>. QED BY <1>3, <1>4, Zenon DEF RefersAlike

\* A field of what may be selected from.
LEMMA AlikeDot ==
  ASSUME HonestOperators, NEW a, NEW a2, RefersAlike(a, a2), NEW field \in Tokens, NameWord(field)
  PROVE  RefersAlike((a \o <<".">>) \o <<field>>, (a2 \o <<".">>) \o <<field>>)
BY DotRefers, Zenon DEF RefersAlike

-----------------------------------------------------------------------------
\* Texts can be put together in any way.
LEMMA TextsRegroup ==
  /\ Concats(Text)
  /\ \A a, b \in Text : a \o b \in Text
BY ConcatsSeq, ConcatProperties DEF Text

\* What stands in brackets, grouped apart from what is in front.
LEMMA RegroupBracket ==
  ASSUME NEW V, Concats(V), NEW a \in V, NEW open \in V, NEW b \in V, NEW close \in V
  PROVE  Cat(Cat(Cat(a, open), b), close) = Cat(a, Cat(Cat(open, b), close))
<1>1. Cat(Cat(a, open), b) = Cat(a, Cat(open, b)) /\ Cat(open, b) \in V
  BY DEF Concats
<1>2. Cat(Cat(a, Cat(open, b)), close) = Cat(a, Cat(Cat(open, b), close))
  BY <1>1 DEF Concats
<1>. QED BY <1>1, <1>2

\* Two pairs.
LEMMA RegroupPairs ==
  ASSUME NEW V, Concats(V), NEW a \in V, NEW b \in V, NEW c \in V, NEW d \in V
  PROVE  Cat(Cat(a, Cat(b, c)), d) = Cat(Cat(a, b), Cat(c, d))
<1>1. Cat(a, Cat(b, c)) = Cat(Cat(a, b), c) /\ Cat(a, b) \in V
  BY DEF Concats
<1>2. Cat(Cat(Cat(a, b), c), d) = Cat(Cat(a, b), Cat(c, d))
  BY <1>1 DEF Concats
<1>. QED BY <1>1, <1>2

\* Four words, put together.
LEMMA FourConcat ==
  ASSUME NEW a, NEW b, NEW c, NEW d
  PROVE  <<a, b, c, d>> = <<a, b, c>> \o <<d>>
<1>. DEFINE S == {a, b, c, d}
<1>1. <<a, b, c>> \in Seq(S) /\ d \in S
  OBVIOUS
<1>2. Append(<<a, b, c>>, d) = <<a, b, c, d>>
  <2>1. /\ Append(<<a, b, c>>, d) \in Seq(S) /\ Len(Append(<<a, b, c>>, d)) = 4
        /\ Append(<<a, b, c>>, d)[1] = a /\ Append(<<a, b, c>>, d)[2] = b
        /\ Append(<<a, b, c>>, d)[3] = c /\ Append(<<a, b, c>>, d)[4] = d
    BY <1>1, AppendProperties
  <2>2. /\ <<a, b, c, d>> \in Seq(S) /\ Len(<<a, b, c, d>>) = 4
        /\ <<a, b, c, d>>[1] = a /\ <<a, b, c, d>>[2] = b
        /\ <<a, b, c, d>>[3] = c /\ <<a, b, c, d>>[4] = d
    OBVIOUS
  <2>3. \A s, t \in Seq(S) :
          (Len(s) = 4 /\ Len(t) = 4
             /\ s[1] = t[1] /\ s[2] = t[2] /\ s[3] = t[3] /\ s[4] = t[4])
            => s = t
    <3>. HIDE DEF S
    <3>1. TAKE s \in Seq(S), t \in Seq(S)
    <3>2. HAVE Len(s) = 4 /\ Len(t) = 4
                 /\ s[1] = t[1] /\ s[2] = t[2] /\ s[3] = t[3] /\ s[4] = t[4]
    <3>3. \A k \in 1..Len(s) : s[k] = t[k]
      BY <3>2
    <3>. QED BY <3>2, <3>3, SeqEqual
  <2>. HIDE DEF S
  <2>. QED BY <2>1, <2>2, <2>3
<1>. QED BY <1>1, <1>2, AppendIsConcat

\* A word in brackets.
LEMMA WordBetween ==
  ASSUME NEW a, NEW b, NEW c
  PROVE  <<a>> \o <<b>> \o <<c>> = <<a, b, c>>
<1>. DEFINE first  == <<a>>
<1>. DEFINE second == <<b>>
<1>. DEFINE third  == <<c>>
<1>. DEFINE pair   == <<a, b>>
<1>1. pair = first \o second
  BY PairConcat
<1>2. <<a, b, c>> = pair \o third
  BY TripleConcat, Zenon
<1>. HIDE DEF first, second, third, pair
<1>3. first \o second \o third = <<a, b, c>>
  BY <1>1, <1>2
<1>. QED BY <1>3 DEF first, second, third

\* An infix operator before something in brackets.
LEMMA AlikeInfixBracketed ==
  ASSUME HonestOperators, NEW a, NEW a2, NEW op \in Tokens, NEW level, NEW place, BindsInfix(op, level),
         NEW b \in Text, NEW b2 \in Text, Alike(a, a2, level-1, place),
         Alike(<<"(">> \o b \o <<")">>, <<"(">> \o b2 \o <<")">>, 0, place)
  PROVE  /\ Alike(((a \o <<" ", op, " ", "(">>) \o b) \o <<")">>,
                  ((a2 \o <<" ", op, " ", "(">>) \o b2) \o <<")">>, level, place)
         /\ Alike((((a \o <<" ", op, " ">>) \o <<"(">>) \o b) \o <<")">>,
                  (((a2 \o <<" ", op, " ">>) \o <<"(">>) \o b2) \o <<")">>, level, place)
<1>. DEFINE open  == <<"(">>
<1>. DEFINE close == <<")">>
<1>. DEFINE infix == <<" ", op, " ">>
<1>. DEFINE lead  == <<" ", op, " ", "(">>
<1>1. /\ a \in Text /\ a2 \in Text /\ open \in Text /\ close \in Text /\ infix \in Text
      /\ lead = infix \o open
  <2>1. a \in Text /\ a2 \in Text
    BY AlikeTyped, Zenon
  <2>2. open \in Text /\ close \in Text /\ infix \in Text
    BY Keywords, WordsTyped, Zenon
  <2>3. lead = infix \o open
    BY FourConcat, Zenon
  <2>. QED BY <2>1, <2>2, <2>3
<1>2. Alike(open \o b \o close, open \o b2 \o close, level-1, place)
  <2>. DEFINE x == open \o b \o close
  <2>. DEFINE y == open \o b2 \o close
  <2>1. Alike(x, y, 0, place) /\ level \in 1..16
    BY DEF BindsInfix
  <2>. HIDE DEF x, y
  <2>2. Alike(x, y, level-1, place)
    BY <2>1, AlikeLoosely
  <2>. QED BY <2>2 DEF x, y
<1>3. Alike(a \o infix \o (open \o b \o close), a2 \o infix \o (open \o b2 \o close), level, place)
  BY <1>2, AlikeInfix, Zenon
<1>. HIDE DEF open, close, infix, lead
<1>4. \A t, u \in Text : /\ ((t \o lead) \o u) \o close = t \o infix \o (open \o u \o close)
                         /\ (((t \o infix) \o open) \o u) \o close
                              = t \o infix \o (open \o u \o close)
  <2>1. TAKE t \in Text, u \in Text
  <2>2. t \o infix \in Text /\ Concats(Text)
    BY <1>1, TextsRegroup
  <2>. DEFINE front == Cat(t, infix)
  <2>3. front \in Text
    BY <2>2 DEF Cat
  <2>4. Cat(front, open) = Cat(t, Cat(infix, open))
    BY <1>1, <2>2, RegroupTwo
  <2>. HIDE DEF front
  <2>5. Cat(Cat(Cat(front, open), u), close) = Cat(front, Cat(Cat(open, u), close))
    BY <1>1, <2>2, <2>3, RegroupBracket
  <2>. QED BY <1>1, <2>4, <2>5 DEF Cat, front
<1>5. /\ Alike(((a \o lead) \o b) \o close, ((a2 \o lead) \o b2) \o close, level, place)
      /\ Alike((((a \o infix) \o open) \o b) \o close, (((a2 \o infix) \o open) \o b2) \o close, level, place)
  BY <1>1, <1>3, <1>4, ZenonT(60)
<1>. QED BY <1>5, Zenon DEF open, close, infix, lead

\* A subquery in its brackets is an operand like any other.
LEMMA SubqueryReads ==
  ASSUME HonestOperators, NEW query \in Tokens, Plain(query), NEW place
  PROVE  Reads(Bracketed(query), Tree(query, <<>>), 0, place)
<1>1. Reads(<<query>>, Tree(query, <<>>), 0, "anywhere")
  BY WordReads
<1>2. 0 \in 0..17
  OBVIOUS
<1>3. Reads(<<"(">> \o <<query>> \o <<")">>, Tree(query, <<>>), 0, place)
  BY <1>1, <1>2, BracketRefers, RefersReads, Zenon
<1>4. <<"(">> \o <<query>> \o <<")">> = <<"(", query, ")">>
  BY WordBetween
<1>. QED BY <1>3, <1>4, Zenon DEF Bracketed

\* An operand that binds tighter, an operator and a subquery.
LEMMA AlikeInfixSubquery ==
  ASSUME HonestOperators, NEW a, NEW a2, NEW op \in Tokens, NEW level, NEW place, BindsInfix(op, level),
         Alike(a, a2, level-1, place), NEW query \in Tokens, Plain(query)
  PROVE  Alike(a \o (<<" ", op, " ">> \o Bracketed(query)),
               a2 \o (<<" ", op, " ">> \o Bracketed(query)), level, place)
<1>. DEFINE b == Bracketed(query)
<1>. DEFINE infix == <<" ", op, " ">>
<1>1. a \in Text /\ a2 \in Text /\ b \in Text /\ infix \in Text
  <2>1. a \in Text /\ a2 \in Text
    BY AlikeTyped, Zenon
  <2>. QED BY <2>1, FragmentsTyped, Zenon
<1>2. Alike(b, b, level-1, place)
  <2>1. Alike(b, b, 0, place) /\ level \in 1..16
    BY SubqueryReads DEF Alike, BindsInfix
  <2>. HIDE DEF b
  <2>. QED BY <2>1, AlikeLoosely
<1>. HIDE DEF b
<1>3. Alike(a \o infix \o b, a2 \o infix \o b, level, place)
  BY <1>2, AlikeInfix, Zenon
<1>. HIDE DEF infix
<1>4. a \o infix \o b = a \o (infix \o b) /\ a2 \o infix \o b = a2 \o (infix \o b)
  <2>1. /\ Cat(Cat(a, infix), b) = Cat(a, Cat(infix, b))
        /\ Cat(Cat(a2, infix), b) = Cat(a2, Cat(infix, b))
    BY <1>1, TextsRegroup, RegroupTwo
  <2>. QED BY <2>1 DEF Cat
<1>5. Alike(a \o (infix \o b), a2 \o (infix \o b), level, place)
  BY <1>3, <1>4, Zenon
<1>. QED BY <1>5 DEF b, infix

-----------------------------------------------------------------------------
\* Two lists that are read as the same operands.
ItemsAlike(a, b) == \E init, last : Items(a, init, last) /\ Items(b, init, last)

\* One item, whatever its level.
LEMMA OneItemAlike ==
  ASSUME NEW a, NEW b, NEW level \in 0..17, Alike(a, b, level, "anywhere")
  PROVE  ItemsAlike(a, b)
BY OneItem, Zenon DEF Alike, ItemsAlike

\* One more item.
LEMMA OneMoreItemAlike ==
  ASSUME HonestOperators, NEW a, NEW b, ItemsAlike(a, b),
         NEW c, NEW d, NEW level \in 0..17, Alike(c, d, level, "anywhere")
  PROVE  ItemsAlike(a \o <<",", " ">> \o c, b \o <<",", " ">> \o d)
<1>1. PICK init, last : Items(a, init, last) /\ Items(b, init, last)
  BY Zenon DEF ItemsAlike
<1>2. PICK tree : Reads(c, tree, level, "anywhere") /\ Reads(d, tree, level, "anywhere")
  BY Zenon DEF Alike
<1>3. /\ Items(a \o <<",", " ">> \o c, init \o <<last>>, tree)
      /\ Items(b \o <<",", " ">> \o d, init \o <<last>>, tree)
  BY <1>1, <1>2, OneMoreItem, Zenon
<1>. QED BY <1>3, Zenon DEF ItemsAlike

\* In the brackets of a call, and in those of a list.
LEMMA AlikeCall ==
  ASSUME HonestOperators, NEW lead, NEW name, Calls(lead, name), NEW a, NEW b, ItemsAlike(a, b), NEW place
  PROVE  Alike(lead \o a \o <<")">>, lead \o b \o <<")">>, 0, place)
<1>1. PICK init, last : Items(a, init, last) /\ Items(b, init, last)
  BY Zenon DEF ItemsAlike
<1>2. /\ Reads(lead \o a \o <<")">>, Tree(name, init \o <<last>>), 0, place)
      /\ Reads(lead \o b \o <<")">>, Tree(name, init \o <<last>>), 0, place)
  BY <1>1, CallReads
<1>. QED BY <1>2, Zenon DEF Alike

\* A list in brackets.
LEMMA AlikeList ==
  ASSUME HonestOperators, NEW a, NEW b, ItemsAlike(a, b), NEW place
  PROVE  Alike(<<"(">> \o a \o <<")">>, <<"(">> \o b \o <<")">>, 0, place)
<1>1. PICK init, last : Items(a, init, last) /\ Items(b, init, last)
  BY Zenon DEF ItemsAlike
<1>2. /\ Reads(<<"(">> \o a \o <<")">>, ListTree(init \o <<last>>), 0, place)
      /\ Reads(<<"(">> \o b \o <<")">>, ListTree(init \o <<last>>), 0, place)
  BY <1>1, ListReads
<1>. QED BY <1>2, Zenon DEF Alike

\* The names the methods write themselves are no operators of the client's.
LEMMA NamesArePlain ==
  ASSUME HonestOperators,
         NEW name \in {"CAST", "EXISTS", "NULL", "TRUE", "FALSE", "COUNT(*)", "COALESCE",
                       "GREATEST", "LEAST", "NULLIF", "COUNT", "SUM", "AVG", "MIN", "MAX"}
  PROVE  Plain(name)
<1>1. name \in OwnWords
  BY DEF OwnWords, Punctuation
<1>2. name \notin Accepted(CustomOperators) \cup Accepted(PrefixOperators)
  BY <1>1, CustomsUnspelled
<1>. QED BY <1>2 DEF Plain, PrefixWords, NeverFirst, InfixWords, PostfixWords, BetweenWords,
                     MatchWords, CompareWords

\* CAST with its AS, and EXISTS.
LEMMA AlikeCast ==
  ASSUME HonestOperators, NEW a, NEW b, NEW place, Alike(a, b, 16, "anywhere")
  PROVE  Alike(<<"CAST", " ", "(">> \o a \o <<" ", "AS t", ")">>,
               <<"CAST", " ", "(">> \o b \o <<" ", "AS t", ")">>, 0, place)
<1>. DEFINE lead == <<"CAST", " ", "(">>
<1>. DEFINE type == <<" ", "AS t">>
<1>. DEFINE close == <<")">>
<1>. DEFINE rest == <<" ", "AS t", ")">>
<1>1. /\ a \in Text /\ b \in Text /\ lead \in Text /\ type \in Text /\ close \in Text
      /\ rest = type \o close
  <2>1. a \in Text /\ b \in Text
    BY AlikeTyped, Zenon
  <2>2. lead \in Text /\ type \in Text /\ close \in Text
    BY Keywords, WordsTyped, Zenon
  <2>3. rest = type \o close
    BY TripleConcat, ZenonT(60)
  <2>. QED BY <2>1, <2>2, <2>3
<1>2. Calls(lead, "CAST")
  <2>1. Plain("CAST") /\ "CAST" \in Tokens
    BY NamesArePlain, Keywords
  <2>. QED BY <2>1, NamesCall, Zenon
<1>3. ItemsAlike(a \o type, b \o type)
  <2>1. Alike(a, b, 17-1, "anywhere") /\ 17 \in 0..17
    OBVIOUS
  <2>. DEFINE as == "AS t"
  <2>2. BindsPostfix(as, 17) /\ as \in Tokens
    BY MethodsArePostfix, Keywords DEF kExtract
  <2>. HIDE DEF as
  <2>3. Alike(a \o <<" ", as>>, b \o <<" ", as>>, 17, "anywhere")
    BY <2>1, <2>2, AlikePostfix
  <2>4. ItemsAlike(a \o <<" ", as>>, b \o <<" ", as>>)
    BY <2>1, <2>3, OneItemAlike, Zenon
  <2>. QED BY <2>4 DEF as
<1>. HIDE DEF lead, type, close, rest
<1>4. Alike(lead \o (a \o type) \o close, lead \o (b \o type) \o close, 0, place)
  <2>. DEFINE name == "CAST"
  <2>1. Calls(lead, name)
    BY <1>2
  <2>. HIDE DEF name
  <2>. DEFINE x == a \o type
  <2>. DEFINE y == b \o type
  <2>2. ItemsAlike(x, y)
    BY <1>3
  <2>. HIDE DEF x, y
  <2>3. Alike(lead \o x \o <<")">>, lead \o y \o <<")">>, 0, place)
    BY <2>1, <2>2, AlikeCall
  <2>. QED BY <2>3 DEF x, y, close
<1>5. \A t \in Text : lead \o (t \o type) \o close = (lead \o t) \o rest
  <2>1. TAKE t \in Text
  <2>2. Cat(Cat(lead, Cat(t, type)), close) = Cat(Cat(lead, t), Cat(type, close))
    BY <1>1, TextsRegroup, RegroupPairs
  <2>. QED BY <1>1, <2>2 DEF Cat
<1>6. Alike((lead \o a) \o rest, (lead \o b) \o rest, 0, place)
  BY <1>1, <1>4, <1>5, Zenon
<1>. QED BY <1>6 DEF lead, rest

\* EXISTS and its subquery are read as a call.
LEMMA ExistsReads ==
  ASSUME HonestOperators, NEW query \in Tokens, Plain(query), NEW place
  PROVE  \E tree : Reads(ExistsWords("EXISTS") \o Bracketed(query), tree, 0, place)
<1>. DEFINE exists == "EXISTS"
<1>1. Plain(exists) /\ exists \in Tokens
  BY NamesArePlain, Keywords
<1>2. ExistsWords("EXISTS") = <<exists, " ">>
  BY DEF ExistsWords
<1>. HIDE DEF exists
<1>3. Calls(<<exists, " ", "(">>, exists)
  BY <1>1, NamesCall, Zenon
<1>4. Items(<<query>>, <<>>, Tree(query, <<>>))
  <2>1. 0 \in 0..17
    OBVIOUS
  <2>2. Reads(<<query>>, Tree(query, <<>>), 0, "anywhere")
    BY WordReads
  <2>. QED BY <2>1, <2>2, OneItem, Zenon
<1>5. Reads(<<exists, " ", "(">> \o <<query>> \o <<")">>, Tree(exists, <<>> \o <<Tree(query, <<>>)>>), 0, place)
  BY <1>3, <1>4, CallReads, Zenon
<1>6. <<exists, " ", "(">> \o <<query>> \o <<")">> = <<exists, " ">> \o <<"(", query, ")">>
  <2>. DEFINE front == <<exists, " ">>
  <2>. DEFINE open  == <<"(">>
  <2>. DEFINE close == <<")">>
  <2>. DEFINE body  == <<query>>
  <2>1. front \in Text /\ open \in Text /\ close \in Text /\ body \in Text /\ Concats(Text)
    BY <1>1, Keywords, WordsTyped, TextsRegroup, Zenon
  <2>2. <<exists, " ", "(">> = front \o open
    BY TripleConcat, Zenon
  <2>4. <<"(", query, ")">> = (open \o body) \o close
    BY WordBetween
  <2>. HIDE DEF front, open, close, body
  <2>3. Cat(Cat(Cat(front, open), body), close) = Cat(front, Cat(Cat(open, body), close))
    BY <2>1, RegroupBracket
  <2>. QED BY <2>2, <2>3, <2>4 DEF Cat, front, open, close, body
<1>. QED BY <1>2, <1>5, <1>6, Zenon DEF Bracketed

\* A few texts, flattened.
LEMMA FlattenFew ==
  ASSUME NEW P \in Seq(Text)
  PROVE  /\ Len(P) = 1 => FlattenSeq(P) = P[1]
         /\ Len(P) = 2 => FlattenSeq(P) = P[1] \o P[2]
         /\ Len(P) = 3 => FlattenSeq(P) = P[1] \o P[2] \o P[3]
         /\ Len(P) = 4 => FlattenSeq(P) = (P[1] \o P[2] \o P[3]) \o P[4]
         /\ Len(P) = 5 => FlattenSeq(P) = ((P[1] \o P[2] \o P[3]) \o P[4]) \o P[5]
<1>1. CASE Len(P) = 0
  BY <1>1
<1>2. CASE Len(P) # 0
  <2>1. P \in Seq(Seq(Tokens)) /\ Len(P) \in Nat
    BY LenProperties DEF Text
  <2>2. PICK g : /\ FlattenSeq(P) = g[Len(P)]
                 /\ g[1] = P[1]
                 /\ \A k \in 2..Len(P) : g[k] = g[k-1] \o P[k]
                 /\ \A k \in 1..Len(P) : g[k] \in Seq(Tokens)
    BY <1>2, <2>1, FlattenUnfolds
  <2>. DEFINE n == Len(P)
  <2>. DEFINE Step(k, prev) == g[k] = g[prev] \o P[k]
  <2>3. n \in Nat /\ \A k \in 2..n : Step(k, k-1)
    BY <2>1, <2>2
  <2>. HIDE DEF n, Step
  <2>4. \A k \in Nat : (k >= 2 /\ n >= k) => Step(k, k-1)
    BY <2>3
  <2>5. /\ n >= 2 => Step(2, 1)
        /\ n >= 3 => Step(3, 2)
        /\ n >= 4 => Step(4, 3)
        /\ n >= 5 => Step(5, 4)
    <3>1. 2-1 = 1 /\ 3-1 = 2 /\ 4-1 = 3 /\ 5-1 = 4 /\ 2 >= 2 /\ 3 >= 2 /\ 4 >= 2 /\ 5 >= 2
      OBVIOUS
    <3>2. n >= 2 => Step(2, 2-1)
      BY <2>4
    <3>3. n >= 3 => Step(3, 3-1)
      BY <2>4
    <3>4. n >= 4 => Step(4, 4-1)
      BY <2>4
    <3>5. n >= 5 => Step(5, 5-1)
      BY <2>4
    <3>. QED BY <3>1, <3>2, <3>3, <3>4, <3>5
  <2>6. n = 2 => Step(2, 1)
    BY <2>5
  <2>7. n = 3 => (Step(2, 1) /\ Step(3, 2))
    BY <2>5
  <2>8. n = 4 => (Step(2, 1) /\ Step(3, 2) /\ Step(4, 3))
    BY <2>5
  <2>9. n = 5 => (Step(2, 1) /\ Step(3, 2) /\ Step(4, 3) /\ Step(5, 4))
    BY <2>5
  <2>10. FlattenSeq(P) = g[n] /\ g[1] = P[1]
    BY <2>2 DEF n
  <2>11. /\ n = 1 => FlattenSeq(P) = P[1]
         /\ n = 2 => FlattenSeq(P) = P[1] \o P[2]
         /\ n = 3 => FlattenSeq(P) = P[1] \o P[2] \o P[3]
         /\ n = 4 => FlattenSeq(P) = (P[1] \o P[2] \o P[3]) \o P[4]
         /\ n = 5 => FlattenSeq(P) = ((P[1] \o P[2] \o P[3]) \o P[4]) \o P[5]
    <3>1. n = 1 => FlattenSeq(P) = P[1]
      BY <2>10
    <3>2. n = 2 => FlattenSeq(P) = P[1] \o P[2]
      BY <2>6, <2>10, Zenon DEF Step
    <3>3. n = 3 => FlattenSeq(P) = P[1] \o P[2] \o P[3]
      BY <2>7, <2>10, Zenon DEF Step
    <3>4. n = 4 => FlattenSeq(P) = (P[1] \o P[2] \o P[3]) \o P[4]
      BY <2>8, <2>10, Zenon DEF Step
    <3>5. n = 5 => FlattenSeq(P) = ((P[1] \o P[2] \o P[3]) \o P[4]) \o P[5]
      BY <2>9, <2>10, Zenon DEF Step
    <3>. QED BY <3>1, <3>2, <3>3, <3>4, <3>5, Zenon
  <2>. QED BY <2>11, Zenon DEF n
<1>. QED BY <1>1, <1>2

\* The text of each part, and the same with no brackets left out.
Texts(heap, text, parts) == [k \in 1..Len(parts) |-> PartText(heap, text, parts[k])]

FullText(heap, full, part) ==
  IF part.node = 0 THEN part.text
  ELSE IF part.context = kDot /\ IsName(heap[part.node]) THEN full[part.node]
  ELSE <<"(">> \o full[part.node] \o <<")">>

FullTexts(heap, full, parts) == [k \in 1..Len(parts) |-> FullText(heap, full, parts[k])]

\* Two texts of a node: they read alike at its true level, in the lower bound of a
\* BETWEEN too unless a COLLATE shows; a field or column may be selected from; and a
\* column is its name.
NodeAlike(node, collated, a, b) ==
  /\ \A place : (place = "bound" => ~collated) => Alike(a, b, Grade(node), place)
  /\ IsReference(node) => RefersAlike(a, b)
  /\ IsName(node) => a = node.parts[1].text /\ b = a

NodesAlike(heap, n, collates, text, full) ==
  \A j \in 1..n : NodeAlike(heap[j], collates[j], text[j], full[j])

\* Texts of the earlier nodes, for a node of these parts that stands in such a place.
Given(heap, n, collates, parts, text, full, place) ==
  /\ NodesAlike(heap, n, collates, text, full)
  /\ \A k \in 1..Len(parts) : Fitting(heap, collates, parts, k)
  /\ place = "bound" => ~Outside(heap, collates, parts)

\* Whatever the earlier nodes are written as, this one is read the same with
\* brackets around all its operands and with those that NeedsParens asks for.
Congruent(heap, n, collates, parts, level, place) ==
  \A text, full : Given(heap, n, collates, parts, text, full, place) =>
    Alike(FlattenSeq(Texts(heap, text, parts)), FlattenSeq(FullTexts(heap, full, parts)), level, place)

\* The first few texts, put together.
Together(P) ==
  CASE Len(P) = 1 -> P[1]
    [] Len(P) = 2 -> P[1] \o P[2]
    [] Len(P) = 3 -> P[1] \o P[2] \o P[3]
    [] Len(P) = 4 -> (P[1] \o P[2] \o P[3]) \o P[4]
    [] Len(P) = 5 -> ((P[1] \o P[2] \o P[3]) \o P[4]) \o P[5]

\* Up to five texts are put together as written out.
LEMMA FewTogether ==
  ASSUME NEW P \in Seq(Text), Len(P) \in 1..5
  PROVE  FlattenSeq(P) = Together(P)
<1>. DEFINE n == Len(P)
<1>1. n = 1 \/ n = 2 \/ n = 3 \/ n = 4 \/ n = 5
  OBVIOUS
<1>. HIDE DEF n
<1>2. CASE n = 1
  BY <1>2, FlattenFew DEF Together, n
<1>3. CASE n = 2
  BY <1>3, FlattenFew DEF Together, n
<1>4. CASE n = 3
  BY <1>4, FlattenFew DEF Together, n
<1>5. CASE n = 4
  BY <1>5, FlattenFew DEF Together, n
<1>6. CASE n = 5
  BY <1>6, FlattenFew DEF Together, n
<1>. QED BY <1>1, <1>2, <1>3, <1>4, <1>5, <1>6

\* A fragment is the same with all the brackets and with few.
LEMMA FragmentTexts ==
  ASSUME NEW heap, NEW text, NEW full, NEW t
  PROVE  PartText(heap, text, Fragment(t)) = t /\ FullText(heap, full, Fragment(t)) = t
BY DEF PartText, FullText, Fragment

\* A part is written, either way.
BothWritten(heap, text, full, part) ==
  PartText(heap, text, part) \in Text /\ FullText(heap, full, part) \in Text

\* Few texts, put together.
LEMMA TogetherParts ==
  ASSUME NEW P
  PROVE  /\ Len(P) = 2 => Together(P) = P[1] \o P[2]
         /\ Len(P) = 3 => Together(P) = P[1] \o P[2] \o P[3]
         /\ Len(P) = 4 => Together(P) = (P[1] \o P[2] \o P[3]) \o P[4]
<1>1. ASSUME Len(P) = 2 PROVE Together(P) = P[1] \o P[2]
  <2>1. Len(P) # 1 /\ Len(P) # 3 /\ Len(P) # 4 /\ Len(P) # 5
    BY <1>1
  <2>. QED BY <1>1, <2>1, Zenon DEF Together
<1>2. ASSUME Len(P) = 3 PROVE Together(P) = P[1] \o P[2] \o P[3]
  <2>1. Len(P) # 1 /\ Len(P) # 2 /\ Len(P) # 4 /\ Len(P) # 5
    BY <1>2
  <2>. QED BY <1>2, <2>1, Zenon DEF Together
<1>3. ASSUME Len(P) = 4 PROVE Together(P) = (P[1] \o P[2] \o P[3]) \o P[4]
  <2>1. Len(P) # 1 /\ Len(P) # 2 /\ Len(P) # 3 /\ Len(P) # 5
    BY <1>3
  <2>. QED BY <1>3, <2>1, Zenon DEF Together
<1>. QED BY <1>1, <1>2, <1>3

\* Up to five parts of a node, put together.
LEMMA FewTexts ==
  ASSUME NEW heap, NEW text, NEW full, NEW parts, Len(parts) \in 1..5,
         \A k \in 1..Len(parts) : BothWritten(heap, text, full, parts[k])
  PROVE  /\ FlattenSeq(Texts(heap, text, parts)) = Together(Texts(heap, text, parts))
         /\ FlattenSeq(FullTexts(heap, full, parts)) = Together(FullTexts(heap, full, parts))
<1>1. /\ Texts(heap, text, parts) \in Seq(Text) /\ Len(Texts(heap, text, parts)) = Len(parts)
      /\ FullTexts(heap, full, parts) \in Seq(Text) /\ Len(FullTexts(heap, full, parts)) = Len(parts)
  BY DEF Texts, FullTexts, BothWritten
<1>. QED BY <1>1, FewTogether

\* What the parts of a node are put together to.
WrittenAs(heap, text, full, parts, a, b) ==
  /\ FlattenSeq(Texts(heap, text, parts)) = a
  /\ FlattenSeq(FullTexts(heap, full, parts)) = b

\* A node of two parts.
LEMMA TwoTexts ==
  ASSUME NEW heap, NEW text, NEW full, NEW p, NEW q,
         BothWritten(heap, text, full, p), BothWritten(heap, text, full, q)
  PROVE  WrittenAs(heap, text, full, <<p, q>>,
                   PartText(heap, text, p) \o PartText(heap, text, q),
                   FullText(heap, full, p) \o FullText(heap, full, q))
<1>. DEFINE parts == <<p, q>>
<1>1. Len(parts) = 2 /\ parts[1] = p /\ parts[2] = q
  OBVIOUS
<1>. HIDE DEF parts
<1>2. \A k \in 1..Len(parts) : k = 1 \/ k = 2
  BY <1>1
<1>3. /\ FlattenSeq(Texts(heap, text, parts)) = Together(Texts(heap, text, parts))
      /\ FlattenSeq(FullTexts(heap, full, parts)) = Together(FullTexts(heap, full, parts))
  <2>1. \A k \in 1..Len(parts) : BothWritten(heap, text, full, parts[k])
    BY <1>1, <1>2, Zenon
  <2>2. Len(parts) \in 1..5
    BY <1>1
  <2>. QED BY <2>1, <2>2, FewTexts
<1>4. Len(Texts(heap, text, parts)) = 2 /\ Len(FullTexts(heap, full, parts)) = 2
  BY ONLY <1>1 DEF Texts, FullTexts
<1>5. /\ Texts(heap, text, parts)[1] = PartText(heap, text, p)
      /\ FullTexts(heap, full, parts)[1] = FullText(heap, full, p)
  BY ONLY <1>1 DEF Texts, FullTexts
<1>6. /\ Texts(heap, text, parts)[2] = PartText(heap, text, q)
      /\ FullTexts(heap, full, parts)[2] = FullText(heap, full, q)
  BY ONLY <1>1 DEF Texts, FullTexts
<1>9. /\ Together(Texts(heap, text, parts))
           = Texts(heap, text, parts)[1] \o Texts(heap, text, parts)[2]
      /\ Together(FullTexts(heap, full, parts))
           = FullTexts(heap, full, parts)[1] \o FullTexts(heap, full, parts)[2]
  BY <1>4, TogetherParts, Zenon
<1>10. /\ FlattenSeq(Texts(heap, text, parts))
            = PartText(heap, text, p) \o PartText(heap, text, q)
       /\ FlattenSeq(FullTexts(heap, full, parts))
            = FullText(heap, full, p) \o FullText(heap, full, q)
  BY <1>3, <1>5, <1>6, <1>9, Zenon
<1>. QED BY <1>10, Zenon DEF parts, WrittenAs

\* It is read alike if what is put together is.
LEMMA CongruentTwo ==
  ASSUME NEW heap, NEW n, NEW collates, NEW place, NEW p, NEW q, NEW level,
         \A text, full : Given(heap, n, collates, <<p, q>>, text, full, place) =>
           /\ BothWritten(heap, text, full, p) /\ BothWritten(heap, text, full, q)
           /\ Alike(PartText(heap, text, p) \o PartText(heap, text, q),
                    FullText(heap, full, p) \o FullText(heap, full, q),
                    level, place)
  PROVE  Congruent(heap, n, collates, <<p, q>>, level, place)
<1>. DEFINE parts == <<p, q>>
<1>1. ASSUME NEW text, NEW full, Given(heap, n, collates, parts, text, full, place)
      PROVE  Alike(FlattenSeq(Texts(heap, text, parts)), FlattenSeq(FullTexts(heap, full, parts)), level, place)
  <2>1. /\ BothWritten(heap, text, full, p) /\ BothWritten(heap, text, full, q)
    BY <1>1, Zenon
  <2>2. Alike(PartText(heap, text, p) \o PartText(heap, text, q),
              FullText(heap, full, p) \o FullText(heap, full, q), level, place)
    BY <1>1, Zenon
  <2>3. WrittenAs(heap, text, full, parts,
                  PartText(heap, text, p) \o PartText(heap, text, q),
                  FullText(heap, full, p) \o FullText(heap, full, q))
    BY ONLY <2>1, TwoTexts, Zenon
  <2>. QED BY <2>2, <2>3, Zenon DEF WrittenAs
<1>. HIDE DEF parts
<1>2. Congruent(heap, n, collates, parts, level, place)
  BY <1>1, Zenon DEF Congruent
<1>. QED BY <1>2 DEF parts

\* A node of three parts.
LEMMA ThreeTexts ==
  ASSUME NEW heap, NEW text, NEW full, NEW p, NEW q, NEW r,
         BothWritten(heap, text, full, p), BothWritten(heap, text, full, q),
         BothWritten(heap, text, full, r)
  PROVE  WrittenAs(heap, text, full, <<p, q, r>>,
                   PartText(heap, text, p) \o PartText(heap, text, q) \o PartText(heap, text, r),
                   FullText(heap, full, p) \o FullText(heap, full, q) \o FullText(heap, full, r))
<1>. DEFINE parts == <<p, q, r>>
<1>1. Len(parts) = 3 /\ parts[1] = p /\ parts[2] = q /\ parts[3] = r
  OBVIOUS
<1>. HIDE DEF parts
<1>2. \A k \in 1..Len(parts) : k = 1 \/ k = 2 \/ k = 3
  BY <1>1
<1>3. /\ FlattenSeq(Texts(heap, text, parts)) = Together(Texts(heap, text, parts))
      /\ FlattenSeq(FullTexts(heap, full, parts)) = Together(FullTexts(heap, full, parts))
  <2>1. \A k \in 1..Len(parts) : BothWritten(heap, text, full, parts[k])
    BY <1>1, <1>2, Zenon
  <2>2. Len(parts) \in 1..5
    BY <1>1
  <2>. QED BY <2>1, <2>2, FewTexts
<1>4. Len(Texts(heap, text, parts)) = 3 /\ Len(FullTexts(heap, full, parts)) = 3
  BY ONLY <1>1 DEF Texts, FullTexts
<1>5. /\ Texts(heap, text, parts)[1] = PartText(heap, text, p)
      /\ FullTexts(heap, full, parts)[1] = FullText(heap, full, p)
  BY ONLY <1>1 DEF Texts, FullTexts
<1>6. /\ Texts(heap, text, parts)[2] = PartText(heap, text, q)
      /\ FullTexts(heap, full, parts)[2] = FullText(heap, full, q)
  BY ONLY <1>1 DEF Texts, FullTexts
<1>7. /\ Texts(heap, text, parts)[3] = PartText(heap, text, r)
      /\ FullTexts(heap, full, parts)[3] = FullText(heap, full, r)
  BY ONLY <1>1 DEF Texts, FullTexts
<1>9. /\ Together(Texts(heap, text, parts))
           = Texts(heap, text, parts)[1] \o Texts(heap, text, parts)[2] \o Texts(heap, text, parts)[3]
      /\ Together(FullTexts(heap, full, parts))
           = FullTexts(heap, full, parts)[1] \o FullTexts(heap, full, parts)[2] \o FullTexts(heap, full, parts)[3]
  BY <1>4, TogetherParts, Zenon
<1>10. /\ FlattenSeq(Texts(heap, text, parts))
            = PartText(heap, text, p) \o PartText(heap, text, q) \o PartText(heap, text, r)
       /\ FlattenSeq(FullTexts(heap, full, parts))
            = FullText(heap, full, p) \o FullText(heap, full, q) \o FullText(heap, full, r)
  BY <1>3, <1>5, <1>6, <1>7, <1>9, Zenon
<1>. QED BY <1>10, Zenon DEF parts, WrittenAs

\* The same of three.
LEMMA CongruentThree ==
  ASSUME NEW heap, NEW n, NEW collates, NEW place, NEW p, NEW q, NEW r, NEW level,
         \A text, full : Given(heap, n, collates, <<p, q, r>>, text, full, place) =>
           /\ BothWritten(heap, text, full, p) /\ BothWritten(heap, text, full, q)
           /\ BothWritten(heap, text, full, r)
           /\ Alike(PartText(heap, text, p) \o PartText(heap, text, q) \o PartText(heap, text, r),
                    FullText(heap, full, p) \o FullText(heap, full, q) \o FullText(heap, full, r),
                    level, place)
  PROVE  Congruent(heap, n, collates, <<p, q, r>>, level, place)
<1>. DEFINE parts == <<p, q, r>>
<1>1. ASSUME NEW text, NEW full, Given(heap, n, collates, parts, text, full, place)
      PROVE  Alike(FlattenSeq(Texts(heap, text, parts)), FlattenSeq(FullTexts(heap, full, parts)), level, place)
  <2>1. /\ BothWritten(heap, text, full, p) /\ BothWritten(heap, text, full, q)
        /\ BothWritten(heap, text, full, r)
    BY <1>1, Zenon
  <2>2. Alike(PartText(heap, text, p) \o PartText(heap, text, q) \o PartText(heap, text, r),
              FullText(heap, full, p) \o FullText(heap, full, q) \o FullText(heap, full, r), level, place)
    BY <1>1, Zenon
  <2>3. WrittenAs(heap, text, full, parts,
                  PartText(heap, text, p) \o PartText(heap, text, q) \o PartText(heap, text, r),
                  FullText(heap, full, p) \o FullText(heap, full, q) \o FullText(heap, full, r))
    BY ONLY <2>1, ThreeTexts, Zenon
  <2>. QED BY <2>2, <2>3, Zenon DEF WrittenAs
<1>. HIDE DEF parts
<1>2. Congruent(heap, n, collates, parts, level, place)
  BY <1>1, Zenon DEF Congruent
<1>. QED BY <1>2 DEF parts

\* A node of four parts.
LEMMA FourTexts ==
  ASSUME NEW heap, NEW text, NEW full, NEW p, NEW q, NEW r, NEW s,
         BothWritten(heap, text, full, p), BothWritten(heap, text, full, q),
         BothWritten(heap, text, full, r), BothWritten(heap, text, full, s)
  PROVE  WrittenAs(heap, text, full, <<p, q, r, s>>,
                   (PartText(heap, text, p) \o PartText(heap, text, q) \o PartText(heap, text, r))
                    \o PartText(heap, text, s),
                   (FullText(heap, full, p) \o FullText(heap, full, q) \o FullText(heap, full, r))
                    \o FullText(heap, full, s))
<1>. DEFINE parts == <<p, q, r, s>>
<1>1. Len(parts) = 4 /\ parts[1] = p /\ parts[2] = q /\ parts[3] = r /\ parts[4] = s
  OBVIOUS
<1>. HIDE DEF parts
<1>2. \A k \in 1..Len(parts) : k = 1 \/ k = 2 \/ k = 3 \/ k = 4
  BY <1>1
<1>3. /\ FlattenSeq(Texts(heap, text, parts)) = Together(Texts(heap, text, parts))
      /\ FlattenSeq(FullTexts(heap, full, parts)) = Together(FullTexts(heap, full, parts))
  <2>1. \A k \in 1..Len(parts) : BothWritten(heap, text, full, parts[k])
    BY <1>1, <1>2, Zenon
  <2>2. Len(parts) \in 1..5
    BY <1>1
  <2>. QED BY <2>1, <2>2, FewTexts
<1>4. Len(Texts(heap, text, parts)) = 4 /\ Len(FullTexts(heap, full, parts)) = 4
  BY ONLY <1>1 DEF Texts, FullTexts
<1>5. /\ Texts(heap, text, parts)[1] = PartText(heap, text, p)
      /\ FullTexts(heap, full, parts)[1] = FullText(heap, full, p)
  BY ONLY <1>1 DEF Texts, FullTexts
<1>6. /\ Texts(heap, text, parts)[2] = PartText(heap, text, q)
      /\ FullTexts(heap, full, parts)[2] = FullText(heap, full, q)
  BY ONLY <1>1 DEF Texts, FullTexts
<1>7. /\ Texts(heap, text, parts)[3] = PartText(heap, text, r)
      /\ FullTexts(heap, full, parts)[3] = FullText(heap, full, r)
  BY ONLY <1>1 DEF Texts, FullTexts
<1>8. /\ Texts(heap, text, parts)[4] = PartText(heap, text, s)
      /\ FullTexts(heap, full, parts)[4] = FullText(heap, full, s)
  BY ONLY <1>1 DEF Texts, FullTexts
<1>9. /\ Together(Texts(heap, text, parts))
           = (Texts(heap, text, parts)[1] \o Texts(heap, text, parts)[2] \o Texts(heap, text, parts)[3]) \o Texts(heap, text, parts)[4]
      /\ Together(FullTexts(heap, full, parts))
           = (FullTexts(heap, full, parts)[1] \o FullTexts(heap, full, parts)[2] \o FullTexts(heap, full, parts)[3]) \o FullTexts(heap, full, parts)[4]
  BY <1>4, TogetherParts, Zenon
<1>10. /\ FlattenSeq(Texts(heap, text, parts))
            = (PartText(heap, text, p) \o PartText(heap, text, q) \o PartText(heap, text, r))
                 \o PartText(heap, text, s)
       /\ FlattenSeq(FullTexts(heap, full, parts))
            = (FullText(heap, full, p) \o FullText(heap, full, q) \o FullText(heap, full, r))
                 \o FullText(heap, full, s)
  BY <1>3, <1>5, <1>6, <1>7, <1>8, <1>9, Zenon
<1>. QED BY <1>10, Zenon DEF parts, WrittenAs

\* The same of four.
LEMMA CongruentFour ==
  ASSUME NEW heap, NEW n, NEW collates, NEW place, NEW p, NEW q, NEW r, NEW s, NEW level,
         \A text, full : Given(heap, n, collates, <<p, q, r, s>>, text, full, place) =>
           /\ BothWritten(heap, text, full, p) /\ BothWritten(heap, text, full, q)
           /\ BothWritten(heap, text, full, r) /\ BothWritten(heap, text, full, s)
           /\ Alike((PartText(heap, text, p) \o PartText(heap, text, q) \o PartText(heap, text, r))
                 \o PartText(heap, text, s),
                    (FullText(heap, full, p) \o FullText(heap, full, q) \o FullText(heap, full, r))
                 \o FullText(heap, full, s),
                    level, place)
  PROVE  Congruent(heap, n, collates, <<p, q, r, s>>, level, place)
<1>. DEFINE parts == <<p, q, r, s>>
<1>1. ASSUME NEW text, NEW full, Given(heap, n, collates, parts, text, full, place)
      PROVE  Alike(FlattenSeq(Texts(heap, text, parts)), FlattenSeq(FullTexts(heap, full, parts)), level, place)
  <2>1. /\ BothWritten(heap, text, full, p) /\ BothWritten(heap, text, full, q)
        /\ BothWritten(heap, text, full, r) /\ BothWritten(heap, text, full, s)
    BY <1>1, Zenon
  <2>2. Alike((PartText(heap, text, p) \o PartText(heap, text, q) \o PartText(heap, text, r))
                 \o PartText(heap, text, s),
              (FullText(heap, full, p) \o FullText(heap, full, q) \o FullText(heap, full, r))
                 \o FullText(heap, full, s), level, place)
    BY <1>1, Zenon
  <2>3. WrittenAs(heap, text, full, parts,
                  (PartText(heap, text, p) \o PartText(heap, text, q) \o PartText(heap, text, r))
                 \o PartText(heap, text, s),
                  (FullText(heap, full, p) \o FullText(heap, full, q) \o FullText(heap, full, r))
                 \o FullText(heap, full, s))
    BY ONLY <2>1, FourTexts, Zenon
  <2>. QED BY <2>2, <2>3, Zenon DEF WrittenAs
<1>. HIDE DEF parts
<1>2. Congruent(heap, n, collates, parts, level, place)
  BY <1>1, Zenon DEF Congruent
<1>. QED BY <1>2 DEF parts

\* Nodes the earlier ones of which have a precedence of the enum.
Ranked(heap, n) == \A j \in 1..n : heap[j].precedence \in 0..17

\* A fragment is written the same either way.
LEMMA FragmentWritten ==
  ASSUME NEW heap, NEW text, NEW full, NEW t \in Text
  PROVE  /\ BothWritten(heap, text, full, Fragment(t))
         /\ PartText(heap, text, Fragment(t)) = t
         /\ FullText(heap, full, Fragment(t)) = t
BY FragmentTexts, ZenonT(60) DEF BothWritten

\* The true level of a node is one of the table.
LEMMA GradeRanked ==
  ASSUME NEW node, node.precedence \in 0..17
  PROVE  Grade(node) \in 0..17 /\ (node.precedence < 17 => Grade(node) < 17)
BY DEF Grade, Looser, kNot, kUnaryPlus

\* An operand whose context is no dot, with its brackets and in them.
ChildWritten(heap, text, full, i, context) ==
  /\ PartText(heap, text, ChildRef(i, context))
       = IF NeedsParens(heap[i].precedence, context) THEN <<"(">> \o text[i] \o <<")">>
         ELSE text[i]
  /\ FullText(heap, full, ChildRef(i, context)) = <<"(">> \o full[i] \o <<")">>

\* Every operand whose context is no dot is written so (ToString, node.cpp).
LEMMA ChildTexts ==
  ASSUME NEW heap, NEW text, NEW full, NEW i, i # 0, NEW context, context # 1
  PROVE  ChildWritten(heap, text, full, i, context)
BY DEF ChildWritten, PartText, FullText, ChildRef, kDot

\* In brackets, it may stand anywhere.
LEMMA NodeBracketed ==
  ASSUME HonestOperators, NEW node, node.precedence \in 0..17, NEW collated, NEW a, NEW b,
         NodeAlike(node, collated, a, b)
  PROVE  RefersAlike(<<"(">> \o a \o <<")">>, <<"(">> \o b \o <<")">>)
<1>1. Alike(a, b, Grade(node), "anywhere")
  <2>1. "anywhere" # "bound"
    OBVIOUS
  <2>. QED BY <2>1, Zenon DEF NodeAlike
<1>2. Grade(node) \in 0..17
  BY GradeRanked
<1>. QED BY <1>1, <1>2, AlikeBracketed, Zenon

\* Its true level is one that may stand bare there, and it shows no COLLATE.
MayStand(node, collated, level, place) ==
  Grade(node) <= level /\ (place = "bound" => ~collated)

\* Without them, where its true level may.
LEMMA NodeBare ==
  ASSUME HonestOperators, NEW node, node.precedence \in 0..17, NEW collated, NEW a, NEW b,
         NodeAlike(node, collated, a, b), NEW level \in 0..17, NEW place,
         MayStand(node, collated, level, place)
  PROVE  Alike(a, <<"(">> \o b \o <<")">>, level, place)
<1>1. Alike(a, b, Grade(node), place)
  BY Zenon DEF NodeAlike, MayStand
<1>2. Grade(node) \in 0..17 /\ level \in Grade(node)..17
  <2>1. Grade(node) \in 0..17
    BY GradeRanked
  <2>. QED BY <2>1 DEF MayStand
<1>. QED BY <1>1, <1>2, AlikeBare, Zenon

\* If it is left bare, an operand may stand bare where operators of this level may.
BareFits(node, context, collated, level, place) ==
  ~NeedsParens(node.precedence, context) => MayStand(node, collated, level, place)

\* An operand of an operator.
LEMMA OperandTexts ==
  ASSUME HonestOperators, NEW heap, NEW i, i # 0, heap[i].precedence \in 0..17,
         NEW collated, NEW text, NEW full, NodeAlike(heap[i], collated, text[i], full[i]),
         NEW context \in 2..17, NEW level \in 0..17, NEW place,
         BareFits(heap[i], context, collated, level, place)
  PROVE  /\ Alike(PartText(heap, text, ChildRef(i, context)),
                  FullText(heap, full, ChildRef(i, context)), level, place)
         /\ BothWritten(heap, text, full, ChildRef(i, context))
<1>. DEFINE a == PartText(heap, text, ChildRef(i, context))
<1>. DEFINE b == FullText(heap, full, ChildRef(i, context))
<1>1. /\ a = IF NeedsParens(heap[i].precedence, context) THEN <<"(">> \o text[i] \o <<")">>
             ELSE text[i]
      /\ b = <<"(">> \o full[i] \o <<")">>
  <2>1. context # 1
    OBVIOUS
  <2>2. ChildWritten(heap, text, full, i, context)
    BY <2>1, ChildTexts, Zenon
  <2>. QED BY ONLY <2>2, Zenon DEF ChildWritten, a, b
<1>. HIDE DEF a, b
<1>2. Alike(a, b, level, place)
  <2>1. CASE NeedsParens(heap[i].precedence, context)
    <3>1. RefersAlike(<<"(">> \o text[i] \o <<")">>, <<"(">> \o full[i] \o <<")">>)
      BY NodeBracketed, Zenon
    <3>2. RefersAlike(a, b)
      BY <1>1, <2>1, <3>1, Zenon
    <3>. QED BY <3>2, RefersAlikeReads, Zenon
  <2>2. CASE ~NeedsParens(heap[i].precedence, context)
    <3>0. MayStand(heap[i], collated, level, place)
      BY <2>2, Zenon DEF BareFits
    <3>1. Alike(text[i], <<"(">> \o full[i] \o <<")">>, level, place)
      BY <3>0, NodeBare, Zenon
    <3>. QED BY <1>1, <2>2, <3>1, Zenon
  <2>. QED BY <2>1, <2>2, Zenon
<1>3. a \in Text /\ b \in Text
  BY <1>2, AlikeTyped, Zenon
<1>. QED BY <1>2, <1>3, Zenon DEF a, b, BothWritten

\* What Fitting says of an operand that an operator leaves bare.
LEMMA FittingBare ==
  ASSUME NEW heap, NEW collates, NEW parts, NEW k, Fitting(heap, collates, parts, k),
         NEW i, i # 0, NEW context \in 4..16, parts[k] = ChildRef(i, context),
         heap[i].precedence \in 0..17, ~NeedsParens(heap[i].precedence, context)
  PROVE  /\ Grade(heap[i]) <= context - 1 /\ Bare(heap, parts[k])
         /\ Behind(parts, k, BetweenTexts) => ~collates[i]
<1>1. /\ parts[k].node = i /\ parts[k].context = context /\ ~Enclosed(parts[k])
      /\ Bare(heap, parts[k])
  BY DEF ChildRef, Enclosed, Bare, kTypecast, kExtract
<1>2. heap[i].precedence < context
  BY DEF NeedsParens
<1>. DEFINE grade == Grade(heap[i])
<1>3. grade \in 0..17
  BY GradeRanked
<1>4. /\ grade = heap[i].precedence \/ grade < context
      /\ Behind(parts, k, BetweenTexts) => ~collates[i]
  BY <1>1, Zenon DEF Fitting
<1>. HIDE DEF grade
<1>5. grade <= context - 1
  BY <1>2, <1>3, <1>4
<1>. QED BY <1>1, <1>4, <1>5 DEF grade

\* A COLLATE of an operand left bare shows.
LEMMA BareOutside ==
  ASSUME NEW heap, NEW collates, NEW parts, NEW k \in 1..Len(parts), NEW i, i # 0, NEW context,
         parts[k] = ChildRef(i, context), Bare(heap, parts[k]), collates[i]
  PROVE  Outside(heap, collates, parts)
<1>1. parts[k].node = i
  BY DEF ChildRef
<1>. QED BY <1>1, Zenon DEF Outside

\* An operand of an operator of the node at hand.
LEMMA OperandWritten ==
  ASSUME HonestOperators, NEW heap, NEW n \in Nat, NEW collates, NEW place, Ranked(heap, n), NEW parts,
         NEW text, NEW full, Given(heap, n, collates, parts, text, full, place),
         NEW k \in 1..Len(parts), NEW i \in 1..n, NEW context \in 4..16, parts[k] = ChildRef(i, context)
  PROVE  /\ BothWritten(heap, text, full, ChildRef(i, context))
         /\ Alike(PartText(heap, text, ChildRef(i, context)),
                  FullText(heap, full, ChildRef(i, context)), context - 1, place)
<1>1. i # 0 /\ heap[i].precedence \in 0..17 /\ NodeAlike(heap[i], collates[i], text[i], full[i])
  BY DEF Ranked, Given, NodesAlike
<1>2. Fitting(heap, collates, parts, k) /\ (place = "bound" => ~Outside(heap, collates, parts))
  BY DEF Given
<1>3. BareFits(heap[i], context, collates[i], context - 1, place)
  <2>. SUFFICES ASSUME ~NeedsParens(heap[i].precedence, context)
                PROVE  Grade(heap[i]) <= context - 1 /\ (place = "bound" => ~collates[i])
    BY Zenon DEF BareFits, MayStand
  <2>1. Grade(heap[i]) <= context - 1 /\ Bare(heap, parts[k])
    BY <1>1, <1>2, FittingBare, Zenon
  <2>2. collates[i] => Outside(heap, collates, parts)
    BY <1>1, <2>1, BareOutside, Zenon
  <2>. QED BY <1>2, <2>1, <2>2, Zenon
<1>4. context \in 2..17 /\ context - 1 \in 0..17
  OBVIOUS
<1>. QED BY <1>1, <1>3, <1>4, OperandTexts, Zenon

\* What an infix operator is written as.
LEMMA InfixText ==
  ASSUME NEW op
  PROVE  Infix(op).text = <<" ", op, " ">>
BY DEF Infix, Fragment

\* The lower bound of a BETWEEN.
LEMMA BoundWritten ==
  ASSUME HonestOperators, NEW heap, NEW n \in Nat, NEW collates, NEW place, Ranked(heap, n), NEW parts,
         NEW text, NEW full, Given(heap, n, collates, parts, text, full, place),
         NEW k \in 2..Len(parts), NEW i \in 1..n, NEW context \in 4..16, parts[k] = ChildRef(i, context),
         NEW op \in BetweenWords, parts[k-1] = Infix(op), k \in 1..Len(parts)
  PROVE  /\ BothWritten(heap, text, full, ChildRef(i, context))
         /\ Alike(PartText(heap, text, ChildRef(i, context)),
                  FullText(heap, full, ChildRef(i, context)), context - 1, "bound")
<1>1. i # 0 /\ heap[i].precedence \in 0..17 /\ NodeAlike(heap[i], collates[i], text[i], full[i])
  BY DEF Ranked, Given, NodesAlike
<1>2. Fitting(heap, collates, parts, k)
  BY DEF Given
<1>3. Behind(parts, k, BetweenTexts)
  <2>1. k > 1
    OBVIOUS
  <2>2. parts[k-1].text = <<" ", op, " ">>
    BY InfixText, Zenon
  <2>. QED BY <2>1, <2>2, Zenon DEF Behind, BetweenTexts
<1>4. BareFits(heap[i], context, collates[i], context - 1, "bound")
  <2>. SUFFICES ASSUME ~NeedsParens(heap[i].precedence, context)
                PROVE  Grade(heap[i]) <= context - 1 /\ ~collates[i]
    BY Zenon DEF BareFits, MayStand
  <2>. QED BY <1>1, <1>2, <1>3, FittingBare, Zenon
<1>5. context \in 2..17 /\ context - 1 \in 0..17
  OBVIOUS
<1>. QED BY <1>1, <1>4, <1>5, OperandTexts, Zenon

\* An operand in brackets the node writes itself.
LEMMA EnclosedWritten ==
  ASSUME HonestOperators, NEW heap, NEW n \in Nat, NEW collates, Ranked(heap, n),
         NEW text, NEW full, NodesAlike(heap, n, collates, text, full),
         NEW i \in 1..n, NEW context \in {2, 17}
  PROVE  /\ BothWritten(heap, text, full, ChildRef(i, context))
         /\ Alike(PartText(heap, text, ChildRef(i, context)),
                  FullText(heap, full, ChildRef(i, context)), 16, "anywhere")
<1>1. i # 0 /\ heap[i].precedence \in 0..17 /\ NodeAlike(heap[i], collates[i], text[i], full[i])
  BY DEF Ranked, NodesAlike
<1>2. BareFits(heap[i], context, collates[i], 16, "anywhere")
  <2>. SUFFICES ASSUME ~NeedsParens(heap[i].precedence, context)
                PROVE  Grade(heap[i]) <= 16
    BY Zenon DEF BareFits, MayStand
  <2>1. heap[i].precedence < 17
    BY <1>1 DEF NeedsParens
  <2>2. Grade(heap[i]) \in 0..17 /\ Grade(heap[i]) < 17
    BY <1>1, <2>1, GradeRanked
  <2>. QED BY <2>2
<1>3. context \in 2..17 /\ 16 \in 0..17
  OBVIOUS
<1>. QED BY <1>1, <1>2, <1>3, OperandTexts, Zenon

-----------------------------------------------------------------------------
\* The parts of a tuple.
LEMMA TupleParts ==
  /\ \A a, b : Len(<<a, b>>) = 2 /\ <<a, b>>[1] = a /\ <<a, b>>[2] = b
  /\ \A a, b, c : /\ Len(<<a, b, c>>) = 3
                  /\ <<a, b, c>>[1] = a /\ <<a, b, c>>[2] = b /\ <<a, b, c>>[3] = c
  /\ \A a, b, c, d : /\ Len(<<a, b, c, d>>) = 4
                     /\ <<a, b, c, d>>[1] = a /\ <<a, b, c, d>>[2] = b
                     /\ <<a, b, c, d>>[3] = c /\ <<a, b, c, d>>[4] = d
OBVIOUS

\* An infix operator with its operands.
LEMMA InfixCongruent ==
  ASSUME HonestOperators, NEW heap, NEW n \in Nat, NEW collates, NEW place, Ranked(heap, n),
         NEW a \in 1..n, NEW b \in 1..n,
         NEW op \in Tokens, NEW level \in 4..16, BindsInfix(op, level) \/ (op = "AND" /\ level = 15)
  PROVE  Congruent(heap, n, collates, InfixParts(op, a, b, level), level, place)
<1>. DEFINE left   == ChildRef(a, level)
<1>. DEFINE right  == ChildRef(b, level)
<1>. DEFINE spaced == <<" ", op, " ">>
<1>. DEFINE mid    == Fragment(spaced)
<1>. DEFINE parts  == <<left, mid, right>>
<1>1. spaced \in Text
  BY FragmentsTyped, WordsTyped, Zenon
<1>2. /\ 1 \in 1..Len(parts) /\ parts[1] = ChildRef(a, level)
      /\ 3 \in 1..Len(parts) /\ parts[3] = ChildRef(b, level)
  <2>1. Len(parts) = 3 /\ parts[1] = left /\ parts[3] = right
    BY TupleParts, Zenon
  <2>. HIDE DEF parts
  <2>. QED BY <2>1
<1>. HIDE DEF parts
<1>3. ASSUME NEW text, NEW full, Given(heap, n, collates, parts, text, full, place)
      PROVE  /\ BothWritten(heap, text, full, left) /\ BothWritten(heap, text, full, mid)
             /\ BothWritten(heap, text, full, right)
             /\ Alike(PartText(heap, text, left) \o PartText(heap, text, mid)
                        \o PartText(heap, text, right),
                      FullText(heap, full, left) \o FullText(heap, full, mid)
                        \o FullText(heap, full, right),
                      level, place)
  <2>. DEFINE la == PartText(heap, text, left)
  <2>. DEFINE lf == FullText(heap, full, left)
  <2>. DEFINE ra == PartText(heap, text, right)
  <2>. DEFINE rf == FullText(heap, full, right)
  <2>1. BothWritten(heap, text, full, left) /\ Alike(la, lf, level - 1, place)
    BY <1>2, <1>3, OperandWritten, Zenon
  <2>2. BothWritten(heap, text, full, right) /\ Alike(ra, rf, level - 1, place)
    BY <1>2, <1>3, OperandWritten, Zenon
  <2>3. /\ PartText(heap, text, mid) = spaced /\ FullText(heap, full, mid) = spaced
        /\ BothWritten(heap, text, full, mid)
    <3>. HIDE DEF spaced
    <3>. QED BY <1>1, FragmentWritten
  <2>4. Alike(la \o spaced \o ra, lf \o spaced \o rf, level, place)
    <3>. HIDE DEF la, lf, ra, rf
    <3>. QED BY <2>1, <2>2, AlikeInfix
  <2>. HIDE DEF spaced, mid
  <2>. QED BY <2>1, <2>2, <2>3, <2>4, Zenon
<1>4. Congruent(heap, n, collates, <<left, mid, right>>, level, place)
  <2>. HIDE DEF left, right, mid
  <2>. QED BY <1>3, CongruentThree DEF parts
<1>. QED BY <1>4, Zenon DEF InfixParts, Infix

\* The second of two.
LEMMA SecondOfTwo ==
  ASSUME NEW t, Len(t) = 2
  PROVE  2 \in 1..Len(t)
OBVIOUS

\* What a fragment is made of.
LEMMA FragmentParts ==
  ASSUME NEW t
  PROVE  Fragment(t).node = 0 /\ Fragment(t).text = t
BY DEF Fragment

\* A prefix operator with its operand, with a space and without.
LEMMA PrefixCongruent ==
  ASSUME HonestOperators, NEW heap, NEW n \in Nat, NEW collates, NEW place, Ranked(heap, n),
         NEW x \in 1..n, NEW op \in Tokens, NEW level \in 4..16, BindsPrefix(op, level),
         NEW lead \in {<<op, " ">>, <<op>>}
  PROVE  Congruent(heap, n, collates, <<Fragment(lead), ChildRef(x, level)>>, level, place)
<1>. DEFINE right == ChildRef(x, level)
<1>. DEFINE mark  == Fragment(lead)
<1>. DEFINE parts == <<mark, right>>
<1>1. lead \in Text
  BY FragmentsTyped, WordsTyped, Zenon
<1>2. 2 \in 1..Len(parts) /\ parts[2] = ChildRef(x, level)
  <2>1. Len(parts) = 2 /\ parts[2] = right
    BY TupleParts, Zenon
  <2>. HIDE DEF parts, right
  <2>2. 2 \in 1..Len(parts)
    BY <2>1, SecondOfTwo, Zenon
  <2>. QED BY <2>1, <2>2 DEF right
<1>3. \A b, b2 : Alike(b, b2, level - 1, place) => Alike(lead \o b, lead \o b2, level, place)
  BY AlikePrefix, Zenon
<1>. HIDE DEF parts
<1>4. ASSUME NEW text, NEW full, Given(heap, n, collates, parts, text, full, place)
      PROVE  /\ BothWritten(heap, text, full, mark) /\ BothWritten(heap, text, full, right)
             /\ Alike(PartText(heap, text, mark) \o PartText(heap, text, right),
                      FullText(heap, full, mark) \o FullText(heap, full, right), level, place)
  <2>1. /\ BothWritten(heap, text, full, right)
        /\ Alike(PartText(heap, text, right), FullText(heap, full, right), level - 1, place)
    BY <1>2, <1>4, OperandWritten, Zenon
  <2>2. /\ BothWritten(heap, text, full, mark)
        /\ PartText(heap, text, mark) = lead /\ FullText(heap, full, mark) = lead
    BY <1>1, FragmentWritten
  <2>. HIDE DEF right, mark
  <2>. QED BY <1>3, <2>1, <2>2, Zenon
<1>5. Congruent(heap, n, collates, <<mark, right>>, level, place)
  <2>. HIDE DEF right, mark
  <2>. QED BY <1>4, CongruentTwo DEF parts
<1>. QED BY <1>5, Zenon

\* An operand and a fragment behind it.
LEMMA BehindCongruent ==
  ASSUME HonestOperators, NEW heap, NEW n \in Nat, NEW collates, NEW place, Ranked(heap, n),
         NEW x \in 1..n, NEW level \in 4..16, NEW rest \in Text,
         \A a, a2 : Alike(a, a2, level - 1, place) => Alike(a \o rest, a2 \o rest, level, place)
  PROVE  Congruent(heap, n, collates, <<ChildRef(x, level), Fragment(rest)>>, level, place)
<1>. DEFINE left  == ChildRef(x, level)
<1>. DEFINE mark  == Fragment(rest)
<1>. DEFINE parts == <<left, mark>>
<1>2. 1 \in 1..Len(parts) /\ parts[1] = ChildRef(x, level)
  <2>1. Len(parts) = 2 /\ parts[1] = left
    BY TupleParts, Zenon
  <2>. HIDE DEF parts
  <2>. QED BY <2>1
<1>. HIDE DEF parts
<1>4. ASSUME NEW text, NEW full, Given(heap, n, collates, parts, text, full, place)
      PROVE  /\ BothWritten(heap, text, full, left) /\ BothWritten(heap, text, full, mark)
             /\ Alike(PartText(heap, text, left) \o PartText(heap, text, mark),
                      FullText(heap, full, left) \o FullText(heap, full, mark), level, place)
  <2>1. /\ BothWritten(heap, text, full, left)
        /\ Alike(PartText(heap, text, left), FullText(heap, full, left), level - 1, place)
    BY <1>2, <1>4, OperandWritten, Zenon
  <2>2. /\ BothWritten(heap, text, full, mark)
        /\ PartText(heap, text, mark) = rest /\ FullText(heap, full, mark) = rest
    BY FragmentWritten
  <2>. HIDE DEF left, mark
  <2>. QED BY <2>1, <2>2, Zenon
<1>5. Congruent(heap, n, collates, <<left, mark>>, level, place)
  <2>. HIDE DEF left, mark
  <2>. QED BY <1>4, CongruentTwo DEF parts
<1>. QED BY <1>5, Zenon

\* A postfix operator with its operand; COLLATE only outside of the lower bound of a
\* BETWEEN.
LEMMA PostfixCongruent ==
  ASSUME HonestOperators, NEW heap, NEW n \in Nat, NEW collates, NEW place, Ranked(heap, n),
         NEW x \in 1..n, NEW op \in Tokens, NEW level \in 4..16, BindsPostfix(op, level),
         level >= 11 \/ op = "COLLATE c"
  PROVE  Congruent(heap, n, collates, <<ChildRef(x, level), Fragment(<<" ", op>>)>>, level, place)
<1>. DEFINE rest == <<" ", op>>
<1>1. rest \in Text
  BY FragmentsTyped, Zenon
<1>2. CASE place = "bound" => level >= 11
  <2>1. \A a, a2 : Alike(a, a2, level - 1, place) => Alike(a \o rest, a2 \o rest, level, place)
    BY <1>2, AlikePostfix, Zenon
  <2>. HIDE DEF rest
  <2>2. Congruent(heap, n, collates, <<ChildRef(x, level), Fragment(rest)>>, level, place)
    BY <1>1, <2>1, BehindCongruent, Zenon
  <2>. QED BY <2>2 DEF rest
<1>3. CASE ~(place = "bound" => level >= 11)
  <2>. DEFINE left  == ChildRef(x, level)
  <2>. DEFINE mark  == Fragment(rest)
  <2>. DEFINE parts == <<left, mark>>
  <2>1. Len(parts) = 2 /\ parts[2] = mark
    BY TupleParts, Zenon
  <2>2. mark.node = 0 /\ mark.text = rest
    BY FragmentParts, Zenon
  <2>3. 2 \in 1..Len(rest) /\ rest[2] = "COLLATE c"
    <3>1. op = "COLLATE c"
      BY <1>3
    <3>2. Len(rest) = 2 /\ rest[2] = op
      BY TupleParts, Zenon
    <3>. HIDE DEF rest
    <3>3. 2 \in 1..Len(rest)
      BY <3>2, SecondOfTwo, Zenon
    <3>. QED BY <3>1, <3>2, <3>3, Zenon
  <2>. HIDE DEF parts, mark, rest
  <2>4. \E m \in 1..Len(parts[2].text) : parts[2].text[m] = "COLLATE c"
    BY <2>1, <2>2, <2>3, Zenon
  <2>5. 2 \in 1..Len(parts)
    BY <2>1, SecondOfTwo, Zenon
  <2>6. Outside(heap, collates, parts)
    BY <2>1, <2>2, <2>4, <2>5, Zenon DEF Outside
  <2>7. \A text, full : ~Given(heap, n, collates, parts, text, full, place)
    BY <1>3, <2>6, Zenon DEF Given
  <2>8. Congruent(heap, n, collates, parts, level, place)
    BY <2>7, Zenon DEF Congruent
  <2>. QED BY <2>8 DEF parts, mark, rest
<1>. QED BY <1>2, <1>3, Zenon

\* IN over a subquery, and the quantified comparisons over one.
LEMMA SubqueryCongruent ==
  ASSUME HonestOperators, NEW heap, NEW n \in Nat, NEW collates, NEW place, Ranked(heap, n),
         NEW x \in 1..n, NEW op \in Tokens, NEW level \in 4..16, BindsInfix(op, level),
         NEW query \in Tokens, Plain(query)
  PROVE  Congruent(heap, n, collates,
                   <<ChildRef(x, level), Fragment(<<" ", op, " ">> \o Bracketed(query))>>, level, place)
<1>. DEFINE rest == <<" ", op, " ">> \o Bracketed(query)
<1>1. rest \in Text
  <2>1. <<" ", op, " ">> \in Text /\ Bracketed(query) \in Text
    BY FragmentsTyped, Zenon
  <2>. QED BY <2>1, WordsTyped, Zenon
<1>2. \A a, a2 : Alike(a, a2, level - 1, place) => Alike(a \o rest, a2 \o rest, level, place)
  BY AlikeInfixSubquery, Zenon
<1>. HIDE DEF rest
<1>3. Congruent(heap, n, collates, <<ChildRef(x, level), Fragment(rest)>>, level, place)
  BY <1>1, <1>2, BehindCongruent, Zenon
<1>. QED BY <1>3, Zenon DEF rest

\* CAST, whose operand is within its brackets.
LEMMA CastCongruent ==
  ASSUME HonestOperators, NEW heap, NEW n \in Nat, NEW collates, NEW place, Ranked(heap, n),
         NEW x \in 1..n
  PROVE  Congruent(heap, n, collates, <<Fragment(<<"CAST", " ", "(">>), ChildRef(x, 2),
                              Fragment(<<" ", "AS t", ")">>)>>, 2, place)
<1>. DEFINE lead == <<"CAST", " ", "(">>
<1>. DEFINE mid  == ChildRef(x, 2)
<1>. DEFINE rest == <<" ", "AS t", ")">>
<1>1. lead \in Text /\ rest \in Text
  BY Keywords, WordsTyped, Zenon
<1>2. \A a, a2 : Alike(a, a2, 16, "anywhere") => Alike(lead \o a \o rest, lead \o a2 \o rest, 2, place)
  <2>1. TAKE a, a2
  <2>2. HAVE Alike(a, a2, 16, "anywhere")
  <2>3. Alike(lead \o a \o rest, lead \o a2 \o rest, 0, place)
    BY <2>2, AlikeCast, Zenon
  <2>. HIDE DEF lead, rest
  <2>. DEFINE s == lead \o a \o rest
  <2>. DEFINE t == lead \o a2 \o rest
  <2>4. Alike(s, t, 0, place)
    BY <2>3
  <2>. HIDE DEF s, t
  <2>5. Alike(s, t, 2, place)
    BY <2>4, AlikeLoosely
  <2>. QED BY <2>5 DEF s, t
<1>. HIDE DEF lead, rest
<1>. DEFINE front == Fragment(lead)
<1>. DEFINE back  == Fragment(rest)
<1>3. ASSUME NEW text, NEW full, Given(heap, n, collates, <<front, mid, back>>, text, full, place)
      PROVE  /\ BothWritten(heap, text, full, front) /\ BothWritten(heap, text, full, mid)
             /\ BothWritten(heap, text, full, back)
             /\ Alike(PartText(heap, text, front) \o PartText(heap, text, mid) \o PartText(heap, text, back),
                      FullText(heap, full, front) \o FullText(heap, full, mid) \o FullText(heap, full, back),
                      2, place)
  <2>1. 2 \in {2, 17} /\ NodesAlike(heap, n, collates, text, full)
    BY <1>3 DEF Given
  <2>2. /\ BothWritten(heap, text, full, mid)
        /\ Alike(PartText(heap, text, mid), FullText(heap, full, mid), 16, "anywhere")
    BY <2>1, EnclosedWritten, Zenon
  <2>3. /\ BothWritten(heap, text, full, front) /\ BothWritten(heap, text, full, back)
        /\ PartText(heap, text, front) = lead /\ FullText(heap, full, front) = lead
        /\ PartText(heap, text, back) = rest /\ FullText(heap, full, back) = rest
    BY <1>1, FragmentWritten
  <2>. HIDE DEF front, mid, back
  <2>. QED BY <1>2, <2>2, <2>3, Zenon
<1>4. Congruent(heap, n, collates, <<front, mid, back>>, 2, place)
  <2>. HIDE DEF front, mid, back
  <2>. QED BY <1>3, CongruentThree
<1>. QED BY <1>4, Zenon DEF lead, rest

\* = ANY and <> ALL over an array.
LEMMA QuantifiedCongruent ==
  ASSUME HonestOperators, NEW heap, NEW n \in Nat, NEW collates, NEW place, Ranked(heap, n),
         NEW a \in 1..n, NEW b \in 1..n,
         NEW op \in Tokens, NEW level \in 4..16, BindsInfix(op, level)
  PROVE  Congruent(heap, n, collates, <<ChildRef(a, level), Fragment(<<" ", op, " ", "(">>),
                              ChildRef(b, 17), Fragment(<<")">>)>>, level, place)
<1>. DEFINE left  == ChildRef(a, level)
<1>. DEFINE open  == <<" ", op, " ", "(">>
<1>. DEFINE inner == ChildRef(b, 17)
<1>. DEFINE close == <<")">>
<1>1. open \in Text /\ close \in Text
  BY Keywords, WordsTyped, FragmentsTyped, Zenon
<1>2. \A c, c2, d, d2 : Alike(c, c2, level - 1, place) /\ Alike(d, d2, 16, "anywhere") =>
        Alike((c \o open \o d) \o close, (c2 \o open \o d2) \o close, level, place)
  <2>1. TAKE c, c2, d, d2
  <2>2. HAVE Alike(c, c2, level - 1, place) /\ Alike(d, d2, 16, "anywhere")
  <2>3. d \in Text /\ d2 \in Text
    BY <2>2, AlikeTyped, Zenon
  <2>4. Alike(<<"(">> \o d \o <<")">>, <<"(">> \o d2 \o <<")">>, 0, place)
    <3>1. 16 \in 0..17
      OBVIOUS
    <3>2. RefersAlike(<<"(">> \o d \o <<")">>, <<"(">> \o d2 \o <<")">>)
      BY <2>2, <3>1, AlikeBracketed, Zenon
    <3>. QED BY <3>2, RefersAlikeReads, Zenon
  <2>. QED BY <2>2, <2>3, <2>4, AlikeInfixBracketed, Zenon
<1>. HIDE DEF open, close
<1>. DEFINE front == Fragment(open)
<1>. DEFINE back  == Fragment(close)
<1>. DEFINE parts == <<left, front, inner, back>>
<1>3. 1 \in 1..Len(parts) /\ parts[1] = ChildRef(a, level)
  <2>1. Len(parts) = 4 /\ parts[1] = left
    BY TupleParts, Zenon
  <2>. HIDE DEF parts
  <2>. QED BY <2>1
<1>. HIDE DEF parts
<1>4. ASSUME NEW text, NEW full, Given(heap, n, collates, parts, text, full, place)
      PROVE  /\ BothWritten(heap, text, full, left) /\ BothWritten(heap, text, full, front)
             /\ BothWritten(heap, text, full, inner) /\ BothWritten(heap, text, full, back)
             /\ Alike((PartText(heap, text, left) \o PartText(heap, text, front)
                         \o PartText(heap, text, inner)) \o PartText(heap, text, back),
                      (FullText(heap, full, left) \o FullText(heap, full, front)
                         \o FullText(heap, full, inner)) \o FullText(heap, full, back), level, place)
  <2>1. 17 \in {2, 17} /\ NodesAlike(heap, n, collates, text, full)
    BY <1>4 DEF Given
  <2>2. /\ BothWritten(heap, text, full, left)
        /\ Alike(PartText(heap, text, left), FullText(heap, full, left), level - 1, place)
    BY <1>3, <1>4, OperandWritten, Zenon
  <2>3. /\ BothWritten(heap, text, full, inner)
        /\ Alike(PartText(heap, text, inner), FullText(heap, full, inner), 16, "anywhere")
    BY <2>1, EnclosedWritten, Zenon
  <2>4. /\ BothWritten(heap, text, full, front) /\ BothWritten(heap, text, full, back)
        /\ PartText(heap, text, front) = open /\ FullText(heap, full, front) = open
        /\ PartText(heap, text, back) = close /\ FullText(heap, full, back) = close
    BY <1>1, FragmentWritten
  <2>. HIDE DEF left, front, inner, back
  <2>. QED BY <1>2, <2>2, <2>3, <2>4, Zenon
<1>5. Congruent(heap, n, collates, <<left, front, inner, back>>, level, place)
  <2>. HIDE DEF left, front, inner, back
  <2>. QED BY <1>4, CongruentFour DEF parts
<1>. QED BY <1>5, Zenon DEF open, close

\* The parts of BETWEEN one by one.
LEMMA ThreeAndTwo ==
  ASSUME NEW a, NEW b, NEW c, NEW d, NEW e
  PROVE  /\ Len(<<a, b, c>> \o <<d, e>>) = 5
         /\ (<<a, b, c>> \o <<d, e>>)[1] = a
         /\ (<<a, b, c>> \o <<d, e>>)[2] = b
         /\ (<<a, b, c>> \o <<d, e>>)[3] = c
         /\ (<<a, b, c>> \o <<d, e>>)[4] = d
         /\ (<<a, b, c>> \o <<d, e>>)[5] = e
<1>. DEFINE S == {a, b, c, d, e}
<1>. DEFINE s == <<a, b, c>>
<1>. DEFINE t == <<d, e>>
<1>1. s \in Seq(S) /\ t \in Seq(S) /\ Len(s) = 3 /\ Len(t) = 2
      /\ s[1] = a /\ s[2] = b /\ s[3] = c /\ t[1] = d /\ t[2] = e
  OBVIOUS
<1>. HIDE DEF S, s, t
<1>. DEFINE u == s \o t
<1>2. /\ Len(u) = Len(s) + Len(t)
      /\ \A i \in 1..Len(s)+Len(t) : u[i] = IF i <= Len(s) THEN s[i] ELSE t[i-Len(s)]
  BY <1>1, ConcatProperties
<1>. HIDE DEF u
<1>3. Len(u) = 5 /\ \A i \in 1..5 : u[i] = IF i <= 3 THEN s[i] ELSE t[i-3]
  BY <1>1, <1>2
<1>4. u[1] = s[1] /\ u[2] = s[2] /\ u[3] = s[3] /\ u[4] = t[1] /\ u[5] = t[2]
  BY <1>3
<1>. QED BY <1>1, <1>3, <1>4 DEF s, t, u

\* Its texts put together.
LEMMA FiveTogether ==
  ASSUME NEW P, Len(P) = 5
  PROVE  Together(P) = ((P[1] \o P[2] \o P[3]) \o P[4]) \o P[5]
BY DEF Together

\* A node of five parts.
LEMMA FiveTexts ==
  ASSUME NEW heap, NEW text, NEW full, NEW parts, Len(parts) = 5,
         \A k \in 1..Len(parts) : BothWritten(heap, text, full, parts[k])
  PROVE  WrittenAs(heap, text, full, parts,
           ((PartText(heap, text, parts[1]) \o PartText(heap, text, parts[2])
              \o PartText(heap, text, parts[3])) \o PartText(heap, text, parts[4]))
             \o PartText(heap, text, parts[5]),
           ((FullText(heap, full, parts[1]) \o FullText(heap, full, parts[2])
              \o FullText(heap, full, parts[3])) \o FullText(heap, full, parts[4]))
             \o FullText(heap, full, parts[5]))
<1>. DEFINE P == Texts(heap, text, parts)
<1>. DEFINE Q == FullTexts(heap, full, parts)
<1>1. FlattenSeq(P) = Together(P) /\ FlattenSeq(Q) = Together(Q)
  BY FewTexts
<1>2. /\ Len(P) = 5 /\ \A k \in 1..5 : P[k] = PartText(heap, text, parts[k])
      /\ Len(Q) = 5 /\ \A k \in 1..5 : Q[k] = FullText(heap, full, parts[k])
  BY DEF Texts, FullTexts
<1>. HIDE DEF P, Q
<1>3. /\ Together(P) = ((P[1] \o P[2] \o P[3]) \o P[4]) \o P[5]
      /\ Together(Q) = ((Q[1] \o Q[2] \o Q[3]) \o Q[4]) \o Q[5]
  BY <1>2, FiveTogether
<1>4. 1 \in 1..5 /\ 2 \in 1..5 /\ 3 \in 1..5 /\ 4 \in 1..5 /\ 5 \in 1..5
  OBVIOUS
<1>5. /\ Together(P) = ((PartText(heap, text, parts[1]) \o PartText(heap, text, parts[2])
                           \o PartText(heap, text, parts[3])) \o PartText(heap, text, parts[4]))
                         \o PartText(heap, text, parts[5])
      /\ Together(Q) = ((FullText(heap, full, parts[1]) \o FullText(heap, full, parts[2])
                           \o FullText(heap, full, parts[3])) \o FullText(heap, full, parts[4]))
                         \o FullText(heap, full, parts[5])
  BY <1>2, <1>3, <1>4, Zenon
<1>. QED BY <1>1, <1>5, Zenon DEF P, Q, WrittenAs

\* BETWEEN with its three operands.
LEMMA BetweenCongruent ==
  ASSUME HonestOperators, NEW heap, NEW n \in Nat, NEW collates, NEW place, Ranked(heap, n),
         NEW x \in 1..n, NEW a \in 1..n, NEW b \in 1..n, NEW op \in BetweenWords, op \in Tokens
  PROVE  Congruent(heap, n, collates, InfixParts(op, x, a, 11) \o <<Infix("AND"), ChildRef(b, 11)>>,
                   11, place)
<1>. DEFINE first  == ChildRef(x, 11)
<1>. DEFINE lead   == <<" ", op, " ">>
<1>. DEFINE second == ChildRef(a, 11)
<1>. DEFINE and    == <<" ", "AND", " ">>
<1>. DEFINE third  == ChildRef(b, 11)
<1>. DEFINE parts  == InfixParts(op, x, a, 11) \o <<Infix("AND"), ChildRef(b, 11)>>
<1>1. /\ Len(parts) = 5 /\ parts[1] = first /\ parts[2] = Fragment(lead) /\ parts[3] = second
      /\ parts[4] = Fragment(and) /\ parts[5] = third
  <2>. DEFINE f == Fragment(lead)
  <2>. DEFINE g == Fragment(and)
  <2>1. parts = <<first, f, second>> \o <<g, third>>
    BY DEF InfixParts, Infix
  <2>. HIDE DEF first, f, second, g, third, parts
  <2>2. /\ Len(parts) = 5 /\ parts[1] = first /\ parts[2] = f /\ parts[3] = second
        /\ parts[4] = g /\ parts[5] = third
    BY <2>1, ThreeAndTwo
  <2>. QED BY <2>2 DEF f, g
<1>2. lead \in Text /\ and \in Text
  BY Keywords, WordsTyped, Zenon
<1>3. \A c, c2, d, d2, e, e2 :
        Alike(c, c2, 10, place) /\ Alike(d, d2, 10, "bound") /\ Alike(e, e2, 10, place) =>
        Alike(((c \o lead \o d) \o and) \o e, ((c2 \o lead \o d2) \o and) \o e2, 11, place)
  BY AlikeBetween, Zenon
<1>4. parts[3-1] = Infix(op)
  <2>1. 3 - 1 = 2 /\ Infix(op) = Fragment(lead)
    BY DEF Infix
  <2>. QED BY <1>1, <2>1, Zenon
<1>. HIDE DEF parts, lead, and
<1>5. /\ 11 \in 4..16 /\ 11 - 1 = 10
      /\ 1 \in 1..Len(parts) /\ 3 \in 1..Len(parts) /\ 3 \in 2..Len(parts) /\ 5 \in 1..Len(parts)
      /\ Len(parts) \in 1..5 /\ \A k \in 1..Len(parts) : k = 1 \/ k = 2 \/ k = 3 \/ k = 4 \/ k = 5
  BY <1>1
<1>6. ASSUME NEW text, NEW full, Given(heap, n, collates, parts, text, full, place)
      PROVE  Alike(FlattenSeq(Texts(heap, text, parts)), FlattenSeq(FullTexts(heap, full, parts)), 11, place)
  <2>2. /\ BothWritten(heap, text, full, first)
        /\ Alike(PartText(heap, text, first), FullText(heap, full, first), 11 - 1, place)
    BY <1>1, <1>5, <1>6, OperandWritten, Zenon
  <2>3. /\ BothWritten(heap, text, full, second)
        /\ Alike(PartText(heap, text, second), FullText(heap, full, second), 11 - 1, "bound")
    BY <1>1, <1>4, <1>5, <1>6, BoundWritten, Zenon
  <2>4. /\ BothWritten(heap, text, full, third)
        /\ Alike(PartText(heap, text, third), FullText(heap, full, third), 11 - 1, place)
    BY <1>1, <1>5, <1>6, OperandWritten, Zenon
  <2>5. /\ BothWritten(heap, text, full, Fragment(lead)) /\ BothWritten(heap, text, full, Fragment(and))
        /\ PartText(heap, text, Fragment(lead)) = lead /\ FullText(heap, full, Fragment(lead)) = lead
        /\ PartText(heap, text, Fragment(and)) = and /\ FullText(heap, full, Fragment(and)) = and
    BY <1>2, FragmentWritten
  <2>. HIDE DEF first, second, third
  <2>6. /\ Alike(PartText(heap, text, first), FullText(heap, full, first), 10, place)
        /\ Alike(PartText(heap, text, second), FullText(heap, full, second), 10, "bound")
        /\ Alike(PartText(heap, text, third), FullText(heap, full, third), 10, place)
    BY <1>5, <2>2, <2>3, <2>4, Zenon
  <2>8. \A k \in 1..Len(parts) : BothWritten(heap, text, full, parts[k])
    BY <1>1, <1>5, <2>2, <2>3, <2>4, <2>5, Zenon
  <2>9. WrittenAs(heap, text, full, parts,
           ((PartText(heap, text, first) \o lead \o PartText(heap, text, second)) \o and)
             \o PartText(heap, text, third),
           ((FullText(heap, full, first) \o lead \o FullText(heap, full, second)) \o and)
             \o FullText(heap, full, third))
    BY <1>1, <2>5, <2>8, FiveTexts, Zenon
  <2>. QED BY <1>3, <2>6, <2>9, Zenon DEF WrittenAs
<1>7. Congruent(heap, n, collates, parts, 11, place)
  BY <1>6, Zenon DEF Congruent
<1>. QED BY <1>7 DEF parts

-----------------------------------------------------------------------------
\* Reading alike so as to be selected from goes both ways.
LEMMA RefersAlikeFlips ==
  ASSUME NEW a, NEW b, RefersAlike(a, b)
  PROVE  RefersAlike(b, a)
BY Zenon DEF RefersAlike

\* Such texts are texts.
LEMMA RefersAlikeTyped ==
  ASSUME NEW a, NEW b, RefersAlike(a, b)
  PROVE  a \in Text /\ b \in Text
BY DEF RefersAlike, Refers

\* What the first operand of a dot or of a subscript is written as.
Selected(node, context, text) ==
  IF NeedsParens(node.precedence, context) THEN <<"(">> \o text \o <<")">> ELSE text

Enclosing(node, context, text) ==
  IF context = 1 /\ IsName(node) THEN text ELSE <<"(">> \o text \o <<")">>

SelectionText(heap, text, full, i, context) ==
  /\ PartText(heap, text, ChildRef(i, context)) = Selected(heap[i], context, text[i])
  /\ FullText(heap, full, ChildRef(i, context)) = Enclosing(heap[i], context, full[i])

\* Both follow from the node.
LEMMA SelectedTexts ==
  ASSUME NEW heap, NEW text, NEW full, NEW i, i # 0, NEW context
  PROVE  SelectionText(heap, text, full, i, context)
BY DEF SelectionText, PartText, FullText, ChildRef, kDot, Selected, Enclosing

\* What Fitting says of it.
LEMMA FittingSelected ==
  ASSUME NEW heap, NEW collates, NEW parts, Fitting(heap, collates, parts, 1),
         NEW i, i # 0, NEW context \in {1, 3}, parts[1] = ChildRef(i, context),
         ~NeedsParens(heap[i].precedence, context)
  PROVE  IsReference(heap[i])
<1>1. /\ parts[1].node = i /\ parts[1].context = context /\ ~Enclosed(parts[1])
      /\ Bare(heap, parts[1]) /\ context \in {kDot, kIndex}
  BY DEF ChildRef, Enclosed, Bare, kTypecast, kExtract, kDot, kIndex
<1>. QED BY <1>1, Zenon DEF Fitting

\* One may select from it.
LEMMA SelectedWritten ==
  ASSUME HonestOperators, NEW heap, NEW n \in Nat, NEW collates, NEW place, Ranked(heap, n), NEW parts,
         NEW text, NEW full, Given(heap, n, collates, parts, text, full, place),
         1 \in 1..Len(parts), NEW i \in 1..n, NEW context \in {1, 3}, parts[1] = ChildRef(i, context)
  PROVE  /\ BothWritten(heap, text, full, ChildRef(i, context))
         /\ RefersAlike(PartText(heap, text, ChildRef(i, context)),
                        FullText(heap, full, ChildRef(i, context)))
<1>. DEFINE a == PartText(heap, text, ChildRef(i, context))
<1>. DEFINE b == FullText(heap, full, ChildRef(i, context))
<1>1. i # 0 /\ heap[i].precedence \in 0..17 /\ NodeAlike(heap[i], collates[i], text[i], full[i])
  BY DEF Ranked, Given, NodesAlike
<1>2. Fitting(heap, collates, parts, 1)
  BY DEF Given
<1>3. a = Selected(heap[i], context, text[i]) /\ b = Enclosing(heap[i], context, full[i])
  <2>1. SelectionText(heap, text, full, i, context)
    BY <1>1, SelectedTexts, Zenon
  <2>. QED BY <2>1, Zenon DEF SelectionText
<1>4. IsName(heap[i]) => RefersAlike(text[i], full[i])
  BY <1>1, Zenon DEF NodeAlike, IsReference
<1>5. RefersAlike(<<"(">> \o text[i] \o <<")">>, <<"(">> \o full[i] \o <<")">>)
  BY <1>1, NodeBracketed, Zenon
<1>. HIDE DEF a, b
<1>6. RefersAlike(a, b)
  <2>1. CASE NeedsParens(heap[i].precedence, context) /\ context = 1 /\ IsName(heap[i])
    <3>1. RefersAlike(full[i], text[i])
      BY <1>4, <2>1, RefersAlikeFlips, Zenon
    <3>2. RefersAlike(full[i], <<"(">> \o text[i] \o <<")">>)
      BY <3>1, AlikeHalfBracketed, Zenon
    <3>3. RefersAlike(<<"(">> \o text[i] \o <<")">>, full[i])
      BY <3>2, RefersAlikeFlips, Zenon
    <3>. QED BY <1>3, <2>1, <3>3, Zenon DEF Selected, Enclosing
  <2>2. CASE NeedsParens(heap[i].precedence, context) /\ ~(context = 1 /\ IsName(heap[i]))
    BY <1>3, <1>5, <2>2, Zenon DEF Selected, Enclosing
  <2>3. CASE ~NeedsParens(heap[i].precedence, context)
    <3>1. IsReference(heap[i])
      BY <1>1, <1>2, <2>3, FittingSelected, Zenon
    <3>2. RefersAlike(text[i], full[i])
      BY <1>1, <3>1, Zenon DEF NodeAlike
    <3>3. RefersAlike(text[i], <<"(">> \o full[i] \o <<")">>)
      BY <3>2, AlikeHalfBracketed, Zenon
    <3>. QED BY <1>3, <2>3, <3>2, <3>3, Zenon DEF Selected, Enclosing
  <2>. QED BY <2>1, <2>2, <2>3, Zenon
<1>7. a \in Text /\ b \in Text
  BY <1>6, RefersAlikeTyped, Zenon
<1>. QED BY <1>6, <1>7, Zenon DEF a, b, BothWritten

\* What Fitting says of the field behind a dot.
LEMMA FittingField ==
  ASSUME NEW heap, NEW collates, NEW parts, Fitting(heap, collates, parts, 3),
         NEW i, i # 0, parts[3] = ChildRef(i, 1), parts[2] = Fragment(<<".">>)
  PROVE  IsName(heap[i]) /\ ~NeedsParens(heap[i].precedence, 1)
<1>1. /\ parts[3].node = i /\ parts[3].context = 1 /\ ~Enclosed(parts[3])
      /\ Bare(heap, parts[3]) => ~NeedsParens(heap[i].precedence, 1)
  BY DEF ChildRef, Enclosed, Bare, kTypecast, kExtract
<1>2. Behind(parts, 3, {<<".">>})
  <2>1. parts[2].text = <<".">>
    BY FragmentParts, Zenon
  <2>2. 3 > 1 /\ 3 - 1 = 2
    OBVIOUS
  <2>. QED BY <2>1, <2>2, Zenon DEF Behind
<1>. QED BY <1>1, <1>2, Zenon DEF Fitting

\* A text of one token.
LEMMA OneToken ==
  ASSUME NEW a \in Text, Len(a) = 1
  PROVE  a = <<a[1]>> /\ a[1] \in Tokens
BY DEF Text

\* The field is a column's name.
LEMMA FieldWritten ==
  ASSUME NEW heap, NEW n \in Nat, NEW collates, NEW place, NEW parts,
         NEW text, NEW full, Given(heap, n, collates, parts, text, full, place),
         3 \in 1..Len(parts), NEW i \in 1..n, parts[3] = ChildRef(i, 1), parts[2] = Fragment(<<".">>)
  PROVE  \E field \in Tokens :
           /\ NameWord(field)
           /\ PartText(heap, text, ChildRef(i, 1)) = <<field>>
           /\ FullText(heap, full, ChildRef(i, 1)) = <<field>>
<1>1. i # 0 /\ NodeAlike(heap[i], collates[i], text[i], full[i])
  BY DEF Given, NodesAlike
<1>2. Fitting(heap, collates, parts, 3)
  BY DEF Given
<1>3. IsName(heap[i]) /\ ~NeedsParens(heap[i].precedence, 1)
  BY <1>1, <1>2, FittingField, Zenon
<1>. DEFINE word == heap[i].parts[1].text[1]
<1>4. text[i] = heap[i].parts[1].text /\ full[i] = text[i]
  BY <1>1, <1>3, Zenon DEF NodeAlike
<1>5. NameWord(word) /\ Len(heap[i].parts[1].text) = 1
  BY <1>3, Zenon DEF IsName
<1>6. text[i] \in Text
  <2>1. "anywhere" # "bound"
    OBVIOUS
  <2>2. Alike(text[i], full[i], Grade(heap[i]), "anywhere")
    BY <1>1, <2>1, Zenon DEF NodeAlike
  <2>. QED BY <2>2, AlikeTyped, Zenon
<1>7. text[i] = <<word>> /\ word \in Tokens
  BY <1>4, <1>5, <1>6, OneToken, Zenon
<1>8. /\ PartText(heap, text, ChildRef(i, 1)) = text[i]
      /\ FullText(heap, full, ChildRef(i, 1)) = full[i]
  <2>1. 1 \in {1, 3} /\ 1 = 1
    OBVIOUS
  <2>. QED BY <1>1, <1>3, <2>1, SelectedTexts, Zenon DEF SelectionText, Selected, Enclosing
<1>. QED BY <1>4, <1>5, <1>7, <1>8, Zenon

\* A field.
LEMMA DotRefersAlike ==
  ASSUME HonestOperators, NEW heap, NEW n \in Nat, NEW collates, NEW place, Ranked(heap, n),
         NEW a \in 1..n, NEW b \in 1..n, NEW parts,
         parts = <<ChildRef(a, 1), Fragment(<<".">>), ChildRef(b, 1)>>,
         NEW text, NEW full, Given(heap, n, collates, parts, text, full, place)
  PROVE  RefersAlike(FlattenSeq(Texts(heap, text, parts)), FlattenSeq(FullTexts(heap, full, parts)))
<1>. DEFINE left  == ChildRef(a, 1)
<1>. DEFINE mid   == Fragment(<<".">>)
<1>. DEFINE right == ChildRef(b, 1)
<1>1. Len(parts) = 3 /\ parts[1] = left /\ parts[2] = mid /\ parts[3] = right
  BY TupleParts, Zenon
<1>2. 1 \in 1..Len(parts) /\ 3 \in 1..Len(parts)
  <2>. HIDE DEF left, mid, right
  <2>. QED BY ONLY <1>1
<1>3. 1 \in {1, 3} /\ <<".">> \in Text
  <2>1. <<".">> \in Text
    BY Keywords, WordsTyped, Zenon
  <2>. QED BY <2>1
<1>4. /\ BothWritten(heap, text, full, left)
      /\ RefersAlike(PartText(heap, text, left), FullText(heap, full, left))
  BY <1>1, <1>2, <1>3, SelectedWritten, Zenon
<1>5. PICK field \in Tokens : /\ NameWord(field)
                              /\ PartText(heap, text, right) = <<field>>
                              /\ FullText(heap, full, right) = <<field>>
  <2>1. 3 \in 1..Len(parts) /\ parts[3] = ChildRef(b, 1) /\ parts[2] = Fragment(<<".">>)
    BY <1>1, <1>2, Zenon
  <2>2. \E field \in Tokens :
          /\ NameWord(field)
          /\ PartText(heap, text, ChildRef(b, 1)) = <<field>>
          /\ FullText(heap, full, ChildRef(b, 1)) = <<field>>
    <3>1. /\ n \in Nat /\ b \in 1..n /\ Given(heap, n, collates, parts, text, full, place)
      OBVIOUS
    <3>. HIDE DEF left, mid, right
    <3>. QED BY ONLY <2>1, <3>1, FieldWritten
  <2>. QED BY <2>2, Zenon
<1>6. BothWritten(heap, text, full, right)
  BY <1>5, WordsTyped, Zenon DEF BothWritten
<1>7. /\ BothWritten(heap, text, full, mid)
      /\ PartText(heap, text, mid) = <<".">> /\ FullText(heap, full, mid) = <<".">>
  BY <1>3, FragmentWritten
<1>. HIDE DEF left, mid, right
<1>8. WrittenAs(heap, text, full, <<left, mid, right>>,
                PartText(heap, text, left) \o PartText(heap, text, mid) \o PartText(heap, text, right),
                FullText(heap, full, left) \o FullText(heap, full, mid) \o FullText(heap, full, right))
  BY <1>4, <1>6, <1>7, ThreeTexts, Zenon
<1>9. RefersAlike(PartText(heap, text, left) \o <<".">> \o <<field>>,
                  FullText(heap, full, left) \o <<".">> \o <<field>>)
  BY <1>4, <1>5, AlikeDot, Zenon
<1>. QED BY <1>5, <1>7, <1>8, <1>9, Zenon DEF left, mid, right, WrittenAs

\* An element of an array.
LEMMA IndexRefersAlike ==
  ASSUME HonestOperators, NEW heap, NEW n \in Nat, NEW collates, NEW place, Ranked(heap, n),
         NEW a \in 1..n, NEW b \in 1..n, NEW parts,
         parts = <<ChildRef(a, 3), Fragment(<<"[">>), ChildRef(b, 17), Fragment(<<"]">>)>>,
         NEW text, NEW full, Given(heap, n, collates, parts, text, full, place)
  PROVE  RefersAlike(FlattenSeq(Texts(heap, text, parts)), FlattenSeq(FullTexts(heap, full, parts)))
<1>. DEFINE left  == ChildRef(a, 3)
<1>. DEFINE front == Fragment(<<"[">>)
<1>. DEFINE inner == ChildRef(b, 17)
<1>. DEFINE back  == Fragment(<<"]">>)
<1>1. Len(parts) = 4 /\ parts[1] = left
  BY TupleParts, Zenon
<1>2. 1 \in 1..Len(parts)
  <2>. HIDE DEF left
  <2>. QED BY ONLY <1>1
<1>3. 3 \in {1, 3} /\ 17 \in {2, 17} /\ NodesAlike(heap, n, collates, text, full)
  BY DEF Given
<1>4. /\ BothWritten(heap, text, full, left)
      /\ RefersAlike(PartText(heap, text, left), FullText(heap, full, left))
  BY <1>1, <1>2, <1>3, SelectedWritten, Zenon
<1>5. /\ BothWritten(heap, text, full, inner)
      /\ Alike(PartText(heap, text, inner), FullText(heap, full, inner), 16, "anywhere")
  BY <1>3, EnclosedWritten, Zenon
<1>6. <<"[">> \in Text /\ <<"]">> \in Text
  BY Keywords, WordsTyped, Zenon
<1>7. /\ BothWritten(heap, text, full, front) /\ BothWritten(heap, text, full, back)
      /\ PartText(heap, text, front) = <<"[">> /\ FullText(heap, full, front) = <<"[">>
      /\ PartText(heap, text, back) = <<"]">> /\ FullText(heap, full, back) = <<"]">>
  BY <1>6, FragmentWritten
<1>. HIDE DEF left, front, inner, back
<1>8. WrittenAs(heap, text, full, <<left, front, inner, back>>,
        (PartText(heap, text, left) \o PartText(heap, text, front) \o PartText(heap, text, inner))
          \o PartText(heap, text, back),
        (FullText(heap, full, left) \o FullText(heap, full, front) \o FullText(heap, full, inner))
          \o FullText(heap, full, back))
  BY <1>4, <1>5, <1>7, FourTexts, Zenon
<1>9. RefersAlike((PartText(heap, text, left) \o <<"[">> \o PartText(heap, text, inner)) \o <<"]">>,
                  (FullText(heap, full, left) \o <<"[">> \o FullText(heap, full, inner)) \o <<"]">>)
  BY <1>4, <1>5, AlikeIndex, Zenon
<1>. QED BY <1>7, <1>8, <1>9, Zenon DEF left, front, inner, back, WrittenAs
-----------------------------------------------------------------------------
\* Two texts with the same items behind what leads each.
SameItems(x, y, lead, lead2) ==
  \E items, items2 : ItemsAlike(items, items2) /\ x = lead \o items /\ y = lead2 \o items2

\* One more term of a list, read alike either way.
LEMMA OneMoreTerm ==
  ASSUME HonestOperators, NEW lead \in Text, NEW lead2 \in Text, NEW x, NEW y,
         SameItems(x, y, lead, lead2), NEW c, NEW d, Alike(c, d, 16, "anywhere")
  PROVE  SameItems((x \o <<",", " ">>) \o c, (y \o <<",", " ">>) \o d, lead, lead2)
<1>. DEFINE comma == <<",", " ">>
<1>1. PICK items, items2 : ItemsAlike(items, items2) /\ x = lead \o items /\ y = lead2 \o items2
  BY Zenon DEF SameItems
<1>. DEFINE more  == items \o comma \o c
<1>. DEFINE more2 == items2 \o comma \o d
<1>2. 16 \in 0..17
  OBVIOUS
<1>3. ItemsAlike(more, more2)
  BY <1>1, <1>2, OneMoreItemAlike, Zenon
<1>4. items \in Text /\ items2 \in Text /\ c \in Text /\ d \in Text /\ comma \in Text
  <2>1. items \in Text /\ items2 \in Text
    BY <1>1, Zenon DEF ItemsAlike, Items
  <2>2. c \in Text /\ d \in Text
    BY AlikeTyped, Zenon
  <2>. QED BY <2>1, <2>2, Keywords, WordsTyped, Zenon
<1>. HIDE DEF comma
<1>5. \A l, i, z \in Text : ((l \o i) \o comma) \o z = l \o (i \o comma \o z)
  <2>1. TAKE l, i, z \in Text
  <2>2. Cat(Cat(Cat(l, i), comma), z) = Cat(l, Cat(Cat(i, comma), z))
    BY <1>4, TextsRegroup, RegroupBracket
  <2>. QED BY <2>2 DEF Cat
<1>6. (x \o comma) \o c = lead \o more /\ (y \o comma) \o d = lead2 \o more2
  <2>1. ((lead \o items) \o comma) \o c = lead \o more
    BY <1>4, <1>5, ZenonT(60)
  <2>2. ((lead2 \o items2) \o comma) \o d = lead2 \o more2
    BY <1>4, <1>5, ZenonT(60)
  <2>3. x = lead \o items /\ y = lead2 \o items2
    BY <1>1
  <2>. HIDE DEF more, more2, comma
  <2>. QED BY <2>1, <2>2, <2>3
<1>. HIDE DEF more, more2
<1>7. SameItems((x \o comma) \o c, (y \o comma) \o d, lead, lead2)
  BY <1>3, <1>6, Zenon DEF SameItems
<1>. QED BY <1>7 DEF comma

\* The next term of a list.
Extends(h, t, j) == h[j] = (h[j-1] \o <<",", " ">>) \o t[j]

\* Lists that grow term by term, behind whatever leads them, hold the same
\* items.
LEMMA ItemsGrow ==
  ASSUME HonestOperators, NEW n \in Nat, n >= 1, NEW lead \in Text, NEW lead2 \in Text,
         NEW h, NEW h2, NEW t, NEW t2, SameItems(h[1], h2[1], lead, lead2),
         \A j \in 2..n : Extends(h, t, j) /\ Extends(h2, t2, j) /\ Alike(t[j], t2[j], 16, "anywhere")
  PROVE  SameItems(h[n], h2[n], lead, lead2)
<1>. DEFINE Good(m) == SameItems(h[m], h2[m], lead, lead2)
<1>1. Good(1)
  BY Zenon
<1>2. ASSUME NEW m \in 2..n, Good(m-1) PROVE Good(m)
  <2>1. /\ h[m] = (h[m-1] \o <<",", " ">>) \o t[m] /\ h2[m] = (h2[m-1] \o <<",", " ">>) \o t2[m]
        /\ Alike(t[m], t2[m], 16, "anywhere")
    BY Zenon DEF Extends
  <2>2. SameItems((h[m-1] \o <<",", " ">>) \o t[m], (h2[m-1] \o <<",", " ">>) \o t2[m], lead, lead2)
    BY <1>2, <2>1, OneMoreTerm, Zenon
  <2>. QED BY <2>1, <2>2, Zenon
<1>3. Good(n) => SameItems(h[n], h2[n], lead, lead2)
  OBVIOUS
<1>. HIDE DEF Good
<1>. DEFINE T == {m \in 1..n : ~Good(m)}
<1>4. ASSUME T # {} PROVE FALSE
  <2>1. PICK m \in T : \A k \in T : m <= k
    <3>1. T \in SUBSET Nat
      OBVIOUS
    <3>. HIDE DEF T
    <3>. QED BY <1>4, <3>1, LeastNat
  <2>2. m # 1
    BY <1>1
  <2>3. m \in 2..n /\ m-1 \in 1..n /\ ~(m <= m-1)
    BY <2>2
  <2>4. Good(m-1)
    BY <2>1, <2>3
  <2>. QED BY <1>2, <2>3, <2>4
<1>5. n \in 1..n
  OBVIOUS
<1>. QED BY <1>3, <1>4, <1>5, Zenon

\* The texts put together one after the other, step by step.
Unfolds(g, P) ==
  /\ g[1] = P[1]
  /\ \A k \in 2..Len(P) : g[k] = g[k-1] \o P[k]

\* It has a solution, and ends in the whole text.
LEMMA UnfoldingExists ==
  ASSUME NEW P \in Seq(Text), Len(P) # 0
  PROVE  \E g : Unfolds(g, P) /\ FlattenSeq(P) = g[Len(P)]
<1>1. P \in Seq(Seq(Tokens))
  BY DEF Text
<1>. QED BY <1>1, FlattenUnfolds, Zenon DEF Unfolds

\* A list laid out from the m+1st text on, closed behind its nth term.
ListTail(P, m, n) ==
  /\ \A j \in 1..n-1 : P[m + 2*j] = <<",", " ">>
  /\ P[m + 2*n] = <<")">>

\* A further term of a list puts a comma and itself behind the text so far.
LEMMA TermExtends ==
  ASSUME NEW P, NEW m \in Nat, NEW n \in Nat, m >= 1, Len(P) = m + 2*n,
         ListTail(P, m, n), NEW g, Unfolds(g, P), NEW j \in 2..n
  PROVE  Extends([i \in 1..n |-> g[m + 2*i - 1]], [i \in 1..n |-> P[m + 2*i - 1]], j)
<1>. DEFINE h == [i \in 1..n |-> g[m + 2*i - 1]]
<1>. DEFINE t == [i \in 1..n |-> P[m + 2*i - 1]]
<1>1. /\ m + 2*j - 1 \in 2..Len(P) /\ m + 2*j - 2 \in 2..Len(P)
      /\ m + 2*j - 2 = (m + 2*j - 1) - 1 /\ m + 2*j - 3 = (m + 2*j - 2) - 1
      /\ j - 1 \in 1..n-1 /\ j-1 \in 1..n /\ j \in 1..n
      /\ m + 2*(j-1) = m + 2*j - 2 /\ m + 2*(j-1) - 1 = m + 2*j - 3
  OBVIOUS
<1>2. g[m + 2*j - 1] = g[m + 2*j - 2] \o P[m + 2*j - 1]
  <2>. DEFINE k == m + 2*j - 1
  <2>. DEFINE i == m + 2*j - 2
  <2>1. k \in 2..Len(P) /\ i = k - 1
    BY <1>1
  <2>. HIDE DEF k, i
  <2>2. g[k] = g[k-1] \o P[k]
    BY <2>1, Zenon DEF Unfolds
  <2>3. g[k] = g[i] \o P[k]
    BY <2>1, <2>2, Zenon
  <2>. QED BY <2>3 DEF k, i
<1>3. g[m + 2*j - 2] = g[m + 2*j - 3] \o P[m + 2*j - 2]
  <2>. DEFINE k == m + 2*j - 2
  <2>. DEFINE i == m + 2*j - 3
  <2>1. k \in 2..Len(P) /\ i = k - 1
    BY <1>1
  <2>. HIDE DEF k, i
  <2>2. g[k] = g[k-1] \o P[k]
    BY <2>1, Zenon DEF Unfolds
  <2>3. g[k] = g[i] \o P[k]
    BY <2>1, <2>2, Zenon
  <2>. QED BY <2>3 DEF k, i
<1>4. P[m + 2*j - 2] = <<",", " ">>
  <2>1. P[m + 2*(j-1)] = <<",", " ">>
    BY <1>1, Zenon DEF ListTail
  <2>. QED BY <1>1, <2>1
<1>5. h[j] = g[m + 2*j - 1] /\ t[j] = P[m + 2*j - 1]
  BY <1>1
<1>6. h[j-1] = g[m + 2*j - 3]
  <2>1. h[j-1] = g[m + 2*(j-1) - 1]
    BY <1>1
  <2>. QED BY <1>1, <2>1
<1>. HIDE DEF h, t
<1>7. Extends(h, t, j)
  BY <1>2, <1>3, <1>4, <1>5, <1>6, Zenon DEF Extends
<1>. QED BY <1>7 DEF h, t

\* Two such lists, the terms of which are read alike.
ListShape(P, Q, m, n) ==
  /\ P \in Seq(Text) /\ Q \in Seq(Text)
  /\ Len(P) = m + 2*n /\ Len(Q) = m + 2*n
  /\ ListTail(P, m, n) /\ ListTail(Q, m, n)
  /\ \A j \in 1..n : Alike(P[m + 2*j - 1], Q[m + 2*j - 1], 16, "anywhere")

Closed(u, v, lead, lead2) ==
  \E x, y : SameItems(x, y, lead, lead2) /\ u = x \o <<")">> /\ v = y \o <<")">>

\* A list read term by term: with its last bracket it is closed.
LEMMA ListTexts ==
  ASSUME HonestOperators, NEW P, NEW Q, NEW m \in Nat, NEW n \in Nat, m >= 1, n >= 1,
         ListShape(P, Q, m, n), NEW g, NEW f, Unfolds(g, P), Unfolds(f, Q),
         NEW lead \in Text, NEW lead2 \in Text, SameItems(g[m+1], f[m+1], lead, lead2)
  PROVE  Closed(g[Len(P)], f[Len(Q)], lead, lead2)
<1>20. /\ Len(P) = m + 2*n /\ Len(Q) = m + 2*n
       /\ ListTail(P, m, n) /\ ListTail(Q, m, n)
  BY DEF ListShape
<1>21. \A j \in 2..n : Alike(P[m + 2*j - 1], Q[m + 2*j - 1], 16, "anywhere")
  <2>1. \A j \in 2..n : j \in 1..n
    OBVIOUS
  <2>. QED BY <2>1, Zenon DEF ListShape
<1>. DEFINE h  == [i \in 1..n |-> g[m + 2*i - 1]]
<1>. DEFINE h2 == [i \in 1..n |-> f[m + 2*i - 1]]
<1>. DEFINE t  == [i \in 1..n |-> P[m + 2*i - 1]]
<1>. DEFINE t2 == [i \in 1..n |-> Q[m + 2*i - 1]]
<1>1. \A j \in 2..n : Extends(h, t, j) /\ Extends(h2, t2, j)
  BY <1>20, TermExtends, Zenon
<1>2. /\ \A j \in 2..n : t[j] = P[m + 2*j - 1] /\ t2[j] = Q[m + 2*j - 1]
      /\ 1 \in 1..n /\ n \in 1..n /\ m + 2*1 - 1 = m + 1
  OBVIOUS
<1>3. h[1] = g[m+1] /\ h2[1] = f[m+1]
  <2>1. h[1] = g[m + 2*1 - 1] /\ h2[1] = f[m + 2*1 - 1]
    BY <1>2, Zenon
  <2>. QED BY <1>2, <2>1, Zenon
<1>4. h[n] = g[m + 2*n - 1] /\ h2[n] = f[m + 2*n - 1]
  BY <1>2, Zenon
<1>5. \A j \in 2..n : Alike(t[j], t2[j], 16, "anywhere")
  BY <1>2, <1>21, Zenon
<1>. HIDE DEF h, h2, t, t2
<1>6. SameItems(h[n], h2[n], lead, lead2)
  <2>1. SameItems(h[1], h2[1], lead, lead2)
    BY <1>3, Zenon
  <2>. QED BY <1>1, <1>5, <2>1, ItemsGrow
<1>7. /\ m + 2*n \in 2..Len(P) /\ m + 2*n \in 2..Len(Q)
      /\ m + 2*n - 1 = (m + 2*n) - 1
  BY <1>20
<1>8. /\ g[m + 2*n] = g[m + 2*n - 1] \o P[m + 2*n]
      /\ f[m + 2*n] = f[m + 2*n - 1] \o Q[m + 2*n]
  <2>. DEFINE k == m + 2*n
  <2>. DEFINE i == m + 2*n - 1
  <2>1. k \in 2..Len(P) /\ k \in 2..Len(Q) /\ i = k - 1
    BY <1>7
  <2>. HIDE DEF k, i
  <2>2. g[k] = g[k-1] \o P[k] /\ f[k] = f[k-1] \o Q[k]
    BY <2>1, Zenon DEF Unfolds
  <2>3. g[k] = g[i] \o P[k] /\ f[k] = f[i] \o Q[k]
    BY <2>1, <2>2, Zenon
  <2>. QED BY <2>3 DEF k, i
<1>9. g[Len(P)] = h[n] \o <<")">> /\ f[Len(Q)] = h2[n] \o <<")">>
  BY <1>4, <1>8, <1>20, Zenon DEF ListTail
<1>. QED BY <1>6, <1>9, Zenon DEF Closed

\* The parts of a list node, by their place.
Laid(parts, front, m, args, n, last) ==
  /\ Len(parts) = m + 2*n
  /\ \A k \in 1..m : parts[k] = front[k]
  /\ \A j \in 1..n : parts[m + 2*j - 1] = ChildRef(args[j], kExtract)
  /\ \A j \in 1..n-1 : parts[m + 2*j] = Fragment(<<",", " ">>)
  /\ parts[m + 2*n] = last

\* Where the parts of a list stand: the front, its terms, the last bracket.
LEMMA ListLayout ==
  ASSUME NEW front, NEW m \in Nat, NEW V, front \in Seq(V), Len(front) = m,
         NEW S, NEW args \in Seq(S), Len(args) >= 1, NEW last
  PROVE  Laid(front \o CommaList(args) \o <<last>>, front, m, args, Len(args), last)
<1>. DEFINE n == Len(args)
<1>. DEFINE middle == CommaList(args)
<1>. DEFINE comma == Fragment(<<",", " ">>)
<1>. DEFINE child == [j \in 1..n |-> ChildRef(args[j], kExtract)]
<1>1. n \in Nat /\ n >= 1
  BY LenProperties
<1>2. middle = [k \in 1 .. 2 * n - 1 |-> IF k % 2 = 1 THEN ChildRef(args[(k + 1) \div 2], kExtract)
                                         ELSE comma]
  BY DEF CommaList
<1>. DEFINE U == V \cup {child[j] : j \in 1..n} \cup {comma} \cup {last}
<1>3. \A k \in 1 .. 2 * n - 1 : k % 2 = 1 =>
        (k + 1) \div 2 \in 1..n /\ child[(k + 1) \div 2] = ChildRef(args[(k + 1) \div 2], kExtract)
  <2>. HIDE DEF n
  <2>1. \A k \in 1 .. 2 * n - 1 : k % 2 = 1 => (k + 1) \div 2 \in 1..n
    BY <1>1
  <2>. QED BY <2>1, Zenon
<1>4. middle = [k \in 1 .. 2 * n - 1 |-> IF k % 2 = 1 THEN child[(k + 1) \div 2] ELSE comma]
  BY <1>2, <1>3
<1>5. \A j \in 1..n : child[j] = ChildRef(args[j], kExtract)
  OBVIOUS
<1>6. /\ \A j \in 1..n : child[j] \in U
      /\ comma \in U /\ last \in U /\ V \subseteq U
  OBVIOUS
<1>. HIDE DEF n, middle, comma, child, U
<1>7. /\ middle \in Seq(U) /\ Len(middle) = 2 * n - 1
      /\ \A j \in 1..n : middle[2*j - 1] = child[j]
      /\ \A j \in 1..n-1 : middle[2*j] = comma
  <2>1. middle \in [1 .. 2 * n - 1 -> U] /\ 2 * n - 1 \in Nat
    BY <1>1, <1>3, <1>4, <1>6
  <2>2. \A j \in 1..n : 2*j - 1 \in 1 .. 2*n - 1 /\ (2*j - 1) % 2 = 1 /\ ((2*j - 1) + 1) \div 2 = j
    BY <1>1
  <2>3. \A j \in 1..n-1 : 2*j \in 1 .. 2*n - 1 /\ (2*j) % 2 # 1
    BY <1>1
  <2>4. \A j \in 1..n : middle[2*j - 1] = child[j]
    BY <1>4, <2>2
  <2>5. \A j \in 1..n-1 : middle[2*j] = comma
    BY <1>4, <2>3
  <2>. QED BY <2>1, <2>4, <2>5
<1>8. front \in Seq(U) /\ <<last>> \in Seq(U) /\ Len(<<last>>) = 1 /\ <<last>>[1] = last
  BY <1>6, SeqMonotonic
<1>. DEFINE tail  == <<last>>
<1>. DEFINE open  == front \o middle
<1>. DEFINE parts == open \o tail
<1>9. tail \in Seq(U) /\ Len(tail) = 1 /\ tail[1] = last
  BY <1>8
<1>. HIDE DEF tail
<1>10. /\ open \in Seq(U) /\ Len(open) = m + (2 * n - 1)
       /\ \A k \in 1 .. m + (2 * n - 1) : open[k] = IF k <= m THEN front[k] ELSE middle[k - m]
  <2>1. /\ open \in Seq(U) /\ Len(open) = Len(front) + Len(middle)
        /\ \A k \in 1 .. Len(front) + Len(middle) :
             open[k] = IF k <= Len(front) THEN front[k] ELSE middle[k - Len(front)]
    <3>1. front \in Seq(U) /\ middle \in Seq(U)
      BY <1>7, <1>8
    <3>. QED BY <3>1, ConcatProperties
  <2>. HIDE DEF open
  <2>. QED BY <1>7, <2>1
<1>. HIDE DEF open
<1>11. /\ Len(parts) = (m + (2 * n - 1)) + 1
       /\ \A k \in 1 .. (m + (2 * n - 1)) + 1 :
            parts[k] = IF k <= m + (2 * n - 1) THEN open[k] ELSE tail[k - (m + (2 * n - 1))]
  <2>1. /\ Len(parts) = Len(open) + Len(tail)
        /\ \A k \in 1 .. Len(open) + Len(tail) :
             parts[k] = IF k <= Len(open) THEN open[k] ELSE tail[k - Len(open)]
    BY <1>9, <1>10, ConcatProperties, ZenonT(60)
  <2>. HIDE DEF parts
  <2>. QED BY <1>9, <1>10, <2>1
<1>. HIDE DEF parts
<1>12. Len(parts) = m + 2*n
  BY <1>1, <1>11
<1>13. \A k \in 1..m : parts[k] = front[k]
  BY <1>1, <1>10, <1>11
<1>14. \A j \in 1..n : parts[m + 2*j - 1] = child[j]
  <2>1. TAKE j \in 1..n
  <2>2. /\ m + 2*j - 1 \in 1 .. m + (2 * n - 1) /\ ~(m + 2*j - 1 <= m)
        /\ m + 2*j - 1 \in 1 .. (m + (2 * n - 1)) + 1
        /\ m + 2*j - 1 <= m + (2 * n - 1)
        /\ (m + 2*j - 1) - m = 2*j - 1
    BY <1>1
  <2>. QED BY <1>7, <1>10, <1>11, <2>2
<1>15. \A j \in 1..n-1 : parts[m + 2*j] = comma
  <2>1. TAKE j \in 1..n-1
  <2>2. /\ m + 2*j \in 1 .. m + (2 * n - 1) /\ ~(m + 2*j <= m)
        /\ m + 2*j \in 1 .. (m + (2 * n - 1)) + 1
        /\ m + 2*j <= m + (2 * n - 1)
        /\ (m + 2*j) - m = 2*j
    BY <1>1
  <2>. QED BY <1>7, <1>10, <1>11, <2>2, SMTT(60)
<1>16. parts[m + 2*n] = last
  <2>1. /\ m + 2*n \in 1 .. (m + (2 * n - 1)) + 1 /\ ~(m + 2*n <= m + (2 * n - 1))
        /\ (m + 2*n) - (m + (2 * n - 1)) = 1
    BY <1>1
  <2>. QED BY <1>9, <1>11, <2>1
<1>. QED BY <1>5, <1>12, <1>13, <1>14, <1>15, <1>16, Zenon DEF Laid, parts, open, tail, middle, n, comma

\* The parts in front of a list are written.
AllWritten(heap, text, full, front) == \A k \in 1..Len(front) : BothWritten(heap, text, full, front[k])

\* What stands in front of a list, up to its bracket: the terms are the items
\* behind some lead, and closing them is read alike.
Heads(heap, text, full, front, lead, lead2, level, place) ==
  /\ lead \in Text /\ lead2 \in Text
  /\ AllWritten(heap, text, full, front)
  /\ \A c, d : Alike(c, d, 16, "anywhere") =>
       SameItems(Together(Texts(heap, text, front)) \o c, Together(FullTexts(heap, full, front)) \o d,
                 lead, lead2)
  /\ \A items, items2 : ItemsAlike(items, items2) =>
       Alike((lead \o items) \o <<")">>, (lead2 \o items2) \o <<")">>, level, place)

\* The texts of the parts in front, put together.
StartsAs(P, F, m) == \A k \in 1..m : P[k] = F[k]

\* The text as far as the front goes is the front.
LEMMA FrontUnfolds ==
  ASSUME NEW P, NEW m \in {1, 3}, Len(P) \in Nat, m <= Len(P), NEW g, Unfolds(g, P),
         NEW F, Len(F) = m, StartsAs(P, F, m)
  PROVE  g[m] = Together(F)
<1>1. CASE m = 1
  <2>1. Together(F) = F[1] /\ F[1] = P[1]
    BY <1>1 DEF Together, StartsAs
  <2>. QED BY <1>1, <2>1, Zenon DEF Unfolds
<1>2. CASE m = 3
  <2>1. 2 \in 2..Len(P) /\ 3 \in 2..Len(P) /\ 2 - 1 = 1 /\ 3 - 1 = 2
    BY <1>2
  <2>2. g[2] = g[2-1] \o P[2] /\ g[3] = g[3-1] \o P[3] /\ g[1] = P[1]
    BY <2>1, Zenon DEF Unfolds
  <2>3. F[1] = P[1] /\ F[2] = P[2] /\ F[3] = P[3]
    BY <1>2 DEF StartsAs
  <2>4. g[3] = F[1] \o F[2] \o F[3]
    BY <2>1, <2>2, <2>3, Zenon
  <2>5. Len(F) = 3
    BY <1>2
  <2>6. Together(F) = F[1] \o F[2] \o F[3]
    BY <2>5 DEF Together
  <2>. QED BY <1>2, <2>4, <2>6, Zenon
<1>. QED BY <1>1, <1>2

\* Terms stand at the odd places of a list and commas at the even ones.
LEMMA Places ==
  ASSUME NEW c \in Nat, NEW d \in 1..2*c
  PROVE  /\ d % 2 = 1 => (d+1) \div 2 \in 1..c /\ d = 2*((d+1) \div 2) - 1
         /\ d % 2 # 1 => d \div 2 \in 1..c /\ d = 2*(d \div 2)
OBVIOUS

\* The texts of a list node's parts, from the layout of these.
ListParts(front, args) == front \o CommaList(args) \o <<Fragment(<<")">>)>>

TermTexts(heap, text, full, front, m, args) ==
  LET P == Texts(heap, text, ListParts(front, args))
      Q == FullTexts(heap, full, ListParts(front, args))
  IN  /\ ListShape(P, Q, m, Len(args))
      /\ StartsAs(P, Texts(heap, text, front), m)
      /\ StartsAs(Q, FullTexts(heap, full, front), m)

\* What is written of the front and of every term, either way.
LEMMA ListPieces ==
  ASSUME HonestOperators, NEW heap, NEW n \in Nat, NEW collates, Ranked(heap, n),
         NEW text, NEW full, NodesAlike(heap, n, collates, text, full),
         NEW V, NEW front \in Seq(V), Len(front) \in {1, 3},
         AllWritten(heap, text, full, front),
         NEW args \in Seq(1..n), Len(args) >= 1
  PROVE  TermTexts(heap, text, full, front, Len(front), args)
<1>. DEFINE c == Len(args)
<1>. DEFINE m == Len(front)
<1>. DEFINE parts == ListParts(front, args)
<1>. DEFINE P == Texts(heap, text, parts)
<1>. DEFINE Q == FullTexts(heap, full, parts)
<1>. /\ c \in Nat /\ c = Len(args) /\ c >= 1
     /\ m \in {1, 3} /\ m = Len(front)
     /\ parts = ListParts(front, args)
     /\ P = Texts(heap, text, parts) /\ Q = FullTexts(heap, full, parts)
  BY LenProperties
<1>. HIDE DEF c, m, parts, P, Q
<1>. DEFINE comma == <<",", " ">>
<1>. DEFINE close == <<")">>
<1>1. comma \in Text /\ close \in Text
  BY Keywords, WordsTyped, Zenon
<1>2. /\ Len(parts) = m + 2*c
      /\ \A k \in 1..m : parts[k] = front[k]
      /\ \A j \in 1..c : parts[m + 2*j - 1] = ChildRef(args[j], kExtract)
      /\ \A j \in 1..c-1 : parts[m + 2*j] = Fragment(comma)
      /\ parts[m + 2*c] = Fragment(close)
  <2>1. m \in Nat /\ Len(args) >= 1
    OBVIOUS
  <2>. DEFINE last == Fragment(close)
  <2>2. parts = front \o CommaList(args) \o <<last>>
    BY DEF ListParts
  <2>. HIDE DEF last
  <2>3. Laid(parts, front, m, args, c, last)
    BY <2>1, <2>2, ListLayout, Zenon
  <2>. QED BY <2>3, Zenon DEF Laid, last
<1>3. \A k \in 1..m + 2*c : P[k] = PartText(heap, text, parts[k]) /\ Q[k] = FullText(heap, full, parts[k])
  BY <1>2 DEF Texts, FullTexts
<1>4. \A j \in 1..c : args[j] \in 1..n
  BY ElementOfSeq
<1>5. /\ BothWritten(heap, text, full, Fragment(comma)) /\ BothWritten(heap, text, full, Fragment(close))
      /\ PartText(heap, text, Fragment(comma)) = comma /\ FullText(heap, full, Fragment(comma)) = comma
      /\ PartText(heap, text, Fragment(close)) = close /\ FullText(heap, full, Fragment(close)) = close
  <2>. HIDE DEF comma, close
  <2>. QED BY <1>1, FragmentWritten
<1>6. \A j \in 1..c : /\ BothWritten(heap, text, full, parts[m + 2*j - 1])
                      /\ Alike(PartText(heap, text, parts[m + 2*j - 1]),
                               FullText(heap, full, parts[m + 2*j - 1]), 16, "anywhere")
  <2>1. TAKE j \in 1..c
  <2>. DEFINE i == args[j]
  <2>2. i \in 1..n /\ kExtract \in {2, 17}
    BY <1>4 DEF kExtract
  <2>. HIDE DEF i
  <2>3. /\ BothWritten(heap, text, full, ChildRef(i, kExtract))
        /\ Alike(PartText(heap, text, ChildRef(i, kExtract)),
                 FullText(heap, full, ChildRef(i, kExtract)), 16, "anywhere")
    BY <2>2, EnclosedWritten, Zenon
  <2>4. parts[m + 2*j - 1] = ChildRef(i, kExtract)
    BY <1>2, Zenon DEF i
  <2>. QED BY <2>3, <2>4, Zenon
<1>. HIDE DEF comma, close
<1>7. \A k \in 1..m + 2*c : BothWritten(heap, text, full, parts[k])
  <2>1. TAKE k \in 1..m + 2*c
  <2>2. \/ k \in 1..m
        \/ \E j \in 1..c : k = m + 2*j - 1
        \/ \E j \in 1..c-1 : k = m + 2*j
        \/ k = m + 2*c
    <3>1. CASE k \in 1..m
      BY <3>1
    <3>2. CASE k > m
      <4>. DEFINE d == k - m
      <4>1. d \in 1..2*c /\ k = m + d
        BY <3>2
      <4>. HIDE DEF d
      <4>2. CASE d % 2 = 1
        <5>1. (d+1) \div 2 \in 1..c /\ d = 2*((d+1) \div 2) - 1
          BY <4>1, <4>2, Places
        <5>. DEFINE j == (d+1) \div 2
        <5>2. j \in 1..c /\ k = m + 2*j - 1
          <6>1. j \in 1..c /\ d = 2*j - 1
            BY <5>1
          <6>. HIDE DEF j
          <6>. QED BY <4>1, <6>1
        <5>. QED BY <5>2, Zenon
      <4>3. CASE d % 2 # 1
        <5>1. d \div 2 \in 1..c /\ d = 2*(d \div 2)
          BY <4>1, <4>3, Places
        <5>. DEFINE j == d \div 2
        <5>2. j \in 1..c /\ k = m + 2*j
          <6>1. j \in 1..c /\ d = 2*j
            BY <5>1
          <6>. HIDE DEF j
          <6>. QED BY <4>1, <6>1
        <5>. HIDE DEF j
        <5>3. j \in 1..c-1 \/ k = m + 2*c
          <6>1. j = c \/ j \in 1..c-1
            BY <5>2
          <6>. QED BY <5>2, <6>1, Zenon
        <5>. QED BY <5>2, <5>3, Zenon
      <4>. QED BY <4>2, <4>3
    <3>. QED BY <3>1, <3>2
  <2>3. \A i \in 1..m : BothWritten(heap, text, full, front[i])
    BY Zenon DEF AllWritten
  <2>. QED BY <1>2, <1>5, <1>6, <2>2, <2>3, Zenon
<1>8. /\ P \in Seq(Text) /\ Q \in Seq(Text)
      /\ Len(P) = m + 2*c /\ Len(Q) = m + 2*c
  <2>1. /\ P = [k \in 1..m + 2*c |-> PartText(heap, text, parts[k])]
        /\ Q = [k \in 1..m + 2*c |-> FullText(heap, full, parts[k])]
    BY <1>2 DEF Texts, FullTexts
  <2>2. /\ \A k \in 1..m + 2*c : PartText(heap, text, parts[k]) \in Text
        /\ \A k \in 1..m + 2*c : FullText(heap, full, parts[k]) \in Text
    BY <1>7, Zenon DEF BothWritten
  <2>3. m + 2*c \in Nat
    OBVIOUS
  <2>. QED BY <2>1, <2>2, <2>3
<1>9. ListTail(P, m, c) /\ ListTail(Q, m, c)
  <2>1. \A j \in 1..c-1 : m + 2*j \in 1..m + 2*c
    OBVIOUS
  <2>2. m + 2*c \in 1..m + 2*c
    OBVIOUS
  <2>3. \A j \in 1..c-1 : P[m + 2*j] = comma /\ Q[m + 2*j] = comma
    BY <1>2, <1>3, <1>5, <2>1, Zenon
  <2>4. P[m + 2*c] = close /\ Q[m + 2*c] = close
    BY <1>2, <1>3, <1>5, <2>2, Zenon
  <2>. QED BY <2>3, <2>4, Zenon DEF ListTail, comma, close
<1>10. \A j \in 1..c : Alike(P[m + 2*j - 1], Q[m + 2*j - 1], 16, "anywhere")
  <2>1. \A j \in 1..c : m + 2*j - 1 \in 1..m + 2*c
    OBVIOUS
  <2>. QED BY <1>3, <1>6, <2>1, Zenon
<1>11. \A k \in 1..m : P[k] = Texts(heap, text, front)[k] /\ Q[k] = FullTexts(heap, full, front)[k]
  <2>1. TAKE k \in 1..m
  <2>2. k \in 1..m + 2*c
    OBVIOUS
  <2>3. Texts(heap, text, front)[k] = PartText(heap, text, front[k])
        /\ FullTexts(heap, full, front)[k] = FullText(heap, full, front[k])
    BY DEF Texts, FullTexts
  <2>. QED BY <1>2, <1>3, <2>2, <2>3, Zenon
<1>12. ListShape(P, Q, m, c) /\ StartsAs(P, Texts(heap, text, front), m)
       /\ StartsAs(Q, FullTexts(heap, full, front), m)
  BY <1>8, <1>9, <1>10, <1>11, Zenon DEF ListShape, StartsAs
<1>. QED BY <1>12 DEF TermTexts, P, Q, parts, m, c

\* A node that holds a list of operands in brackets.
LEMMA ListCongruent ==
  ASSUME HonestOperators, NEW heap, NEW n \in Nat, NEW collates, NEW place, Ranked(heap, n),
         NEW front, NEW m \in {1, 3}, NEW V, front \in Seq(V), Len(front) = m,
         NEW args \in Seq(1..n), Len(args) >= 1, NEW level,
         NEW parts, parts = front \o CommaList(args) \o <<Fragment(<<")">>)>>,
         \A text, full : Given(heap, n, collates, parts, text, full, place) =>
           \E lead, lead2 : Heads(heap, text, full, front, lead, lead2, level, place)
  PROVE  Congruent(heap, n, collates, parts, level, place)
<1>. DEFINE c == Len(args)
<1>1. c \in Nat /\ c >= 1 /\ c = Len(args)
  BY LenProperties
<1>2. ASSUME NEW text, NEW full, Given(heap, n, collates, parts, text, full, place)
      PROVE  Alike(FlattenSeq(Texts(heap, text, parts)), FlattenSeq(FullTexts(heap, full, parts)), level, place)
  <2>1. PICK lead, lead2 : Heads(heap, text, full, front, lead, lead2, level, place)
    BY <1>2
  <2>. DEFINE P == Texts(heap, text, parts)
  <2>. DEFINE Q == FullTexts(heap, full, parts)
  <2>. DEFINE F == Texts(heap, text, front)
  <2>. DEFINE G == FullTexts(heap, full, front)
  <2>2. AllWritten(heap, text, full, front)
    BY <2>1 DEF Heads
  <2>3. ListShape(P, Q, m, c) /\ StartsAs(P, F, m) /\ StartsAs(Q, G, m)
    <3>1. parts = ListParts(front, args)
      BY DEF ListParts
    <3>2. TermTexts(heap, text, full, front, Len(front), args)
      <4>1. NodesAlike(heap, n, collates, text, full) /\ Len(front) \in {1, 3}
        BY <1>2 DEF Given
      <4>. QED BY <2>2, <4>1, ListPieces
    <3>. QED BY <3>1, <3>2 DEF TermTexts
  <2>4. Len(F) = m /\ Len(G) = m
    BY DEF Texts, FullTexts
  <2>. HIDE DEF P, Q, F, G, c
  <2>15. /\ P \in Seq(Text) /\ Q \in Seq(Text) /\ Len(P) = m + 2*c /\ Len(Q) = m + 2*c
         /\ \A j \in 1..c : Alike(P[m + 2*j - 1], Q[m + 2*j - 1], 16, "anywhere")
    BY <2>3, Zenon DEF ListShape
  <2>5. Len(P) # 0 /\ Len(Q) # 0 /\ Len(P) \in Nat /\ Len(Q) \in Nat /\ m <= Len(P) /\ m <= Len(Q)
        /\ m \in Nat /\ m >= 1
    BY <1>1, <2>15
  <2>6. PICK g : Unfolds(g, P) /\ FlattenSeq(P) = g[Len(P)]
    BY <2>5, <2>15, UnfoldingExists, Zenon
  <2>7. PICK f : Unfolds(f, Q) /\ FlattenSeq(Q) = f[Len(Q)]
    BY <2>5, <2>15, UnfoldingExists, Zenon
  <2>8. g[m] = Together(F) /\ f[m] = Together(G)
    <3>2. g[m] = Together(F)
      BY <2>3, <2>4, <2>5, <2>6, FrontUnfolds, ZenonT(60)
    <3>3. f[m] = Together(G)
      BY <2>3, <2>4, <2>5, <2>7, FrontUnfolds, ZenonT(60)
    <3>. QED BY <3>2, <3>3
  <2>9. SameItems(g[m+1], f[m+1], lead, lead2)
    <3>. DEFINE k == m+1
    <3>1. k \in 2..Len(P) /\ k \in 2..Len(Q) /\ k-1 = m /\ 1 \in 1..c /\ m + 2*1 - 1 = k
      BY <1>1, <2>5, <2>15
    <3>. HIDE DEF k
    <3>2. g[k] = g[k-1] \o P[k] /\ f[k] = f[k-1] \o Q[k]
      BY <2>6, <2>7, <3>1, Zenon DEF Unfolds
    <3>3. g[k] = Together(F) \o P[k] /\ f[k] = Together(G) \o Q[k]
      BY <2>8, <3>1, <3>2, Zenon
    <3>4. Alike(P[k], Q[k], 16, "anywhere")
      <4>1. Alike(P[m + 2*1 - 1], Q[m + 2*1 - 1], 16, "anywhere")
        BY <2>15, <3>1, Zenon
      <4>. QED BY <3>1, <4>1, Zenon
    <3>5. SameItems(Together(F) \o P[k], Together(G) \o Q[k], lead, lead2)
      BY <2>1, <3>4, Zenon DEF Heads, F, G
    <3>6. SameItems(g[k], f[k], lead, lead2)
      BY <3>3, <3>5, Zenon
    <3>. QED BY <3>6 DEF k
  <2>10. Closed(g[Len(P)], f[Len(Q)], lead, lead2)
    <3>1. lead \in Text /\ lead2 \in Text
      BY <2>1 DEF Heads
    <3>2. c >= 1 /\ m >= 1 /\ c \in Nat /\ m \in Nat
      BY <1>1, <2>5 DEF c
    <3>. QED BY <2>3, <2>6, <2>7, <2>9, <3>1, <3>2, ListTexts, Zenon
  <2>11. PICK x, y : /\ SameItems(x, y, lead, lead2)
                     /\ g[Len(P)] = x \o <<")">>
                     /\ f[Len(Q)] = y \o <<")">>
    BY <2>10, Zenon DEF Closed
  <2>12. PICK items, items2 : ItemsAlike(items, items2) /\ x = lead \o items /\ y = lead2 \o items2
    BY <2>11, Zenon DEF SameItems
  <2>13. Alike((lead \o items) \o <<")">>, (lead2 \o items2) \o <<")">>, level, place)
    BY <2>1, <2>12, Zenon DEF Heads
  <2>14. Alike(FlattenSeq(P), FlattenSeq(Q), level, place)
    BY <2>6, <2>7, <2>11, <2>12, <2>13, Zenon
  <2>. QED BY <2>14 DEF P, Q
<1>. QED BY <1>2, Zenon DEF Congruent

\* What may stand before the first argument of a call.
OpensACall(prefix) ==
  /\ prefix \in Text
  /\ \A c, d : Alike(c, d, 16, "anywhere") => ItemsAlike(prefix \o c, prefix \o d)

\* The first item of a list has nothing before it,
LEMMA NothingPrefixes == HonestOperators => OpensACall(<<>>)
<1>1. <<>> \in Text /\ 16 \in 0..17
  BY DEF Text
<1>2. ASSUME HonestOperators, NEW c, NEW d, Alike(c, d, 16, "anywhere")
      PROVE  ItemsAlike(<<>> \o c, <<>> \o d)
  <2>1. c \in Text /\ d \in Text
    BY <1>2, AlikeTyped, Zenon
  <2>2. <<>> \o c = c /\ <<>> \o d = d
    BY <2>1, ConcatEmptySeq DEF Text
  <2>3. ItemsAlike(c, d)
    BY <1>1, <1>2, OneItemAlike, Zenon
  <2>. QED BY <2>2, <2>3, Zenon
<1>. QED BY <1>1, <1>2, Zenon DEF OpensACall

\* or a DISTINCT, which binds loosest.
LEMMA DistinctPrefixes == HonestOperators => OpensACall(<<"DISTINCT", " ">>)
<1>. SUFFICES ASSUME HonestOperators PROVE OpensACall(<<"DISTINCT", " ">>)
  OBVIOUS
<1>. DEFINE op == "DISTINCT"
<1>1. BindsPrefix(op, 17) /\ op \in Tokens
  BY MethodsArePrefix, Keywords DEF kExtract
<1>. HIDE DEF op
<1>2. 17 - 1 = 16 /\ 17 \in 0..17
  OBVIOUS
<1>3. ASSUME NEW c, NEW d, Alike(c, d, 16, "anywhere")
      PROVE  ItemsAlike(<<op, " ">> \o c, <<op, " ">> \o d)
  <2>1. Alike(c, d, 17 - 1, "anywhere")
    BY <1>2, <1>3
  <2>2. Alike(<<op, " ">> \o c, <<op, " ">> \o d, 17, "anywhere")
    BY <1>1, <2>1, AlikePrefix, Zenon
  <2>. QED BY <1>2, <2>2, OneItemAlike, Zenon
<1>4. <<op, " ">> \in Text
  BY <1>1, FragmentsTyped, Zenon
<1>5. OpensACall(<<op, " ">>)
  BY <1>3, <1>4, Zenon DEF OpensACall
<1>. QED BY <1>5 DEF op

\* A call of a plain name.
LEMMA CallCongruent ==
  ASSUME HonestOperators, NEW heap, NEW n \in Nat, NEW collates, NEW place, Ranked(heap, n), NEW name \in Tokens, Plain(name),
         NEW prefix, OpensACall(prefix), NEW args \in Seq(1..n), Len(args) >= 1
  PROVE  Congruent(heap, n, collates, <<Fragment(<<name, "(">> \o prefix)>> \o CommaList(args)
                              \o <<Fragment(<<")">>)>>, 0, place)
<1>. DEFINE lead == <<name, "(">>
<1>. DEFINE opening == Fragment(lead \o prefix)
<1>. DEFINE front == <<opening>>
<1>. DEFINE V == {opening}
<1>1. front \in Seq(V) /\ Len(front) = 1 /\ front[1] = opening
  OBVIOUS
<1>2. lead \in Text /\ prefix \in Text /\ lead \o prefix \in Text /\ Calls(lead, name)
  <2>1. lead \in Text
    BY Keywords, WordsTyped, Zenon
  <2>2. prefix \in Text
    BY DEF OpensACall
  <2>3. Calls(lead, name)
    BY NamesCall, Zenon
  <2>. QED BY <2>1, <2>2, <2>3, WordsTyped, Zenon
<1>. HIDE DEF lead
<1>3. ASSUME NEW text, NEW full
      PROVE  Heads(heap, text, full, front, lead, lead, 0, place)
  <2>1. /\ BothWritten(heap, text, full, opening)
        /\ PartText(heap, text, opening) = lead \o prefix /\ FullText(heap, full, opening) = lead \o prefix
    BY <1>2, FragmentWritten
  <2>. HIDE DEF opening, front
  <2>2. Together(Texts(heap, text, front)) = lead \o prefix
        /\ Together(FullTexts(heap, full, front)) = lead \o prefix
    BY <1>1, <2>1, SMTT(40) DEF Texts, FullTexts, Together
  <2>3. \A k \in 1..Len(front) : BothWritten(heap, text, full, front[k])
    <3>1. \A k \in 1..Len(front) : k = 1
      BY <1>1
    <3>. QED BY <1>1, <2>1, <3>1, Zenon
  <2>4. ASSUME NEW c, NEW d, Alike(c, d, 16, "anywhere")
        PROVE  SameItems((lead \o prefix) \o c, (lead \o prefix) \o d, lead, lead)
    <3>1. ItemsAlike(prefix \o c, prefix \o d)
      BY <2>4, Zenon DEF OpensACall
    <3>2. c \in Text /\ d \in Text /\ Concats(Text)
      BY <2>4, AlikeTyped, TextsRegroup, Zenon
    <3>3. Cat(Cat(lead, prefix), c) = Cat(lead, Cat(prefix, c))
          /\ Cat(Cat(lead, prefix), d) = Cat(lead, Cat(prefix, d))
      BY <1>2, <3>2, RegroupTwo
    <3>. QED BY <3>1, <3>3, Zenon DEF Cat, SameItems
  <2>5. ASSUME NEW items, NEW items2, ItemsAlike(items, items2)
        PROVE  Alike((lead \o items) \o <<")">>, (lead \o items2) \o <<")">>, 0, place)
    BY <1>2, <2>5, AlikeCall, Zenon
  <2>. QED BY <1>2, <2>2, <2>3, <2>4, <2>5, Zenon DEF Heads, AllWritten
<1>4. 1 \in {1, 3}
  OBVIOUS
<1>. HIDE DEF front, V
<1>. DEFINE parts == front \o CommaList(args) \o <<Fragment(<<")">>)>>
<1>6. \A text, full : Given(heap, n, collates, parts, text, full, place) =>
        \E l, l2 : Heads(heap, text, full, front, l, l2, 0, place)
  BY <1>3, Zenon
<1>7. parts = front \o CommaList(args) \o <<Fragment(<<")">>)>>
  OBVIOUS
<1>. HIDE DEF parts
<1>8. Congruent(heap, n, collates, parts, 0, place)
  BY <1>1, <1>4, <1>6, <1>7, ListCongruent, Zenon
<1>5. Congruent(heap, n, collates, front \o CommaList(args) \o <<Fragment(<<")">>)>>, 0, place)
  BY <1>7, <1>8, Zenon
<1>. QED BY <1>5 DEF front, opening, lead

\* A call of no arguments.
LEMMA EmptyCallCongruent ==
  ASSUME HonestOperators, NEW heap, NEW n, NEW collates, NEW place, NEW name \in Tokens, Plain(name)
  PROVE  Congruent(heap, n, collates, <<Fragment(<<name, "(">> \o <<>>)>> \o CommaList(<<>>)
                              \o <<Fragment(<<")">>)>>, 0, place)
<1>. DEFINE lead == <<name, "(">>
<1>. DEFINE close == <<")">>
<1>1. lead \in Text /\ close \in Text /\ Calls(lead, name)
  <2>1. lead \in Text /\ close \in Text
    BY Keywords, WordsTyped, Zenon
  <2>. QED BY <2>1, NamesCall, Zenon
<1>2. Alike(lead \o close, lead \o close, 0, place)
  BY <1>1, EmptyCallReads, Zenon DEF Alike
<1>3. <<Fragment(<<name, "(">> \o <<>>)>> \o CommaList(<<>>) \o <<Fragment(close)>>
        = <<Fragment(lead), Fragment(close)>>
  <2>1. lead \o <<>> = lead
    BY <1>1, ConcatEmptySeq DEF Text
  <2>2. CommaList(<<>>) = <<>>
    BY DEF CommaList
  <2>. DEFINE first == Fragment(lead)
  <2>. DEFINE second == Fragment(close)
  <2>3. <<first>> \o <<>> = <<first>>
    <3>1. <<first>> \in Seq({first})
      OBVIOUS
    <3>. HIDE DEF first
    <3>. QED BY <3>1, ConcatEmptySeq
  <2>4. <<first>> \o <<second>> = <<first, second>>
    <3>. HIDE DEF first, second
    <3>. QED BY PairConcat
  <2>5. <<Fragment(<<name, "(">> \o <<>>)>> = <<first>>
    BY <2>1
  <2>. HIDE DEF first
  <2>. QED BY <2>2, <2>3, <2>4, <2>5, Zenon DEF first
<1>. HIDE DEF lead, close
<1>4. ASSUME NEW text, NEW full
      PROVE  /\ BothWritten(heap, text, full, Fragment(lead)) /\ BothWritten(heap, text, full, Fragment(close))
             /\ Alike(PartText(heap, text, Fragment(lead)) \o PartText(heap, text, Fragment(close)),
                      FullText(heap, full, Fragment(lead)) \o FullText(heap, full, Fragment(close)), 0, place)
  <2>1. /\ BothWritten(heap, text, full, Fragment(lead))
        /\ PartText(heap, text, Fragment(lead)) = lead /\ FullText(heap, full, Fragment(lead)) = lead
        /\ BothWritten(heap, text, full, Fragment(close))
        /\ PartText(heap, text, Fragment(close)) = close /\ FullText(heap, full, Fragment(close)) = close
    BY <1>1, FragmentWritten
  <2>. QED BY <1>2, <2>1, Zenon
<1>5. Congruent(heap, n, collates, <<Fragment(lead), Fragment(close)>>, 0, place)
  BY <1>4, CongruentTwo
<1>. QED BY <1>3, <1>5, Zenon DEF close

\* IN and NOT IN over a list of values.
LEMMA InListCongruent ==
  ASSUME HonestOperators, NEW heap, NEW n \in Nat, NEW collates, NEW place, Ranked(heap, n), NEW x \in 1..n,
         NEW op \in Tokens, BindsInfix(op, 11), NEW args \in Seq(1..n), Len(args) >= 1
  PROVE  Congruent(heap, n, collates, <<ChildRef(x, 11), Infix(op), Fragment(<<"(">>)>> \o CommaList(args)
                              \o <<Fragment(<<")">>)>>, 11, place)
<1>. DEFINE left  == ChildRef(x, 11)
<1>. DEFINE infix == <<" ", op, " ">>
<1>. DEFINE open  == <<"(">>
<1>. DEFINE first == Fragment(infix)
<1>. DEFINE then  == Fragment(open)
<1>. DEFINE front == <<left, first, then>>
<1>. DEFINE V == {left, first, then}
<1>1. front \in Seq(V) /\ Len(front) = 3 /\ front[1] = left /\ front[2] = first /\ front[3] = then
  OBVIOUS
<1>2. infix \in Text /\ open \in Text
  BY Keywords, WordsTyped, Zenon
<1>3. ASSUME NEW a, NEW a2, NEW items, NEW items2, Alike(a, a2, 10, place), ItemsAlike(items, items2)
      PROVE  Alike((((a \o infix) \o open) \o items) \o <<")">>,
                   (((a2 \o infix) \o open) \o items2) \o <<")">>, 11, place)
  <2>1. Alike(<<"(">> \o items \o <<")">>, <<"(">> \o items2 \o <<")">>, 0, place)
    BY <1>3, AlikeList, Zenon
  <2>2. items \in Text /\ items2 \in Text
    BY <1>3, Zenon DEF ItemsAlike, Items
  <2>3. Alike(a, a2, 11 - 1, place)
    BY <1>3
  <2>. QED BY <2>1, <2>2, <2>3, AlikeInfixBracketed, Zenon
<1>. HIDE DEF infix, open
<1>. DEFINE parts == front \o CommaList(args) \o <<Fragment(<<")">>)>>
<1>7. 1 \in 1..Len(parts) /\ parts[1] = ChildRef(x, 11)
  <2>. HIDE DEF front
  <2>. DEFINE last == Fragment(<<")">>)
  <2>1. Len(args) \in Nat /\ 1 \in 1..3 /\ 3 \in Nat
    BY LenProperties
  <2>. HIDE DEF last
  <2>2. Laid(parts, front, 3, args, Len(args), last)
    BY <1>1, <2>1, ListLayout, Zenon DEF last
  <2>. HIDE DEF parts
  <2>3. Len(parts) = 3 + 2*Len(args) /\ parts[1] = front[1]
    BY <2>1, <2>2, Zenon DEF Laid
  <2>4. 1 \in 1..Len(parts)
    BY <2>1, <2>3
  <2>. QED BY <1>1, <2>3, <2>4, Zenon
<1>8. parts = front \o CommaList(args) \o <<Fragment(<<")">>)>>
  OBVIOUS
<1>. HIDE DEF parts
<1>4. ASSUME NEW text, NEW full, Given(heap, n, collates, parts, text, full, place)
      PROVE  \E lead, lead2 : Heads(heap, text, full, front, lead, lead2, 11, place)
  <2>. DEFINE a == PartText(heap, text, left)
  <2>. DEFINE a2 == FullText(heap, full, left)
  <2>. DEFINE lead == (a \o infix) \o open
  <2>. DEFINE lead2 == (a2 \o infix) \o open
  <2>1. 11 \in 4..16 /\ 11 - 1 = 10
    OBVIOUS
  <2>2. BothWritten(heap, text, full, left) /\ Alike(a, a2, 11 - 1, place)
    BY <1>4, <1>7, <2>1, OperandWritten, Zenon
  <2>3. /\ BothWritten(heap, text, full, first) /\ BothWritten(heap, text, full, then)
        /\ PartText(heap, text, first) = infix /\ FullText(heap, full, first) = infix
        /\ PartText(heap, text, then) = open /\ FullText(heap, full, then) = open
    BY <1>2, FragmentWritten
  <2>4. a \in Text /\ a2 \in Text /\ lead \in Text /\ lead2 \in Text /\ Alike(a, a2, 10, place)
    BY <1>2, <2>1, <2>2, WordsTyped, Zenon DEF BothWritten
  <2>. HIDE DEF left, first, then, front
  <2>5. Together(Texts(heap, text, front)) = lead /\ Together(FullTexts(heap, full, front)) = lead2
    <3>. DEFINE F == Texts(heap, text, front)
    <3>. DEFINE G == FullTexts(heap, full, front)
    <3>1. /\ Len(F) = 3 /\ F[1] = a /\ F[2] = infix /\ F[3] = open
          /\ Len(G) = 3 /\ G[1] = a2 /\ G[2] = infix /\ G[3] = open
      BY <1>1, <2>3 DEF Texts, FullTexts
    <3>. HIDE DEF F, G, a, a2
    <3>2. Together(F) = F[1] \o F[2] \o F[3] /\ Together(G) = G[1] \o G[2] \o G[3]
      BY <3>1 DEF Together
    <3>3. Together(F) = lead /\ Together(G) = lead2
      BY <3>1, <3>2, Zenon
    <3>. QED BY <3>3 DEF F, G
  <2>6. \A k \in 1..Len(front) : BothWritten(heap, text, full, front[k])
    <3>1. \A k \in 1..Len(front) : k = 1 \/ k = 2 \/ k = 3
      BY <1>1
    <3>. QED BY <1>1, <2>2, <2>3, <3>1, Zenon
  <2>. HIDE DEF a, a2
  <2>7. ASSUME NEW items, NEW items2, ItemsAlike(items, items2)
        PROVE  Alike((lead \o items) \o <<")">>, (lead2 \o items2) \o <<")">>, 11, place)
    BY <1>3, <2>4, <2>7, Zenon
  <2>. HIDE DEF lead, lead2
  <2>8. ASSUME NEW c, NEW d, Alike(c, d, 16, "anywhere")
        PROVE  SameItems(lead \o c, lead2 \o d, lead, lead2)
    <3>1. 16 \in 0..17
      OBVIOUS
    <3>2. ItemsAlike(c, d)
      BY <2>8, <3>1, OneItemAlike, Zenon
    <3>. QED BY <3>2, Zenon DEF SameItems
  <2>9. Heads(heap, text, full, front, lead, lead2, 11, place)
    BY <2>4, <2>5, <2>6, <2>7, <2>8, Zenon DEF Heads, AllWritten
  <2>. QED BY <2>9, Zenon
<1>5. 3 \in {1, 3}
  OBVIOUS
<1>. HIDE DEF front, V
<1>9. \A text, full : Given(heap, n, collates, parts, text, full, place) =>
        \E lead, lead2 : Heads(heap, text, full, front, lead, lead2, 11, place)
  BY <1>4, Zenon
<1>6. Congruent(heap, n, collates, parts, 11, place)
  BY <1>1, <1>5, <1>8, <1>9, ListCongruent, Zenon
<1>. QED BY <1>6, Zenon DEF parts, front, left, first, then, infix, open, Infix

-----------------------------------------------------------------------------
\* What a node is to those built over it.
Known(heap, n, collates, parts, text, full) ==
  /\ NodesAlike(heap, n, collates, text, full)
  /\ \A k \in 1..Len(parts) : Fitting(heap, collates, parts, k)

\* A node is read the same with all the brackets around its operands as with those
\* that NeedsParens asks for, if its operands are and fit where they are.
FaithfulNode(heap, n, node) ==
  \A collates, text, full : Known(heap, n, collates, node.parts, text, full) =>
    NodeAlike(node, Outside(heap, collates, node.parts),
              FlattenSeq(Texts(heap, text, node.parts)), FlattenSeq(FullTexts(heap, full, node.parts)))

Faithful(heap) == \A i \in 1..Len(heap) : FaithfulNode(heap, i-1, heap[i])

\* The last call built no node, or one of that kind.
BuildsFaithfully ==
  \/ nodes' = nodes
  \/ \E node : FaithfulNode(nodes, Len(nodes), node) /\ nodes' = Append(nodes, node)

Uncollated(text) == \A m \in 1..Len(text) : text[m] # "COLLATE c"

\* A text that is read at this level, in the lower bound of a BETWEEN too unless it
\* has a COLLATE.
ReadsWherever(text, level) ==
  \A place : (place = "bound" => Uncollated(text)) => \E tree : Reads(text, tree, level, place)

\* The client the reading holds for: the operators, names, statements and raw
\* texts it hands over are what it takes them for.
HonestClient ==
  /\ HonestOperators
  /\ PlainNames
  /\ \A raw \in RawExprs : ReadsWherever(raw.text, Grade(MakeLeaf(raw.text, raw.precedence)))
  /\ \A text \in RawConditions : ReadsWherever(text, Grade(MakeLeaf(text, kSymbol)))

\* A text that reads so wherever it is.
LEMMA ReadsStanding ==
  ASSUME NEW text, NEW level, \A place : \E tree : Reads(text, tree, level, place)
  PROVE  ReadsWherever(text, level)
BY Zenon DEF ReadsWherever

\* It is a text of the client's alphabet.
LEMMA StandingTyped ==
  ASSUME NEW text, NEW level, ReadsWherever(text, level)
  PROVE  text \in Text
<1>1. "anywhere" # "bound"
  OBVIOUS
<1>. QED BY <1>1, Zenon DEF ReadsWherever, Reads

\* The parts of a node that select nothing and are no leaf.
Composite(parts) == Len(parts) # 1 /\ ~(Len(parts) = 3 /\ parts[2].text = <<".">>)

\* The node of an operator or of a call.
Operates(heap, n, parts, level) ==
  Composite(parts) /\ \A collates, place : Congruent(heap, n, collates, parts, level, place)

\* Its level is its precedence, and it is no column or field.
LEMMA CompositeGrade ==
  ASSUME NEW node, Composite(node.parts)
  PROVE  Grade(node) = node.precedence /\ ~IsName(node) /\ ~IsReference(node)
<1>1. \A word : ~Leading(node, word)
  BY Zenon DEF Composite, Leading
<1>2. ~IsName(node)
  BY <1>1, Zenon DEF IsName
<1>3. ~IsReference(node)
  BY <1>2, Zenon DEF IsReference, Composite
<1>4. Grade(node) = node.precedence
  BY <1>1 DEF Grade
<1>. QED BY <1>2, <1>3, <1>4

\* What it stands for.
LEMMA OperatesFaithfully ==
  ASSUME NEW heap, NEW n, NEW node, Operates(heap, n, node.parts, node.precedence)
  PROVE  FaithfulNode(heap, n, node)
<1>. DEFINE parts == node.parts
<1>1. ASSUME NEW collates, NEW text, NEW full, Known(heap, n, collates, parts, text, full)
      PROVE  NodeAlike(node, Outside(heap, collates, parts),
                       FlattenSeq(Texts(heap, text, parts)), FlattenSeq(FullTexts(heap, full, parts)))
  <2>. DEFINE a == FlattenSeq(Texts(heap, text, parts))
  <2>. DEFINE b == FlattenSeq(FullTexts(heap, full, parts))
  <2>. DEFINE collated == Outside(heap, collates, parts)
  <2>1. Composite(parts)
    BY Zenon DEF Operates
  <2>2. Grade(node) = node.precedence /\ ~IsName(node) /\ ~IsReference(node)
    BY <2>1, CompositeGrade, Zenon
  <2>3. ASSUME NEW place, place = "bound" => ~collated PROVE Alike(a, b, Grade(node), place)
    <3>1. Given(heap, n, collates, parts, text, full, place)
      BY <1>1, <2>3, Zenon DEF Given, Known
    <3>2. Congruent(heap, n, collates, parts, node.precedence, place)
      BY Zenon DEF Operates
    <3>. QED BY <2>2, <3>1, <3>2, Zenon DEF Congruent
  <2>. HIDE DEF a, b, collated
  <2>4. NodeAlike(node, collated, a, b)
    BY <2>2, <2>3, Zenon DEF NodeAlike
  <2>. QED BY <2>4, Zenon DEF a, b, collated
<1>. QED BY <1>1, Zenon DEF FaithfulNode

\* A leaf's text is its only part.
LEMMA LeafParts ==
  ASSUME NEW text, NEW precedence
  PROVE  LET node == MakeLeaf(text, precedence)
         IN  /\ node.parts = <<Fragment(text)>> /\ node.precedence = precedence
             /\ Len(node.parts) = 1 /\ node.parts[1] = Fragment(text) /\ node.parts[1].text = text
BY DEF MakeLeaf, Fragment

\* It is written as its text
LEMMA LeafTexts ==
  ASSUME NEW heap, NEW text, NEW full, NEW t \in Text
  PROVE  /\ FlattenSeq(Texts(heap, text, <<Fragment(t)>>)) = t
         /\ FlattenSeq(FullTexts(heap, full, <<Fragment(t)>>)) = t
<1>. DEFINE part == Fragment(t)
<1>1. PartText(heap, text, part) = t /\ FullText(heap, full, part) = t
  BY FragmentTexts, Zenon
<1>. HIDE DEF part
<1>. DEFINE P == Texts(heap, text, <<part>>)
<1>. DEFINE Q == FullTexts(heap, full, <<part>>)
<1>2. P \in Seq(Text) /\ Len(P) = 1 /\ P[1] = t
  BY <1>1 DEF Texts
<1>3. Q \in Seq(Text) /\ Len(Q) = 1 /\ Q[1] = t
  BY <1>1 DEF FullTexts
<1>. HIDE DEF P, Q
<1>4. FlattenSeq(P) = t /\ FlattenSeq(Q) = t
  BY <1>2, <1>3, FlattenFew
<1>. QED BY <1>4 DEF P, Q, part

\* and shows the COLLATE of its text.
LEMMA LeafOutside ==
  ASSUME NEW heap, NEW collates, NEW t, ~Outside(heap, collates, <<Fragment(t)>>)
  PROVE  Uncollated(t)
<1>. DEFINE parts == <<Fragment(t)>>
<1>1. Len(parts) = 1 /\ parts[1].node = 0 /\ parts[1].text = t /\ 1 \in 1..Len(parts)
  BY DEF Fragment
<1>. HIDE DEF parts
<1>2. ~Outside(heap, collates, parts)
  BY DEF parts
<1>. QED BY <1>1, <1>2, Zenon DEF Outside, Uncollated

\* A leaf is what its text is.
LEMMA LeafFaithful ==
  ASSUME NEW heap, NEW n, NEW t, NEW precedence,
         ReadsWherever(t, Grade(MakeLeaf(t, precedence)))
  PROVE  FaithfulNode(heap, n, MakeLeaf(t, precedence))
<1>. DEFINE node == MakeLeaf(t, precedence)
<1>. DEFINE parts == <<Fragment(t)>>
<1>1. /\ node.parts = parts
      /\ Len(node.parts) = 1 /\ node.parts[1].text = t
  BY LeafParts, Zenon
<1>2. t \in Text
  BY StandingTyped, Zenon
<1>3. \A heap0, text, full : /\ FlattenSeq(Texts(heap0, text, parts)) = t
                             /\ FlattenSeq(FullTexts(heap0, full, parts)) = t
  BY <1>2, LeafTexts, Zenon
<1>4. \A collates : ~Outside(heap, collates, parts) => Uncollated(t)
  BY LeafOutside, Zenon
<1>5. ReadsWherever(t, Grade(node))
  OBVIOUS
<1>. HIDE DEF node, parts
<1>6. ASSUME IsName(node) PROVE RefersAlike(t, t)
  <2>1. Len(t) = 1 /\ NameWord(t[1])
    BY <1>1, <1>6, Zenon DEF IsName
  <2>2. t = <<t[1]>> /\ t[1] \in Tokens
    BY <1>2, <2>1, OneToken
  <2>3. Refers(<<t[1]>>, Tree(t[1], <<>>))
    BY <2>1, <2>2, NameRefers, Zenon
  <2>4. Refers(t, Tree(t[1], <<>>))
    BY <2>2, <2>3, Zenon
  <2>. QED BY <2>4, Zenon DEF RefersAlike
<1>7. IsReference(node) => IsName(node)
  <2>1. Len(node.parts) # 3
    BY <1>1
  <2>. QED BY <2>1, Zenon DEF IsReference
<1>8. ASSUME NEW collates PROVE NodeAlike(node, Outside(heap, collates, parts), t, t)
  <2>1. ASSUME NEW place, place = "bound" => ~Outside(heap, collates, parts)
        PROVE  Alike(t, t, Grade(node), place)
    BY <1>4, <1>5, <2>1, Zenon DEF ReadsWherever, Alike
  <2>. QED BY <1>1, <1>6, <1>7, <2>1, Zenon DEF NodeAlike
<1>. QED BY <1>1, <1>3, <1>8, Zenon DEF FaithfulNode, node

\* What a node is from which a field or an element may be selected.
LEMMA SelectionFaithful ==
  ASSUME NEW heap, NEW n, NEW node, Len(node.parts) # 1,
         \A collates, text, full : Known(heap, n, collates, node.parts, text, full) =>
           RefersAlike(FlattenSeq(Texts(heap, text, node.parts)),
                       FlattenSeq(FullTexts(heap, full, node.parts)))
  PROVE  FaithfulNode(heap, n, node)
<1>1. ~IsName(node)
  BY Zenon DEF IsName, Leading
<1>2. ASSUME NEW a, NEW b, RefersAlike(a, b), NEW collated PROVE NodeAlike(node, collated, a, b)
  <2>1. \A place : Alike(a, b, Grade(node), place)
    BY <1>2, RefersAlikeReads, Zenon
  <2>. QED BY <1>1, <1>2, <2>1, Zenon DEF NodeAlike
<1>. QED BY <1>2, Zenon DEF FaithfulNode

\* The last call built a leaf whose text is of its level,
LEMMA LeafBuilt ==
  ASSUME NEW precedence, NEW text, ReadsWherever(text, Grade(MakeLeaf(text, precedence))),
         \/ BuildExpr(MakeLeaf(text, precedence))
         \/ BuildCondition(MakeLeaf(text, precedence))
  PROVE  BuildsFaithfully
<1>. DEFINE node == MakeLeaf(text, precedence)
<1>1. FaithfulNode(nodes, Len(nodes), node)
  BY LeafFaithful, Zenon
<1>2. nodes' = Append(nodes, node)
  BY DEF BuildExpr, BuildCondition, Build
<1>. HIDE DEF node
<1>. QED BY <1>1, <1>2, Zenon DEF BuildsFaithfully

\* an operator or a call,
LEMMA NodeBuilt ==
  ASSUME NEW precedence, NEW parts, Operates(nodes, Len(nodes), parts, precedence),
         \/ BuildExpr(MakeNode(precedence, parts))
         \/ BuildCondition(MakeNode(precedence, parts))
  PROVE  BuildsFaithfully
<1>. DEFINE node == MakeNode(precedence, parts)
<1>1. node.parts = parts /\ node.precedence = precedence
  BY DEF MakeNode
<1>2. nodes' = Append(nodes, node)
  BY DEF BuildExpr, BuildCondition, Build
<1>. HIDE DEF node
<1>3. FaithfulNode(nodes, Len(nodes), node)
  BY <1>1, OperatesFaithfully, Zenon
<1>. QED BY <1>2, <1>3, Zenon DEF BuildsFaithfully

\* or nothing, as one that throws.
LEMMA NothingBuilt ==
  ASSUME NEW exception, Throw(exception)
  PROVE  BuildsFaithfully
BY DEF Throw, BuildsFaithfully

\* The rows of the table that words have.
LEMMA LevelRange ==
  /\ \A word : Level(word) \in 5..17
  /\ \A word : PrefixLevel(word) \in 4..17
  /\ \A word : word \notin {"AS t", "DISTINCT"} => Level(word) \in 5..16 /\ PrefixLevel(word) \in 4..16
<1>1. \A word : Level(word) \in 5..17
  BY DEF Level
<1>2. ASSUME NEW word, word \notin {"AS t", "DISTINCT"} PROVE Level(word) \in 5..16
  <2>1. \/ Level(word) = 5 \/ Level(word) = 7
        \/ Level(word) = 8 \/ Level(word) = 9 \/ Level(word) = 10 \/ Level(word) = 11
        \/ Level(word) = 12 \/ Level(word) = 13 \/ Level(word) = 14 \/ Level(word) = 15
        \/ Level(word) = 16
    BY <1>2 DEF Level, BetweenWords, MatchWords, CompareWords, IsWords
  <2>. QED BY <2>1
<1>3. \A word : PrefixLevel(word) = 4 \/ PrefixLevel(word) = Level(word)
  BY DEF PrefixLevel
<1>4. \A word : PrefixLevel(word) \in 4..17
  BY <1>1, <1>3
<1>5. ASSUME NEW word, word \notin {"AS t", "DISTINCT"} PROVE PrefixLevel(word) \in 4..16
  <2>1. Level(word) \in 5..16
    BY <1>2, <1>5
  <2>. QED BY ONLY <1>3, <2>1
<1>. QED BY <1>1, <1>2, <1>4, <1>5, Zenon

\* An infix operator is never as tight as a sign, nor as loose as the brackets.
LEMMA InfixLevel ==
  ASSUME NEW op, NEW level, BindsInfix(op, level)
  PROVE  level \in 4..16
<1>1. Level(op) = level /\ level \in 1..16
  BY Zenon DEF BindsInfix
<1>2. Level(op) \in 5..17
  BY LevelRange
<1>. QED BY <1>1, <1>2

\* The parts of two operands around an operator,
LEMMA InfixComposite ==
  ASSUME NEW op, NEW a, NEW b, NEW level
  PROVE  Composite(InfixParts(op, a, b, level))
<1>. DEFINE word == <<" ", op, " ">>
<1>1. word # <<".">>
  OBVIOUS
<1>. DEFINE parts == <<a, Fragment(word), b>>
<1>2. \A p, q : Len(<<p, Fragment(word), q>>) = 3 /\ <<p, Fragment(word), q>>[2].text = word
  BY DEF Fragment
<1>. HIDE DEF word, parts
<1>3. \A p, q : Composite(<<p, Fragment(word), q>>)
  <2>1. TAKE p, q
  <2>2. 3 # 1
    OBVIOUS
  <2>. DEFINE three == <<p, Fragment(word), q>>
  <2>3. Len(three) = 3 /\ three[2].text = word
    BY <1>2
  <2>. HIDE DEF three
  <2>4. Composite(three)
    BY <1>1, <2>2, <2>3, Zenon DEF Composite
  <2>. QED BY <2>4 DEF three
<1>4. InfixParts(op, a, b, level) = <<ChildRef(a, level), Fragment(word), ChildRef(b, level)>>
  BY Zenon DEF InfixParts, Infix, word
<1>. QED BY <1>3, <1>4, Zenon

\* and of two parts, or more than three.
LEMMA FewComposite ==
  ASSUME NEW parts, Len(parts) = 2 \/ Len(parts) = 4 \/ Len(parts) = 5
  PROVE  Composite(parts)
BY DEF Composite

LEMMA LongComposite ==
  ASSUME NEW parts, NEW n \in Nat, n >= 1, Len(parts) = 3 + 2 * n
  PROVE  Composite(parts)
BY DEF Composite

\* The operators, as nodes over the nodes built so far.
LEMMA InfixOperates ==
  ASSUME HonestOperators, NEW heap, NEW n \in Nat, Ranked(heap, n), NEW a \in 1..n, NEW b \in 1..n,
         NEW op \in Tokens, NEW level, BindsInfix(op, level) \/ (op = "AND" /\ level = 15)
  PROVE  Operates(heap, n, InfixParts(op, a, b, level), level)
<1>1. level \in 4..16
  BY InfixLevel
<1>2. \A collates, place : Congruent(heap, n, collates, InfixParts(op, a, b, level), level, place)
  BY <1>1, InfixCongruent, Zenon
<1>. QED BY <1>2, InfixComposite, Zenon DEF Operates

LEMMA PrefixOperates ==
  ASSUME HonestOperators, NEW heap, NEW n \in Nat, Ranked(heap, n), NEW x \in 1..n,
         NEW op \in Tokens, op # "DISTINCT", op # "AS t", NEW level, BindsPrefix(op, level),
         NEW lead \in {<<op, " ">>, <<op>>}
  PROVE  Operates(heap, n, <<Fragment(lead), ChildRef(x, level)>>, level)
<1>1. level \in 4..16
  <2>1. PrefixLevel(op) = level
    BY Zenon DEF BindsPrefix
  <2>2. op \notin {"AS t", "DISTINCT"}
    BY Zenon
  <2>3. PrefixLevel(op) \in 4..16
    BY <2>2, LevelRange, Zenon
  <2>. QED BY <2>1, <2>3, Zenon
<1>. DEFINE parts == <<Fragment(lead), ChildRef(x, level)>>
<1>2. \A collates, place : Congruent(heap, n, collates, parts, level, place)
  BY <1>1, PrefixCongruent, Zenon
<1>3. Len(parts) = 2
  OBVIOUS
<1>. HIDE DEF parts
<1>4. Operates(heap, n, parts, level)
  BY <1>2, <1>3, FewComposite, Zenon DEF Operates
<1>. QED BY <1>4 DEF parts

LEMMA PostfixOperates ==
  ASSUME HonestOperators, NEW heap, NEW n \in Nat, Ranked(heap, n), NEW x \in 1..n,
         NEW op \in Tokens, NEW level \in 4..16, BindsPostfix(op, level),
         level >= 11 \/ op = "COLLATE c"
  PROVE  Operates(heap, n, <<ChildRef(x, level), Fragment(<<" ", op>>)>>, level)
<1>. DEFINE parts == <<ChildRef(x, level), Fragment(<<" ", op>>)>>
<1>2. \A collates, place : Congruent(heap, n, collates, parts, level, place)
  BY PostfixCongruent, Zenon
<1>3. Len(parts) = 2
  OBVIOUS
<1>. HIDE DEF parts
<1>4. Operates(heap, n, parts, level)
  BY <1>2, <1>3, FewComposite, Zenon DEF Operates
<1>. QED BY <1>4 DEF parts

LEMMA SubqueryOperates ==
  ASSUME HonestOperators, NEW heap, NEW n \in Nat, Ranked(heap, n), NEW x \in 1..n,
         NEW op \in Tokens, NEW level, BindsInfix(op, level), NEW query \in Tokens, Plain(query)
  PROVE  Operates(heap, n, <<ChildRef(x, level), Fragment(<<" ", op, " ">> \o Bracketed(query))>>, level)
<1>. DEFINE parts == <<ChildRef(x, level), Fragment(<<" ", op, " ">> \o Bracketed(query))>>
<1>1. level \in 4..16
  BY InfixLevel
<1>2. \A collates, place : Congruent(heap, n, collates, parts, level, place)
  BY <1>1, SubqueryCongruent, Zenon
<1>3. Len(parts) = 2
  OBVIOUS
<1>. HIDE DEF parts
<1>4. Operates(heap, n, parts, level)
  BY <1>2, <1>3, FewComposite, Zenon DEF Operates
<1>. QED BY <1>4 DEF parts

LEMMA QuantifiedOperates ==
  ASSUME HonestOperators, NEW heap, NEW n \in Nat, Ranked(heap, n), NEW a \in 1..n, NEW b \in 1..n,
         NEW op \in Tokens, NEW level, BindsInfix(op, level)
  PROVE  Operates(heap, n, <<ChildRef(a, level), Fragment(<<" ", op, " ", "(">>),
                             ChildRef(b, 17), Fragment(<<")">>)>>, level)
<1>. DEFINE parts == <<ChildRef(a, level), Fragment(<<" ", op, " ", "(">>),
                       ChildRef(b, 17), Fragment(<<")">>)>>
<1>1. level \in 4..16
  BY InfixLevel
<1>2. \A collates, place : Congruent(heap, n, collates, parts, level, place)
  BY <1>1, QuantifiedCongruent, Zenon
<1>3. Len(parts) = 4
  OBVIOUS
<1>. HIDE DEF parts
<1>4. Operates(heap, n, parts, level)
  BY <1>2, <1>3, FewComposite, Zenon DEF Operates
<1>. QED BY <1>4 DEF parts

LEMMA CastOperates ==
  ASSUME HonestOperators, NEW heap, NEW n \in Nat, Ranked(heap, n), NEW x \in 1..n
  PROVE  Operates(heap, n, <<Fragment(<<"CAST", " ", "(">>), ChildRef(x, 2),
                             Fragment(<<" ", "AS t", ")">>)>>, 2)
<1>. DEFINE parts == <<Fragment(<<"CAST", " ", "(">>), ChildRef(x, 2), Fragment(<<" ", "AS t", ")">>)>>
<1>2. \A collates, place : Congruent(heap, n, collates, parts, 2, place)
  BY CastCongruent, Zenon
<1>3. Len(parts) = 3 /\ parts[2] = ChildRef(x, 2)
  OBVIOUS
<1>. HIDE DEF parts
<1>4. parts[2].text = <<>> /\ <<>> # <<".">>
  BY <1>3 DEF ChildRef
<1>5. Composite(parts)
  BY <1>3, <1>4 DEF Composite
<1>6. Operates(heap, n, parts, 2)
  BY <1>2, <1>5, Zenon DEF Operates
<1>. QED BY <1>6 DEF parts

LEMMA BetweenOperates ==
  ASSUME HonestOperators, NEW heap, NEW n \in Nat, Ranked(heap, n),
         NEW x \in 1..n, NEW a \in 1..n, NEW b \in 1..n, NEW op \in BetweenWords, op \in Tokens
  PROVE  Operates(heap, n, InfixParts(op, x, a, 11) \o <<Infix("AND"), ChildRef(b, 11)>>, 11)
<1>. DEFINE parts == InfixParts(op, x, a, 11) \o <<Infix("AND"), ChildRef(b, 11)>>
<1>1. \A collates, place : Congruent(heap, n, collates, parts, 11, place)
  BY BetweenCongruent, Zenon
<1>2. Len(parts) = 5
  <2>. DEFINE p == ChildRef(x, 11)
  <2>. DEFINE q == Infix(op)
  <2>. DEFINE r == ChildRef(a, 11)
  <2>. DEFINE s == Infix("AND")
  <2>. DEFINE t == ChildRef(b, 11)
  <2>1. parts = <<p, q, r>> \o <<s, t>>
    BY Zenon DEF InfixParts
  <2>. HIDE DEF p, q, r, s, t, parts
  <2>2. Len(<<p, q, r>> \o <<s, t>>) = 5
    BY ThreeAndTwo
  <2>. QED BY <2>1, <2>2, Zenon
<1>. HIDE DEF parts
<1>3. Operates(heap, n, parts, 11)
  BY <1>1, <1>2, FewComposite, Zenon DEF Operates
<1>. QED BY <1>3 DEF parts

\* The calls, with operands
LEMMA CallOperates ==
  ASSUME HonestOperators, NEW heap, NEW n \in Nat, Ranked(heap, n), NEW name \in Tokens, Plain(name),
         NEW prefix, OpensACall(prefix), NEW args \in Seq(1..n), Len(args) >= 1
  PROVE  Operates(heap, n, <<Fragment(<<name, "(">> \o prefix)>> \o CommaList(args)
                             \o <<Fragment(<<")">>)>>, 0)
<1>. DEFINE opening == Fragment(<<name, "(">> \o prefix)
<1>. DEFINE last == Fragment(<<")">>)
<1>. DEFINE parts == <<opening>> \o CommaList(args) \o <<last>>
<1>1. \A collates, place : Congruent(heap, n, collates, parts, 0, place)
  BY CallCongruent, Zenon
<1>. HIDE DEF opening, last
<1>2. Laid(parts, <<opening>>, 1, args, Len(args), last)
  <2>1. <<opening>> \in Seq({opening}) /\ Len(<<opening>>) = 1 /\ 1 \in Nat
    OBVIOUS
  <2>. QED BY <2>1, ListLayout, Zenon
<1>. HIDE DEF parts
<1>3. Len(args) \in Nat
  BY LenProperties
<1>4. Len(parts) = 1 + 2 * Len(args) /\ parts[2] = ChildRef(args[1], kExtract)
  <2>1. parts[1 + 2 * 1 - 1] = ChildRef(args[1], kExtract) /\ Len(parts) = 1 + 2 * Len(args)
    <3>1. 1 \in 1..Len(args)
      BY <1>3
    <3>. QED BY <1>2, <3>1, Zenon DEF Laid
  <2>2. 1 + 2 * 1 - 1 = 2
    OBVIOUS
  <2>. QED BY <2>1, <2>2
<1>5. parts[2].text = <<>> /\ <<>> # <<".">>
  BY <1>4 DEF ChildRef
<1>6. Len(parts) # 1
  BY <1>3, <1>4
<1>7. Composite(parts)
  BY <1>5, <1>6 DEF Composite
<1>8. Operates(heap, n, parts, 0)
  BY <1>1, <1>7, Zenon DEF Operates
<1>. QED BY <1>8 DEF parts, opening, last

\* and without;
LEMMA EmptyCallOperates ==
  ASSUME HonestOperators, NEW heap, NEW n \in Nat, NEW name \in Tokens, Plain(name)
  PROVE  Operates(heap, n, <<Fragment(<<name, "(">> \o <<>>)>> \o CommaList(<<>>)
                             \o <<Fragment(<<")">>)>>, 0)
<1>. DEFINE opening == Fragment(<<name, "(">> \o <<>>)
<1>. DEFINE last == Fragment(<<")">>)
<1>. DEFINE parts == <<opening>> \o CommaList(<<>>) \o <<last>>
<1>1. \A collates, place : Congruent(heap, n, collates, parts, 0, place)
  BY EmptyCallCongruent, Zenon
<1>2. Len(parts) = 2
  <2>1. CommaList(<<>>) = <<>>
    BY DEF CommaList
  <2>. HIDE DEF opening, last
  <2>. QED BY <2>1
<1>. HIDE DEF parts
<1>3. Operates(heap, n, parts, 0)
  BY <1>1, <1>2, FewComposite, Zenon DEF Operates
<1>. QED BY <1>3 DEF parts

\* IN of a list.
LEMMA InListOperates ==
  ASSUME HonestOperators, NEW heap, NEW n \in Nat, Ranked(heap, n), NEW x \in 1..n,
         NEW op \in Tokens, BindsInfix(op, 11), NEW args \in Seq(1..n), Len(args) >= 1
  PROVE  Operates(heap, n, <<ChildRef(x, 11), Infix(op), Fragment(<<"(">>)>> \o CommaList(args)
                             \o <<Fragment(<<")">>)>>, 11)
<1>. DEFINE p == ChildRef(x, 11)
<1>. DEFINE q == Infix(op)
<1>. DEFINE r == Fragment(<<"(">>)
<1>. DEFINE last == Fragment(<<")">>)
<1>. DEFINE front == <<p, q, r>>
<1>. DEFINE parts == front \o CommaList(args) \o <<last>>
<1>1. \A collates, place : Congruent(heap, n, collates, parts, 11, place)
  BY InListCongruent, Zenon
<1>. HIDE DEF p, q, r, last
<1>2. Laid(parts, front, 3, args, Len(args), last)
  <2>1. front \in Seq({p, q, r}) /\ Len(front) = 3 /\ 3 \in Nat
    OBVIOUS
  <2>. HIDE DEF front
  <2>. QED BY <2>1, ListLayout, Zenon
<1>. HIDE DEF front, parts
<1>3. Len(args) \in Nat
  BY LenProperties
<1>4. Len(parts) = 3 + 2 * Len(args)
  BY <1>2, Zenon DEF Laid
<1>5. Composite(parts)
  BY <1>3, <1>4, LongComposite
<1>6. Operates(heap, n, parts, 11)
  BY <1>1, <1>5, Zenon DEF Operates
<1>. QED BY <1>6 DEF parts, front, p, q, r, last

-----------------------------------------------------------------------------
\* Two sequences put together, of known lengths.
Puts(u, m, s, n, t) ==
  /\ Len(u) = m + n
  /\ \A k \in 1..m : u[k] = s[k]
  /\ \A k \in 1..n : u[m + k] = t[k]

\* That is what concatenation does.
LEMMA ConcatPuts ==
  ASSUME NEW S, NEW s \in Seq(S), NEW t \in Seq(S), NEW m, NEW n, Len(s) = m, Len(t) = n
  PROVE  s \o t \in Seq(S) /\ Puts(s \o t, m, s, n, t)
<1>. DEFINE u == s \o t
<1>1. /\ u \in Seq(S) /\ Len(u) = Len(s) + Len(t)
      /\ \A k \in 1 .. Len(s) + Len(t) : u[k] = IF k <= Len(s) THEN s[k] ELSE t[k - Len(s)]
  BY ConcatProperties
<1>2. m \in Nat /\ n \in Nat
  BY LenProperties
<1>. HIDE DEF u
<1>3. Len(u) = m + n /\ \A k \in 1..m+n : u[k] = IF k <= m THEN s[k] ELSE t[k - m]
  BY <1>1
<1>4. \A k \in 1..m : u[k] = s[k]
  BY <1>2, <1>3
<1>5. \A k \in 1..n : u[m + k] = t[k]
  <2>1. TAKE k \in 1..n
  <2>2. m + k \in 1..m+n /\ ~(m + k <= m) /\ m + k - m = k
    BY <1>2
  <2>. QED BY <1>3, <2>2
<1>6. Puts(u, m, s, n, t)
  BY <1>3, <1>4, <1>5 DEF Puts
<1>. QED BY <1>1, <1>6 DEF u

\* Texts of four words,
LEMMA FourWords ==
  ASSUME NEW a, NEW b, NEW c, NEW d
  PROVE  <<a, b>> \o <<c, d>> = <<a, b, c, d>>
<1>. DEFINE S == {a, b, c, d}
<1>. DEFINE s == <<a, b>>
<1>. DEFINE t == <<c, d>>
<1>. DEFINE u == s \o t
<1>. DEFINE v == <<a, b, c, d>>
<1>1. s \in Seq(S) /\ t \in Seq(S) /\ v \in Seq(S)
  OBVIOUS
<1>2. Len(s) = 2 /\ s[1] = a /\ s[2] = b /\ Len(t) = 2 /\ t[1] = c /\ t[2] = d
  OBVIOUS
<1>3. Len(v) = 4 /\ v[1] = a /\ v[2] = b /\ v[3] = c /\ v[4] = d
  OBVIOUS
<1>. HIDE DEF s, t, v, S
<1>4. u \in Seq(S) /\ Puts(u, 2, s, 2, t)
  BY <1>1, <1>2, ConcatPuts
<1>. HIDE DEF u
<1>5. Len(u) = 4 /\ u[1] = a /\ u[2] = b /\ u[2+1] = c /\ u[2+2] = d
  BY <1>2, <1>4 DEF Puts
<1>6. Len(u) = Len(v) /\ \A k \in 1..Len(u) : u[k] = v[k]
  <2>1. \A k \in 1..4 : k = 1 \/ k = 2 \/ k = 3 \/ k = 4
    OBVIOUS
  <2>. QED BY <1>3, <1>5, <2>1
<1>7. u = v
  BY <1>1, <1>4, <1>6, SeqEqual
<1>. QED BY <1>7 DEF u, v, s, t

\* and the first word of what is put together.
LEMMA HeadConcat ==
  ASSUME NEW s \in Text, NEW t \in Text, Len(s) = 2
  PROVE  s \o t # <<>> /\ (s \o t)[1] = s[1]
<1>1. Puts(s \o t, Len(s), s, Len(t), t)
  BY ConcatPuts, Zenon DEF Text
<1>2. Len(s) \in Nat /\ Len(t) \in Nat
  BY LenProperties DEF Text
<1>3. 1 \in 1..Len(s) /\ Len(s) + Len(t) # 0
  BY <1>2
<1>4. Len(s \o t) # 0 /\ (s \o t)[1] = s[1]
  BY <1>1, <1>3, Zenon DEF Puts
<1>5. Len(<<>>) = 0
  OBVIOUS
<1>. QED BY <1>4, <1>5, Zenon

\* What the lemmas on nodes assume of a heap.
LEMMA HeapRanked ==
  ASSUME Inv
  PROVE  Len(nodes) \in Nat /\ Exprs = 1..Len(nodes) /\ Ranked(nodes, Len(nodes))
<1>1. nodes \in Seq(Node) /\ Len(nodes) \in Nat /\ DOMAIN nodes = 1..Len(nodes)
  BY InvWellFormed DEF WellFormed
<1>2. \A i \in 1..Len(nodes) : nodes[i] \in Node
  BY <1>1, ElementOfSeq
<1>3. Precedences = 0..17
  BY DEF Precedences, kSymbol, kExtract
<1>. QED BY <1>1, <1>2, <1>3 DEF Exprs, Ranked, Node

\* The levels the methods pass, by their number.
LEMMA LevelsCounted ==
  /\ kSymbol = 0 /\ kDot = 1 /\ kTypecast = 2 /\ kIndex = 3 /\ kUnaryPlus = 4 /\ kCollate = 5
  /\ kExp = 7 /\ kMul = 8 /\ kPlus = 9 /\ kAnyOther = 10 /\ kBetween = 11 /\ kCompare = 12
  /\ kIs = 13 /\ kNot = 14 /\ kAnd = 15 /\ kOr = 16 /\ kExtract = 17
BY DEF kSymbol, kDot, kTypecast, kIndex, kUnaryPlus, kCollate, kExp, kMul, kPlus, kAnyOther,
       kBetween, kCompare, kIs, kNot, kAnd, kOr, kExtract

\* A text that is read at this level wherever it is.
Reading(text, level) == \A place : \E tree : Reads(text, tree, level, place)

LEMMA ReadingLoosely ==
  ASSUME NEW text, NEW level \in Nat, NEW looser \in Nat, level <= looser, Reading(text, level)
  PROVE  Reading(text, looser) /\ ReadsWherever(text, looser)
<1>1. Reading(text, looser)
  BY ReadsLoosely, Zenon DEF Reading
<1>. QED BY <1>1, ReadsStanding, Zenon DEF Reading

LEMMA WordReading ==
  ASSUME NEW word \in Tokens, Plain(word)
  PROVE  Reading(<<word>>, 0)
BY WordReads, Zenon DEF Reading

\* Behind a prefix operator.
LEMMA PrefixReading ==
  ASSUME NEW op \in Tokens, NEW level, BindsPrefix(op, level), NEW b, Reading(b, 0)
  PROVE  Reading(<<op, " ">> \o b, level) /\ Reading(<<op>> \o b, level)
<1>1. level-1 \in Nat /\ 0 \in Nat /\ 0 <= level-1
  <2>1. level \in 1..17
    BY Zenon DEF BindsPrefix
  <2>. QED BY <2>1
<1>2. Reading(b, level-1)
  BY <1>1, ReadingLoosely, Zenon
<1>. QED BY <1>2, PrefixReads, Zenon DEF Reading

\* A leaf of a symbol's precedence is of the lowest level, or of that of the
\* operator its text begins with.
LEMMA LeafGrade ==
  ASSUME NEW text
  PROVE  LET node == MakeLeaf(text, 0)
         IN  /\ Grade(node) \in 0..17
             /\ text # <<>> /\ text[1] = "NOT" => Grade(node) = 14
             /\ text # <<>> /\ text[1] = "-" => Grade(node) = 4
<1>. DEFINE node == MakeLeaf(text, 0)
<1>1. node.precedence = 0 /\ Len(node.parts) = 1 /\ node.parts[1].text = text
  BY DEF MakeLeaf, Fragment
<1>. HIDE DEF node
<1>2. Grade(node) \in 0..17
  BY <1>1, GradeRanked
<1>3. ASSUME text # <<>>, text[1] = "NOT" PROVE Grade(node) = 14
  <2>1. Leading(node, "NOT")
    BY <1>1, <1>3, Zenon DEF Leading
  <2>2. ~Leading(node, Dash)
    <3>1. "NOT" # "-"
      OBVIOUS
    <3>. QED BY <1>1, <1>3, <3>1, Zenon DEF Leading, Dash
  <2>3. Grade(node) = Looser(node.precedence, kNot)
    BY <2>1, <2>2, Zenon DEF Grade
  <2>. QED BY ONLY <1>1, <2>3 DEF Looser, kNot
<1>4. ASSUME text # <<>>, text[1] = "-" PROVE Grade(node) = 4
  <2>1. Leading(node, Dash)
    BY <1>1, <1>4, Zenon DEF Leading, Dash
  <2>2. ~Leading(node, "NOT")
    <3>1. "NOT" # "-"
      OBVIOUS
    <3>. QED BY <1>1, <1>4, <3>1, Zenon DEF Leading
  <2>3. Grade(node) = Looser(node.precedence, kUnaryPlus)
    BY <2>1, <2>2, Zenon DEF Grade
  <2>. QED BY ONLY <1>1, <2>3 DEF Looser, kUnaryPlus
<1>. QED BY <1>2, <1>3, <1>4 DEF node

\* A leaf that is read as tight as a symbol, or whose first word is a prefix operator
\* before such a text.
LEMMA SymbolStands ==
  ASSUME NEW text, Reading(text, 0)
  PROVE  ReadsWherever(text, Grade(MakeLeaf(text, kSymbol)))
<1>1. kSymbol = 0
  BY DEF kSymbol
<1>. DEFINE grade == Grade(MakeLeaf(text, 0))
<1>2. grade \in 0..17
  BY LeafGrade, Zenon
<1>. HIDE DEF grade
<1>3. grade \in Nat /\ 0 \in Nat /\ 0 <= grade
  BY <1>2
<1>4. ReadsWherever(text, grade)
  BY <1>3, ReadingLoosely, Zenon
<1>. QED BY <1>1, <1>4 DEF grade

LEMMA IntegerStands ==
  ASSUME HonestOperators, PlainNames, NEW n \in Numbers
  PROVE  ReadsWherever(IntegerText(n), Grade(MakeLeaf(IntegerText(n), kSymbol)))
<1>1. n \in Int /\ Digits[Magnitude(n)] \in Tokens /\ Plain(Digits[Magnitude(n)])
  BY ClientAssumption DEF PlainNames, Magnitude
<1>. DEFINE digits == Digits[Magnitude(n)]
<1>2. Reading(<<digits>>, 0)
  BY <1>1, WordReading, Zenon
<1>3. CASE n < 0
  <2>. DEFINE text == <<"-", digits>>
  <2>1. IntegerText(n) = text
    BY <1>3 DEF IntegerText, Magnitude
  <2>. HIDE DEF digits
  <2>2. text = <<"-">> \o <<digits>> /\ text # <<>> /\ text[1] = "-"
    OBVIOUS
  <2>3. Reading(text, 4)
    <3>1. BindsPrefix("-", 4)
      BY MethodsArePrefix DEF kUnaryPlus
    <3>2. Reading(<<"-">> \o <<digits>>, 4)
      BY <1>2, <3>1, Keywords, PrefixReading, Zenon
    <3>. QED BY <2>2, <3>2, Zenon
  <2>. HIDE DEF text
  <2>4. ReadsWherever(text, 4)
    BY <2>3, ReadsStanding, Zenon DEF Reading
  <2>5. Grade(MakeLeaf(text, 0)) = 4
    BY <2>2, LeafGrade, Zenon
  <2>6. kSymbol = 0
    BY DEF kSymbol
  <2>. QED BY <2>1, <2>4, <2>5, <2>6, Zenon
<1>4. CASE ~(n < 0)
  <2>1. IntegerText(n) = <<digits>>
    BY <1>4 DEF IntegerText, Magnitude
  <2>. QED BY <1>2, <2>1, SymbolStands, Zenon
<1>. QED BY <1>3, <1>4

LEMMA ExistsStands ==
  ASSUME HonestOperators, NEW query \in Tokens, Plain(query), NEW test \in {"EXISTS", "NOT EXISTS"}
  PROVE  ReadsWherever(ExistsWords(test) \o Bracketed(query),
                  Grade(MakeLeaf(ExistsWords(test) \o Bracketed(query), kSymbol)))
<1>. DEFINE plain == ExistsWords("EXISTS") \o Bracketed(query)
<1>1. Reading(plain, 0)
  BY ExistsReads, Zenon DEF Reading
<1>2. CASE test = "EXISTS"
  BY <1>1, <1>2, SymbolStands, Zenon
<1>3. CASE test = "NOT EXISTS"
  <2>. DEFINE first == <<"NOT", " ">>
  <2>. DEFINE second == <<"EXISTS", " ">>
  <2>. DEFINE third == Bracketed(query)
  <2>. DEFINE text == (first \o second) \o third
  <2>1. first \in Text /\ second \in Text /\ third \in Text
    BY Keywords, FragmentsTyped, WordsTyped, Zenon
  <2>2. ExistsWords(test) = first \o second
    <3>1. test # "EXISTS"
      BY <1>3
    <3>2. ExistsWords(test) = <<"NOT", " ", "EXISTS", " ">>
      BY <3>1, Zenon DEF ExistsWords
    <3>3. first \o second = <<"NOT", " ", "EXISTS", " ">>
      BY FourWords, Zenon
    <3>. QED BY <3>2, <3>3, Zenon
  <2>3. plain = second \o third
    BY Zenon DEF ExistsWords
  <2>4. text = first \o (second \o third)
    BY <2>1, TextsRegroup, Zenon DEF Concats, Cat
  <2>5. Reading(first \o plain, 14)
    <3>1. BindsPrefix("NOT", 14)
      BY MethodsArePrefix DEF kNot
    <3>. QED BY <1>1, <3>1, Keywords, PrefixReading, Zenon
  <2>6. Reading(text, 14)
    BY <2>3, <2>4, <2>5, Zenon
  <2>7. text # <<>> /\ text[1] = "NOT"
    <3>1. Len(first) = 2 /\ first[1] = "NOT"
      BY TupleParts, Zenon
    <3>. HIDE DEF first, second, third
    <3>2. second \o third \in Text
      BY <2>1, WordsTyped, Zenon
    <3>. QED BY <2>1, <2>4, <3>1, <3>2, HeadConcat, Zenon
  <2>. HIDE DEF first, second, third, text, plain
  <2>8. ReadsWherever(text, 14)
    BY <2>6, ReadsStanding, Zenon DEF Reading
  <2>9. Grade(MakeLeaf(text, 0)) = 14
    BY <2>7, LeafGrade, Zenon
  <2>10. kSymbol = 0 /\ ExistsWords(test) \o Bracketed(query) = text
    BY <2>2 DEF kSymbol, text, third
  <2>. QED BY <2>8, <2>9, <2>10, Zenon
<1>. QED BY <1>2, <1>3, Zenon

\* The leaves.
LEMMA NewLeafFaithful ==
  ASSUME Inv, HonestClient, NewLeaf
  PROVE  BuildsFaithfully
<1>1. ASSUME NEW raw \in RawExprs, FromRaw(raw) PROVE BuildsFaithfully
  BY <1>1, LeafBuilt, Zenon DEF FromRaw, HonestClient
<1>2. ASSUME NEW n \in Numbers, FromInteger(n) PROVE BuildsFaithfully
  BY <1>2, IntegerStands, LeafBuilt, Zenon DEF FromInteger, HonestClient
<1>3. ASSUME NEW text \in RawConditions, ConditionFromRaw(text) PROVE BuildsFaithfully
  BY <1>3, LeafBuilt, Zenon DEF ConditionFromRaw, HonestClient
<1>4. ASSUME NEW word \in Operators, Word(word) PROVE BuildsFaithfully
  <2>1. word \in Tokens /\ word \in {"NULL", "TRUE", "FALSE", "COUNT(*)"} /\ HonestOperators
    BY <1>4, ClientAssumption DEF Word, HonestClient
  <2>2. Plain(word)
    BY <2>1, NamesArePlain
  <2>3. Reading(<<word>>, 0)
    BY <2>1, <2>2, WordReading, Zenon
  <2>. QED BY <1>4, <2>3, SymbolStands, LeafBuilt, Zenon DEF Word
<1>5. ASSUME NEW test \in Operators, NEW query \in Subqueries, Exists(test, query)
      PROVE  BuildsFaithfully
  <2>1. test \in {"EXISTS", "NOT EXISTS"} /\ query \in Tokens /\ HonestOperators /\ Plain(query)
    BY <1>5, ClientAssumption DEF Exists, HonestClient, PlainNames
  <2>2. ReadsWherever(ExistsWords(test) \o Bracketed(query),
                  Grade(MakeLeaf(ExistsWords(test) \o Bracketed(query), kSymbol)))
    BY <2>1, ExistsStands, Zenon
  <2>. QED BY <1>5, <2>2, LeafBuilt, Zenon DEF Exists
<1>. QED BY <1>1, <1>2, <1>3, <1>4, <1>5 DEF NewLeaf

\* The calls of functions and aggregates.
LEMMA CallFaithful ==
  ASSUME Inv, HonestClient, NEW name \in Tokens, name \notin Malformed => Plain(name),
         NEW args \in Seq(Exprs),
         Call(name, args) \/ CallDistinct(name, args)
  PROVE  BuildsFaithfully
<1>. DEFINE distinct == <<"DISTINCT", " ">>
<1>. DEFINE Parts(prefix) == <<Fragment(<<name, "(">> \o prefix)>> \o CommaList(args)
                               \o <<Fragment(<<")">>)>>
<1>1. /\ Len(nodes) \in Nat /\ args \in Seq(1..Len(nodes)) /\ Ranked(nodes, Len(nodes))
      /\ HonestOperators
  BY HeapRanked DEF HonestClient
<1>2. OpensACall(distinct) /\ OpensACall(<<>>)
  BY <1>1, NothingPrefixes, DistinctPrefixes, Zenon
<1>3. args # <<>> => Len(args) >= 1
  BY LenProperties
<1>. HIDE DEF distinct
<1>4. ASSUME Plain(name), NEW prefix, OpensACall(prefix), Len(args) >= 1
      PROVE  Operates(nodes, Len(nodes), Parts(prefix), 0)
  BY <1>1, <1>4, CallOperates
<1>5. ASSUME Plain(name), args = <<>>
      PROVE  Operates(nodes, Len(nodes), Parts(<<>>), 0)
  BY <1>1, <1>5, EmptyCallOperates
<1>6. CASE Call(name, args)
  <2>1. CASE Throw("InvalidIdentifier")
    BY <2>1, NothingBuilt
  <2>2. CASE name \notin Malformed /\ BuildExpr(BuildCallNode(name, <<>>, args))
    <3>1. Operates(nodes, Len(nodes), Parts(<<>>), kSymbol)
      BY <1>2, <1>3, <1>4, <1>5, <2>2, LevelsCounted
    <3>2. BuildExpr(MakeNode(kSymbol, Parts(<<>>)))
      BY <2>2 DEF BuildCallNode
    <3>. HIDE DEF Parts
    <3>. QED BY <3>1, <3>2, NodeBuilt
  <2>. QED BY <1>6, <2>1, <2>2 DEF Call
<1>7. CASE CallDistinct(name, args)
  <2>1. CASE Throw("InvalidIdentifier") \/ Throw("InvalidArgument")
    BY <2>1, NothingBuilt
  <2>2. CASE name \notin Malformed /\ args # <<>>
             /\ BuildExpr(BuildCallNode(name, <<"DISTINCT", " ">>, args))
    <3>1. Operates(nodes, Len(nodes), Parts(distinct), kSymbol)
      BY <1>2, <1>3, <1>4, <2>2, LevelsCounted
    <3>2. BuildExpr(MakeNode(kSymbol, Parts(distinct)))
      BY <2>2 DEF BuildCallNode, distinct
    <3>. HIDE DEF Parts
    <3>. QED BY <3>1, <3>2, NodeBuilt
  <2>. QED BY <1>7, <2>1, <2>2 DEF CallDistinct
<1>. QED BY <1>6, <1>7

\* IN and NOT IN of a list.
LEMMA InListFaithful ==
  ASSUME Inv, HonestClient, NEW op \in Operators, NEW x \in Exprs, NEW args \in Seq(Exprs),
         InList(op, x, args)
  PROVE  BuildsFaithfully
<1>1. CASE Throw("InvalidArgument")
  BY <1>1, NothingBuilt
<1>2. CASE args # <<>> /\ BuildCondition(BuildInListNode(x, op, args))
  <2>. DEFINE parts == <<ChildRef(x, kBetween), Infix(op), Fragment(<<"(">>)>>
                         \o CommaList(args) \o <<Fragment(<<")">>)>>
  <2>1. op \in {"IN", "NOT IN"} /\ op \in Tokens /\ HonestOperators
    BY ClientAssumption DEF InList, HonestClient
  <2>2. BindsInfix(op, 11)
    <3>1. op \in MatchWords
      BY <2>1 DEF MatchWords
    <3>. QED BY <3>1, MethodsAreInfix, LevelsCounted
  <2>3. /\ Len(nodes) \in Nat /\ args \in Seq(1..Len(nodes)) /\ Ranked(nodes, Len(nodes))
        /\ x \in 1..Len(nodes) /\ Len(args) >= 1
    BY <1>2, HeapRanked, LenProperties
  <2>4. Operates(nodes, Len(nodes), parts, kBetween)
    BY <2>1, <2>2, <2>3, InListOperates, LevelsCounted
  <2>5. BuildCondition(MakeNode(kBetween, parts))
    BY <1>2 DEF BuildInListNode
  <2>. HIDE DEF parts
  <2>. QED BY <2>4, <2>5, NodeBuilt
<1>. QED BY <1>1, <1>2 DEF InList

\* Whatever takes a list of operands.
LEMMA NewListFaithful ==
  ASSUME Inv, HonestClient, NewList
  PROVE  BuildsFaithfully
<1>1. PICK args \in Argument :
        \/ \E name \in Functions : Call(name, args) \/ CallDistinct(name, args)
        \/ \E name \in Operators : CallNonEmpty(name, args)
        \/ \E op \in Operators, x \in Exprs : InList(op, x, args)
  BY DEF NewList
<1>2. Functions \subseteq Tokens /\ Operators \subseteq Tokens
  BY ClientAssumption
<1>3. args \in Seq(Exprs)
  BY BoundedArgs
<1>4. ASSUME NEW name \in Functions, Call(name, args) \/ CallDistinct(name, args)
      PROVE  BuildsFaithfully
  <2>1. name \notin Malformed => Plain(name)
    BY DEF HonestClient, PlainNames
  <2>. QED BY <1>2, <1>3, <1>4, <2>1, CallFaithful
<1>5. ASSUME NEW name \in Operators, CallNonEmpty(name, args)
      PROVE  BuildsFaithfully
  <2>1. CASE Throw("InvalidArgument")
    BY <2>1, NothingBuilt
  <2>2. CASE Call(name, args)
    <3>1. Plain(name)
      BY <1>5, NamesArePlain DEF CallNonEmpty, HonestClient, PlainNames
    <3>. QED BY <1>2, <1>3, <2>2, <3>1, CallFaithful
  <2>. QED BY <1>5, <2>1, <2>2 DEF CallNonEmpty
<1>. QED BY <1>1, <1>3, <1>4, <1>5, InListFaithful

\* Whatever takes one operand.
LEMMA NewUnaryFaithful ==
  ASSUME Inv, HonestClient, NewUnary
  PROVE  BuildsFaithfully
<1>1. PICK x \in Exprs :
        \/ \E custom \in PrefixOperators : PrefixOp(custom.op, x, custom.precedence)
        \/ Negate(x) \/ NotExpr(x) \/ NotCondition(x) \/ Collate(x) \/ CastRaw(x)
        \/ \E op \in Operators : IsTest(op, x) \/ Aggregate(op, x)
        \/ CountDistinct(x)
        \/ \E op \in Operators, query \in Subqueries :
             InSubquery(op, x, query) \/ QuantifiedSubquery(op, x, query)
  BY DEF NewUnary
<1>. DEFINE n == Len(nodes)
<1>2. /\ n \in Nat /\ Ranked(nodes, n) /\ HonestOperators
      /\ x \in 1..n /\ Operators \subseteq Tokens /\ Subqueries \subseteq Tokens
  BY <1>1, HeapRanked, ClientAssumption DEF HonestClient, PlainNames
<1>3. ASSUME NEW op \in Tokens, op # "DISTINCT", op # "AS t", NEW level, BindsPrefix(op, level)
      PROVE  /\ Operates(nodes, n, <<Fragment(<<op, " ">>), ChildRef(x, level)>>, level)
             /\ Operates(nodes, n, <<Fragment(<<op>>), ChildRef(x, level)>>, level)
  <2>. DEFINE leads == {<<op, " ">>, <<op>>}
  <2>1. <<op, " ">> \in leads /\ <<op>> \in leads
    BY Zenon
  <2>. HIDE DEF n
  <2>. QED BY <1>2, <1>3, <2>1, PrefixOperates, Zenon
<1>4. ASSUME NEW op \in Tokens, NEW level \in 4..16, BindsPostfix(op, level),
             level >= 11 \/ op = "COLLATE c"
      PROVE  Operates(nodes, n, <<ChildRef(x, level), Fragment(<<" ", op>>)>>, level)
  <2>. HIDE DEF n
  <2>. QED BY <1>2, <1>4, PostfixOperates, Zenon
<1>5. ASSUME NEW op \in Tokens, NEW level, BindsInfix(op, level), NEW query \in Subqueries
      PROVE  Operates(nodes, n,
                       <<ChildRef(x, level), Fragment(<<" ", op, " ">> \o Bracketed(query))>>, level)
  <2>1. query \in Tokens /\ Plain(query)
    <3>1. Plain(query)
      BY Zenon DEF HonestClient, PlainNames
    <3>. QED BY <1>2, <3>1
  <2>. HIDE DEF n
  <2>. QED BY <1>2, <1>5, <2>1, SubqueryOperates
<1>6. ASSUME NEW custom \in PrefixOperators, PrefixOp(custom.op, x, custom.precedence)
      PROVE  BuildsFaithfully
  <2>1. CASE Throw("InvalidOperator")
    BY <2>1, NothingBuilt
  <2>. DEFINE op == custom.op
  <2>. DEFINE level == custom.precedence
  <2>2. CASE /\ op \notin Malformed
             /\ BuildExpr(MakeNode(level, <<Fragment(<<op, " ">>), ChildRef(x, level)>>))
    <3>1. BindsPrefix(op, level) /\ op \in Tokens
      BY <1>2, <2>2, MethodsArePrefix, ClientAssumption
    <3>3. op # "DISTINCT" /\ op # "AS t"
      <4>1. op \notin OwnWords
        BY <1>2, <2>2, Zenon DEF HonestOperators
      <4>. HIDE DEF op
      <4>. QED BY <4>1 DEF OwnWords, Punctuation
    <3>. HIDE DEF op, level
    <3>2. Operates(nodes, n, <<Fragment(<<op, " ">>), ChildRef(x, level)>>, level)
      BY <1>3, <3>1, <3>3, Zenon
    <3>. QED BY <2>2, <3>2, NodeBuilt
  <2>. QED BY <1>6, <2>1, <2>2 DEF PrefixOp
<1>7. CASE Negate(x)
  <2>. DEFINE op == "-"
  <2>1. BindsPrefix(op, kUnaryPlus) /\ op \in Tokens /\ op # "DISTINCT" /\ op # "AS t"
    BY <1>2, MethodsArePrefix, Keywords
  <2>. DEFINE parts == <<Fragment(<<op>>), ChildRef(x, kUnaryPlus)>>
  <2>2. BuildExpr(MakeNode(kUnaryPlus, parts))
    BY <1>7 DEF Negate
  <2>3. Operates(nodes, n, parts, kUnaryPlus)
    <3>. HIDE DEF op
    <3>. QED BY <1>3, <2>1, Zenon
  <2>. HIDE DEF parts
  <2>. QED BY <2>2, <2>3, NodeBuilt
<1>8. CASE NotExpr(x) \/ NotCondition(x)
  <2>. DEFINE op == "NOT"
  <2>1. BindsPrefix(op, kNot) /\ op \in Tokens /\ op # "DISTINCT" /\ op # "AS t"
    BY <1>2, MethodsArePrefix, Keywords
  <2>. DEFINE parts == <<Fragment(<<op, " ">>), ChildRef(x, kNot)>>
  <2>2. BuildExpr(MakeNode(kNot, parts)) \/ BuildCondition(MakeNode(kNot, parts))
    BY <1>8 DEF NotExpr, NotCondition, NotParts
  <2>3. Operates(nodes, n, parts, kNot)
    <3>. HIDE DEF op
    <3>. QED BY <1>3, <2>1, Zenon
  <2>. HIDE DEF parts
  <2>. QED BY <2>2, <2>3, NodeBuilt
<1>9. CASE Collate(x)
  <2>. DEFINE op == "COLLATE c"
  <2>1. BindsPostfix(op, kCollate) /\ op \in Tokens /\ op = "COLLATE c" /\ kCollate \in 4..16
    <3>1. BindsPostfix(op, kCollate) /\ op \in Tokens
      BY <1>2, MethodsArePostfix, Keywords
    <3>2. kCollate \in 4..16
      BY ONLY LevelsCounted
    <3>. QED BY <3>1, <3>2, Zenon
  <2>. DEFINE parts == <<ChildRef(x, kCollate), Fragment(<<" ", op>>)>>
  <2>2. BuildExpr(MakeNode(kCollate, parts))
    BY <1>9 DEF Collate
  <2>3. Operates(nodes, n, parts, kCollate)
    <3>. HIDE DEF op
    <3>. QED BY <1>4, <2>1, Zenon
  <2>. HIDE DEF parts
  <2>. QED BY <2>2, <2>3, NodeBuilt
<1>10. CASE CastRaw(x)
  <2>. DEFINE parts == <<Fragment(<<"CAST", " ", "(">>), ChildRef(x, kTypecast),
                         Fragment(<<" ", "AS t", ")">>)>>
  <2>1. Operates(nodes, n, parts, kTypecast)
    BY <1>2, CastOperates, LevelsCounted
  <2>2. BuildExpr(MakeNode(kTypecast, parts))
    BY <1>10 DEF CastRaw
  <2>. HIDE DEF parts
  <2>. QED BY <2>1, <2>2, NodeBuilt
<1>11. ASSUME NEW op \in Operators, IsTest(op, x)
       PROVE  BuildsFaithfully
  <2>. DEFINE parts == <<ChildRef(x, kIs), Fragment(<<" ", op>>)>>
  <2>1. BindsPostfix(op, kIs) /\ op \in Tokens /\ kIs \in 4..16 /\ kIs >= 11
    <3>1. BindsPostfix(op, kIs) /\ op \in Tokens
      BY <1>2, <1>11, MethodsArePostfix DEF IsTest
    <3>2. kIs \in 4..16 /\ kIs >= 11
      BY ONLY LevelsCounted
    <3>. QED BY <3>1, <3>2, Zenon
  <2>2. Operates(nodes, n, parts, kIs)
    BY <1>4, <2>1, Zenon
  <2>3. BuildCondition(MakeNode(kIs, parts))
    BY <1>11 DEF IsTest
  <2>. HIDE DEF parts
  <2>. QED BY <2>2, <2>3, NodeBuilt
<1>12. ASSUME NEW op \in Operators, NEW query \in Subqueries, InSubquery(op, x, query)
       PROVE  BuildsFaithfully
  <2>. DEFINE parts == <<ChildRef(x, kBetween), Fragment(<<" ", op, " ">> \o Bracketed(query))>>
  <2>1. op \in MatchWords
    BY <1>12 DEF InSubquery, MatchWords
  <2>2. BindsInfix(op, kBetween) /\ op \in Tokens
    BY <1>2, <2>1, MethodsAreInfix
  <2>3. Operates(nodes, n, parts, kBetween)
    BY <1>5, <2>2
  <2>4. BuildCondition(MakeNode(kBetween, parts))
    BY <1>12 DEF InSubquery
  <2>. HIDE DEF parts
  <2>. QED BY <2>3, <2>4, NodeBuilt
<1>13. ASSUME NEW op \in Operators, NEW query \in Subqueries, QuantifiedSubquery(op, x, query)
       PROVE  BuildsFaithfully
  <2>. DEFINE parts == <<ChildRef(x, kCompare), Fragment(<<" ", op, " ">> \o Bracketed(query))>>
  <2>1. op \in CompareWords
    BY <1>13 DEF QuantifiedSubquery, CompareWords
  <2>2. BindsInfix(op, kCompare) /\ op \in Tokens
    BY <1>2, <2>1, MethodsAreInfix
  <2>3. Operates(nodes, n, parts, kCompare)
    BY <1>5, <2>2
  <2>4. BuildCondition(MakeNode(kCompare, parts))
    BY <1>13 DEF QuantifiedSubquery
  <2>. HIDE DEF parts
  <2>. QED BY <2>3, <2>4, NodeBuilt
<1>14. <<x>> \in Seq(Exprs)
  BY <1>1
<1>15. ASSUME NEW op \in Operators, Aggregate(op, x)
       PROVE  BuildsFaithfully
  <2>1. Plain(op) /\ op \in Tokens /\ Call(op, <<x>>)
    BY <1>2, <1>15, NamesArePlain DEF Aggregate
  <2>. QED BY <1>14, <2>1, CallFaithful
<1>16. CASE CountDistinct(x)
  <2>. DEFINE op == "COUNT"
  <2>1. Plain(op) /\ op \in Tokens /\ CallDistinct(op, <<x>>)
    BY <1>2, <1>16, NamesArePlain DEF CountDistinct
  <2>. HIDE DEF op
  <2>. QED BY <1>14, <2>1, CallFaithful
<1>. QED BY <1>1, <1>6, <1>7, <1>8, <1>9, <1>10, <1>11, <1>12, <1>13, <1>15, <1>16

\* A node known to those built over it is known wherever it is put.
LEMMA KnownAnywhere ==
  ASSUME NEW heap, NEW n, NEW collates, NEW parts, NEW text, NEW full,
         Known(heap, n, collates, parts, text, full)
  PROVE  Given(heap, n, collates, parts, text, full, "anywhere")
<1>1. "anywhere" # "bound"
  OBVIOUS
<1>. QED BY <1>1, Zenon DEF Known, Given

\* Two operands around an operator.
LEMMA InfixFaithful ==
  ASSUME Inv, HonestClient, NEW a \in Exprs, NEW b \in Exprs, NEW op \in Tokens, NEW level,
         BindsInfix(op, level) \/ (op = "AND" /\ level = 15)
  PROVE  Operates(nodes, Len(nodes), InfixParts(op, a, b, level), level)
<1>1. /\ Len(nodes) \in Nat /\ Ranked(nodes, Len(nodes)) /\ HonestOperators
      /\ a \in 1..Len(nodes) /\ b \in 1..Len(nodes)
  BY HeapRanked DEF HonestClient
<1>. QED BY <1>1, InfixOperates, Zenon

\* BinaryOp, which checks the name of its operator.
LEMMA BinaryOpFaithful ==
  ASSUME Inv, HonestClient, NEW a \in Exprs, NEW b \in Exprs, NEW op \in Tokens, NEW level,
         op \notin Malformed => BindsInfix(op, level), BinaryOp(op, a, b, level)
  PROVE  BuildsFaithfully
<1>1. CASE Throw("InvalidOperator")
  BY <1>1, NothingBuilt
<1>2. CASE op \notin Malformed /\ BuildExpr(MakeNode(level, InfixParts(op, a, b, level)))
  <2>1. Operates(nodes, Len(nodes), InfixParts(op, a, b, level), level)
    BY <1>2, InfixFaithful
  <2>. QED BY <1>2, <2>1, NodeBuilt
<1>. QED BY <1>1, <1>2 DEF BinaryOp

\* An operator that gives a condition.
LEMMA PredicateFaithful ==
  ASSUME Inv, HonestClient, NEW a \in Exprs, NEW b \in Exprs, NEW op \in Tokens, NEW level,
         BindsInfix(op, level) \/ (op = "AND" /\ level = 15), Predicate(op, a, b, level)
  PROVE  BuildsFaithfully
<1>1. Operates(nodes, Len(nodes), InfixParts(op, a, b, level), level)
  BY InfixFaithful
<1>. QED BY <1>1, NodeBuilt DEF Predicate

\* Whatever takes two operands, or three.
LEMMA NewBinaryFaithful ==
  ASSUME Inv, HonestClient, NewBinary
  PROVE  BuildsFaithfully
<1>1. PICK a \in Exprs, b \in Exprs :
        \/ \E custom \in CustomOperators : BinaryOp(custom.op, a, b, custom.precedence)
        \/ Power(a, b) \/ Concat(a, b) \/ Dot(a, b) \/ Index(a, b)
        \/ And(a, b) \/ Or(a, b) \/ NullIf(a, b)
        \/ \E op \in Operators :
             \/ Arithmetic(op, a, b) \/ Like(op, a, b) \/ CompareOp(a, op, b)
             \/ IsDistinctFrom(op, a, b) \/ Quantified(op, a, b)
             \/ \E x \in Exprs : Between(op, x, a, b)
  BY DEF NewBinary
<1>. DEFINE n == Len(nodes)
<1>2. /\ n \in Nat /\ Ranked(nodes, n) /\ HonestOperators
      /\ a \in 1..n /\ b \in 1..n /\ Operators \subseteq Tokens
  BY <1>1, HeapRanked, ClientAssumption DEF HonestClient, PlainNames
<1>3. ASSUME NEW custom \in CustomOperators, BinaryOp(custom.op, a, b, custom.precedence)
      PROVE  BuildsFaithfully
  <2>1. custom.op \notin Malformed => BindsInfix(custom.op, custom.precedence)
    BY <1>2, CustomsBindInfix
  <2>2. custom.op \in Tokens
    BY ClientAssumption
  <2>. QED BY <1>3, <2>1, <2>2, BinaryOpFaithful
<1>4. CASE Power(a, b) \/ Concat(a, b)
  <2>1. CASE Power(a, b)
    <3>. DEFINE op == "^"
    <3>1. op \in Tokens /\ BindsInfix(op, kExp) /\ BinaryOp(op, a, b, kExp)
      BY <1>2, <2>1, MethodsAreInfix DEF Power
    <3>. HIDE DEF op
    <3>. QED BY <3>1, BinaryOpFaithful
  <2>2. CASE Concat(a, b)
    <3>. DEFINE op == "||"
    <3>1. op \in Tokens /\ BindsInfix(op, kAnyOther) /\ BinaryOp(op, a, b, kAnyOther)
      BY <1>2, <2>2, MethodsAreInfix DEF Concat
    <3>. HIDE DEF op
    <3>. QED BY <3>1, BinaryOpFaithful
  <2>. QED BY <1>4, <2>1, <2>2
<1>5. CASE Dot(a, b)
  <2>. DEFINE parts == <<ChildRef(a, 1), Fragment(<<".">>), ChildRef(b, 1)>>
  <2>. DEFINE node == MakeNode(kDot, parts)
  <2>1. nodes' = Append(nodes, node)
    BY <1>5 DEF Dot, BuildExpr, Build, kDot
  <2>2. node.parts = parts /\ Len(parts) # 1
    BY DEF MakeNode
  <2>3. ASSUME NEW collates, NEW text, NEW full, Known(nodes, n, collates, parts, text, full)
        PROVE  RefersAlike(FlattenSeq(Texts(nodes, text, parts)), FlattenSeq(FullTexts(nodes, full, parts)))
    BY <1>2, <2>3, KnownAnywhere, DotRefersAlike, Zenon
  <2>. HIDE DEF node, parts
  <2>4. FaithfulNode(nodes, n, node)
    BY <2>2, <2>3, SelectionFaithful, Zenon
  <2>. QED BY <2>1, <2>4, Zenon DEF BuildsFaithfully
<1>6. CASE Index(a, b)
  <2>. DEFINE parts == <<ChildRef(a, 3), Fragment(<<"[">>), ChildRef(b, 17), Fragment(<<"]">>)>>
  <2>. DEFINE node == MakeNode(kIndex, parts)
  <2>1. nodes' = Append(nodes, node)
    BY <1>6 DEF Index, BuildExpr, Build, kIndex, kExtract
  <2>2. node.parts = parts /\ Len(parts) # 1
    BY DEF MakeNode
  <2>3. ASSUME NEW collates, NEW text, NEW full, Known(nodes, n, collates, parts, text, full)
        PROVE  RefersAlike(FlattenSeq(Texts(nodes, text, parts)), FlattenSeq(FullTexts(nodes, full, parts)))
    BY <1>2, <2>3, KnownAnywhere, IndexRefersAlike, Zenon
  <2>. HIDE DEF node, parts
  <2>4. FaithfulNode(nodes, n, node)
    BY <2>2, <2>3, SelectionFaithful, Zenon
  <2>. QED BY <2>1, <2>4, Zenon DEF BuildsFaithfully
<1>7. CASE And(a, b)
  <2>1. "AND" \in Tokens /\ kAnd = 15 /\ Predicate("AND", a, b, kAnd)
    BY <1>7, Keywords, LevelsCounted DEF And
  <2>. QED BY <2>1, PredicateFaithful
<1>8. CASE Or(a, b)
  <2>. DEFINE op == "OR"
  <2>1. op \in Tokens /\ BindsInfix(op, kOr) /\ Predicate(op, a, b, kOr)
    BY <1>2, <1>8, MethodsAreInfix DEF Or
  <2>. HIDE DEF op
  <2>. QED BY <2>1, PredicateFaithful
<1>9. CASE NullIf(a, b)
  <2>. DEFINE op == "NULLIF"
  <2>1. Plain(op) /\ op \in Tokens /\ Call(op, <<a, b>>)
    BY <1>2, <1>9, NamesArePlain DEF NullIf
  <2>2. <<a, b>> \in Seq(Exprs)
    BY <1>1
  <2>. HIDE DEF op
  <2>. QED BY <2>1, <2>2, CallFaithful
<1>10. ASSUME NEW op \in Operators, Arithmetic(op, a, b)
       PROVE  BuildsFaithfully
  <2>1. CASE op \in {"+", "-"} /\ BinaryOp(op, a, b, kPlus)
    <3>1. BindsInfix(op, kPlus)
      BY <2>1, MethodsAreInfix
    <3>. QED BY <1>2, <2>1, <3>1, BinaryOpFaithful
  <2>2. CASE op \in {"*", "/", "%"} /\ BinaryOp(op, a, b, kMul)
    <3>1. BindsInfix(op, kMul)
      BY <2>2, MethodsAreInfix
    <3>. QED BY <1>2, <2>2, <3>1, BinaryOpFaithful
  <2>. QED BY <1>10, <2>1, <2>2 DEF Arithmetic
<1>11. ASSUME NEW op \in Operators, Like(op, a, b)
       PROVE  BuildsFaithfully
  <2>1. op \in MatchWords
    BY <1>11 DEF Like, MatchWords
  <2>2. BindsInfix(op, kBetween) /\ Predicate(op, a, b, kBetween)
    BY <1>11, <2>1, MethodsAreInfix DEF Like
  <2>. QED BY <1>2, <2>2, PredicateFaithful
<1>12. ASSUME NEW op \in Operators, CompareOp(a, op, b)
       PROVE  BuildsFaithfully
  <2>1. op \in CompareWords
    BY <1>12 DEF CompareOp, CompareWords
  <2>2. BindsInfix(op, kCompare) /\ Predicate(op, a, b, kCompare)
    BY <1>12, <2>1, MethodsAreInfix DEF CompareOp
  <2>. QED BY <1>2, <2>2, PredicateFaithful
<1>13. ASSUME NEW op \in Operators, IsDistinctFrom(op, a, b)
       PROVE  BuildsFaithfully
  <2>1. BindsInfix(op, kIs) /\ Predicate(op, a, b, kIs)
    BY <1>13, MethodsAreInfix DEF IsDistinctFrom
  <2>. QED BY <1>2, <2>1, PredicateFaithful
<1>14. ASSUME NEW op \in Operators, Quantified(op, a, b)
       PROVE  BuildsFaithfully
  <2>. DEFINE parts == <<ChildRef(a, kCompare), Fragment(<<" ", op, " ", "(">>),
                         ChildRef(b, kExtract), Fragment(<<")">>)>>
  <2>1. op \in CompareWords
    BY <1>14 DEF Quantified, CompareWords
  <2>2. BindsInfix(op, kCompare) /\ op \in Tokens /\ kCompare \in 1..17 /\ kExtract = 17
    <3>1. BindsInfix(op, kCompare)
      BY <2>1, MethodsAreInfix
    <3>2. kCompare \in 1..17 /\ kExtract = 17
      BY LevelsCounted
    <3>. QED BY <1>2, <3>1, <3>2
  <2>3. Operates(nodes, n, parts, kCompare)
    <3>1. Operates(nodes, n, <<ChildRef(a, kCompare), Fragment(<<" ", op, " ", "(">>),
                                ChildRef(b, 17), Fragment(<<")">>)>>, kCompare)
      BY <1>2, <2>2, QuantifiedOperates
    <3>. QED BY <2>2, <3>1
  <2>4. BuildCondition(MakeNode(kCompare, parts))
    BY <1>14 DEF Quantified
  <2>. HIDE DEF parts
  <2>. QED BY <2>3, <2>4, NodeBuilt
<1>15. ASSUME NEW op \in Operators, NEW x \in Exprs, Between(op, x, a, b)
       PROVE  BuildsFaithfully
  <2>. DEFINE parts == InfixParts(op, x, a, kBetween) \o <<Infix("AND"), ChildRef(b, kBetween)>>
  <2>1. op \in BetweenWords /\ op \in Tokens /\ x \in 1..n /\ kBetween = 11
    BY <1>2, <1>15, HeapRanked, LevelsCounted DEF Between, BetweenWords
  <2>2. Operates(nodes, n, InfixParts(op, x, a, 11) \o <<Infix("AND"), ChildRef(b, 11)>>, 11)
    BY <1>2, <2>1, BetweenOperates
  <2>3. Operates(nodes, n, parts, kBetween)
    BY <2>1, <2>2
  <2>4. BuildCondition(MakeNode(kBetween, parts))
    BY <1>15 DEF Between
  <2>. HIDE DEF parts
  <2>. QED BY <2>3, <2>4, NodeBuilt
<1>. QED BY <1>1, <1>3, <1>4, <1>5, <1>6, <1>7, <1>8, <1>9, <1>10, <1>11, <1>12, <1>13, <1>14, <1>15

\* What Fitting asks of an operand, given all it looks at.
FitsAs(parts, k, child, bare, collated) ==
  \/ parts[k].node = 0 \/ Enclosed(parts[k])
  \/ ~bare /\ ~Behind(parts, k, {<<".">>})
  \/ /\ bare
     /\ Grade(child) = child.precedence \/ Grade(child) < parts[k].context
     /\ parts[k].context \in {kDot, kIndex} => IsReference(child)
     /\ Behind(parts, k, {<<".">>}) => IsName(child)
     /\ Behind(parts, k, BetweenTexts) => ~collated

\* What was built before stays, and the parts are of it.
Extending(heap, later, n) == \A j \in 1..n : later[j] = heap[j]
RefersTo(parts, n) == \A k \in 1..Len(parts) : parts[k].node \in 0..n

PlacedSame(heap, later, collates, parts) ==
  /\ \A k \in 1..Len(parts) : Fitting(later, collates, parts, k) = Fitting(heap, collates, parts, k)
  /\ Outside(later, collates, parts) = Outside(heap, collates, parts)

WrittenSame(heap, later, text, full, parts) ==
  /\ Texts(later, text, parts) = Texts(heap, text, parts)
  /\ FullTexts(later, full, parts) = FullTexts(heap, full, parts)

\* A node is read as it is whatever is built behind it.
LEMMA FittingLocal ==
  ASSUME NEW heap, NEW later, NEW n \in Nat, NEW parts, NEW collates,
         Extending(heap, later, n), RefersTo(parts, n)
  PROVE  PlacedSame(heap, later, collates, parts)
<1>1. ASSUME NEW k \in 1..Len(parts), parts[k].node # 0
      PROVE  later[parts[k].node] = heap[parts[k].node]
  <2>0. parts[k].node \in 0..n
    BY <1>1, Zenon DEF RefersTo
  <2>1. parts[k].node \in 1..n
    BY <1>1, <2>0
  <2>. QED BY <2>1, Zenon DEF Extending
<1>2. ASSUME NEW k \in 1..Len(parts), parts[k].node # 0
      PROVE  Bare(later, parts[k]) = Bare(heap, parts[k])
  BY <1>1, <1>2, Zenon DEF Bare
<1>3. \A k \in 1..Len(parts) : Fitting(later, collates, parts, k) = Fitting(heap, collates, parts, k)
  <2>1. TAKE k \in 1..Len(parts)
  <2>2. CASE parts[k].node = 0
    BY <2>2, Zenon DEF Fitting
  <2>3. CASE parts[k].node # 0
    <3>1. later[parts[k].node] = heap[parts[k].node] /\ Bare(later, parts[k]) = Bare(heap, parts[k])
      BY <1>1, <1>2, <2>3, Zenon
    <3>. DEFINE child == heap[parts[k].node]
    <3>. DEFINE bare == Bare(heap, parts[k])
    <3>2. /\ Fitting(heap, collates, parts, k)
               = FitsAs(parts, k, heap[parts[k].node], Bare(heap, parts[k]), collates[parts[k].node])
          /\ Fitting(later, collates, parts, k)
               = FitsAs(parts, k, later[parts[k].node], Bare(later, parts[k]), collates[parts[k].node])
      BY Zenon DEF Fitting, FitsAs
    <3>. QED BY <3>1, <3>2, Zenon
  <2>. QED BY <2>2, <2>3, Zenon
<1>4. ASSUME NEW k \in 1..Len(parts)
      PROVE  (IF parts[k].node = 0 THEN \E m \in 1..Len(parts[k].text) : parts[k].text[m] = "COLLATE c"
              ELSE Bare(later, parts[k]) /\ collates[parts[k].node])
           = (IF parts[k].node = 0 THEN \E m \in 1..Len(parts[k].text) : parts[k].text[m] = "COLLATE c"
              ELSE Bare(heap, parts[k]) /\ collates[parts[k].node])
  BY <1>2, Zenon
<1>5. Outside(later, collates, parts) = Outside(heap, collates, parts)
  BY <1>4, Zenon DEF Outside
<1>. QED BY <1>3, <1>5, Zenon DEF PlacedSame

LEMMA TextsLocal ==
  ASSUME NEW heap, NEW later, NEW n \in Nat, NEW parts, NEW text, NEW full,
         Extending(heap, later, n), RefersTo(parts, n)
  PROVE  WrittenSame(heap, later, text, full, parts)
<1>1. ASSUME NEW k \in 1..Len(parts), parts[k].node # 0
      PROVE  later[parts[k].node] = heap[parts[k].node]
  <2>0. parts[k].node \in 0..n
    BY <1>1, Zenon DEF RefersTo
  <2>1. parts[k].node \in 1..n
    BY <1>1, <2>0
  <2>. QED BY <2>1, Zenon DEF Extending
<1>2. ASSUME NEW k \in 1..Len(parts)
      PROVE  /\ PartText(later, text, parts[k]) = PartText(heap, text, parts[k])
             /\ FullText(later, full, parts[k]) = FullText(heap, full, parts[k])
  <2>1. CASE parts[k].node = 0
    BY <2>1, Zenon DEF PartText, FullText
  <2>2. CASE parts[k].node # 0
    <3>1. later[parts[k].node] = heap[parts[k].node]
      BY <1>1, <2>2, Zenon
    <3>. QED BY <3>1, Zenon DEF PartText, FullText
  <2>. QED BY <2>1, <2>2, Zenon
<1>. QED BY <1>2, Zenon DEF Texts, FullTexts, WrittenSame

LEMMA FaithfulLocal ==
  ASSUME NEW heap, NEW later, NEW n \in Nat, NEW node,
         Extending(heap, later, n), RefersTo(node.parts, n),
         FaithfulNode(heap, n, node)
  PROVE  FaithfulNode(later, n, node)
<1>. DEFINE parts == node.parts
<1>1. ASSUME NEW collates, NEW text, NEW full, Known(later, n, collates, parts, text, full)
      PROVE  NodeAlike(node, Outside(later, collates, parts),
                       FlattenSeq(Texts(later, text, parts)), FlattenSeq(FullTexts(later, full, parts)))
  <2>1. PlacedSame(heap, later, collates, parts)
    BY FittingLocal, Zenon
  <2>2. WrittenSame(heap, later, text, full, parts)
    BY TextsLocal, Zenon
  <2>3. NodesAlike(heap, n, collates, text, full)
    BY <1>1, Zenon DEF Known, NodesAlike, Extending
  <2>4. Known(heap, n, collates, parts, text, full)
    BY <1>1, <2>1, <2>3, Zenon DEF Known, PlacedSame
  <2>5. NodeAlike(node, Outside(heap, collates, parts),
                  FlattenSeq(Texts(heap, text, parts)), FlattenSeq(FullTexts(heap, full, parts)))
    BY <2>4, Zenon DEF FaithfulNode
  <2>. QED BY <2>1, <2>2, <2>5, Zenon DEF PlacedSame, WrittenSame
<1>. QED BY <1>1, Zenon DEF FaithfulNode

\* A step that builds such a node leaves only such nodes.
LEMMA FaithfulGrows ==
  ASSUME Inv, Inv', Faithful(nodes), BuildsFaithfully
  PROVE  Faithful(nodes')
<1>1. CASE nodes' = nodes
  BY <1>1
<1>2. ASSUME NEW node, FaithfulNode(nodes, Len(nodes), node), nodes' = Append(nodes, node)
      PROVE  Faithful(nodes')
  <2>. DEFINE n == Len(nodes)
  <2>1. nodes \in Seq(Node) /\ n \in Nat /\ WellFormed(nodes)
    BY InvWellFormed DEF WellFormed
  <2>2. nodes' \in Seq(Node) /\ WellFormed(nodes')
    BY DEF Inv, TypeOK, WellFormed
  <2>3. /\ Len(nodes') = n + 1 /\ nodes'[n+1] = node
        /\ \A i \in 1..n : nodes'[i] = nodes[i]
    BY <1>2, <2>1
  <2>4. ASSUME NEW i \in 1..n+1
        PROVE  FaithfulNode(nodes', i-1, nodes'[i])
    <3>. DEFINE m == i - 1
    <3>. DEFINE last == nodes'[i]
    <3>1. RefersTo(last.parts, m)
      BY <2>2, <2>3, NodeParts DEF RefersTo
    <3>2. m \in Nat /\ \A j \in 1..m : j \in 1..n
      BY <2>1
    <3>3. Extending(nodes, nodes', m)
      BY <2>3, <3>2 DEF Extending
    <3>4. FaithfulNode(nodes, m, last)
      <4>1. CASE i \in 1..n
        <5>1. FaithfulNode(nodes, i-1, nodes[i])
          BY <4>1 DEF Faithful
        <5>2. nodes'[i] = nodes[i]
          BY <2>3, <4>1
        <5>. QED BY <5>1, <5>2
      <4>2. CASE i = n + 1
        <5>1. m = n /\ nodes'[i] = node
          BY <2>1, <2>3, <4>2
        <5>. QED BY <1>2, <5>1
      <4>. QED BY <2>1, <4>1, <4>2
    <3>. HIDE DEF m, last
    <3>5. FaithfulNode(nodes', m, last)
      BY <3>1, <3>2, <3>3, <3>4, FaithfulLocal
    <3>. QED BY <3>5 DEF m, last
  <2>. QED BY <2>3, <2>4 DEF Faithful
<1>. QED BY <1>1, <1>2 DEF BuildsFaithfully

\* The recursion of RenderBracketed, over the first m nodes.
RendersFully(full, heap, m) ==
  full = [i \in 1..m |-> FlattenSeq(FullTexts(heap, full, heap[i].parts))]

\* RenderBracketed has a solution for a heap without cycles,
LEMMA FullRenderExists ==
  ASSUME NEW heap, WellFormed(heap)
  PROVE  \E full : RendersFully(full, heap, Len(heap))
<1>. DEFINE n == Len(heap)
<1>. DEFINE T == {m \in 0..n : ~\E full : RendersFully(full, heap, m)}
<1>1. n \in Nat
  BY LenProperties DEF WellFormed
<1>2. SUFFICES ASSUME T # {} PROVE FALSE
  <2>1. n \in 0..n
    BY <1>1
  <2>. QED BY <2>1, Zenon
<1>3. PICK m \in T : \A k \in T : m <= k
  <2>1. T \in SUBSET Nat
    BY <1>1
  <2>. HIDE DEF T
  <2>. QED BY <1>2, <2>1, LeastNat
<1>4. m # 0
  <2>1. RendersFully([i \in 1..0 |-> <<>>], heap, 0)
    BY DEF RendersFully
  <2>. QED BY <2>1
<1>5. m \in 1..n /\ m-1 \in 0..n /\ ~(m <= m-1)
  BY <1>1, <1>4
<1>6. PICK full : RendersFully(full, heap, m-1)
  <2>1. m-1 \notin T
    BY <1>3, <1>5
  <2>. QED BY <1>5, <2>1
<1>. DEFINE more == [i \in 1..m |-> FlattenSeq(FullTexts(heap, full, heap[i].parts))]
<1>7. \A j \in 1..m-1 : more[j] = full[j]
  BY <1>5, <1>6 DEF RendersFully
<1>8. \A i \in 1..m : FullTexts(heap, more, heap[i].parts) = FullTexts(heap, full, heap[i].parts)
  <2>1. TAKE i \in 1..m
  <2>. HIDE DEF more
  <2>2. i \in 1..n
    BY <1>1, <1>5
  <2>3. \A k \in 1..Len(heap[i].parts) :
          FullText(heap, more, heap[i].parts[k]) = FullText(heap, full, heap[i].parts[k])
    <3>1. TAKE k \in 1..Len(heap[i].parts)
    <3>2. heap[i].parts[k].node \in 0..i-1
      BY <2>2, NodeParts
    <3>3. heap[i].parts[k].node # 0 =>
            more[heap[i].parts[k].node] = full[heap[i].parts[k].node]
      BY <1>5, <1>7, <3>2
    <3>. QED BY <3>3, Zenon DEF FullText
  <2>. QED BY <2>3 DEF FullTexts
<1>9. RendersFully(more, heap, m)
  BY <1>8, Zenon DEF RendersFully
<1>. QED BY <1>9

\* so it puts the texts of the parts together, node by node.
LEMMA FullRenderTyped ==
  ASSUME NEW heap, WellFormed(heap)
  PROVE  RenderBracketed(heap)
           = [i \in 1..Len(heap) |-> FlattenSeq(FullTexts(heap, RenderBracketed(heap), heap[i].parts))]
<1>1. PICK full : RendersFully(full, heap, Len(heap))
  BY FullRenderExists
<1>. DEFINE chosen == CHOOSE x : RendersFully(x, heap, Len(heap))
<1>2. RendersFully(chosen, heap, Len(heap))
  BY <1>1, Zenon
<1>3. RenderBracketed(heap) = chosen
  BY Zenon DEF RenderBracketed, RendersFully, FullTexts, FullText
<1>4. RendersFully(RenderBracketed(heap), heap, Len(heap))
  BY <1>2, <1>3, Zenon
<1>. QED BY <1>4, Zenon DEF RendersFully

\* The recursion of Collates, over the first m nodes.
CollatesFully(shown, heap, m) ==
  shown = [i \in 1..m |-> Outside(heap, shown, heap[i].parts)]

\* Collates has a solution for a heap without cycles,
LEMMA CollatesExist ==
  ASSUME NEW heap, WellFormed(heap)
  PROVE  \E shown : CollatesFully(shown, heap, Len(heap))
<1>. DEFINE n == Len(heap)
<1>. DEFINE T == {m \in 0..n : ~\E shown : CollatesFully(shown, heap, m)}
<1>1. n \in Nat
  BY LenProperties DEF WellFormed
<1>2. SUFFICES ASSUME T # {} PROVE FALSE
  <2>1. n \in 0..n
    BY <1>1
  <2>. QED BY <2>1, Zenon
<1>3. PICK m \in T : \A k \in T : m <= k
  <2>1. T \in SUBSET Nat
    BY <1>1
  <2>. HIDE DEF T
  <2>. QED BY <1>2, <2>1, LeastNat
<1>4. m # 0
  <2>1. CollatesFully([i \in 1..0 |-> FALSE], heap, 0)
    BY DEF CollatesFully
  <2>. QED BY <2>1
<1>5. m \in 1..n /\ m-1 \in 0..n /\ ~(m <= m-1)
  BY <1>1, <1>4
<1>6. PICK shown : CollatesFully(shown, heap, m-1)
  <2>1. m-1 \notin T
    BY <1>3, <1>5
  <2>. QED BY <1>5, <2>1
<1>. DEFINE more == [i \in 1..m |-> Outside(heap, shown, heap[i].parts)]
<1>7. \A j \in 1..m-1 : more[j] = shown[j]
  BY <1>5, <1>6 DEF CollatesFully
<1>8. \A i \in 1..m : Outside(heap, more, heap[i].parts) = Outside(heap, shown, heap[i].parts)
  <2>1. TAKE i \in 1..m
  <2>. HIDE DEF more
  <2>2. i \in 1..n
    BY <1>1, <1>5
  <2>3. ASSUME NEW k \in 1..Len(heap[i].parts), heap[i].parts[k].node # 0
        PROVE  more[heap[i].parts[k].node] = shown[heap[i].parts[k].node]
    <3>1. heap[i].parts[k].node \in 0..i-1
      BY <2>2, NodeParts
    <3>. QED BY <1>5, <1>7, <2>3, <3>1
  <2>4. ASSUME NEW k \in 1..Len(heap[i].parts)
        PROVE  (IF heap[i].parts[k].node = 0
                THEN \E q \in 1..Len(heap[i].parts[k].text) : heap[i].parts[k].text[q] = "COLLATE c"
                ELSE Bare(heap, heap[i].parts[k]) /\ more[heap[i].parts[k].node])
             = (IF heap[i].parts[k].node = 0
                THEN \E q \in 1..Len(heap[i].parts[k].text) : heap[i].parts[k].text[q] = "COLLATE c"
                ELSE Bare(heap, heap[i].parts[k]) /\ shown[heap[i].parts[k].node])
    BY <2>3, Zenon
  <2>. QED BY <2>4, Zenon DEF Outside
<1>9. CollatesFully(more, heap, m)
  BY <1>8, Zenon DEF CollatesFully
<1>. QED BY <1>9

\* so it tells of each node whether a COLLATE shows.
LEMMA CollatesTyped ==
  ASSUME NEW heap, WellFormed(heap)
  PROVE  Collates(heap)
           = [i \in 1..Len(heap) |-> Outside(heap, Collates(heap), heap[i].parts)]
<1>1. PICK shown : CollatesFully(shown, heap, Len(heap))
  BY CollatesExist
<1>. DEFINE chosen == CHOOSE x : CollatesFully(x, heap, Len(heap))
<1>2. CollatesFully(chosen, heap, Len(heap))
  BY <1>1, Zenon
<1>3. Collates(heap) = chosen
  BY Zenon DEF Collates, CollatesFully
<1>4. CollatesFully(Collates(heap), heap, Len(heap))
  BY <1>2, <1>3, Zenon
<1>. QED BY <1>4, Zenon DEF CollatesFully

\* The two renderings of a node are read alike.
LEMMA RenderedAlike ==
  ASSUME NEW heap, WellFormed(heap), Faithful(heap), NEW collates, collates = Collates(heap),
         \A i \in 1..Len(heap) : \A k \in 1..Len(heap[i].parts) :
           Fitting(heap, collates, heap[i].parts, k),
         NEW i \in 1..Len(heap)
  PROVE  NodeAlike(heap[i], collates[i], Render(heap)[i], RenderBracketed(heap)[i])
<1>. DEFINE text == Render(heap)
<1>. DEFINE full == RenderBracketed(heap)
<1>. DEFINE Good(j) == NodeAlike(heap[j], collates[j], text[j], full[j])
<1>. DEFINE T == {j \in 1..Len(heap) : ~Good(j)}
<1>1. SUFFICES ASSUME T # {} PROVE FALSE
  OBVIOUS
<1>2. PICK m \in T : \A k \in T : m <= k
  <2>1. T \in SUBSET Nat
    OBVIOUS
  <2>. HIDE DEF T
  <2>. QED BY <1>1, <2>1, LeastNat
<1>3. m \in 1..Len(heap) /\ Len(heap) \in Nat
  BY LenProperties DEF WellFormed
<1>4. \A j \in 1..m-1 : Good(j)
  <2>1. TAKE j \in 1..m-1
  <2>2. j \in 1..Len(heap) /\ ~(m <= j)
    BY <1>3
  <2>3. j \notin T
    BY <1>2, <2>2
  <2>. QED BY <2>2, <2>3
<1>5. text[m] = FlattenSeq(Texts(heap, text, heap[m].parts))
  BY <1>3, RenderUnfolds, Zenon DEF Pieces, Texts
<1>6. full[m] = FlattenSeq(FullTexts(heap, full, heap[m].parts))
  BY <1>3, FullRenderTyped, Zenon
<1>7. collates[m] = Outside(heap, collates, heap[m].parts)
  BY <1>3, CollatesTyped, Zenon
<1>. HIDE DEF text, full
<1>8. NodesAlike(heap, m-1, collates, text, full)
  BY <1>4, Zenon DEF NodesAlike
<1>9. Known(heap, m-1, collates, heap[m].parts, text, full)
  BY <1>3, <1>8, Zenon DEF Known
<1>10. FaithfulNode(heap, m-1, heap[m])
  BY <1>3, Zenon DEF Faithful
<1>11. Good(m)
  BY <1>5, <1>6, <1>7, <1>9, <1>10, Zenon DEF FaithfulNode
<1>. QED BY <1>11

\* A text that may stand anywhere is read as it is where it stands alone.
LEMMA BottomAdmits ==
  ASSUME NEW level \in 0..17
  PROVE  Admits(Bottom, level, "anywhere") /\ Bottom.frame.level = 18 /\ Loosest = 17
<1>1. Loosest = 17 /\ \A kind, word, args : /\ Open(kind, word, args).level = 18
                                            /\ Open(kind, word, args).kind = kind
  BY DEF Open, Frame, Loosest
<1>. DEFINE kind == "bottom"
<1>. DEFINE word == ""
<1>2. kind # "field" /\ kind # "between"
  OBVIOUS
<1>. HIDE DEF kind, word
<1>. DEFINE open == Open(kind, word, <<>>)
<1>3. open.level = 18 /\ open.kind = kind
  BY <1>1
<1>. HIDE DEF open
<1>4. Bottom.height = 0 /\ Bottom.frame = open /\ Bottom.within = kind
  BY DEF Bottom, open, kind, word
<1>. DEFINE bottom == Bottom
<1>. HIDE DEF bottom
<1>5. bottom.height = 0 /\ bottom.frame.level = 18 /\ bottom.frame.kind = kind /\ bottom.within = kind
  BY <1>3, <1>4, Zenon DEF bottom
<1>6. bottom.height \in Nat /\ bottom.frame.level \in Nat /\ bottom.frame.level > level
  BY <1>5
<1>7. Admits(bottom, level, "anywhere")
  BY <1>2, <1>5, <1>6, Zenon DEF Admits
<1>. QED BY <1>1, <1>5, <1>7, Zenon DEF bottom

LEMMA ReadAlone ==
  ASSUME NEW text, NEW tree, NEW level \in 0..17, Reads(text, tree, level, "anywhere")
  PROVE  Read(text) = <<tree>>
<1>. DEFINE bottom == Bottom
<1>1. Admits(bottom, level, "anywhere") /\ bottom.frame.level = 18 /\ Loosest = 17
  BY BottomAdmits, Zenon
<1>. HIDE DEF bottom
<1>. DEFINE read == ReadOn(Expecting(bottom), text)
<1>2. bottom.frame.level > 17 /\ 17 \in level..Loosest /\ level \in Nat
  BY <1>1
<1>3. read.value # <<>> /\ Applied(read, 17) = Holding(bottom, tree)
  BY <1>1, <1>2, ReadsOperand
<1>. HIDE DEF read
<1>4. Applied(read, Loosest).stack = bottom /\ Applied(read, Loosest).value = <<tree>>
  BY <1>1, <1>3 DEF Holding
<1>. QED BY <1>3, <1>4, Zenon DEF Read, bottom, read

FaithfulInv == Inv /\ Faithful(nodes)

\* Whatever an honest client builds of operands that fit, the server reads the text
\* with the redundant parentheses left out as it does the one with all of them, and
\* refuses neither.
THEOREM ParensAlwaysSuffice ==
  ASSUME HonestClient
  PROVE  Spec => []ParensSuffice
<1>1. Init => FaithfulInv
  BY DEF Init, FaithfulInv, Inv, TypeOK, ChildrenFirst, SizesAreTotals, Faithful
<1>2. FaithfulInv /\ [Next]_vars => FaithfulInv'
  <2>1. SUFFICES ASSUME FaithfulInv, [Next]_vars PROVE FaithfulInv'
    OBVIOUS
  <2>2. Inv /\ Inv' /\ Faithful(nodes)
    BY <2>1, NextPreserves DEF FaithfulInv
  <2>3. BuildsFaithfully
    <3>1. CASE UNCHANGED vars
      BY <3>1 DEF vars, BuildsFaithfully
    <3>2. CASE Next
      BY <2>2, <3>2, NewLeafFaithful, NewListFaithful, NewUnaryFaithful, NewBinaryFaithful DEF Next
    <3>. QED BY <2>1, <3>1, <3>2
  <2>4. Faithful(nodes')
    BY <2>2, <2>3, FaithfulGrows
  <2>. QED BY <2>2, <2>4 DEF FaithfulInv
<1>3. FaithfulInv => ParensSuffice
  <2>1. SUFFICES ASSUME FaithfulInv, nodes # <<>>, AllFitting PROVE ReadsAsBracketed
    BY Zenon DEF ParensSuffice
  <2>. DEFINE n == Len(nodes)
  <2>2. nodes \in Seq(Node) /\ WellFormed(nodes) /\ n \in Nat /\ Ranked(nodes, n)
    BY <2>1, InvWellFormed, HeapRanked DEF FaithfulInv, WellFormed
  <2>3. n \in 1..n /\ nodes[n].precedence \in 0..17
    BY <2>1, <2>2 DEF Ranked
  <2>4. Last(Render(nodes)) = Render(nodes)[n]
    <3>1. Len(Render(nodes)) = n
      BY <2>2, RenderTyped
    <3>. QED BY <3>1 DEF Last
  <2>5. Last(RenderBracketed(nodes)) = RenderBracketed(nodes)[n]
    <3>1. Len(RenderBracketed(nodes)) = n
      BY <2>2, FullRenderTyped
    <3>. QED BY <3>1 DEF Last
  <2>6. \A i \in 1..Len(nodes) : \A k \in 1..Len(nodes[i].parts) :
          Fitting(nodes, Collates(nodes), nodes[i].parts, k)
    <3>1. DOMAIN nodes = 1..n
      BY <2>2
    <3>2. TAKE i \in 1..Len(nodes)
    <3>3. DOMAIN nodes[i].parts = 1..Len(nodes[i].parts)
      <4>1. nodes[i].parts \in Seq(PartOver(nodes))
        BY <2>2, NodeParts, Zenon DEF PartsOver
      <4>. QED BY <4>1
    <3>. QED BY <2>1, <3>1, <3>3, Zenon DEF AllFitting
  <2>7. NodeAlike(nodes[n], Collates(nodes)[n], Render(nodes)[n], RenderBracketed(nodes)[n])
    BY <2>1, <2>2, <2>3, <2>6, RenderedAlike, Zenon DEF FaithfulInv
  <2>8. Grade(nodes[n]) \in 0..17
    BY <2>3, GradeRanked, Zenon
  <2>9. PICK tree : /\ Reads(Render(nodes)[n], tree, Grade(nodes[n]), "anywhere")
                    /\ Reads(RenderBracketed(nodes)[n], tree, Grade(nodes[n]), "anywhere")
    <3>1. "anywhere" # "bound"
      OBVIOUS
    <3>. QED BY <2>7, <3>1, Zenon DEF NodeAlike, Alike
  <2>10. Read(Render(nodes)[n]) = <<tree>> /\ Read(RenderBracketed(nodes)[n]) = <<tree>>
    BY <2>8, <2>9, ReadAlone, Zenon
  <2>11. <<tree>> # <<>>
    OBVIOUS
  <2>. QED BY <2>4, <2>5, <2>10, <2>11, Zenon DEF ReadsAsBracketed
<1>. QED BY <1>1, <1>2, <1>3, PTL DEF Spec


-----------------------------------------------------------------------------
\* Texts of five words,
LEMMA FiveWords ==
  ASSUME NEW a, NEW b, NEW c, NEW d, NEW e
  PROVE  <<a>> \o <<b, c, d>> \o <<e>> = <<a, b, c, d, e>>
<1>. DEFINE S == {a, b, c, d, e}
<1>. DEFINE first == <<a>>
<1>. DEFINE mid == <<b, c, d>>
<1>. DEFINE final == <<e>>
<1>. DEFINE four == first \o mid
<1>. DEFINE u == four \o final
<1>. DEFINE v == <<a, b, c, d, e>>
<1>1. first \in Seq(S) /\ mid \in Seq(S) /\ final \in Seq(S) /\ v \in Seq(S)
  OBVIOUS
<1>2. Len(first) = 1 /\ first[1] = a /\ Len(final) = 1 /\ final[1] = e
  OBVIOUS
<1>3. Len(mid) = 3 /\ mid[1] = b /\ mid[2] = c /\ mid[3] = d
  OBVIOUS
<1>4. Len(v) = 5 /\ v[1] = a /\ v[2] = b /\ v[3] = c /\ v[4] = d /\ v[5] = e
  OBVIOUS
<1>. HIDE DEF first, mid, final, v, S
<1>5. four \in Seq(S) /\ Puts(four, 1, first, 3, mid)
  BY <1>1, <1>2, <1>3, ConcatPuts
<1>. HIDE DEF four
<1>6. /\ Len(four) = 4 /\ four[1] = a /\ four[1+1] = b /\ four[1+2] = c /\ four[1+3] = d
  BY <1>2, <1>3, <1>5 DEF Puts
<1>7. u \in Seq(S) /\ Puts(u, 4, four, 1, final)
  BY <1>1, <1>2, <1>5, <1>6, ConcatPuts
<1>. HIDE DEF u
<1>8. Len(u) = 5 /\ u[1] = a /\ u[2] = b /\ u[3] = c /\ u[4] = d /\ u[4+1] = e
  BY <1>2, <1>6, <1>7 DEF Puts
<1>9. Len(u) = Len(v) /\ \A k \in 1..Len(u) : u[k] = v[k]
  <2>1. \A k \in 1..5 : k = 1 \/ k = 2 \/ k = 3 \/ k = 4 \/ k = 5
    OBVIOUS
  <2>. QED BY <1>4, <1>8, <2>1
<1>10. u = v
  BY <1>1, <1>7, <1>9, SeqEqual
<1>. QED BY <1>10 DEF u, v, four, first, mid, final

\* and of seven.
LEMMA SevenWords ==
  ASSUME NEW l, NEW a, NEW b, NEW c, NEW d, NEW e, NEW r
  PROVE  <<l>> \o <<a, b, c, d, e>> \o <<r>> = <<l, a, b, c, d, e, r>>
<1>. DEFINE S == {l, a, b, c, d, e, r}
<1>. DEFINE first == <<l>>
<1>. DEFINE mid == <<a, b, c, d, e>>
<1>. DEFINE final == <<r>>
<1>. DEFINE six == first \o mid
<1>. DEFINE u == six \o final
<1>. DEFINE v == <<l, a, b, c, d, e, r>>
<1>1. first \in Seq(S) /\ mid \in Seq(S) /\ final \in Seq(S) /\ v \in Seq(S)
  OBVIOUS
<1>2. Len(first) = 1 /\ first[1] = l /\ Len(final) = 1 /\ final[1] = r
  OBVIOUS
<1>3. Len(mid) = 5 /\ mid[1] = a /\ mid[2] = b /\ mid[3] = c /\ mid[4] = d /\ mid[5] = e
  OBVIOUS
<1>4. Len(v) = 7 /\ v[1] = l /\ v[2] = a /\ v[3] = b /\ v[4] = c /\ v[5] = d /\ v[6] = e /\ v[7] = r
  OBVIOUS
<1>. HIDE DEF first, mid, final, v, S
<1>5. six \in Seq(S) /\ Puts(six, 1, first, 5, mid)
  BY <1>1, <1>2, <1>3, ConcatPuts
<1>. HIDE DEF six
<1>6. /\ Len(six) = 6 /\ six[1] = l /\ six[1+1] = a /\ six[1+2] = b /\ six[1+3] = c
      /\ six[1+4] = d /\ six[1+5] = e
  BY <1>2, <1>3, <1>5 DEF Puts
<1>7. u \in Seq(S) /\ Puts(u, 6, six, 1, final)
  BY <1>1, <1>2, <1>5, <1>6, ConcatPuts
<1>. HIDE DEF u
<1>8. /\ Len(u) = 7 /\ u[1] = l /\ u[2] = a /\ u[3] = b /\ u[4] = c /\ u[5] = d /\ u[6] = e
      /\ u[6+1] = r
  BY <1>2, <1>6, <1>7 DEF Puts
<1>9. Len(u) = Len(v) /\ \A k \in 1..Len(u) : u[k] = v[k]
  <2>1. \A k \in 1..7 : k = 1 \/ k = 2 \/ k = 3 \/ k = 4 \/ k = 5 \/ k = 6 \/ k = 7
    OBVIOUS
  <2>. QED BY <1>4, <1>8, <2>1
<1>10. u = v
  BY <1>1, <1>7, <1>9, SeqEqual
<1>. QED BY <1>10 DEF u, v, six, first, mid, final

\* Raw texts that are what they are declared as: two words with an operator
\* between them,
LEMMA RawOperatorReading ==
  ASSUME NEW x \in Tokens, NEW y \in Tokens, Plain(x), Plain(y), NEW op \in Tokens,
         NEW level, BindsInfix(op, level)
  PROVE  Reading(<<x, " ", op, " ", y>>, level)
<1>. DEFINE words == <<" ", op, " ">>
<1>. DEFINE left  == Tree(x, <<>>)
<1>. DEFINE right == Tree(y, <<>>)
<1>. DEFINE whole == <<x>> \o words \o <<y>>
<1>1. level \in 1..16 /\ 0 \in Nat /\ level-1 \in Nat /\ 0 <= level-1
  <2>1. level \in 1..16
    BY Zenon DEF BindsInfix
  <2>. QED BY <2>1
<1>2. ASSUME NEW place PROVE Reads(whole, Tree(op, <<left>> \o <<right>>), level, place)
  <2>1. Reads(<<x>>, left, 0, place) /\ Reads(<<y>>, right, 0, place)
    BY WordReads, Zenon
  <2>. HIDE DEF left, right
  <2>2. Reads(<<x>>, left, level-1, place) /\ Reads(<<y>>, right, level-1, place)
    BY <1>1, <2>1, ReadsLoosely, Zenon
  <2>. QED BY <2>2, InfixReads, Zenon
<1>3. whole = <<x, " ", op, " ", y>>
  BY FiveWords, Zenon
<1>. HIDE DEF whole, left, right
<1>4. Reading(whole, level)
  BY <1>2, Zenon DEF Reading
<1>. QED BY <1>3, <1>4, Zenon

\* and the same in brackets.
LEMMA RawBracketReading ==
  ASSUME HonestOperators, NEW x \in Tokens, NEW y \in Tokens, Plain(x), Plain(y), "OR" \in Tokens
  PROVE  Reading(<<"(", x, " ", "OR", " ", y, ")">>, 0)
<1>. DEFINE inside == <<x, " ", "OR", " ", y>>
<1>. DEFINE whole  == <<"(", x, " ", "OR", " ", y, ")">>
<1>1. BindsInfix("OR", 16)
  BY MethodsAreInfix DEF kOr
<1>2. Reading(inside, 16)
  BY <1>1, RawOperatorReading, Zenon
<1>. DEFINE opening == <<"(">>
<1>. DEFINE closing == <<")">>
<1>3. opening \o inside \o closing = whole
  <2>. DEFINE blank == " "
  <2>. DEFINE word  == "OR"
  <2>. DEFINE left  == "("
  <2>. DEFINE right == ")"
  <2>. HIDE DEF blank, word, left, right
  <2>1. <<left>> \o <<x, blank, word, blank, y>> \o <<right>>
          = <<left, x, blank, word, blank, y, right>>
    BY SevenWords
  <2>. QED BY <2>1, Zenon DEF blank, word, left, right
<1>. HIDE DEF inside, whole
<1>4. PICK tree : Reads(inside, tree, 16, "anywhere")
  BY <1>2, Zenon DEF Reading
<1>5. 16 \in 0..17
  OBVIOUS
<1>6. Refers(opening \o inside \o closing, tree)
  BY <1>4, <1>5, BracketRefers, Zenon
<1>. HIDE DEF opening, closing
<1>7. Refers(whole, tree)
  BY <1>3, <1>6, Zenon
<1>8. Reading(whole, 0)
  BY <1>7, RefersReads, Zenon DEF Reading
<1>. QED BY <1>8, Zenon DEF whole

\* A leaf is of no tighter level than it was built with.
LEMMA GradeLooser ==
  ASSUME NEW text, NEW precedence \in 0..17
  PROVE  Grade(MakeLeaf(text, precedence)) \in Nat /\ precedence <= Grade(MakeLeaf(text, precedence))
<1>. DEFINE node == MakeLeaf(text, precedence)
<1>1. node.precedence = precedence
  BY DEF MakeLeaf
<1>. HIDE DEF node
<1>2. Grade(node) \in Nat /\ precedence <= Grade(node)
  BY <1>1 DEF Grade, Looser, kNot, kUnaryPlus
<1>. QED BY <1>2 DEF node

LEMMA AnyOtherCounted == kAnyOther = 10 /\ 10 \in 0..17 /\ 10 \in Nat
BY DEF kAnyOther

\* The client of the run ExprParens is an honest one.
LEMMA SmallClientIsHonest ==
  ASSUME HonestOperators, PlainNames,
         {"a", "x", "y", "OR", "||"} \subseteq Tokens,
         Plain("a"), Plain("x"), Plain("y"),
         RawExprs = {[text |-> <<"a">>, precedence |-> kSymbol],
                     [text |-> <<"x", " ", "||", " ", "y">>, precedence |-> kAnyOther]},
         RawConditions = {<<"(", "x", " ", "OR", " ", "y", ")">>}
  PROVE  HonestClient
<1>. DEFINE name == <<"a">>
<1>. DEFINE operation == <<"x", " ", "||", " ", "y">>
<1>. DEFINE bracketed == <<"(", "x", " ", "OR", " ", "y", ")">>
<1>1. "a" \in Tokens /\ "x" \in Tokens /\ "y" \in Tokens /\ "OR" \in Tokens /\ "||" \in Tokens
  OBVIOUS
<1>2. Reading(name, 0)
  BY <1>1, WordReading, Zenon
<1>3. Reading(operation, 10)
  <2>1. BindsInfix("||", 10)
    BY MethodsAreInfix DEF kAnyOther
  <2>. QED BY <1>1, <2>1, RawOperatorReading, Zenon
<1>4. Reading(bracketed, 0)
  BY <1>1, RawBracketReading, Zenon
<1>5. RawExprs = {[text |-> name, precedence |-> kSymbol],
                  [text |-> operation, precedence |-> kAnyOther]}
  BY Zenon
<1>6. RawConditions = {bracketed}
  BY Zenon
<1>. HIDE DEF name, operation, bracketed
<1>7. ReadsWherever(name, Grade(MakeLeaf(name, kSymbol)))
  BY <1>2, SymbolStands, Zenon
<1>8. ReadsWherever(operation, Grade(MakeLeaf(operation, kAnyOther)))
  <2>. DEFINE grade == Grade(MakeLeaf(operation, 10))
  <2>1. 10 \in 0..17 /\ 10 \in Nat /\ kAnyOther = 10
    BY AnyOtherCounted, Zenon
  <2>2. grade \in Nat /\ 10 <= grade
    BY <2>1, GradeLooser, Zenon
  <2>. HIDE DEF grade
  <2>3. ReadsWherever(operation, grade)
    BY <1>3, <2>1, <2>2, ReadingLoosely, Zenon
  <2>. QED BY <2>1, <2>3, Zenon DEF grade
<1>9. ReadsWherever(bracketed, Grade(MakeLeaf(bracketed, kSymbol)))
  BY <1>4, SymbolStands, Zenon
<1>10. ASSUME NEW raw \in RawExprs
       PROVE  ReadsWherever(raw.text, Grade(MakeLeaf(raw.text, raw.precedence)))
  <2>. DEFINE first  == [text |-> name, precedence |-> kSymbol]
  <2>. DEFINE second == [text |-> operation, precedence |-> kAnyOther]
  <2>1. raw = first \/ raw = second
    BY <1>5, Zenon
  <2>2. first.text = name /\ first.precedence = kSymbol
    OBVIOUS
  <2>3. second.text = operation /\ second.precedence = kAnyOther
    OBVIOUS
  <2>. HIDE DEF first, second
  <2>4. CASE raw = first
    BY <1>7, <2>2, <2>4, Zenon
  <2>5. CASE raw = second
    BY <1>8, <2>3, <2>5, Zenon
  <2>. QED BY <2>1, <2>4, <2>5, Zenon
<1>11. \A text \in RawConditions : ReadsWherever(text, Grade(MakeLeaf(text, kSymbol)))
  <2>1. \A text \in RawConditions : text = bracketed
    BY <1>6, Zenon
  <2>. QED BY <1>9, <2>1, Zenon
<1>. QED BY <1>10, <1>11, Zenon DEF HonestClient

-----------------------------------------------------------------------------
\* A text whose last token is a minus sign.
Ends(text) == text # <<>> /\ text[Len(text)] = Dash

\* Two clean texts are clean together unless a sign meets a sign.
LEMMA CleanConcat ==
  ASSUME NEW s \in Text, NEW t \in Text, Clean(s), Clean(t), ~(Ends(s) /\ Starts(t))
  PROVE  /\ Clean(s \o t)
         /\ Starts(s \o t) => Starts(s) \/ (s = <<>> /\ Starts(t))
         /\ Ends(s \o t) => Ends(t) \/ (t = <<>> /\ Ends(s))
<1>. DEFINE m == Len(s)
<1>. DEFINE n == Len(t)
<1>. DEFINE u == s \o t
<1>1. m \in Nat /\ n \in Nat /\ (m = 0 <=> s = <<>>) /\ (n = 0 <=> t = <<>>)
  BY LenProperties DEF Text
<1>2. Len(u) = m + n /\ \A k \in 1..m+n : u[k] = IF k <= m THEN s[k] ELSE t[k-m]
  <2>1. /\ u \in Seq(Tokens) /\ Len(u) = Len(s) + Len(t)
        /\ \A k \in 1 .. Len(s) + Len(t) : u[k] = IF k <= Len(s) THEN s[k] ELSE t[k - Len(s)]
    BY ConcatProperties DEF Text
  <2>. QED BY <2>1
<1>3. u = <<>> <=> (m = 0 /\ n = 0)
  <2>1. u \in Seq(Tokens)
    BY ConcatProperties DEF Text
  <2>. HIDE DEF u
  <2>. QED BY <1>1, <1>2, <2>1
<1>. HIDE DEF u
<1>4. Clean(u)
  <2>1. SUFFICES ASSUME NEW k \in 1 .. m + n - 1 PROVE ~(u[k] = Dash /\ u[k+1] = Dash)
    BY <1>2 DEF Clean
  <2>2. CASE k < m
    <3>1. u[k] = s[k] /\ u[k+1] = s[k+1] /\ k \in 1 .. Len(s) - 1
      BY <1>1, <1>2, <2>2
    <3>. QED BY <3>1 DEF Clean
  <2>3. CASE k = m
    <3>1. u[k] = s[m] /\ u[k+1] = t[1] /\ m # 0 /\ n # 0
      BY <1>1, <1>2, <2>3
    <3>. QED BY <1>1, <3>1 DEF Starts, Ends
  <2>4. CASE k > m
    <3>. DEFINE j == k - m
    <3>1. j \in 1 .. Len(t) - 1 /\ u[k] = t[j] /\ u[k+1] = t[j+1]
      BY <1>1, <1>2, <2>4
    <3>. HIDE DEF j
    <3>. QED BY <3>1 DEF Clean
  <2>. QED BY <1>1, <2>2, <2>3, <2>4
<1>5. Starts(u) => Starts(s) \/ (s = <<>> /\ Starts(t))
  BY <1>1, <1>2, <1>3 DEF Starts
<1>6. Ends(u) => Ends(t) \/ (t = <<>> /\ Ends(s))
  BY <1>1, <1>2, <1>3 DEF Ends
<1>. QED BY <1>4, <1>5, <1>6 DEF u

\* What is put behind a negative integer changes nothing about its beginning.
LEMMA PrefixGrows ==
  ASSUME NEW w \in Text, NEW s \in Text, NEW t \in Text, IsPrefix(w, s)
  PROVE  IsPrefix(w, s \o t)
<1>. DEFINE k == Len(w)
<1>. DEFINE u == s \o t
<1>1. k \in Nat /\ Len(s) \in Nat /\ Len(t) \in Nat
  BY LenProperties DEF Text
<1>2. k <= Len(s) /\ SubSeq(w, 1, k) = SubSeq(s, 1, k)
  BY DEF IsPrefix
<1>3. /\ u \in Seq(Tokens) /\ Len(u) = Len(s) + Len(t)
      /\ \A j \in 1 .. Len(s) + Len(t) : u[j] = IF j <= Len(s) THEN s[j] ELSE t[j - Len(s)]
  BY ConcatProperties DEF Text
<1>. HIDE DEF k, u
<1>4. k <= Len(u) /\ \A j \in 1..k : u[j] = s[j] /\ j \in 1..Len(u) /\ j \in 1..Len(s)
  BY <1>1, <1>2, <1>3
<1>5. SubSeq(s, 1, k) = [j \in 1..k |-> s[j]]
  BY <1>1
<1>6. SubSeq(u, 1, k) = [j \in 1..k |-> u[j]]
  BY <1>1
<1>7. SubSeq(u, 1, k) = SubSeq(s, 1, k)
  BY <1>4, <1>5, <1>6
<1>. QED BY <1>2, <1>4, <1>7 DEF IsPrefix, k, u

LEMMA IntegersTyped ==
  ASSUME NEW n \in Numbers
  PROVE  IntegerText(n) \in Text
<1>. DEFINE digits == Digits[Magnitude(n)]
<1>1. n \in Int /\ digits \in Tokens /\ "-" \in Tokens
  BY ClientAssumption, Keywords DEF Magnitude
<1>2. IntegerText(n) = <<"-", digits>> \/ IntegerText(n) = <<digits>>
  BY <1>1 DEF IntegerText, Magnitude
<1>. HIDE DEF digits
<1>. QED BY <1>1, <1>2, WordsTyped, Zenon

LEMMA NegativeGrows ==
  ASSUME NEW s \in Text, NEW t \in Text, Negative(s)
  PROVE  Negative(s \o t)
<1>1. PICK n \in Numbers : n < 0 /\ IsPrefix(IntegerText(n), s)
  BY Zenon DEF Negative
<1>2. IntegerText(n) \in Text
  BY IntegersTyped, Zenon
<1>3. IsPrefix(IntegerText(n), s \o t)
  BY <1>1, <1>2, PrefixGrows, Zenon
<1>. QED BY <1>1, <1>3, Zenon DEF Negative

\* A text that may stand next to anything.
Harmless(text) == text \in Text /\ text # <<>> /\ Clean(text) /\ ~Starts(text) /\ ~Ends(text)

\* Texts of a few words without a sign at either end.
LEMMA HarmlessWords ==
  /\ \A a \in Tokens : a # Dash => Harmless(<<a>>)
  /\ \A a, b \in Tokens : a # Dash /\ b # Dash => Harmless(<<a, b>>)
  /\ \A a, b, c \in Tokens : a # Dash /\ c # Dash => Harmless(<<a, b, c>>)
  /\ \A a, b, c, d \in Tokens : a # Dash /\ c # Dash /\ d # Dash => Harmless(<<a, b, c, d>>)
BY WordsTyped DEF Harmless, Clean, Starts, Ends

\* Two harmless texts are harmless together.
LEMMA HarmlessConcat ==
  ASSUME NEW s, NEW t, Harmless(s), Harmless(t)
  PROVE  Harmless(s \o t)
<1>1. s \in Text /\ t \in Text /\ s \o t \in Text
  BY WordsTyped DEF Harmless
<1>2. s \o t # <<>>
  BY <1>1 DEF Harmless, Text
<1>. QED BY <1>1, <1>2, CleanConcat DEF Harmless

\* A list of parts no two of which can bring two minus signs together: a
\* fragment never begins with one but in front, only a sign is followed by an
\* operand at once, and that operand is bracketed if it may begin with one, unless
\* that is a negative integer's.
Fits(parts, precedence) ==
  /\ Len(parts) # 0
  /\ \A k \in 1..Len(parts) : parts[k].node = 0 => Clean(parts[k].text)
  /\ \A k \in 2..Len(parts) :
       IF parts[k].node = 0 THEN ~Starts(parts[k].text)
       ELSE /\ parts[k-1].node = 0 /\ parts[k-1].text # <<>>
            /\ Ends(parts[k-1].text) => /\ parts[k].context <= kUnaryPlus
                                        /\ Len(parts) = 2 /\ parts[1] = Fragment(<<Dash>>)
  /\ IF parts[1].node = 0
     THEN Starts(parts[1].text) => precedence >= kUnaryPlus \/ Negative(parts[1].text)
     ELSE parts[1].context <= precedence

\* What is known of the text of a node.
Safe(text, precedence) ==
  text \in Text /\ Clean(text) /\ (Starts(text) => precedence >= kUnaryPlus \/ Negative(text))

\* A negative integer in front that no sign's context brackets.
Signs(heap, text, part) ==
  heap[part.node].precedence < kUnaryPlus /\ Negative(text[part.node])

\* An operand begins with a minus sign only if it binds looser than its context or
\* begins with a negative integer.
LEMMA OperandSafe ==
  ASSUME NEW heap, NEW text, NEW part, part.node # 0, part.context \in Nat,
         heap[part.node].precedence \in Nat,
         Safe(text[part.node], heap[part.node].precedence)
  PROVE  /\ PartText(heap, text, part) \in Text
         /\ Clean(PartText(heap, text, part))
         /\ Starts(PartText(heap, text, part)) =>
              \/ part.context > kUnaryPlus
              \/ Signs(heap, text, part) /\ Negative(PartText(heap, text, part))
<1>. DEFINE bare == text[part.node]
<1>. DEFINE open == "("
<1>. DEFINE shut == ")"
<1>1. /\ bare \in Text /\ Clean(bare)
      /\ Starts(bare) => heap[part.node].precedence >= kUnaryPlus \/ Negative(bare)
  BY DEF Safe
<1>2. Harmless(<<open>>) /\ Harmless(<<shut>>)
  <2>1. open \in Tokens /\ shut \in Tokens /\ open # Dash /\ shut # Dash
    BY Keywords DEF Dash
  <2>. HIDE DEF open, shut
  <2>. QED BY <2>1, HarmlessWords
<1>3. PartText(heap, text, part)
        = IF NeedsParens(heap[part.node].precedence, part.context)
          THEN <<open>> \o bare \o <<shut>> ELSE bare
  BY DEF PartText
<1>10. bare = text[part.node]
  OBVIOUS
<1>. HIDE DEF bare, open, shut
<1>. DEFINE left == <<open>>
<1>. DEFINE right == <<shut>>
<1>4. left \in Text /\ right \in Text /\ Clean(left) /\ Clean(right) /\ left # <<>> /\ right # <<>>
      /\ ~Starts(left) /\ ~Ends(left) /\ ~Starts(right) /\ ~Ends(right)
  BY <1>2 DEF Harmless
<1>. HIDE DEF left, right
<1>5. /\ left \o bare \in Text /\ Clean(left \o bare)
      /\ ~Starts(left \o bare)
  <2>1. left \o bare \in Text
    BY <1>1, <1>4, WordsTyped, Zenon
  <2>. QED BY <1>1, <1>4, <2>1, CleanConcat
<1>6. left \o bare # <<>>
  BY <1>1, <1>4 DEF Text
<1>7. /\ (left \o bare) \o right \in Text /\ Clean((left \o bare) \o right)
      /\ ~Starts((left \o bare) \o right)
  <2>1. (left \o bare) \o right \in Text
    BY <1>4, <1>5, WordsTyped, Zenon
  <2>. QED BY <1>4, <1>5, <1>6, <2>1, CleanConcat
<1>8. CASE NeedsParens(heap[part.node].precedence, part.context)
  BY <1>3, <1>7, <1>8 DEF left, right
<1>9. CASE ~NeedsParens(heap[part.node].precedence, part.context)
  <2>1. PartText(heap, text, part) = bare /\ part.context > heap[part.node].precedence
    BY <1>3, <1>9 DEF NeedsParens
  <2>2. kUnaryPlus = 4
    BY LevelsCounted
  <2>3. CASE heap[part.node].precedence >= kUnaryPlus
    <3>1. part.context > kUnaryPlus
      BY <2>1, <2>2, <2>3
    <3>. QED BY <1>1, <2>1, <3>1, Zenon
  <2>4. CASE heap[part.node].precedence < kUnaryPlus
    <3>1. ~(heap[part.node].precedence >= kUnaryPlus)
      BY <2>2, <2>4
    <3>2. Starts(bare) => Signs(heap, text, part) /\ Negative(bare)
      BY <1>1, <1>10, <2>4, <3>1, Zenon DEF Signs
    <3>. QED BY <1>1, <2>1, <3>2, Zenon
  <2>. QED BY <2>2, <2>3, <2>4
<1>. QED BY <1>8, <1>9

\* What the parts of a node are texts or safe operands of.
SafeParts(heap, text, parts) ==
  \A k \in 1..Len(parts) :
    IF parts[k].node = 0 THEN parts[k].text \in Text
    ELSE /\ parts[k].context \in Nat
         /\ heap[parts[k].node].precedence \in Nat
         /\ Safe(text[parts[k].node], heap[parts[k].node].precedence)

\* The parts of a negated negative integer.
Twice(heap, text, parts) ==
  Len(parts) = 2 /\ parts[1] = Fragment(<<Dash>>) /\ Signs(heap, text, parts[2])

\* The text of any other node that fits is safe if those of its operands are.
LEMMA FittingIsSafe ==
  ASSUME NEW heap, NEW text, NEW parts, Len(parts) \in Nat, SafeParts(heap, text, parts),
         NEW precedence \in Nat, Fits(parts, precedence), ~Twice(heap, text, parts)
  PROVE  Safe(FlattenSeq(Texts(heap, text, parts)), precedence)
<1>. DEFINE n == Len(parts)
<1>. DEFINE P == Texts(heap, text, parts)
<1>1. n \in Nat /\ n >= 1
  BY DEF Fits
<1>2. \A k \in 1..n : /\ parts[k].node = 0 => P[k] = parts[k].text /\ P[k] \in Text /\ Clean(P[k])
                      /\ parts[k].node # 0 => /\ P[k] \in Text /\ Clean(P[k])
                                              /\ Starts(P[k]) =>
                                                   \/ parts[k].context > kUnaryPlus
                                                   \/ Signs(heap, text, parts[k]) /\ Negative(P[k])
  <2>1. TAKE k \in 1..n
  <2>2. P[k] = PartText(heap, text, parts[k])
    BY DEF Texts
  <2>3. CASE parts[k].node = 0
    <3>1. P[k] = parts[k].text
      BY <2>2, <2>3 DEF PartText
    <3>. HIDE DEF P
    <3>. QED BY <2>3, <3>1 DEF Fits, SafeParts
  <2>4. CASE parts[k].node # 0
    <3>. DEFINE part == parts[k]
    <3>1. /\ part.node # 0 /\ part.context \in Nat /\ heap[part.node].precedence \in Nat
          /\ Safe(text[part.node], heap[part.node].precedence)
      BY <2>4 DEF SafeParts
    <3>. HIDE DEF part
    <3>2. /\ PartText(heap, text, part) \in Text
          /\ Clean(PartText(heap, text, part))
          /\ Starts(PartText(heap, text, part)) =>
               \/ part.context > kUnaryPlus
               \/ Signs(heap, text, part) /\ Negative(PartText(heap, text, part))
      BY <3>1, OperandSafe
    <3>. QED BY <2>2, <2>4, <3>2, Zenon DEF part
  <2>. QED BY <2>3, <2>4
<1>3. P \in Seq(Text) /\ Len(P) = n
  <2>1. P = [k \in 1..n |-> PartText(heap, text, parts[k])]
    BY DEF Texts
  <2>2. \A k \in 1..n : P[k] \in Text
    BY <1>2
  <2>. HIDE DEF P
  <2>3. P = [k \in 1..n |-> P[k]]
    BY <2>1
  <2>. QED BY <1>1, <2>1, <2>2, <2>3
<1>. HIDE DEF P
<1>4. PICK g : Unfolds(g, P) /\ FlattenSeq(P) = g[Len(P)]
  BY <1>1, <1>3, UnfoldingExists
<1>. DEFINE Good(k) ==
       /\ g[k] \in Text /\ Clean(g[k]) /\ (Starts(g[k]) => precedence >= kUnaryPlus \/ Negative(g[k]))
       /\ parts[k].node = 0 /\ P[k] # <<>> => g[k] # <<>> /\ (Ends(g[k]) => Ends(P[k]))
<1>5. Good(1)
  <2>1. g[1] = P[1] /\ 1 \in 1..n
    BY <1>1, <1>4 DEF Unfolds
  <2>2. CASE parts[1].node = 0
    <3>1. Starts(P[1]) => precedence >= kUnaryPlus \/ Negative(P[1])
      BY <1>2, <2>1, <2>2 DEF Fits
    <3>. QED BY <1>2, <2>1, <2>2, <3>1, Zenon
  <2>3. CASE parts[1].node # 0
    <3>1. parts[1].context <= precedence /\ parts[1].context \in Nat
      BY <2>1, <2>3 DEF Fits, SafeParts
    <3>2. kUnaryPlus = 4
      BY LevelsCounted
    <3>3. Starts(P[1]) => precedence >= kUnaryPlus \/ Negative(P[1])
      BY <1>2, <2>1, <2>3, <3>1, <3>2
    <3>. QED BY <1>2, <2>1, <2>3, <3>3, Zenon
  <2>. QED BY <2>2, <2>3
<1>6. ASSUME NEW k \in 2..n, Good(k-1) PROVE Good(k)
  <2>1. k \in 1..n /\ k-1 \in 1..n /\ k \in 2..Len(P)
    BY <1>3
  <2>2. g[k] = g[k-1] \o P[k]
    BY <1>4, <2>1, Zenon DEF Unfolds
  <2>. DEFINE s == g[k-1]
  <2>. DEFINE t == P[k]
  <2>3. s \in Text /\ t \in Text /\ Clean(s) /\ Clean(t) /\ g[k] = s \o t
        /\ (Starts(s) => precedence >= kUnaryPlus \/ Negative(s))
    BY <1>2, <1>6, <2>1, <2>2, Zenon
  <2>4. s \o t \in Text
    BY <2>3, WordsTyped, Zenon
  <2>7. Negative(s) => Negative(s \o t)
    BY <2>3, NegativeGrows, Zenon
  <2>5. CASE parts[k].node = 0
    <3>1. ~Starts(t)
      BY <1>2, <2>1, <2>5 DEF Fits
    <3>. HIDE DEF s, t
    <3>2. /\ Clean(s \o t) /\ (Starts(s \o t) => Starts(s))
          /\ Ends(s \o t) => Ends(t) \/ t = <<>>
      BY <2>3, <3>1, CleanConcat
    <3>3. t # <<>> => s \o t # <<>>
      BY <2>3 DEF Text
    <3>4. t = P[k]
      BY DEF t
    <3>. QED BY <2>3, <2>4, <2>7, <3>2, <3>3, <3>4, Zenon
  <2>6. CASE parts[k].node # 0
    <3>1. /\ parts[k-1].node = 0 /\ parts[k-1].text # <<>>
          /\ Ends(parts[k-1].text) => /\ parts[k].context <= kUnaryPlus
                                      /\ Len(parts) = 2 /\ parts[1] = Fragment(<<Dash>>)
      BY <2>6, Zenon DEF Fits
    <3>2. P[k-1] = parts[k-1].text
      BY <1>2, <2>1, <3>1
    <3>3. s # <<>> /\ (Ends(s) => Ends(P[k-1]))
      BY <1>6, <3>1, <3>2, Zenon
    <3>4. Starts(t) => parts[k].context > kUnaryPlus \/ Signs(heap, text, parts[k])
      BY <1>2, <2>1, <2>6, Zenon
    <3>5. parts[k].context \in Nat /\ kUnaryPlus = 4
      BY <2>1, <2>6, LevelsCounted DEF SafeParts
    <3>8. Len(parts) = 2 => parts[k] = parts[2]
      BY <2>1
    <3>6. ~(Ends(s) /\ Starts(t))
      <4>1. SUFFICES ASSUME Ends(s), Starts(t) PROVE FALSE
        OBVIOUS
      <4>2. /\ parts[k].context <= kUnaryPlus
            /\ Len(parts) = 2 /\ parts[1] = Fragment(<<Dash>>)
        BY <3>1, <3>2, <3>3, <4>1, Zenon
      <4>3. ~Signs(heap, text, parts[k])
        BY <3>8, <4>2, Zenon DEF Twice
      <4>. QED BY <3>4, <3>5, <4>1, <4>2, <4>3
    <3>. HIDE DEF s, t
    <3>7. Clean(s \o t) /\ (Starts(s \o t) => Starts(s))
      BY <2>3, <3>3, <3>6, CleanConcat
    <3>. QED BY <2>3, <2>4, <2>6, <2>7, <3>7, Zenon
  <2>. QED BY <2>5, <2>6
<1>. DEFINE T == {k \in 1..n : ~Good(k)}
<1>7. T = {}
  <2>1. SUFFICES ASSUME T # {} PROVE FALSE
    OBVIOUS
  <2>2. PICK m \in T : \A k \in T : m <= k
    <3>1. T \in SUBSET Nat
      OBVIOUS
    <3>. HIDE DEF T
    <3>. QED BY <2>1, <3>1, LeastNat
  <2>. HIDE DEF Good
  <2>3. m \in 1..n /\ ~Good(m)
    OBVIOUS
  <2>4. m \in 2..n
    BY <1>5, <2>3
  <2>5. m-1 \in 1..n /\ m-1 \notin T
    BY <2>2, <2>4
  <2>. QED BY <1>6, <2>3, <2>4, <2>5
<1>8. Good(n)
  <2>. HIDE DEF Good
  <2>1. n \in 1..n
    BY <1>1
  <2>. QED BY <1>7, <2>1
<1>9. FlattenSeq(P) = g[n]
  BY <1>3, <1>4
<1>. QED BY <1>8, <1>9 DEF Safe, P

IsText(part) == part.node = 0 /\ Harmless(part.text)

Begins(part, precedence) == IsText(part) \/ (part.node # 0 /\ part.context <= precedence)

StandsBehind(part, next) == IsText(next) \/ (next.node # 0 /\ IsText(part))

\* Every operand but the first stands behind a text that may stand anywhere.
Alternates(parts, precedence) ==
  /\ Len(parts) # 0
  /\ Begins(parts[1], precedence)
  /\ \A k \in 2..Len(parts) : StandsBehind(parts[k-1], parts[k])

\* Parts that alternate fit.
LEMMA AlternatingFits ==
  ASSUME NEW parts, Len(parts) \in Nat, NEW precedence, Alternates(parts, precedence)
  PROVE  Fits(parts, precedence)
<1>1. Len(parts) # 0 /\ 1 \in 1..Len(parts)
  BY DEF Alternates
<1>2. \A k \in 1..Len(parts) : parts[k].node = 0 => IsText(parts[k])
  <2>1. TAKE k \in 1..Len(parts)
  <2>2. k = 1 \/ k \in 2..Len(parts)
    OBVIOUS
  <2>. QED BY <2>2 DEF Alternates, Begins, StandsBehind
<1>3. \A k \in 1..Len(parts) : parts[k].node = 0 =>
        Clean(parts[k].text) /\ ~Starts(parts[k].text)
  BY <1>2, Zenon DEF IsText, Harmless
<1>4. \A k \in 2..Len(parts) : parts[k].node # 0 =>
        /\ parts[k-1].node = 0 /\ parts[k-1].text # <<>>
        /\ ~Ends(parts[k-1].text)
  BY Zenon DEF Alternates, StandsBehind, IsText, Harmless
<1>5. parts[1].node # 0 => parts[1].context <= precedence
  BY Zenon DEF Alternates, Begins, IsText
<1>6. \A k \in 2..Len(parts) : k \in 1..Len(parts)
  OBVIOUS
<1>. QED BY <1>1, <1>3, <1>4, <1>5, <1>6, Zenon DEF Fits

\* Two, three and four parts that alternate.
LEMMA FewAlternate ==
  ASSUME NEW p, NEW q, NEW precedence, Begins(p, precedence), StandsBehind(p, q)
  PROVE  /\ Fits(<<p, q>>, precedence)
         /\ \A r : StandsBehind(q, r) =>
              /\ Fits(<<p, q, r>>, precedence)
              /\ \A s : StandsBehind(r, s) => Fits(<<p, q, r, s>>, precedence)
<1>1. Fits(<<p, q>>, precedence)
  <2>. DEFINE parts == <<p, q>>
  <2>1. Len(parts) = 2 /\ parts[1] = p /\ parts[2] = q
    OBVIOUS
  <2>. HIDE DEF parts
  <2>2. Alternates(parts, precedence)
    BY <2>1 DEF Alternates
  <2>. QED BY <2>1, <2>2, AlternatingFits DEF parts
<1>2. ASSUME NEW r, StandsBehind(q, r) PROVE Fits(<<p, q, r>>, precedence)
  <2>. DEFINE parts == <<p, q, r>>
  <2>1. Len(parts) = 3 /\ parts[1] = p /\ parts[2] = q /\ parts[3] = r
    OBVIOUS
  <2>. HIDE DEF parts
  <2>2. \A k \in 2..3 : StandsBehind(parts[k-1], parts[k])
    BY <1>2, <2>1
  <2>3. Alternates(parts, precedence)
    BY <2>1, <2>2 DEF Alternates
  <2>. QED BY <2>1, <2>3, AlternatingFits DEF parts
<1>3. ASSUME NEW r, NEW s, StandsBehind(q, r), StandsBehind(r, s) PROVE Fits(<<p, q, r, s>>, precedence)
  <2>. DEFINE parts == <<p, q, r, s>>
  <2>1. Len(parts) = 4 /\ parts[1] = p /\ parts[2] = q /\ parts[3] = r /\ parts[4] = s
    OBVIOUS
  <2>. HIDE DEF parts
  <2>2. \A k \in 2..4 : StandsBehind(parts[k-1], parts[k])
    BY <1>3, <2>1
  <2>3. Alternates(parts, precedence)
    BY <2>1, <2>2 DEF Alternates
  <2>. QED BY <2>1, <2>3, AlternatingFits DEF parts
<1>. QED BY <1>1, <1>2, <1>3, Zenon

\* Five.
LEMMA FiveAlternate ==
  ASSUME NEW p, NEW q, NEW r, NEW s, NEW t, NEW precedence, Begins(p, precedence),
         StandsBehind(p, q), StandsBehind(q, r), StandsBehind(r, s), StandsBehind(s, t)
  PROVE  Fits(<<p, q, r>> \o <<s, t>>, precedence)
<1>. DEFINE parts == <<p, q, r>> \o <<s, t>>
<1>1. /\ Len(parts) = 5 /\ parts[1] = p /\ parts[2] = q /\ parts[3] = r
      /\ parts[4] = s /\ parts[5] = t
  BY ThreeAndTwo
<1>. HIDE DEF parts
<1>2. \A k \in 2..5 : StandsBehind(parts[k-1], parts[k])
  BY <1>1
<1>3. Alternates(parts, precedence)
  BY <1>1, <1>2 DEF Alternates
<1>. QED BY <1>1, <1>3, AlternatingFits DEF parts

\* A sign or a prefix operator, and its operand.
LEMMA SignFits ==
  ASSUME NEW p, NEW q, NEW precedence, p.node = 0, p.text # <<>>, Clean(p.text),
         Starts(p.text) => precedence >= kUnaryPlus,
         q.node # 0, Ends(p.text) => q.context <= kUnaryPlus /\ p = Fragment(<<Dash>>)
  PROVE  Fits(<<p, q>>, precedence)
<1>. DEFINE parts == <<p, q>>
<1>1. Len(parts) = 2 /\ parts[1] = p /\ parts[2] = q
  OBVIOUS
<1>. HIDE DEF parts
<1>2. Fits(parts, precedence)
  BY <1>1 DEF Fits
<1>. QED BY <1>2 DEF parts

\* A leaf.
LEMMA LeafFits ==
  ASSUME NEW text, Clean(text), NEW precedence,
         Starts(text) => precedence >= kUnaryPlus \/ Negative(text)
  PROVE  Fits(<<Fragment(text)>>, precedence)
<1>. DEFINE part == Fragment(text)
<1>1. part.node = 0 /\ part.text = text
  BY DEF Fragment
<1>. HIDE DEF part
<1>. DEFINE parts == <<part>>
<1>2. Len(parts) = 1 /\ parts[1] = part
  OBVIOUS
<1>. HIDE DEF parts
<1>3. Fits(parts, precedence)
  BY <1>1, <1>2 DEF Fits
<1>. QED BY <1>3 DEF parts, part

\* The texts the code puts between operands.
LEMMA FragmentsHarmless ==
  /\ \A op : op \in Tokens => /\ Harmless(<<" ", op, " ">>)
                              /\ Harmless(<<" ", op, " ", "(">>)
                              /\ op # Dash => Harmless(<<op, "(">>) /\ Harmless(<<" ", op>>)
                                              /\ Harmless(<<op, " ">>) /\ Harmless(<<op>>)
                              /\ Harmless(Bracketed(op))
                              /\ Harmless(<<" ", op, " ">> \o Bracketed(op))
  /\ Harmless(<<"(">>) /\ Harmless(<<")">>) /\ Harmless(<<"[">>) /\ Harmless(<<"]">>)
  /\ Harmless(<<".">>) /\ Harmless(<<",", " ">>) /\ Harmless(<<"DISTINCT", " ">>)
  /\ Harmless(<<"NOT", " ">>) /\ Harmless(<<"EXISTS", " ">>)
  /\ Harmless(<<"NOT", " ", "EXISTS", " ">>)
  /\ Harmless(<<"CAST", " ", "(">>) /\ Harmless(<<" ", "AS t", ")">>)
  /\ Harmless(<<" ", "COLLATE c">>)
  /\ \A op, query : Harmless(<<" ", op, " ">>) /\ Harmless(Bracketed(query))
                      => Harmless(<<" ", op, " ">> \o Bracketed(query))
<1>. DEFINE W == {" ", "(", ")", "[", "]", ".", ",", "DISTINCT", "NOT", "EXISTS", "CAST", "AS t",
                  "COLLATE c"}
<1>1. \A w \in W : w \in Tokens /\ w # Dash
  BY Keywords DEF Dash
<1>2. /\ " " \in W /\ "(" \in W /\ ")" \in W /\ "[" \in W /\ "]" \in W /\ "." \in W /\ "," \in W
      /\ "DISTINCT" \in W /\ "NOT" \in W /\ "EXISTS" \in W /\ "CAST" \in W /\ "AS t" \in W
      /\ "COLLATE c" \in W
  OBVIOUS
<1>. HIDE DEF W
<1>3. /\ Harmless(<<"(">>) /\ Harmless(<<")">>) /\ Harmless(<<"[">>) /\ Harmless(<<"]">>)
      /\ Harmless(<<".">>) /\ Harmless(<<",", " ">>) /\ Harmless(<<"DISTINCT", " ">>)
      /\ Harmless(<<"NOT", " ">>) /\ Harmless(<<"EXISTS", " ">>)
      /\ Harmless(<<"NOT", " ", "EXISTS", " ">>)
      /\ Harmless(<<"CAST", " ", "(">>) /\ Harmless(<<" ", "AS t", ")">>)
      /\ Harmless(<<" ", "COLLATE c">>)
  BY <1>1, <1>2, HarmlessWords, Zenon
<1>4. ASSUME NEW op \in Tokens
      PROVE  /\ Harmless(<<" ", op, " ">>)
             /\ Harmless(<<" ", op, " ", "(">>)
             /\ op # Dash => Harmless(<<op, "(">>) /\ Harmless(<<" ", op>>)
                             /\ Harmless(<<op, " ">>) /\ Harmless(<<op>>)
             /\ Harmless(Bracketed(op))
  BY <1>1, <1>2, HarmlessWords, Zenon DEF Bracketed
<1>5. \A op, query : Harmless(<<" ", op, " ">>) /\ Harmless(Bracketed(query))
                      => Harmless(<<" ", op, " ">> \o Bracketed(query))
  BY HarmlessConcat, Zenon
<1>. QED BY <1>3, <1>4, <1>5, Zenon

\* What a part holds.
LEMMA PartsKnown ==
  /\ \A text : Harmless(text) => IsText(Fragment(text))
  /\ \A i, context : ChildRef(i, context).node = i /\ ChildRef(i, context).context = context
  /\ \A text : Fragment(text).node = 0 /\ Fragment(text).text = text
BY DEF IsText, Fragment, ChildRef

\* A list of operands, behind its front.
LEMMA ListFits ==
  ASSUME NEW front, NEW m \in Nat, NEW V, front \in Seq(V), Len(front) = m, m >= 1,
         NEW S, S \subseteq Nat \ {0}, NEW args \in Seq(S), Len(args) >= 1,
         NEW precedence, Begins(front[1], precedence), IsText(front[m]),
         \A k \in 2..m : StandsBehind(front[k-1], front[k])
  PROVE  Fits(front \o CommaList(args) \o <<Fragment(<<")">>)>>, precedence)
<1>. DEFINE last == Fragment(<<")">>)
<1>. DEFINE comma == Fragment(<<",", " ">>)
<1>. DEFINE parts == front \o CommaList(args) \o <<last>>
<1>. DEFINE n == Len(args)
<1>1. IsText(last) /\ IsText(comma)
  BY FragmentsHarmless, PartsKnown, Zenon
<1>2. Laid(parts, front, m, args, n, last)
  <2>. HIDE DEF last
  <2>. QED BY ListLayout
<1>3. n \in Nat /\ n >= 1 /\ \A j \in 1..n : args[j] # 0
  BY LenProperties, ElementOfSeq
<1>4. /\ Len(parts) = m + 2*n
      /\ \A k \in 1..m : parts[k] = front[k]
      /\ \A j \in 1..n : parts[m + 2*j - 1].node # 0
      /\ \A j \in 1..n-1 : IsText(parts[m + 2*j])
      /\ IsText(parts[m + 2*n])
  <2>. HIDE DEF parts, n, last
  <2>1. \A j \in 1..n : parts[m + 2*j - 1] = ChildRef(args[j], kExtract)
    BY <1>2, Zenon DEF Laid
  <2>2. \A j \in 1..n : parts[m + 2*j - 1].node # 0
    <3>1. TAKE j \in 1..n
    <3>2. args[j] # 0 /\ ChildRef(args[j], kExtract).node = args[j]
      BY <1>3 DEF ChildRef
    <3>3. parts[m + 2*j - 1] = ChildRef(args[j], kExtract)
      BY <2>1
    <3>. QED BY <3>2, <3>3, Zenon
  <2>3. \A j \in 1..n-1 : IsText(parts[m + 2*j])
    BY <1>1, <1>2, Zenon DEF Laid
  <2>. QED BY <1>1, <1>2, <2>2, <2>3, Zenon DEF Laid
<1>. HIDE DEF parts, n, last, comma
<1>5. Begins(parts[1], precedence)
  <2>1. 1 \in 1..m
    OBVIOUS
  <2>. QED BY <1>4, <2>1
<1>6. ASSUME NEW k \in 2 .. m + 2*n PROVE StandsBehind(parts[k-1], parts[k])
  <2>1. CASE k <= m
    <3>1. k \in 1..m /\ k-1 \in 1..m /\ k \in 2..m
      BY <2>1
    <3>. QED BY <1>4, <3>1
  <2>2. CASE k > m
    <3>. DEFINE d == k - m
    <3>1. d \in 1..2*n /\ k = m + d
      BY <1>3, <2>2
    <3>. HIDE DEF d
    <3>2. CASE d % 2 # 1
      <4>1. d \div 2 \in 1..n /\ d = 2*(d \div 2)
        BY <1>3, <3>1, <3>2, Places
      <4>. DEFINE j == d \div 2
      <4>2. j \in 1..n /\ d = 2*j
        BY <4>1
      <4>. HIDE DEF j
      <4>3. k = m + 2*j /\ (j \in 1..n-1 \/ j = n)
        BY <1>3, <3>1, <4>2
      <4>4. IsText(parts[k])
        BY <1>4, <4>3
      <4>. QED BY <4>4 DEF StandsBehind
    <3>3. CASE d % 2 = 1
      <4>1. (d+1) \div 2 \in 1..n /\ d = 2*((d+1) \div 2) - 1
        BY <1>3, <3>1, <3>3, Places
      <4>. DEFINE j == (d+1) \div 2
      <4>2. j \in 1..n /\ d = 2*j - 1
        BY <4>1
      <4>. HIDE DEF j
      <4>3. k = m + 2*j - 1 /\ parts[k].node # 0
        <5>1. k = m + 2*j - 1
          BY <1>3, <3>1, <4>2
        <5>. QED BY <1>4, <4>2, <5>1
      <4>4. CASE j = 1
        <5>1. k - 1 = m /\ m \in 1..m
          BY <4>3, <4>4
        <5>2. parts[m] = front[m]
          BY <1>4, <5>1
        <5>3. IsText(parts[k-1])
          BY <5>1, <5>2
        <5>. QED BY <4>3, <5>3 DEF StandsBehind
      <4>5. CASE j # 1
        <5>. DEFINE i == j - 1
        <5>1. i \in 1..n-1 /\ k - 1 = m + 2*i
          BY <1>3, <4>2, <4>3, <4>5
        <5>. HIDE DEF i
        <5>2. IsText(parts[k-1])
          BY <1>4, <5>1
        <5>. QED BY <4>3, <5>2 DEF StandsBehind
      <4>. QED BY <4>4, <4>5
    <3>. QED BY <3>2, <3>3
  <2>. QED BY <2>1, <2>2
<1>7. Len(parts) \in Nat /\ Len(parts) # 0 /\ Len(parts) = m + 2*n
  BY <1>3, <1>4
<1>8. Alternates(parts, precedence)
  BY <1>5, <1>6, <1>7 DEF Alternates
<1>9. Fits(parts, precedence)
  BY <1>7, <1>8, AlternatingFits
<1>. QED BY <1>9 DEF parts, last

\* The last call built no node, or one of that kind.
BuildsSafely ==
  \/ nodes' = nodes
  \/ \E node : Fits(node.parts, node.precedence) /\ nodes' = Append(nodes, node)

\* A constructor call that builds such a node.
LEMMA SafeNodeBuilt ==
  ASSUME NEW precedence, NEW parts, Fits(parts, precedence),
         \/ BuildExpr(MakeNode(precedence, parts))
         \/ BuildCondition(MakeNode(precedence, parts))
  PROVE  BuildsSafely
<1>. DEFINE node == MakeNode(precedence, parts)
<1>1. node.parts = parts /\ node.precedence = precedence
  BY DEF MakeNode
<1>2. nodes' = Append(nodes, node)
  BY DEF BuildExpr, BuildCondition, Build
<1>. HIDE DEF node
<1>3. Fits(node.parts, node.precedence)
  BY <1>1
<1>. QED BY <1>2, <1>3, Zenon DEF BuildsSafely

\* One that builds a leaf.
LEMMA SafeLeafBuilt ==
  ASSUME NEW precedence, NEW text, Clean(text),
         Starts(text) => precedence >= kUnaryPlus \/ Negative(text),
         \/ BuildExpr(MakeLeaf(text, precedence))
         \/ BuildCondition(MakeLeaf(text, precedence))
  PROVE  BuildsSafely
<1>. DEFINE node == MakeLeaf(text, precedence)
<1>1. node.parts = <<Fragment(text)>> /\ node.precedence = precedence
  BY DEF MakeLeaf
<1>2. nodes' = Append(nodes, node)
  BY DEF BuildExpr, BuildCondition, Build
<1>3. Fits(<<Fragment(text)>>, precedence)
  BY LeafFits
<1>. HIDE DEF node
<1>4. Fits(node.parts, node.precedence)
  BY <1>1, <1>3, Zenon
<1>. QED BY <1>2, <1>4, Zenon DEF BuildsSafely

\* One that throws.
LEMMA NothingSafelyBuilt ==
  ASSUME NEW exception, Throw(exception)
  PROVE  BuildsSafely
BY DEF Throw, BuildsSafely

\* The leaves.
LEMMA NewLeafSafe ==
  ASSUME CarefulClient, NewLeaf
  PROVE  BuildsSafely
<1>1. ASSUME NEW raw \in RawExprs, FromRaw(raw) PROVE BuildsSafely
  <2>1. Clean(raw.text) /\ (Starts(raw.text) => raw.precedence >= kUnaryPlus)
    BY Zenon DEF CarefulClient
  <2>. QED BY <1>1, <2>1, SafeLeafBuilt DEF FromRaw
<1>2. ASSUME NEW text, Harmless(text), NEW precedence,
             \/ BuildExpr(MakeLeaf(text, precedence))
             \/ BuildCondition(MakeLeaf(text, precedence))
      PROVE  BuildsSafely
  BY <1>2, SafeLeafBuilt, Zenon DEF Harmless
<1>3. ASSUME NEW n \in Numbers, FromInteger(n) PROVE BuildsSafely
  <2>1. n \in Int /\ Digits[Magnitude(n)] \in Tokens /\ Digits[Magnitude(n)] # Dash
    BY ClientAssumption DEF CarefulClient, Magnitude
  <2>. DEFINE digits == Digits[Magnitude(n)]
  <2>2. CASE n < 0
    <3>1. IntegerText(n) = <<"-", digits>>
      BY <2>2 DEF IntegerText, Magnitude
    <3>. HIDE DEF digits
    <3>2. Clean(<<"-", digits>>)
      BY <2>1 DEF Clean, Dash, digits
    <3>3. IsPrefix(IntegerText(n), IntegerText(n))
      BY <3>1 DEF IsPrefix
    <3>4. Negative(IntegerText(n))
      BY <2>2, <3>3, Zenon DEF Negative
    <3>5. Clean(IntegerText(n))
      BY <3>1, <3>2, Zenon
    <3>. QED BY <1>3, <3>4, <3>5, SafeLeafBuilt, Zenon DEF FromInteger
  <2>3. CASE ~(n < 0)
    <3>1. IntegerText(n) = <<digits>>
      BY <2>3 DEF IntegerText, Magnitude
    <3>2. Harmless(<<digits>>)
      BY <2>1, FragmentsHarmless
    <3>. QED BY <1>2, <1>3, <3>1, <3>2, Zenon DEF FromInteger
  <2>. QED BY <2>2, <2>3
<1>4. ASSUME NEW text \in RawConditions, ConditionFromRaw(text) PROVE BuildsSafely
  <2>1. Clean(text) /\ ~Starts(text)
    BY Zenon DEF CarefulClient
  <2>. QED BY <1>4, <2>1, SafeLeafBuilt, Zenon DEF ConditionFromRaw
<1>5. ASSUME NEW word \in Operators, Word(word) PROVE BuildsSafely
  <2>1. word \in Tokens /\ word # Dash
    BY <1>5, ClientAssumption DEF Word, Dash
  <2>2. Harmless(<<word>>)
    BY <2>1, FragmentsHarmless
  <2>. QED BY <1>2, <1>5, <2>2, Zenon DEF Word
<1>6. ASSUME NEW test \in Operators, NEW query \in Subqueries, Exists(test, query)
      PROVE  BuildsSafely
  <2>1. query \in Tokens
    BY ClientAssumption
  <2>2. Harmless(Bracketed(query)) /\ Harmless(ExistsWords(test))
    BY <2>1, FragmentsHarmless, Zenon DEF ExistsWords
  <2>3. Harmless(ExistsWords(test) \o Bracketed(query))
    BY <2>2, HarmlessConcat, Zenon
  <2>. QED BY <1>2, <1>6, <2>3, Zenon DEF Exists
<1>. QED BY <1>1, <1>3, <1>4, <1>5, <1>6 DEF NewLeaf

\* The calls of functions and aggregates.
LEMMA CallSafe ==
  ASSUME Inv, NEW name \in Tokens, name \notin Malformed => name # Dash,
         NEW args \in Seq(Exprs), Call(name, args) \/ CallDistinct(name, args)
  PROVE  BuildsSafely
<1>. DEFINE distinct == <<"DISTINCT", " ">>
<1>. DEFINE lead == <<name, "(">>
<1>. DEFINE last == Fragment(<<")">>)
<1>. DEFINE Parts(prefix) == <<Fragment(lead \o prefix)>> \o CommaList(args) \o <<last>>
<1>1. Exprs \subseteq Nat \ {0} /\ \A text : Harmless(text) => text \in Text
  BY HeapRanked DEF Harmless
<1>8. args # <<>> => Len(args) >= 1
  BY LenProperties
<1>2. /\ name # Dash => Harmless(lead)
      /\ Harmless(distinct)
      /\ IsText(last)
  BY FragmentsHarmless, PartsKnown, Zenon
<1>3. ASSUME name # Dash, NEW prefix, prefix = <<>> \/ prefix = distinct
      PROVE  Harmless(lead \o prefix)
  <2>. HIDE DEF lead, distinct
  <2>1. CASE prefix = <<>>
    <3>1. lead \o <<>> = lead
      BY <1>1, <1>2, <1>3, ConcatEmptySeq DEF Text
    <3>. QED BY <1>2, <1>3, <2>1, <3>1, Zenon
  <2>2. CASE prefix = distinct
    BY <1>2, <1>3, <2>2, HarmlessConcat, Zenon
  <2>. QED BY <1>3, <2>1, <2>2
<1>4. ASSUME name # Dash, NEW prefix, prefix = <<>> \/ prefix = distinct, args # <<>>
      PROVE  Fits(Parts(prefix), kSymbol)
  <2>. DEFINE opening == Fragment(lead \o prefix)
  <2>. DEFINE front == <<opening>>
  <2>. DEFINE V == {opening}
  <2>1. IsText(opening)
    BY <1>3, <1>4, PartsKnown, Zenon
  <2>2. front \in Seq(V) /\ Len(front) = 1 /\ front[1] = opening
    OBVIOUS
  <2>3. Len(args) >= 1
    BY <1>4, <1>8
  <2>4. Begins(front[1], kSymbol)
    BY <2>1, <2>2 DEF Begins
  <2>. HIDE DEF opening, V, lead
  <2>5. /\ front \in Seq(V) /\ 1 \in Nat /\ Len(front) = 1 /\ 1 >= 1 /\ IsText(front[1])
        /\ \A k \in 2..1 : StandsBehind(front[k-1], front[k])
    BY <2>1, <2>2
  <2>. HIDE DEF front
  <2>6. Fits(front \o CommaList(args) \o <<Fragment(<<")">>)>>, kSymbol)
    BY <1>1, <2>3, <2>4, <2>5, ListFits
  <2>. QED BY <2>6 DEF front, opening
<1>5. ASSUME name # Dash, args = <<>>
      PROVE  Fits(Parts(<<>>), kSymbol)
  <2>. DEFINE opening == Fragment(lead \o <<>>)
  <2>1. IsText(opening)
    BY <1>3, <1>5, PartsKnown, Zenon
  <2>2. Fits(<<opening, last>>, kSymbol)
    BY <1>2, <2>1, FewAlternate, Zenon DEF Begins, StandsBehind
  <2>. HIDE DEF opening, last
  <2>3. CommaList(<<>>) = <<>>
    BY DEF CommaList
  <2>4. <<opening>> \o <<>> \o <<last>> = <<opening, last>>
    <3>1. <<opening>> \in Seq({opening})
      OBVIOUS
    <3>2. <<opening>> \o <<>> = <<opening>>
      BY <3>1, ConcatEmptySeq
    <3>3. <<opening>> \o <<last>> = <<opening, last>>
      BY PairConcat
    <3>. QED BY <3>2, <3>3, Zenon
  <2>5. Parts(<<>>) = <<opening>> \o CommaList(args) \o <<last>>
    BY DEF opening
  <2>. HIDE DEF Parts
  <2>6. Parts(<<>>) = <<opening, last>>
    BY <1>5, <2>3, <2>4, <2>5
  <2>. QED BY <2>2, <2>6
<1>6. CASE Call(name, args)
  <2>1. CASE Throw("InvalidIdentifier")
    BY <2>1, NothingSafelyBuilt
  <2>2. CASE name \notin Malformed /\ BuildExpr(BuildCallNode(name, <<>>, args))
    <3>1. Fits(Parts(<<>>), kSymbol)
      <4>. HIDE DEF Parts, distinct
      <4>. QED BY <1>4, <1>5, <2>2
    <3>2. BuildExpr(MakeNode(kSymbol, Parts(<<>>)))
      BY <2>2 DEF BuildCallNode
    <3>. HIDE DEF Parts
    <3>. QED BY <3>1, <3>2, SafeNodeBuilt
  <2>. QED BY <1>6, <2>1, <2>2 DEF Call
<1>7. CASE CallDistinct(name, args)
  <2>1. CASE Throw("InvalidIdentifier") \/ Throw("InvalidArgument")
    BY <2>1, NothingSafelyBuilt
  <2>2. CASE name \notin Malformed /\ args # <<>>
             /\ BuildExpr(BuildCallNode(name, <<"DISTINCT", " ">>, args))
    <3>1. Fits(Parts(distinct), kSymbol)
      <4>. HIDE DEF Parts, distinct
      <4>. QED BY <1>4, <2>2
    <3>2. BuildExpr(MakeNode(kSymbol, Parts(distinct)))
      BY <2>2 DEF BuildCallNode, distinct
    <3>. HIDE DEF Parts
    <3>. QED BY <3>1, <3>2, SafeNodeBuilt
  <2>. QED BY <1>7, <2>1, <2>2 DEF CallDistinct
<1>. QED BY <1>6, <1>7

\* IN and NOT IN of a list.
LEMMA InListSafe ==
  ASSUME Inv, NEW op \in Operators, NEW x \in Exprs, NEW args \in Seq(Exprs), InList(op, x, args)
  PROVE  BuildsSafely
<1>1. CASE Throw("InvalidArgument")
  BY <1>1, NothingSafelyBuilt
<1>2. CASE args # <<>> /\ BuildCondition(BuildInListNode(x, op, args))
  <2>. DEFINE self == ChildRef(x, kBetween)
  <2>. DEFINE word == Infix(op)
  <2>. DEFINE open == Fragment(<<"(">>)
  <2>. DEFINE front == <<self, word, open>>
  <2>. DEFINE V == {self, word, open}
  <2>. DEFINE parts == front \o CommaList(args) \o <<Fragment(<<")">>)>>
  <2>1. Exprs \subseteq Nat \ {0} /\ op \in Tokens /\ Len(args) >= 1
    BY <1>2, HeapRanked, ClientAssumption, LenProperties
  <2>2. IsText(word) /\ IsText(open)
    BY <2>1, FragmentsHarmless, PartsKnown, Zenon DEF Infix
  <2>3. self.node = x /\ self.context = kBetween /\ x # 0
    BY <2>1 DEF ChildRef
  <2>4. BuildCondition(MakeNode(kBetween, parts))
    BY <1>2 DEF BuildInListNode
  <2>. HIDE DEF self, word, open
  <2>5. /\ front \in Seq(V) /\ Len(front) = 3
        /\ front[1] = self /\ front[2] = word /\ front[3] = open
    OBVIOUS
  <2>. HIDE DEF front, V
  <2>6. Begins(front[1], kBetween) /\ IsText(front[3])
        /\ \A k \in 2..3 : StandsBehind(front[k-1], front[k])
    <3>1. Begins(self, kBetween)
      BY <2>3, LevelsCounted DEF Begins
    <3>2. \A k \in 2..3 : IsText(front[k])
      BY <2>2, <2>5
    <3>. QED BY <2>2, <2>5, <3>1, <3>2 DEF StandsBehind
  <2>7. Fits(parts, kBetween)
    <3>1. 3 \in Nat /\ 3 >= 1
      OBVIOUS
    <3>. QED BY <2>1, <2>5, <2>6, <3>1, ListFits
  <2>. HIDE DEF parts
  <2>. QED BY <2>4, <2>7, SafeNodeBuilt
<1>. QED BY <1>1, <1>2 DEF InList

\* Whatever takes a list of operands.
LEMMA NewListSafe ==
  ASSUME Inv, CarefulClient, NewList
  PROVE  BuildsSafely
<1>1. PICK args \in Argument :
        \/ \E name \in Functions : Call(name, args) \/ CallDistinct(name, args)
        \/ \E name \in Operators : CallNonEmpty(name, args)
        \/ \E op \in Operators, x \in Exprs : InList(op, x, args)
  BY DEF NewList
<1>2. Functions \subseteq Tokens /\ Operators \subseteq Tokens
  BY ClientAssumption
<1>3. args \in Seq(Exprs)
  BY BoundedArgs
<1>4. ASSUME NEW name \in Functions, Call(name, args) \/ CallDistinct(name, args)
      PROVE  BuildsSafely
  <2>1. name \notin Malformed => name # Dash
    BY DEF CarefulClient
  <2>. QED BY <1>2, <1>3, <1>4, <2>1, CallSafe
<1>5. ASSUME NEW name \in Operators, CallNonEmpty(name, args)
      PROVE  BuildsSafely
  <2>1. CASE Throw("InvalidArgument")
    BY <2>1, NothingSafelyBuilt
  <2>2. CASE Call(name, args)
    <3>1. name # Dash
      BY <1>5 DEF CallNonEmpty, Dash
    <3>. QED BY <1>2, <1>3, <2>2, <3>1, CallSafe
  <2>. QED BY <1>5, <2>1, <2>2 DEF CallNonEmpty
<1>. QED BY <1>1, <1>3, <1>4, <1>5, InListSafe

\* Whatever takes one operand.
LEMMA NewUnarySafe ==
  ASSUME Inv, CarefulClient, NewUnary
  PROVE  BuildsSafely
<1>1. PICK x \in Exprs :
        \/ \E custom \in PrefixOperators : PrefixOp(custom.op, x, custom.precedence)
        \/ Negate(x) \/ NotExpr(x) \/ NotCondition(x) \/ Collate(x) \/ CastRaw(x)
        \/ \E op \in Operators : IsTest(op, x) \/ Aggregate(op, x)
        \/ CountDistinct(x)
        \/ \E op \in Operators, query \in Subqueries :
             InSubquery(op, x, query) \/ QuantifiedSubquery(op, x, query)
  BY DEF NewUnary
<1>2. x # 0 /\ Operators \subseteq Tokens /\ Subqueries \subseteq Tokens
  BY <1>1, HeapRanked, ClientAssumption
\* An operand in front, and a text behind it.
<1>3. ASSUME NEW level, level \in Nat, NEW text, Harmless(text)
      PROVE  Fits(<<ChildRef(x, level), Fragment(text)>>, level)
  <2>1. Begins(ChildRef(x, level), level)
    BY <1>2, <1>3 DEF Begins, ChildRef
  <2>2. StandsBehind(ChildRef(x, level), Fragment(text))
    BY <1>3, PartsKnown, Zenon DEF StandsBehind
  <2>. QED BY <2>1, <2>2, FewAlternate
<1>4. ASSUME NEW level, NEW text, Harmless(text)
      PROVE  Fits(<<Fragment(text), ChildRef(x, level)>>, level)
  <2>1. IsText(Fragment(text)) /\ ChildRef(x, level).node # 0
    BY <1>2, <1>4, PartsKnown DEF ChildRef
  <2>2. Begins(Fragment(text), level) /\ StandsBehind(Fragment(text), ChildRef(x, level))
    BY <2>1, Zenon DEF Begins, StandsBehind
  <2>. QED BY <2>2, FewAlternate
<1>5. ASSUME NEW custom \in PrefixOperators, PrefixOp(custom.op, x, custom.precedence)
      PROVE  BuildsSafely
  <2>1. CASE Throw("InvalidOperator")
    BY <2>1, NothingSafelyBuilt
  <2>. DEFINE op == custom.op
  <2>. DEFINE level == custom.precedence
  <2>2. CASE /\ op \notin Malformed
             /\ BuildExpr(MakeNode(level, <<Fragment(<<op, " ">>), ChildRef(x, level)>>))
    <3>1. op \in Tokens /\ (op = Dash => level >= kUnaryPlus)
      BY <2>2, ClientAssumption DEF CarefulClient
    <3>. HIDE DEF op, level
    <3>. DEFINE text == <<op, " ">>
    <3>2. text # <<>> /\ Clean(text) /\ ~Ends(text) /\ (Starts(text) => level >= kUnaryPlus)
      <4>. DEFINE space == " "
      <4>1. space # Dash
        BY DEF Dash
      <4>. HIDE DEF space
      <4>2. <<op, space>> # <<>> /\ Clean(<<op, space>>) /\ ~Ends(<<op, space>>)
            /\ (Starts(<<op, space>>) => op = Dash)
        BY <4>1 DEF Clean, Ends, Starts
      <4>. QED BY <3>1, <4>2 DEF space
    <3>. HIDE DEF text
    <3>3. Fits(<<Fragment(text), ChildRef(x, level)>>, level)
      <4>1. /\ Fragment(text).node = 0 /\ Fragment(text).text = text
            /\ ChildRef(x, level).node # 0
        BY <1>2 DEF Fragment, ChildRef
      <4>. QED BY <3>2, <4>1, SignFits
    <3>. QED BY <2>2, <3>3, SafeNodeBuilt DEF text
  <2>. QED BY <1>5, <2>1, <2>2 DEF PrefixOp
<1>6. CASE Negate(x)
  <2>. DEFINE text == <<"-">>
  <2>1. text # <<>> /\ Clean(text)
    BY DEF Clean
  <2>. DEFINE parts == <<Fragment(text), ChildRef(x, kUnaryPlus)>>
  <2>2. BuildExpr(MakeNode(kUnaryPlus, parts))
    BY <1>6 DEF Negate
  <2>. HIDE DEF text
  <2>3. Fits(parts, kUnaryPlus)
    <3>1. /\ Fragment(text).node = 0 /\ Fragment(text).text = text
          /\ ChildRef(x, kUnaryPlus).node # 0 /\ ChildRef(x, kUnaryPlus).context = kUnaryPlus
          /\ kUnaryPlus = 4
      BY <1>2, LevelsCounted DEF Fragment, ChildRef
    <3>2. kUnaryPlus >= kUnaryPlus /\ ChildRef(x, kUnaryPlus).context <= kUnaryPlus
      BY <3>1
    <3>3. Fragment(text) = Fragment(<<Dash>>)
      BY DEF text, Dash
    <3>. QED BY <2>1, <3>1, <3>2, <3>3, SignFits
  <2>. HIDE DEF parts
  <2>. QED BY <2>2, <2>3, SafeNodeBuilt
<1>7. CASE NotExpr(x) \/ NotCondition(x)
  <2>. DEFINE parts == <<Fragment(<<"NOT", " ">>), ChildRef(x, kNot)>>
  <2>1. Fits(parts, kNot)
    BY <1>4, FragmentsHarmless
  <2>2. BuildExpr(MakeNode(kNot, parts)) \/ BuildCondition(MakeNode(kNot, parts))
    BY <1>7 DEF NotExpr, NotCondition, NotParts
  <2>. HIDE DEF parts
  <2>. QED BY <2>1, <2>2, SafeNodeBuilt
<1>8. CASE Collate(x)
  <2>. DEFINE parts == <<ChildRef(x, kCollate), Fragment(<<" ", "COLLATE c">>)>>
  <2>1. Fits(parts, kCollate)
    BY <1>3, FragmentsHarmless, LevelsCounted
  <2>2. BuildExpr(MakeNode(kCollate, parts))
    BY <1>8 DEF Collate
  <2>. HIDE DEF parts
  <2>. QED BY <2>1, <2>2, SafeNodeBuilt
<1>9. CASE CastRaw(x)
  <2>. DEFINE p == Fragment(<<"CAST", " ", "(">>)
  <2>. DEFINE r == Fragment(<<" ", "AS t", ")">>)
  <2>. DEFINE q == ChildRef(x, kTypecast)
  <2>. DEFINE parts == <<p, q, r>>
  <2>1. IsText(p) /\ IsText(r)
    BY FragmentsHarmless, PartsKnown, Zenon
  <2>2. q.node # 0
    BY <1>2 DEF ChildRef
  <2>3. BuildExpr(MakeNode(kTypecast, parts))
    BY <1>9 DEF CastRaw
  <2>. HIDE DEF p, q, r
  <2>4. Fits(parts, kTypecast)
    BY <2>1, <2>2, FewAlternate DEF Begins, StandsBehind
  <2>. HIDE DEF parts
  <2>. QED BY <2>3, <2>4, SafeNodeBuilt
<1>10. ASSUME NEW op \in Operators, IsTest(op, x)
       PROVE  BuildsSafely
  <2>. DEFINE parts == <<ChildRef(x, kIs), Fragment(<<" ", op>>)>>
  <2>1. op \in Tokens /\ op # Dash
    BY <1>2, <1>10 DEF IsTest, Dash
  <2>2. Harmless(<<" ", op>>)
    BY <2>1, FragmentsHarmless
  <2>3. Fits(parts, kIs)
    BY <1>3, <2>2, LevelsCounted
  <2>4. BuildCondition(MakeNode(kIs, parts))
    BY <1>10 DEF IsTest
  <2>. HIDE DEF parts
  <2>. QED BY <2>3, <2>4, SafeNodeBuilt
<1>11. ASSUME NEW op \in Operators, NEW query \in Subqueries,
              InSubquery(op, x, query) \/ QuantifiedSubquery(op, x, query)
       PROVE  BuildsSafely
  <2>. DEFINE Parts(level) == <<ChildRef(x, level), Fragment(<<" ", op, " ">> \o Bracketed(query))>>
  <2>1. Harmless(<<" ", op, " ">> \o Bracketed(query))
    <3>1. op \in Tokens /\ query \in Tokens
      BY <1>2
    <3>. QED BY <3>1, FragmentsHarmless, Zenon
  <2>2. Fits(Parts(kBetween), kBetween) /\ Fits(Parts(kCompare), kCompare)
    BY <1>3, <2>1, LevelsCounted
  <2>3. \/ BuildCondition(MakeNode(kBetween, Parts(kBetween)))
        \/ BuildCondition(MakeNode(kCompare, Parts(kCompare)))
    BY <1>11 DEF InSubquery, QuantifiedSubquery
  <2>. HIDE DEF Parts
  <2>. QED BY <2>2, <2>3, SafeNodeBuilt
<1>12. <<x>> \in Seq(Exprs)
  BY <1>1
<1>13. ASSUME NEW op \in Operators, Aggregate(op, x)
       PROVE  BuildsSafely
  <2>1. op # Dash /\ op \in Tokens /\ Call(op, <<x>>)
    BY <1>2, <1>13 DEF Aggregate, Dash
  <2>. QED BY <1>12, <2>1, CallSafe
<1>14. CASE CountDistinct(x)
  <2>. DEFINE op == "COUNT"
  <2>1. op # Dash /\ op \in Tokens /\ CallDistinct(op, <<x>>)
    BY <1>2, <1>14 DEF CountDistinct, Dash
  <2>. HIDE DEF op
  <2>. QED BY <1>12, <2>1, CallSafe
<1>. QED BY <1>1, <1>5, <1>6, <1>7, <1>8, <1>9, <1>10, <1>11, <1>13, <1>14

\* Two operands around an operator.
LEMMA InfixSafe ==
  ASSUME Inv, NEW a \in Exprs, NEW b \in Exprs, NEW op \in Tokens, NEW level, level \in Nat
  PROVE  Fits(InfixParts(op, a, b, level), level)
<1>. DEFINE p == ChildRef(a, level)
<1>. DEFINE q == Infix(op)
<1>. DEFINE r == ChildRef(b, level)
<1>1. p.node # 0 /\ p.context = level /\ r.node # 0 /\ level <= level
  BY HeapRanked DEF ChildRef
<1>2. IsText(q)
  BY FragmentsHarmless, PartsKnown, Zenon DEF Infix
<1>3. InfixParts(op, a, b, level) = <<p, q, r>>
  BY DEF InfixParts
<1>. HIDE DEF p, q, r
<1>4. Fits(<<p, q, r>>, level)
  BY <1>1, <1>2, FewAlternate DEF Begins, StandsBehind
<1>. QED BY <1>3, <1>4

\* Two operands and any operator between them.
LEMMA BinaryOpSafe ==
  ASSUME Inv, NEW a \in Exprs, NEW b \in Exprs, NEW op \in Tokens, NEW level, level \in Nat,
         BinaryOp(op, a, b, level) \/ Predicate(op, a, b, level)
  PROVE  BuildsSafely
<1>1. CASE Throw("InvalidOperator")
  BY <1>1, NothingSafelyBuilt
<1>2. CASE \/ BuildExpr(MakeNode(level, InfixParts(op, a, b, level)))
           \/ BuildCondition(MakeNode(level, InfixParts(op, a, b, level)))
  BY <1>2, InfixSafe, SafeNodeBuilt
<1>. QED BY <1>1, <1>2 DEF BinaryOp, Predicate

\* Whatever takes two operands, or three.
LEMMA NewBinarySafe ==
  ASSUME Inv, NewBinary
  PROVE  BuildsSafely
<1>1. PICK a \in Exprs, b \in Exprs :
        \/ \E custom \in CustomOperators : BinaryOp(custom.op, a, b, custom.precedence)
        \/ Power(a, b) \/ Concat(a, b) \/ Dot(a, b) \/ Index(a, b)
        \/ And(a, b) \/ Or(a, b) \/ NullIf(a, b)
        \/ \E op \in Operators :
             \/ Arithmetic(op, a, b) \/ Like(op, a, b) \/ CompareOp(a, op, b)
             \/ IsDistinctFrom(op, a, b) \/ Quantified(op, a, b)
             \/ \E x \in Exprs : Between(op, x, a, b)
  BY DEF NewBinary
<1>2. a # 0 /\ b # 0 /\ Exprs \subseteq Nat \ {0} /\ Operators \subseteq Tokens
  BY <1>1, HeapRanked, ClientAssumption
<1>3. /\ kDot \in Nat /\ kExp \in Nat /\ kMul \in Nat /\ kPlus \in Nat /\ kAnyOther \in Nat
      /\ kBetween \in Nat /\ kCompare \in Nat /\ kIs \in Nat /\ kAnd \in Nat /\ kOr \in Nat
      /\ kIndex \in Nat
  BY LevelsCounted
<1>4. ASSUME NEW custom \in CustomOperators, BinaryOp(custom.op, a, b, custom.precedence)
      PROVE  BuildsSafely
  <2>1. custom.op \in Tokens /\ custom.precedence \in Precedences
    BY ClientAssumption
  <2>2. custom.precedence \in Nat
    BY <2>1, LevelsCounted DEF Precedences
  <2>. QED BY <1>4, <2>1, <2>2, BinaryOpSafe
<1>5. CASE Power(a, b) \/ Concat(a, b)
  BY <1>2, <1>3, <1>5, BinaryOpSafe DEF Power, Concat
<1>6. CASE And(a, b) \/ Or(a, b)
  BY <1>2, <1>3, <1>6, BinaryOpSafe DEF And, Or
<1>7. CASE Dot(a, b)
  <2>. DEFINE p == ChildRef(a, kDot)
  <2>. DEFINE q == Fragment(<<".">>)
  <2>. DEFINE r == ChildRef(b, kDot)
  <2>. DEFINE parts == <<p, q, r>>
  <2>1. p.node # 0 /\ p.context = kDot /\ r.node # 0 /\ kDot <= kDot
    BY <1>2, <1>3 DEF ChildRef
  <2>2. IsText(q)
    BY FragmentsHarmless, PartsKnown, Zenon
  <2>3. BuildExpr(MakeNode(kDot, parts))
    BY <1>7 DEF Dot
  <2>. HIDE DEF p, q, r
  <2>4. Fits(parts, kDot)
    BY <2>1, <2>2, FewAlternate DEF Begins, StandsBehind
  <2>. HIDE DEF parts
  <2>. QED BY <2>3, <2>4, SafeNodeBuilt
\* An operand in front, and another one in brackets.
<1>8. ASSUME NEW level \in Nat, NEW context, NEW open, NEW shut, Harmless(open), Harmless(shut)
      PROVE  Fits(<<ChildRef(a, level), Fragment(open), ChildRef(b, context), Fragment(shut)>>, level)
  <2>. DEFINE p == ChildRef(a, level)
  <2>. DEFINE q == Fragment(open)
  <2>. DEFINE r == ChildRef(b, context)
  <2>. DEFINE s == Fragment(shut)
  <2>1. p.node # 0 /\ p.context = level /\ r.node # 0 /\ level <= level
    BY <1>2 DEF ChildRef
  <2>2. IsText(q) /\ IsText(s)
    BY <1>8, PartsKnown, Zenon
  <2>. HIDE DEF p, q, r, s
  <2>3. Begins(p, level) /\ StandsBehind(p, q) /\ StandsBehind(q, r) /\ StandsBehind(r, s)
    BY <2>1, <2>2 DEF Begins, StandsBehind
  <2>4. Fits(<<p, q, r, s>>, level)
    BY <2>3, FewAlternate
  <2>. QED BY <2>4 DEF p, q, r, s
<1>9. CASE Index(a, b)
  <2>. DEFINE parts == <<ChildRef(a, kIndex), Fragment(<<"[">>), ChildRef(b, kExtract),
                         Fragment(<<"]">>)>>
  <2>1. Fits(parts, kIndex)
    BY <1>3, <1>8, FragmentsHarmless
  <2>2. BuildExpr(MakeNode(kIndex, parts))
    BY <1>9 DEF Index
  <2>. HIDE DEF parts
  <2>. QED BY <2>1, <2>2, SafeNodeBuilt
<1>10. ASSUME NEW op \in Operators, Quantified(op, a, b)
       PROVE  BuildsSafely
  <2>. DEFINE parts == <<ChildRef(a, kCompare), Fragment(<<" ", op, " ", "(">>),
                         ChildRef(b, kExtract), Fragment(<<")">>)>>
  <2>1. Harmless(<<" ", op, " ", "(">>) /\ Harmless(<<")">>)
    <3>1. op \in Tokens
      BY <1>2
    <3>. QED BY <3>1, FragmentsHarmless, Zenon
  <2>2. Fits(parts, kCompare)
    BY <1>3, <1>8, <2>1
  <2>3. BuildCondition(MakeNode(kCompare, parts))
    BY <1>10 DEF Quantified
  <2>. HIDE DEF parts
  <2>. QED BY <2>2, <2>3, SafeNodeBuilt
<1>11. ASSUME NEW op \in Operators,
              \/ Arithmetic(op, a, b) \/ Like(op, a, b) \/ CompareOp(a, op, b)
              \/ IsDistinctFrom(op, a, b)
       PROVE  BuildsSafely
  BY <1>2, <1>3, <1>11, BinaryOpSafe DEF Arithmetic, Like, CompareOp, IsDistinctFrom
<1>12. ASSUME NEW op \in Operators, NEW x \in Exprs, Between(op, x, a, b)
       PROVE  BuildsSafely
  <2>. DEFINE p == ChildRef(x, kBetween)
  <2>. DEFINE q == Infix(op)
  <2>. DEFINE r == ChildRef(a, kBetween)
  <2>. DEFINE s == Infix("AND")
  <2>. DEFINE t == ChildRef(b, kBetween)
  <2>. DEFINE parts == InfixParts(op, x, a, kBetween) \o <<Infix("AND"), ChildRef(b, kBetween)>>
  <2>1. /\ p.node # 0 /\ p.context = kBetween /\ r.node # 0 /\ t.node # 0
        /\ kBetween <= kBetween
    BY <1>2, <1>3 DEF ChildRef
  <2>2. IsText(q) /\ IsText(s)
    <3>. DEFINE and == "AND"
    <3>1. op \in Tokens /\ and \in Tokens
      BY <1>2, Keywords
    <3>. HIDE DEF and
    <3>2. IsText(q) /\ IsText(Infix(and))
      BY <3>1, FragmentsHarmless, PartsKnown, Zenon DEF Infix
    <3>. QED BY <3>2 DEF and
  <2>3. BuildCondition(MakeNode(kBetween, parts))
    BY <1>12 DEF Between
  <2>4. parts = <<p, q, r>> \o <<s, t>>
    BY DEF InfixParts
  <2>. HIDE DEF p, q, r, s, t, parts
  <2>5. Begins(p, kBetween) /\ StandsBehind(p, q) /\ StandsBehind(q, r) /\ StandsBehind(r, s) /\ StandsBehind(s, t)
    BY <2>1, <2>2 DEF Begins, StandsBehind
  <2>6. Fits(parts, kBetween)
    BY <2>4, <2>5, FiveAlternate
  <2>. QED BY <2>3, <2>6, SafeNodeBuilt
<1>13. CASE NullIf(a, b)
  <2>. DEFINE op == "NULLIF"
  <2>1. op # Dash /\ op \in Tokens /\ Call(op, <<a, b>>)
    BY <1>2, <1>13 DEF NullIf, Dash
  <2>2. <<a, b>> \in Seq(Exprs)
    BY <1>1
  <2>. HIDE DEF op
  <2>. QED BY <2>1, <2>2, CallSafe
<1>. QED BY <1>1, <1>4, <1>5, <1>6, <1>7, <1>9, <1>10, <1>11, <1>12, <1>13

\* Every node's parts fit together.
Fitted(heap) == \A i \in 1..Len(heap) : Fits(heap[i].parts, heap[i].precedence)

\* The text of every node is safe then, unless one negates a negative integer.
LEMMA RenderedSafe ==
  ASSUME NEW heap, WellFormed(heap), Fitted(heap), SignedTwice(heap) = {},
         NEW i \in 1..Len(heap)
  PROVE  Safe(Render(heap)[i], heap[i].precedence)
<1>. DEFINE text == Render(heap)
<1>. DEFINE Good(j) == Safe(text[j], heap[j].precedence)
<1>. DEFINE T == {j \in 1..Len(heap) : ~Good(j)}
<1>1. SUFFICES ASSUME T # {} PROVE FALSE
  OBVIOUS
<1>2. PICK m \in T : \A k \in T : m <= k
  <2>1. T \in SUBSET Nat
    OBVIOUS
  <2>. HIDE DEF T
  <2>. QED BY <1>1, <2>1, LeastNat
<1>3. m \in 1..Len(heap) /\ Len(heap) \in Nat
  BY LenProperties DEF WellFormed
<1>4. \A j \in 1..m-1 : Good(j)
  <2>1. TAKE j \in 1..m-1
  <2>2. j \in 1..Len(heap) /\ ~(m <= j)
    BY <1>3
  <2>3. j \notin T
    BY <1>2, <2>2
  <2>. QED BY <2>2, <2>3
<1>. DEFINE parts == heap[m].parts
<1>5. text[m] = FlattenSeq(Texts(heap, text, parts))
  BY <1>3, RenderUnfolds, Zenon DEF Pieces, Texts
<1>6. /\ parts \in PartsOver(heap)
      /\ \A k \in 1..Len(parts) : parts[k] \in PartOver(heap) /\ parts[k].node \in 0..m-1
  BY <1>3, NodeParts
<1>7. Precedences = 0..17
  BY DEF Precedences, kSymbol, kExtract
<1>8. \A j \in 1..Len(heap) : heap[j].precedence \in Nat
  <2>1. TAKE j \in 1..Len(heap)
  <2>2. heap[j] \in Node
    BY NodeParts
  <2>3. heap[j].precedence \in Precedences
    BY <2>2 DEF Node
  <2>. QED BY <1>7, <2>3, SMTT(60)
<1>13. ~Twice(heap, text, parts)
  <2>1. m \in DOMAIN heap /\ m \notin SignedTwice(heap)
    BY <1>3, LenProperties DEF WellFormed
  <2>. QED BY <2>1, Zenon DEF SignedTwice, Twice, Signs
<1>. HIDE DEF text, parts
<1>9. SafeParts(heap, text, parts)
  <2>1. SUFFICES ASSUME NEW k \in 1..Len(parts)
                 PROVE  IF parts[k].node = 0 THEN parts[k].text \in Text
                        ELSE /\ parts[k].context \in Nat
                             /\ heap[parts[k].node].precedence \in Nat
                             /\ Safe(text[parts[k].node], heap[parts[k].node].precedence)
    BY DEF SafeParts
  <2>2. parts[k].text \in Text /\ parts[k].context \in Nat
    <3>1. parts[k] \in PartOver(heap)
      BY <1>6
    <3>2. parts[k].text \in Text /\ parts[k].context \in Precedences
      BY <3>1 DEF PartOver
    <3>3. \A p \in Precedences : p \in Nat
      BY <1>7
    <3>. QED BY <3>2, <3>3, Zenon
  <2>3. parts[k].node # 0 => parts[k].node \in 1..m-1 /\ parts[k].node \in 1..Len(heap)
    BY <1>3, <1>6
  <2>. QED BY <1>4, <1>8, <2>2, <2>3
<1>10. Len(parts) \in Nat
  BY <1>6, LenProperties DEF PartsOver
<1>11. Fits(parts, heap[m].precedence)
  BY <1>3 DEF Fitted, parts
<1>12. Good(m)
  BY <1>3, <1>5, <1>8, <1>9, <1>10, <1>11, <1>13, FittingIsSafe
<1>. QED BY <1>12

FittedInv == Inv /\ Fitted(nodes)

\* Whatever a careful client builds, no rendering holds two minus signs side by
\* side as long as it negates no negative integer without brackets of its own.
THEOREM NoCommentEverOpens ==
  ASSUME CarefulClient
  PROVE  Spec => []NoCommentOpener
<1>1. Init => FittedInv
  BY DEF Init, FittedInv, Inv, TypeOK, ChildrenFirst, SizesAreTotals, Fitted
<1>2. FittedInv /\ [Next]_vars => FittedInv'
  <2>1. SUFFICES ASSUME FittedInv, [Next]_vars PROVE FittedInv'
    OBVIOUS
  <2>2. Inv /\ Inv' /\ Fitted(nodes)
    BY <2>1, NextPreserves DEF FittedInv
  <2>3. BuildsSafely
    <3>1. CASE UNCHANGED vars
      BY <3>1 DEF vars, BuildsSafely
    <3>2. CASE Next
      BY <2>2, <3>2, NewLeafSafe, NewListSafe, NewUnarySafe, NewBinarySafe DEF Next
    <3>. QED BY <2>1, <3>1, <3>2
  <2>4. Fitted(nodes')
    <3>1. CASE nodes' = nodes
      BY <2>2, <3>1
    <3>2. ASSUME NEW node, Fits(node.parts, node.precedence), nodes' = Append(nodes, node)
          PROVE  Fitted(nodes')
      <4>1. nodes \in Seq(Node) /\ Len(nodes) \in Nat
        BY <2>2, InvWellFormed DEF WellFormed
      <4>2. /\ Len(nodes') = Len(nodes) + 1 /\ nodes'[Len(nodes) + 1] = node
            /\ \A i \in 1..Len(nodes) : nodes'[i] = nodes[i]
        BY <3>2, <4>1
      <4>3. ASSUME NEW i \in 1..Len(nodes) + 1
            PROVE  Fits(nodes'[i].parts, nodes'[i].precedence)
        <5>1. CASE i \in 1..Len(nodes)
          BY <2>2, <4>2, <5>1 DEF Fitted
        <5>2. CASE i = Len(nodes) + 1
          BY <3>2, <4>2, <5>2
        <5>. QED BY <4>1, <5>1, <5>2
      <4>. QED BY <4>2, <4>3 DEF Fitted
    <3>. QED BY <2>3, <3>1, <3>2 DEF BuildsSafely
  <2>. QED BY <2>2, <2>4 DEF FittedInv
<1>3. FittedInv => NoCommentOpener
  <2>1. SUFFICES ASSUME FittedInv, SignedTwice(nodes) = {}, NEW i \in DOMAIN nodes
                 PROVE  Clean(Render(nodes)[i])
    BY DEF NoCommentOpener
  <2>2. WellFormed(nodes) /\ i \in 1..Len(nodes) /\ Fitted(nodes)
    BY <2>1, InvWellFormed DEF FittedInv
  <2>3. Safe(Render(nodes)[i], nodes[i].precedence)
    BY <2>1, <2>2, RenderedSafe, Zenon
  <2>. QED BY <2>3, Zenon DEF Safe
<1>. QED BY <1>1, <1>2, <1>3, PTL DEF Spec
=============================================================================
