------------------------------ MODULE TextLemmas ------------------------------
(***************************************************************************)
(* What the recursive functions of the models return, and what joining,    *)
(* indenting and leaving out layout make of every list of clause texts:    *)
(* among others that the reader of StatementReading reads a text of        *)
(* clauses back, one clause at a time.  The reader is taken by the         *)
(* equation it satisfies (ReadsTerms), so that the lemmas serve every      *)
(* statement.  Each lemma on recursion goes by least counterexample, for   *)
(* the provers cannot instantiate an induction theorem.                    *)
(***************************************************************************)
EXTENDS ClauseText, NaturalsInduction, WellFoundedInduction, SequenceTheorems, TLAPS

\* A non-empty set of natural numbers has a least element.
LEMMA LeastNat ==
  ASSUME NEW T \in SUBSET Nat, T # {}
  PROVE  \E m \in T : \A k \in T : m <= k
<1>1. PICK m \in T : \A k \in T : ~(<<k, m>> \in OpToRel(<, Nat))
  BY WFMin, NatLessThanWellFounded, Zenon
<1>2. \A k \in T : ~(k < m)
  BY <1>1, Zenon DEF OpToRel
<1>. QED BY <1>2

\* f starts with base and goes from f[k-1] to f[k] by step.  (step is a function,
\* since a lemma cannot take an operator.)
Accumulates(f, V, n, base, step) ==
  /\ f \in [0..n -> V]
  /\ f[0] = base
  /\ \A k \in 1..n : f[k] = step[k][f[k-1]]

\* A recursion over 0..n has a solution.
LEMMA Accumulation ==
  ASSUME NEW V, NEW n \in Nat, NEW base \in V, NEW step \in [1..n -> [V -> V]]
  PROVE  \E f : Accumulates(f, V, n, base, step)
<1>. DEFINE T == {m \in 0..n : ~\E f : Accumulates(f, V, m, base, step)}
<1>1. SUFFICES ASSUME T # {} PROVE FALSE
  <2>1. n \in 0..n
    OBVIOUS
  <2>. QED BY <2>1, Zenon
<1>2. PICK m \in T : \A k \in T : m <= k
  <2>1. T \in SUBSET Nat
    OBVIOUS
  <2>. HIDE DEF T
  <2>. QED BY <1>1, <2>1, LeastNat
<1>3. m # 0
  <2>1. Accumulates([k \in 0..0 |-> base], V, 0, base, step)
    BY DEF Accumulates
  <2>. QED BY <2>1
<1>4. PICK f : Accumulates(f, V, m-1, base, step)
  <2>1. m-1 \in 0..n /\ ~(m <= m-1)
    BY <1>3
  <2>2. m-1 \notin T
    BY <1>2, <2>1
  <2>. QED BY <2>1, <2>2
<1>. DEFINE g == [k \in 0..m |-> IF k = m THEN step[m][f[m-1]] ELSE f[k]]
<1>5. m \in 1..n /\ m-1 \in 0..m-1
  BY <1>3
<1>6. step[m][f[m-1]] \in V
  BY <1>4, <1>5 DEF Accumulates
<1>7. g \in [0..m -> V] /\ g[0] = base
  BY <1>4, <1>5, <1>6 DEF Accumulates
<1>8. \A k \in 1..m : g[k] = step[k][g[k-1]]
  BY <1>4, <1>5 DEF Accumulates
<1>9. Accumulates(g, V, m, base, step)
  BY <1>7, <1>8 DEF Accumulates
<1>. QED BY <1>9

\* FlattenSeq goes from left to right, piece by piece.
LEMMA FlattenUnfolds ==
  ASSUME NEW S, NEW seqs \in Seq(Seq(S)), Len(seqs) # 0
  PROVE  \E g : /\ FlattenSeq(seqs) = g[Len(seqs)]
                /\ g[1] = seqs[1]
                /\ \A k \in 2..Len(seqs) : g[k] = g[k-1] \o seqs[k]
                /\ \A k \in 1..Len(seqs) : g[k] \in Seq(S)
<1>. DEFINE n == Len(seqs)
<1>. DEFINE V == Seq(S)
<1>1. n \in Nat \ {0} /\ \A k \in 1..n : seqs[k] \in V
  BY LenProperties, ElementOfSeq
<1>. DEFINE step == [k \in 1..n |-> [v \in V |-> IF k = 1 THEN seqs[1] ELSE v \o seqs[k]]]
<1>2. step \in [1..n -> [V -> V]]
  <2>1. \A k \in 1..n, v \in V : (IF k = 1 THEN seqs[1] ELSE v \o seqs[k]) \in V
    BY <1>1
  <2>. QED BY <2>1
<1>3. PICK h : Accumulates(h, V, n, <<>>, step)
  <2>1. <<>> \in V
    OBVIOUS
  <2>. HIDE DEF V, step, n
  <2>. QED BY <1>1, <1>2, <2>1, Accumulation
<1>. DEFINE flat == [k \in 1..n |-> h[k]]
<1>. DEFINE Recursive(g) == g = [k \in 1..n |-> IF k = 1 THEN seqs[k] ELSE g[k-1] \o seqs[k]]
<1>4. /\ \A k \in 1..n : h[k-1] \in V /\ h[k] \in V /\ h[k] = step[k][h[k-1]]
      /\ \A k \in 1..n : k # 1 => k-1 \in 1..n
  <2>1. \A k \in 1..n : k \in 0..n /\ k-1 \in 0..n /\ (k # 1 => k-1 \in 1..n)
    BY <1>1
  <2>. HIDE DEF V, step, n
  <2>. QED BY <1>3, <2>1 DEF Accumulates
<1>5. Recursive(flat)
  <2>1. \A k \in 1..n : flat[k] = IF k = 1 THEN seqs[k] ELSE flat[k-1] \o seqs[k]
    BY <1>4
  <2>. QED BY <2>1, Zenon
<1>. DEFINE g == CHOOSE x : Recursive(x)
<1>6. Recursive(g)
  <2>. HIDE DEF Recursive, flat
  <2>. QED BY <1>5, Zenon
<1>7. FlattenSeq(seqs) = g[n]
  BY <1>1, Zenon DEF FlattenSeq
<1>. HIDE DEF g
<1>8. \A k \in 1..n : g[k] = IF k = 1 THEN seqs[k] ELSE g[k-1] \o seqs[k]
  BY <1>6, Zenon
<1>9. \A k \in 1..n : g[k] \in V
  <2>. DEFINE T == {k \in 1..n : g[k] \notin V}
  <2>1. SUFFICES ASSUME T # {} PROVE FALSE
    OBVIOUS
  <2>2. PICK m \in T : \A k \in T : m <= k
    <3>1. T \in SUBSET Nat
      OBVIOUS
    <3>. HIDE DEF T
    <3>. QED BY <2>1, <3>1, LeastNat
  <2>3. m # 1
    BY <1>1, <1>8
  <2>4. m \in 1..n /\ m-1 \in 1..n /\ g[m-1] \in V
    <3>1. m \in 1..n /\ m-1 \in 1..n /\ ~(m <= m-1)
      BY <1>1, <2>3
    <3>. QED BY <2>2, <3>1
  <2>5. g[m-1] \in Seq(S) /\ seqs[m] \in Seq(S)
    BY <1>1, <2>4
  <2>6. g[m-1] \o seqs[m] \in Seq(S)
    BY ONLY <2>5, ConcatProperties
  <2>7. g[m] = g[m-1] \o seqs[m]
    BY <1>8, <2>3, <2>4
  <2>. QED BY <2>6, <2>7
<1>10. g[1] = seqs[1] /\ \A k \in 2..n : g[k] = g[k-1] \o seqs[k]
  <2>1. 1 \in 1..n /\ \A k \in 2..n : k \in 1..n /\ k # 1
    BY <1>1
  <2>. HIDE DEF n
  <2>. QED BY <1>8, <2>1
<1>. QED BY <1>7, <1>9, <1>10, Zenon

\* FlattenSeq yields a sequence, as long as the partial sums f of the lengths
\* of its pieces say.
LEMMA Flattened ==
  ASSUME NEW S, NEW seqs \in Seq(Seq(S)), NEW f,
         f[0] = 0, \A k \in 1..Len(seqs) : f[k] = f[k-1] + Len(seqs[k])
  PROVE  /\ FlattenSeq(seqs) \in Seq(S)
         /\ Len(FlattenSeq(seqs)) = f[Len(seqs)]
<1>. DEFINE n == Len(seqs)
<1>1. n \in Nat /\ \A k \in 1..n : seqs[k] \in Seq(S)
  BY LenProperties, ElementOfSeq
<1>2. CASE n = 0
  <2>1. seqs = <<>>
    BY <1>2
  <2>. QED BY <1>2, <2>1 DEF FlattenSeq
<1>3. CASE n # 0
  <2>1. PICK g : /\ FlattenSeq(seqs) = g[n]
                 /\ g[1] = seqs[1]
                 /\ \A k \in 2..n : g[k] = g[k-1] \o seqs[k]
                 /\ \A k \in 1..n : g[k] \in Seq(S)
    BY <1>3, FlattenUnfolds
  <2>2. \A k \in 1..n : Len(g[k]) = f[k]
    <3>. DEFINE T == {k \in 1..n : Len(g[k]) # f[k]}
    <3>1. SUFFICES ASSUME T # {} PROVE FALSE
      OBVIOUS
    <3>2. PICK m \in T : \A k \in T : m <= k
      <4>1. T \in SUBSET Nat
        OBVIOUS
      <4>. HIDE DEF T
      <4>. QED BY <3>1, <4>1, LeastNat
    <3>3. CASE m = 1
      BY <1>1, <2>1, <3>3
    <3>4. CASE m # 1
      <4>1. m-1 \in 1..n /\ m \in 2..n /\ m-1 \notin T
        BY <1>1, <3>2, <3>4
      <4>2. Len(g[m-1]) = f[m-1] /\ g[m-1] \in Seq(S) /\ seqs[m] \in Seq(S)
        BY <1>1, <2>1, <4>1
      <4>3. g[m] = g[m-1] \o seqs[m]
        BY <2>1, <4>1
      <4>4. Len(g[m]) = Len(g[m-1]) + Len(seqs[m])
        <5>1. \A a, b \in Seq(S) : Len(a \o b) = Len(a) + Len(b)
          BY ONLY ConcatProperties
        <5>. QED BY <4>2, <4>3, <5>1, Zenon
      <4>. QED BY <3>2, <4>2, <4>4
    <3>. QED BY <3>3, <3>4
  <2>. QED BY <1>1, <1>3, <2>1, <2>2
<1>. QED BY <1>2, <1>3

\* rest[k] is what the sequences from the k-th on hold.
Tails(rest, S, seqs) ==
  /\ rest \in [1 .. Len(seqs) + 1 -> Seq(S)]
  /\ rest[Len(seqs) + 1] = <<>>
  /\ \A k \in 1..Len(seqs) : rest[k] = seqs[k] \o rest[k+1]

\* Every list of sequences has such tails.
LEMMA TailsExist ==
  ASSUME NEW S, NEW seqs \in Seq(Seq(S))
  PROVE  \E rest : Tails(rest, S, seqs)
<1>. DEFINE n == Len(seqs)
<1>. DEFINE V == Seq(S)
<1>. DEFINE step == [k \in 1..n |-> [v \in V |-> seqs[n + 1 - k] \o v]]
<1>1. n \in Nat /\ \A k \in 1..n : seqs[k] \in V
  BY LenProperties, ElementOfSeq
<1>2. step \in [1..n -> [V -> V]]
  <2>1. \A k \in 1..n, v \in V : seqs[n + 1 - k] \o v \in V
    <3>1. TAKE k \in 1..n, v \in V
    <3>2. seqs[n + 1 - k] \in V
      BY <1>1
    <3>. QED BY <3>2, ConcatProperties
  <2>. QED BY <2>1
<1>3. PICK h : Accumulates(h, V, n, <<>>, step)
  <2>1. <<>> \in V
    OBVIOUS
  <2>. HIDE DEF V, step, n
  <2>. QED BY <1>1, <1>2, <2>1, Accumulation
<1>. DEFINE rest == [k \in 1..n+1 |-> h[n + 1 - k]]
<1>4. \A k \in 1..n+1 : n + 1 - k \in 0..n
  BY <1>1
<1>5. rest \in [1..n+1 -> V] /\ rest[n+1] = <<>>
  <2>1. h \in [0..n -> V] /\ h[0] = <<>>
    <3>. HIDE DEF step
    <3>. QED BY <1>3 DEF Accumulates
  <2>2. n + 1 - (n + 1) = 0 /\ n + 1 \in 1..n+1
    BY <1>1
  <2>. QED BY <1>4, <2>1, <2>2
<1>6. \A k \in 1..n : rest[k] = seqs[k] \o rest[k+1]
  <2>1. TAKE k \in 1..n
  <2>2. /\ n + 1 - k \in 1..n /\ n + 1 - (n + 1 - k) = k
        /\ (n + 1 - k) - 1 = n + 1 - (k + 1) /\ (n + 1 - k) - 1 \in 0..n
        /\ k \in 1..n+1 /\ k+1 \in 1..n+1
    BY <1>1
  <2>3. h[n + 1 - k] = step[n + 1 - k][h[(n + 1 - k) - 1]] /\ h[(n + 1 - k) - 1] \in V
    <3>. HIDE DEF step, V
    <3>. QED BY <1>3, <2>2 DEF Accumulates
  <2>4. h[n + 1 - k] = seqs[n + 1 - (n + 1 - k)] \o h[(n + 1 - k) - 1]
    BY <2>2, <2>3
  <2>. QED BY <2>2, <2>4
<1>. QED BY <1>5, <1>6 DEF Tails

\* The first of the tails is all there is.
LEMMA TailsFlatten ==
  ASSUME NEW S, NEW seqs \in Seq(Seq(S)), NEW rest, Tails(rest, S, seqs)
  PROVE  FlattenSeq(seqs) = rest[1]
<1>. DEFINE n == Len(seqs)
<1>1. /\ n \in Nat /\ \A k \in 1..n : seqs[k] \in Seq(S)
      /\ \A k \in 1..n+1 : rest[k] \in Seq(S)
      /\ rest[n+1] = <<>>
      /\ \A k \in 1..n : rest[k] = seqs[k] \o rest[k+1]
  BY LenProperties, ElementOfSeq DEF Tails
<1>2. CASE n = 0
  <2>1. seqs = <<>>
    BY <1>2
  <2>. QED BY <1>1, <1>2, <2>1 DEF FlattenSeq
<1>3. CASE n # 0
  <2>1. PICK g : /\ FlattenSeq(seqs) = g[n]
                 /\ g[1] = seqs[1]
                 /\ \A k \in 2..n : g[k] = g[k-1] \o seqs[k]
                 /\ \A k \in 1..n : g[k] \in Seq(S)
    BY <1>3, FlattenUnfolds
  <2>. DEFINE Whole(k) == g[k] \o rest[k+1]
  <2>2. \A k \in 1..n : Whole(k) = rest[1]
    <3>. DEFINE T == {k \in 1..n : Whole(k) # rest[1]}
    <3>1. SUFFICES ASSUME T # {} PROVE FALSE
      OBVIOUS
    <3>2. PICK m \in T : \A k \in T : m <= k
      <4>1. T \in SUBSET Nat
        <5>1. 1..n \subseteq Nat
          BY <1>1
        <5>. QED BY <5>1
      <4>. HIDE DEF T
      <4>. QED BY <3>1, <4>1, LeastNat
    <3>3. CASE m = 1
      BY <1>1, <2>1, <3>2, <3>3
    <3>4. CASE m # 1
      <4>1. /\ m-1 \in 1..n /\ m \in 2..n /\ m-1 \notin T
            /\ (m-1) + 1 = m /\ m+1 \in 1..n+1
        <5>1. /\ m-1 \in 1..n /\ m \in 2..n /\ ~(m <= m-1)
              /\ (m-1) + 1 = m /\ m+1 \in 1..n+1
          BY <1>1, <3>4
        <5>. QED BY <3>2, <5>1
      <4>2. g[m-1] \o rest[m] = rest[1]
        BY <4>1
      <4>3. /\ g[m-1] \in Seq(S) /\ seqs[m] \in Seq(S) /\ rest[m+1] \in Seq(S)
            /\ g[m] = g[m-1] \o seqs[m] /\ rest[m] = seqs[m] \o rest[m+1]
        BY <1>1, <2>1, <4>1
      <4>4. (g[m-1] \o seqs[m]) \o rest[m+1] = g[m-1] \o (seqs[m] \o rest[m+1])
        <5>1. \A a, b, c \in Seq(S) : (a \o b) \o c = a \o (b \o c)
          BY ONLY ConcatAssociative
        <5>. QED BY <4>3, <5>1, Zenon
      <4>5. Whole(m) = rest[1]
        BY <4>2, <4>3, <4>4
      <4>. QED BY <3>2, <4>5
    <3>. QED BY <3>3, <3>4
  <2>3. g[n] \o rest[n+1] = rest[1] /\ g[n] \in Seq(S)
    <3>1. n \in 1..n
      BY <1>1, <1>3
    <3>. QED BY <2>1, <2>2, <3>1
  <2>. QED BY <1>1, <2>1, <2>3, ConcatEmptySeq
<1>. QED BY <1>2, <1>3

-----------------------------------------------------------------------------
\* A set of sequences that has the empty one, and with every sequence those one
\* element longer, has all.
LEMMA SequencesByAppend ==
  ASSUME NEW S, NEW P,
         <<>> \in P,
         \A s \in Seq(S), x \in S : s \in P => Append(s, x) \in P
  PROVE  Seq(S) \subseteq P
<1>. DEFINE T == {n \in Nat : \E s \in Seq(S) : Len(s) = n /\ s \notin P}
<1>1. SUFFICES ASSUME T # {} PROVE FALSE
  <2>1. \A s \in Seq(S) : Len(s) \in Nat
    BY LenProperties
  <2>. QED BY <2>1
<1>2. PICK n \in T : \A k \in T : n <= k
  <2>. HIDE DEF T
  <2>1. T \in SUBSET Nat
    BY DEF T
  <2>. QED BY <1>1, <2>1, LeastNat
<1>3. PICK s \in Seq(S) : Len(s) = n /\ s \notin P
  OBVIOUS
<1>4. s # <<>>
  BY <1>3
<1>5. PICK before \in Seq(S), x \in S : s = Append(before, x)
  BY <1>4, SequenceEmptyOrAppend
<1>6. Len(before) \in Nat /\ Len(s) = Len(before) + 1
  BY <1>5, LenProperties, AppendProperties
<1>7. Len(before) \notin T
  BY <1>2, <1>3, <1>6
<1>8. before \in P
  BY <1>6, <1>7
<1>. QED BY <1>3, <1>5, <1>8

\* The same from the front.
LEMMA SequencesByCons ==
  ASSUME NEW S, NEW P,
         <<>> \in P,
         \A s \in Seq(S), x \in S : s \in P => <<x>> \o s \in P
  PROVE  Seq(S) \subseteq P
<1>. DEFINE T == {n \in Nat : \E s \in Seq(S) : Len(s) = n /\ s \notin P}
<1>1. SUFFICES ASSUME T # {} PROVE FALSE
  <2>1. \A s \in Seq(S) : Len(s) \in Nat
    BY LenProperties
  <2>. QED BY <2>1
<1>2. PICK n \in T : \A k \in T : n <= k
  <2>. HIDE DEF T
  <2>1. T \in SUBSET Nat
    BY DEF T
  <2>. QED BY <1>1, <2>1, LeastNat
<1>3. PICK s \in Seq(S) : Len(s) = n /\ s \notin P
  OBVIOUS
<1>4. s # <<>>
  BY <1>3
<1>5. /\ Head(s) \in S /\ Tail(s) \in Seq(S)
      /\ Len(Tail(s)) = Len(s) - 1
      /\ s = <<Head(s)>> \o Tail(s)
  BY <1>4, HeadTailProperties
<1>6. Len(Tail(s)) \in Nat /\ Len(Tail(s)) \notin T
  BY <1>2, <1>3, <1>5, LenProperties
<1>7. Tail(s) \in P
  BY <1>5, <1>6
<1>. QED BY <1>3, <1>5, <1>7

\* h gathers items from left to right, starting with base: join takes what there
\* is so far and the next item.
Gathers(h, V, items, base, join) ==
  /\ h \in [0..Len(items) -> V]
  /\ h[0] = base
  /\ \A k \in 1..Len(items) : h[k] = join[<<h[k-1], items[k]>>]

Gathered(v, V, items, base, join) ==
  \E h : Gathers(h, V, items, base, join) /\ v = h[Len(items)]

\* g goes by join for as long as it stays in V.
Follows(g, V, items, base, join) ==
  /\ g[0] = base
  /\ \A k \in 1..Len(items) : g[k-1] \in V => g[k] = join[<<g[k-1], items[k]>>]

\* A gathering of any items exists: recursion over their positions.
LEMMA GatheringExists ==
  ASSUME NEW V, NEW X, NEW items \in Seq(X), NEW base \in V, NEW join \in [V \X X -> V]
  PROVE  \E h : Gathers(h, V, items, base, join)
<1>. DEFINE n == Len(items)
<1>. DEFINE step == [k \in 1..n |-> [v \in V |-> join[<<v, items[k]>>]]]
<1>1. n \in Nat /\ \A k \in 1..n : items[k] \in X
  BY LenProperties, ElementOfSeq
<1>2. step \in [1..n -> [V -> V]]
  BY <1>1
<1>3. PICK h : Accumulates(h, V, n, base, step)
  <2>. HIDE DEF n, step
  <2>. QED BY <1>1, <1>2, Accumulation
<1>4. \A k \in 1..n : h[k-1] \in V /\ h[k] = step[k][h[k-1]]
  <2>1. \A k \in 1..n : k-1 \in 0..n
    BY <1>1
  <2>. HIDE DEF n, step
  <2>. QED BY <1>3, <2>1 DEF Accumulates
<1>5. h \in [0..n -> V] /\ h[0] = base
  <2>. HIDE DEF n, step
  <2>. QED BY <1>3 DEF Accumulates
<1>6. \A k \in 1..n : h[k] = join[<<h[k-1], items[k]>>]
  BY <1>1, <1>4
<1>. QED BY <1>5, <1>6 DEF Gathers

\* Only the gathering does.
LEMMA GatheringDetermined ==
  ASSUME NEW V, NEW X, NEW items \in Seq(X), NEW base \in V, NEW join,
         NEW h, Gathers(h, V, items, base, join),
         NEW g, Follows(g, V, items, base, join)
  PROVE  /\ \A k \in 0..Len(items) : g[k] = h[k]
         /\ g[Len(items)] = h[Len(items)]
<1>. DEFINE n == Len(items)
<1>. DEFINE T == {k \in 0..n : g[k] # h[k]}
<1>1. SUFFICES ASSUME T # {} PROVE FALSE
  BY LenProperties
<1>2. n \in Nat
  BY LenProperties
<1>3. PICK m \in T : \A k \in T : m <= k
  <2>1. T \in SUBSET Nat
    BY <1>2
  <2>. HIDE DEF T
  <2>. QED BY <1>1, <2>1, LeastNat
<1>4. m # 0
  BY DEF Gathers, Follows
<1>5. m \in 1..n /\ m-1 \in 0..n /\ ~(m <= m-1)
  BY <1>2, <1>4
<1>6. g[m-1] = h[m-1]
  BY <1>3, <1>5
<1>7. h[m-1] \in V /\ h[m] = join[<<h[m-1], items[m]>>]
  BY <1>5 DEF Gathers
<1>8. g[m] = join[<<g[m-1], items[m]>>]
  BY <1>5, <1>6, <1>7 DEF Follows
<1>. QED BY <1>5, <1>6, <1>7, <1>8

\* One more item.
LEMMA GatheredMore ==
  ASSUME NEW V, NEW X, NEW items \in Seq(X), NEW x \in X, NEW base \in V, NEW join,
         NEW v, Gathered(v, V, items, base, join),
         NEW w, Gathered(w, V, Append(items, x), base, join)
  PROVE  v \in V /\ w \in V /\ w = join[<<v, x>>]
<1>. DEFINE n == Len(items)
<1>. DEFINE more == Append(items, x)
<1>1. PICK h : Gathers(h, V, items, base, join) /\ v = h[n]
  BY DEF Gathered
<1>2. PICK g : Gathers(g, V, more, base, join) /\ w = g[Len(more)]
  BY DEF Gathered
<1>3. /\ n \in Nat /\ Len(more) = n + 1
      /\ more[n+1] = x
      /\ \A k \in 1..n : more[k] = items[k]
  BY LenProperties, AppendProperties
<1>. HIDE DEF more
<1>4. /\ g[0] = base
      /\ \A k \in 1..n : g[k] = join[<<g[k-1], items[k]>>]
      /\ g[n+1] = join[<<g[n], x>>]
      /\ g[n+1] \in V
  <2>1. \A k \in 1..n : k \in 1..Len(more)
    BY <1>3
  <2>2. n+1 \in 1..Len(more) /\ n+1 \in 0..Len(more) /\ (n+1)-1 = n
    BY <1>3
  <2>. QED BY <1>2, <1>3, <2>1, <2>2 DEF Gathers
<1>5. g[n] = h[n]
  <2>1. Follows(g, V, items, base, join)
    BY <1>4 DEF Follows
  <2>. QED BY <1>1, <2>1, GatheringDetermined
<1>6. n \in 0..n
  BY <1>3
<1>. QED BY <1>1, <1>2, <1>3, <1>4, <1>5, <1>6 DEF Gathers

\* What is gathered is of the type that gathering adds up.
LEMMA GatheredTyped ==
  ASSUME NEW V, NEW X, NEW items \in Seq(X), NEW base, NEW join,
         NEW v, Gathered(v, V, items, base, join)
  PROVE  v \in V
BY LenProperties DEF Gathered, Gathers

-----------------------------------------------------------------------------
\* Sequences over S concatenate to one over S.
LEMMA ConcatTyped ==
  ASSUME NEW S
  PROVE  \A s, t \in Seq(S) : s \o t \in Seq(S)
BY ConcatProperties

\* (The solver is not shown the text of the separator.)
Separator == <<", ">>

\* One step of the loop of Name.
JoinedCsv(s, item) == s \o (IF IsEmpty(s) THEN <<>> ELSE <<", ">>) \o item

\* One more term keeps a joined text a text.
LEMMA JoinedCsvTyped ==
  ASSUME NEW S, Separator \in Seq(S)
  PROVE  \A s, item \in Seq(S) : JoinedCsv(s, item) \in Seq(S)
<1>1. <<>> \in Seq(S)
  OBVIOUS
<1>. QED BY <1>1, ConcatTyped, Zenon DEF JoinedCsv, Separator

\* JoinCsv adds its terms one by one.
LEMMA JoinCsvGathers ==
  ASSUME NEW S, Separator \in Seq(S), NEW items \in Seq(Seq(S))
  PROVE  Gathered(JoinCsv(items), Seq(S), items, <<>>,
                  [p \in Seq(S) \X Seq(S) |-> JoinedCsv(p[1], p[2])])
<1>. DEFINE n == Len(items)
<1>. DEFINE V == Seq(S)
<1>. DEFINE join == [p \in V \X V |-> JoinedCsv(p[1], p[2])]
<1>1. n \in Nat /\ (\A k \in 1..n : items[k] \in V) /\ <<>> \in V /\ items \in Seq(V)
  BY ElementOfSeq, LenProperties
<1>2. /\ join \in [V \X V -> V]
      /\ \A s, item \in V : join[<<s, item>>] = JoinedCsv(s, item)
  <2>. HIDE DEF V
  <2>1. \A s, item \in V : JoinedCsv(s, item) \in V
    BY JoinedCsvTyped DEF V
  <2>. QED BY <2>1
<1>3. PICK h : Gathers(h, V, items, <<>>, join)
  <2>. HIDE DEF join, V
  <2>. QED BY <1>1, <1>2, GatheringExists DEF V
<1>. HIDE DEF join
<1>4. /\ h \in [0..n -> V] /\ h[0] = <<>>
      /\ \A k \in 1..n : h[k-1] \in V /\ h[k] = JoinedCsv(h[k-1], items[k])
  <2>1. \A k \in 1..n : k-1 \in 0..n
    BY <1>1
  <2>. HIDE DEF V
  <2>. QED BY <1>1, <1>2, <1>3, <2>1 DEF Gathers
<1>. DEFINE Recursive(g) ==
       g = [k \in 0..n |-> IF k = 0 THEN <<>> ELSE JoinedCsv(g[k-1], items[k])]
<1>5. Recursive(h)
  <2>1. \A k \in 0..n : h[k] = IF k = 0 THEN <<>> ELSE JoinedCsv(h[k-1], items[k])
    BY <1>1, <1>4
  <2>. QED BY <1>4, <2>1
<1>. DEFINE g == CHOOSE x : Recursive(x)
<1>6. Recursive(g)
  <2>. HIDE DEF Recursive
  <2>. QED BY <1>5, Zenon
<1>7. JoinCsv(items) = g[n]
  BY Zenon DEF JoinCsv, JoinedCsv
<1>. HIDE DEF g
<1>8. Follows(g, V, items, <<>>, join)
  <2>1. \A k \in 0..n : g[k] = IF k = 0 THEN <<>> ELSE JoinedCsv(g[k-1], items[k])
    BY <1>6, Zenon
  <2>. HIDE DEF V
  <2>2. g[0] = <<>>
    BY <1>1, <2>1
  <2>3. ASSUME NEW k \in 1..n, g[k-1] \in V
        PROVE  g[k] = join[<<g[k-1], items[k]>>]
    <3>1. k \in 0..n /\ k # 0
      BY <1>1
    <3>2. g[k] = JoinedCsv(g[k-1], items[k])
      BY <2>1, <3>1
    <3>. QED BY <1>1, <1>2, <2>3, <3>2
  <2>. QED BY <2>2, <2>3 DEF Follows
<1>9. JoinCsv(items) = h[n]
  <2>. HIDE DEF V
  <2>. QED BY <1>1, <1>3, <1>7, <1>8, GatheringDetermined
<1>. QED BY <1>3, <1>9 DEF Gathered, join

\* What JoinCsv returns, term by term.
LEMMA JoinCsvUnfolds ==
  ASSUME NEW S, Separator \in Seq(S), NEW items \in Seq(Seq(S))
  PROVE  /\ JoinCsv(items) \in Seq(S)
         /\ \A x \in Seq(S) :
              JoinCsv(Append(items, x)) = JoinedCsv(JoinCsv(items), x)
<1>. DEFINE V == Seq(S)
<1>. DEFINE join == [p \in V \X V |-> JoinedCsv(p[1], p[2])]
<1>1. Gathered(JoinCsv(items), V, items, <<>>, join)
  BY JoinCsvGathers
<1>2. JoinCsv(items) \in V
  BY <1>1, GatheredTyped
<1>3. ASSUME NEW x \in V
      PROVE  JoinCsv(Append(items, x)) = JoinedCsv(JoinCsv(items), x)
  <2>1. Append(items, x) \in Seq(V) /\ <<>> \in V
    BY AppendProperties
  <2>2. Gathered(JoinCsv(Append(items, x)), V, Append(items, x), <<>>, join)
    BY <2>1, JoinCsvGathers
  <2>3. items \in Seq(V)
    OBVIOUS
  <2>4. JoinCsv(Append(items, x)) = join[<<JoinCsv(items), x>>]
    <3>. HIDE DEF V, join
    <3>. QED BY <1>1, <2>1, <2>2, <2>3, GatheredMore
  <2>. QED BY <1>2, <2>4
<1>. QED BY <1>2, <1>3

\* No terms join to no text.
LEMMA JoinCsvNone == JoinCsv(<<>>) = <<>>
<1>. DEFINE S == {Separator[1]}
<1>1. <<>> \in Seq(Seq(S)) /\ Len(<<>>) = 0
  OBVIOUS
<1>2. Separator \in Seq(S)
  <2>1. Separator = <<Separator[1]>>
    BY Zenon DEF Separator
  <2>2. \A x : <<x>> \in Seq({x})
    OBVIOUS
  <2>. QED BY <2>1, <2>2, Zenon
<1>. DEFINE join == [p \in Seq(S) \X Seq(S) |-> JoinedCsv(p[1], p[2])]
<1>3. Gathered(JoinCsv(<<>>), Seq(S), <<>>, <<>>, join)
  <2>. HIDE DEF S
  <2>. QED BY <1>1, <1>2, JoinCsvGathers
<1>4. PICK h : Gathers(h, Seq(S), <<>>, <<>>, join) /\ JoinCsv(<<>>) = h[Len(<<>>)]
  <2>. HIDE DEF join
  <2>. QED BY <1>3, Zenon DEF Gathered
<1>. HIDE DEF join
<1>. QED BY <1>1, <1>4 DEF Gathers

-----------------------------------------------------------------------------
\* The same of JoinCsvIndented.
LineSeparator == <<", ", "\n">>

Indentation == <<"    ">>

JoinedIndented(s, item) ==
  s \o (IF IsEmpty(s) THEN <<>> ELSE <<", ", "\n">>) \o <<"    ">> \o item

\* One more line keeps an indented text a text.
LEMMA JoinedIndentedTyped ==
  ASSUME NEW S, LineSeparator \in Seq(S), Indentation \in Seq(S)
  PROVE  \A s, item \in Seq(S) : JoinedIndented(s, item) \in Seq(S)
<1>1. <<>> \in Seq(S)
  OBVIOUS
<1>. QED BY <1>1, ConcatTyped, Zenon DEF JoinedIndented, LineSeparator, Indentation

\* JoinCsvIndented adds its terms one by one.
LEMMA JoinCsvIndentedGathers ==
  ASSUME NEW S, LineSeparator \in Seq(S), Indentation \in Seq(S), NEW items \in Seq(Seq(S))
  PROVE  Gathered(JoinCsvIndented(items), Seq(S), items, <<>>,
                  [p \in Seq(S) \X Seq(S) |-> JoinedIndented(p[1], p[2])])
<1>. DEFINE n == Len(items)
<1>. DEFINE V == Seq(S)
<1>. DEFINE join == [p \in V \X V |-> JoinedIndented(p[1], p[2])]
<1>1. n \in Nat /\ (\A k \in 1..n : items[k] \in V) /\ <<>> \in V /\ items \in Seq(V)
  BY ElementOfSeq, LenProperties
<1>2. /\ join \in [V \X V -> V]
      /\ \A s, item \in V : join[<<s, item>>] = JoinedIndented(s, item)
  <2>. HIDE DEF V
  <2>1. \A s, item \in V : JoinedIndented(s, item) \in V
    BY JoinedIndentedTyped DEF V
  <2>. QED BY <2>1
<1>3. PICK h : Gathers(h, V, items, <<>>, join)
  <2>. HIDE DEF join, V
  <2>. QED BY <1>1, <1>2, GatheringExists DEF V
<1>. HIDE DEF join
<1>4. /\ h \in [0..n -> V] /\ h[0] = <<>>
      /\ \A k \in 1..n : h[k-1] \in V /\ h[k] = JoinedIndented(h[k-1], items[k])
  <2>1. \A k \in 1..n : k-1 \in 0..n
    BY <1>1
  <2>. HIDE DEF V
  <2>. QED BY <1>1, <1>2, <1>3, <2>1 DEF Gathers
<1>. DEFINE Recursive(g) ==
       g = [k \in 0..n |-> IF k = 0 THEN <<>> ELSE JoinedIndented(g[k-1], items[k])]
<1>5. Recursive(h)
  <2>1. \A k \in 0..n : h[k] = IF k = 0 THEN <<>> ELSE JoinedIndented(h[k-1], items[k])
    BY <1>1, <1>4
  <2>. QED BY <1>4, <2>1
<1>. DEFINE g == CHOOSE x : Recursive(x)
<1>6. Recursive(g)
  <2>. HIDE DEF Recursive
  <2>. QED BY <1>5, Zenon
<1>7. JoinCsvIndented(items) = g[n]
  BY Zenon DEF JoinCsvIndented, JoinedIndented
<1>. HIDE DEF g
<1>8. Follows(g, V, items, <<>>, join)
  <2>1. \A k \in 0..n : g[k] = IF k = 0 THEN <<>> ELSE JoinedIndented(g[k-1], items[k])
    BY <1>6, Zenon
  <2>. HIDE DEF V
  <2>2. g[0] = <<>>
    BY <1>1, <2>1
  <2>3. ASSUME NEW k \in 1..n, g[k-1] \in V
        PROVE  g[k] = join[<<g[k-1], items[k]>>]
    <3>1. k \in 0..n /\ k # 0
      BY <1>1
    <3>2. g[k] = JoinedIndented(g[k-1], items[k])
      BY <2>1, <3>1
    <3>. QED BY <1>1, <1>2, <2>3, <3>2
  <2>. QED BY <2>2, <2>3 DEF Follows
<1>9. JoinCsvIndented(items) = h[n]
  <2>. HIDE DEF V
  <2>. QED BY <1>1, <1>3, <1>7, <1>8, GatheringDetermined
<1>. QED BY <1>3, <1>9 DEF Gathered, join

\* What JoinCsvIndented returns, term by term.
LEMMA JoinCsvIndentedUnfolds ==
  ASSUME NEW S, LineSeparator \in Seq(S), Indentation \in Seq(S), NEW items \in Seq(Seq(S))
  PROVE  /\ JoinCsvIndented(items) \in Seq(S)
         /\ \A x \in Seq(S) :
              JoinCsvIndented(Append(items, x)) = JoinedIndented(JoinCsvIndented(items), x)
<1>. DEFINE V == Seq(S)
<1>. DEFINE join == [p \in V \X V |-> JoinedIndented(p[1], p[2])]
<1>1. Gathered(JoinCsvIndented(items), V, items, <<>>, join)
  BY JoinCsvIndentedGathers
<1>2. JoinCsvIndented(items) \in V
  BY <1>1, GatheredTyped
<1>3. ASSUME NEW x \in V
      PROVE  JoinCsvIndented(Append(items, x)) = JoinedIndented(JoinCsvIndented(items), x)
  <2>1. Append(items, x) \in Seq(V) /\ <<>> \in V
    BY AppendProperties
  <2>2. Gathered(JoinCsvIndented(Append(items, x)), V, Append(items, x), <<>>, join)
    BY <2>1, JoinCsvIndentedGathers
  <2>3. items \in Seq(V)
    OBVIOUS
  <2>4. JoinCsvIndented(Append(items, x)) = join[<<JoinCsvIndented(items), x>>]
    <3>. HIDE DEF V, join
    <3>. QED BY <1>1, <2>1, <2>2, <2>3, GatheredMore
  <2>. QED BY <1>2, <2>4
<1>. QED BY <1>2, <1>3

\* No terms join to no indented text.
LEMMA JoinCsvIndentedNone ==
  ASSUME NEW S, LineSeparator \in Seq(S), Indentation \in Seq(S)
  PROVE  JoinCsvIndented(<<>>) = <<>>
<1>. DEFINE join == [p \in Seq(S) \X Seq(S) |-> JoinedIndented(p[1], p[2])]
<1>1. <<>> \in Seq(Seq(S)) /\ Len(<<>>) = 0
  OBVIOUS
<1>2. Gathered(JoinCsvIndented(<<>>), Seq(S), <<>>, <<>>, join)
  BY <1>1, JoinCsvIndentedGathers
<1>3. PICK h : Gathers(h, Seq(S), <<>>, <<>>, join) /\ JoinCsvIndented(<<>>) = h[Len(<<>>)]
  <2>. HIDE DEF join
  <2>. QED BY <1>2, Zenon DEF Gathered
<1>. HIDE DEF join
<1>. QED BY <1>1, <1>3 DEF Gathers

\* Unlaid looks at a token at a time.
UnlaidMore(s, token) == s \o (IF token \in Layout THEN <<>> ELSE <<token>>)

\* Taking one more token, if it is no layout, keeps a text a text.
LEMMA UnlaidMoreTyped ==
  ASSUME NEW S
  PROVE  \A s \in Seq(S), token \in S : UnlaidMore(s, token) \in Seq(S)
<1>1. <<>> \in Seq(S) /\ \A token \in S : <<token>> \in Seq(S)
  OBVIOUS
<1>. QED BY <1>1, ConcatTyped, Zenon DEF UnlaidMore

\* Unlaid takes the tokens one by one.
LEMMA UnlaidGathers ==
  ASSUME NEW S, NEW items \in Seq(S)
  PROVE  Gathered(Unlaid(items), Seq(S), items, <<>>,
                  [p \in Seq(S) \X S |-> UnlaidMore(p[1], p[2])])
<1>. DEFINE n == Len(items)
<1>. DEFINE V == Seq(S)
<1>. DEFINE join == [p \in V \X S |-> UnlaidMore(p[1], p[2])]
<1>1. n \in Nat /\ (\A k \in 1..n : items[k] \in S) /\ <<>> \in V /\ items \in Seq(S)
  BY ElementOfSeq, LenProperties
<1>2. /\ join \in [V \X S -> V]
      /\ \A s \in V, item \in S : join[<<s, item>>] = UnlaidMore(s, item)
  <2>. HIDE DEF V
  <2>1. \A s \in V, item \in S : UnlaidMore(s, item) \in V
    BY UnlaidMoreTyped DEF V
  <2>. QED BY <2>1
<1>3. PICK h : Gathers(h, V, items, <<>>, join)
  <2>. HIDE DEF join, V
  <2>. QED BY <1>1, <1>2, GatheringExists DEF V
<1>. HIDE DEF join
<1>4. /\ h \in [0..n -> V] /\ h[0] = <<>>
      /\ \A k \in 1..n : h[k-1] \in V /\ h[k] = UnlaidMore(h[k-1], items[k])
  <2>1. \A k \in 1..n : k-1 \in 0..n
    BY <1>1
  <2>. HIDE DEF V
  <2>. QED BY <1>1, <1>2, <1>3, <2>1 DEF Gathers
<1>. DEFINE Recursive(g) ==
       g = [k \in 0..n |-> IF k = 0 THEN <<>> ELSE UnlaidMore(g[k-1], items[k])]
<1>5. Recursive(h)
  <2>1. \A k \in 0..n : h[k] = IF k = 0 THEN <<>> ELSE UnlaidMore(h[k-1], items[k])
    BY <1>1, <1>4
  <2>. QED BY <1>4, <2>1
<1>. DEFINE g == CHOOSE x : Recursive(x)
<1>6. Recursive(g)
  <2>. HIDE DEF Recursive
  <2>. QED BY <1>5, Zenon
<1>7. Unlaid(items) = g[n]
  BY Zenon DEF Unlaid, UnlaidMore
<1>. HIDE DEF g
<1>8. Follows(g, V, items, <<>>, join)
  <2>1. \A k \in 0..n : g[k] = IF k = 0 THEN <<>> ELSE UnlaidMore(g[k-1], items[k])
    BY <1>6, Zenon
  <2>. HIDE DEF V
  <2>2. g[0] = <<>>
    BY <1>1, <2>1
  <2>3. ASSUME NEW k \in 1..n, g[k-1] \in V
        PROVE  g[k] = join[<<g[k-1], items[k]>>]
    <3>1. k \in 0..n /\ k # 0
      BY <1>1
    <3>2. g[k] = UnlaidMore(g[k-1], items[k])
      BY <2>1, <3>1
    <3>. QED BY <1>1, <1>2, <2>3, <3>2
  <2>. QED BY <2>2, <2>3 DEF Follows
<1>9. Unlaid(items) = h[n]
  <2>. HIDE DEF V
  <2>. QED BY <1>1, <1>3, <1>7, <1>8, GatheringDetermined
<1>. QED BY <1>3, <1>9 DEF Gathered, join

\* What Unlaid returns, term by term.
LEMMA UnlaidUnfolds ==
  ASSUME NEW S, NEW items \in Seq(S)
  PROVE  /\ Unlaid(items) \in Seq(S)
         /\ \A x \in S :
              Unlaid(Append(items, x)) = UnlaidMore(Unlaid(items), x)
<1>. DEFINE V == Seq(S)
<1>. DEFINE join == [p \in V \X S |-> UnlaidMore(p[1], p[2])]
<1>1. Gathered(Unlaid(items), V, items, <<>>, join)
  BY UnlaidGathers
<1>2. Unlaid(items) \in V
  BY <1>1, GatheredTyped
<1>3. ASSUME NEW x \in S
      PROVE  Unlaid(Append(items, x)) = UnlaidMore(Unlaid(items), x)
  <2>1. Append(items, x) \in Seq(S) /\ <<>> \in V
    BY AppendProperties
  <2>2. Gathered(Unlaid(Append(items, x)), V, Append(items, x), <<>>, join)
    BY <2>1, UnlaidGathers
  <2>3. items \in Seq(S)
    OBVIOUS
  <2>4. Unlaid(Append(items, x)) = join[<<Unlaid(items), x>>]
    <3>. HIDE DEF V, join
    <3>. QED BY <1>1, <2>1, <2>2, <2>3, GatheredMore
  <2>. QED BY <1>2, <2>4
<1>. QED BY <1>2, <1>3

\* No text without its layout is no text.
LEMMA UnlaidNone == Unlaid(<<>>) = <<>>
<1>. DEFINE join == [p \in Seq({0}) \X {0} |-> UnlaidMore(p[1], p[2])]
<1>1. <<>> \in Seq({0}) /\ Len(<<>>) = 0
  OBVIOUS
<1>2. Gathered(Unlaid(<<>>), Seq({0}), <<>>, <<>>, join)
  BY <1>1, UnlaidGathers
<1>3. PICK h : Gathers(h, Seq({0}), <<>>, <<>>, join) /\ Unlaid(<<>>) = h[Len(<<>>)]
  <2>. HIDE DEF join
  <2>. QED BY <1>2, Zenon DEF Gathered
<1>. HIDE DEF join
<1>. QED BY <1>1, <1>3 DEF Gathers

-----------------------------------------------------------------------------
\* A concatenation grows at its end.
LEMMA ConcatMore ==
  ASSUME NEW S, NEW s \in Seq(S), NEW t \in Seq(S), NEW x \in S
  PROVE  s \o Append(t, x) = Append(s \o t, x)
OBVIOUS

\* Unlaid goes through a concatenation.
LEMMA UnlaidConcat ==
  ASSUME NEW S, NEW s \in Seq(S)
  PROVE  \A t \in Seq(S) : Unlaid(s \o t) = Unlaid(s) \o Unlaid(t)
<1>. DEFINE P == {t \in Seq(S) : Unlaid(s \o t) = Unlaid(s) \o Unlaid(t)}
<1>1. <<>> \in P
  <2>1. Unlaid(s) \in Seq(S)
    BY UnlaidUnfolds
  <2>. QED BY <2>1, UnlaidNone, ConcatEmptySeq
<1>2. ASSUME NEW t \in Seq(S), NEW x \in S, t \in P PROVE Append(t, x) \in P
  <2>1. /\ Append(t, x) \in Seq(S)
        /\ s \o t \in Seq(S)
        /\ s \o Append(t, x) = Append(s \o t, x)
    BY AppendProperties, ConcatProperties, ConcatMore
  <2>2. /\ Unlaid(Append(t, x)) = UnlaidMore(Unlaid(t), x)
        /\ Unlaid(Append(s \o t, x)) = UnlaidMore(Unlaid(s \o t), x)
        /\ Unlaid(t) \in Seq(S) /\ Unlaid(s) \in Seq(S)
    BY <2>1, UnlaidUnfolds
  <2>3. UnlaidMore(Unlaid(s) \o Unlaid(t), x) = Unlaid(s) \o UnlaidMore(Unlaid(t), x)
    <3>. DEFINE tail == IF x \in Layout THEN <<>> ELSE <<x>>
    <3>1. tail \in Seq(S)
      OBVIOUS
    <3>. HIDE DEF tail
    <3>2. (Unlaid(s) \o Unlaid(t)) \o tail = Unlaid(s) \o (Unlaid(t) \o tail)
      BY <2>2, <3>1, ConcatAssociative
    <3>. QED BY <3>2, Zenon DEF UnlaidMore, tail
  <2>4. Unlaid(s \o t) = Unlaid(s) \o Unlaid(t)
    BY <1>2
  <2>. QED BY <2>1, <2>2, <2>3, <2>4
<1>. HIDE DEF P
<1>3. Seq(S) \subseteq P
  BY <1>1, <1>2, SequencesByAppend
<1>. QED BY <1>3 DEF P

\* Texts without layout stay what they are.
LEMMA UnlaidKeeps ==
  ASSUME NEW S, S \cap Layout = {}
  PROVE  \A s \in Seq(S) : Unlaid(s) = s
<1>. DEFINE P == {s \in Seq(S) : Unlaid(s) = s}
<1>1. <<>> \in P
  BY UnlaidNone
<1>2. ASSUME NEW s \in Seq(S), NEW x \in S, s \in P PROVE Append(s, x) \in P
  <2>1. Unlaid(Append(s, x)) = UnlaidMore(s, x)
    BY <1>2, UnlaidUnfolds
  <2>2. UnlaidMore(s, x) = s \o <<x>>
    BY Zenon DEF UnlaidMore
  <2>3. Append(s, x) = s \o <<x>> /\ Append(s, x) \in Seq(S)
    BY AppendIsConcat, AppendProperties
  <2>. QED BY <2>1, <2>2, <2>3
<1>. HIDE DEF P
<1>3. Seq(S) \subseteq P
  BY <1>1, <1>2, SequencesByAppend
<1>. QED BY <1>3 DEF P

\* One token is kept unless it is layout.
LEMMA UnlaidWord ==
  /\ \A word \in Layout : Unlaid(<<word>>) = <<>>
  /\ \A word : word \notin Layout => Unlaid(<<word>>) = <<word>>
<1>1. ASSUME NEW word PROVE Unlaid(<<word>>) = UnlaidMore(<<>>, word)
  <2>1. <<>> \in Seq({word}) /\ Append(<<>>, word) = <<word>> /\ word \in {word}
    OBVIOUS
  <2>. QED BY <2>1, UnlaidUnfolds, UnlaidNone
<1>2. ASSUME NEW word \in Layout PROVE Unlaid(<<word>>) = <<>>
  <2>1. UnlaidMore(<<>>, word) = <<>> \o <<>>
    BY Zenon DEF UnlaidMore
  <2>. QED BY <1>1, <2>1
<1>3. ASSUME NEW word, word \notin Layout PROVE Unlaid(<<word>>) = <<word>>
  <2>1. UnlaidMore(<<>>, word) = <<>> \o <<word>>
    BY <1>3, Zenon DEF UnlaidMore
  <2>. QED BY <1>1, <2>1
<1>. QED BY <1>2, <1>3

\* Only the empty list is joined to nothing, when every term has a text.
LEMMA JoinCsvEmpty ==
  ASSUME NEW S, Separator \in Seq(S), NEW items \in Seq(Seq(S) \ {<<>>})
  PROVE  JoinCsv(items) = <<>> <=> items = <<>>
<1>1. CASE items = <<>>
  BY <1>1, JoinCsvNone
<1>2. CASE items # <<>>
  <2>1. PICK before \in Seq(Seq(S) \ {<<>>}), x \in Seq(S) \ {<<>>} : items = Append(before, x)
    BY <1>2, SequenceEmptyOrAppend
  <2>2. before \in Seq(Seq(S))
    BY SeqMonotonic
  <2>3. JoinCsv(items) = JoinedCsv(JoinCsv(before), x) /\ JoinCsv(before) \in Seq(S)
    BY <2>1, <2>2, JoinCsvUnfolds
  <2>4. ASSUME NEW s \in Seq(S) PROVE JoinedCsv(s, x) # <<>>
    <3>. DEFINE start == s \o (IF IsEmpty(s) THEN <<>> ELSE <<", ">>)
    <3>1. start \in Seq(S)
      <4>1. <<>> \in Seq(S)
        OBVIOUS
      <4>. QED BY <4>1, ConcatTyped, Zenon DEF Separator
    <3>2. JoinedCsv(s, x) = start \o x
      BY Zenon DEF JoinedCsv
    <3>. HIDE DEF start
    <3>. QED BY <3>1, <3>2, ConcatEqualIffEmpty
  <2>. QED BY <1>2, <2>3, <2>4
<1>. QED BY <1>1, <1>2

\* The texts around a term, as sequences over an alphabet.
LEMMA SeparatorTyped ==
  ASSUME NEW S, Separator \in Seq(S)
  PROVE  /\ ", " \in S
         /\ LineSeparator \in Seq(S \cup Layout)
         /\ Indentation \in Seq(S \cup Layout)
<1>1. \A a, T : <<a>> \in Seq(T) => a \in T
  OBVIOUS
<1>2. \A a, b, T : a \in T /\ b \in T => <<a, b>> \in Seq(T) /\ <<b>> \in Seq(T)
  OBVIOUS
<1>3. ", " \in S
  BY <1>1, Zenon DEF Separator
<1>4. ", " \in S \cup Layout /\ "\n" \in S \cup Layout /\ "    " \in S \cup Layout
  BY <1>3, Zenon DEF Layout
<1>. QED BY <1>2, <1>3, <1>4, Zenon DEF LineSeparator, Indentation

\* The separators of the formatted lists are those of the plain ones.
LEMMA UnlaidSeparators ==
  ASSUME NEW S, S \cap Layout = {}, Separator \in Seq(S)
  PROVE  Unlaid(LineSeparator) = Separator /\ Unlaid(Indentation) = <<>>
<1>1. Unlaid(Indentation) = <<>>
  BY UnlaidWord, Zenon DEF Indentation, Layout
<1>2. LineSeparator = Separator \o <<"\n">>
  <2>1. ASSUME NEW a, NEW b PROVE <<a, b>> = <<a>> \o <<b>>
    <3>1. <<a>> \in Seq({a, b}) /\ b \in {a, b}
      OBVIOUS
    <3>2. Append(<<a>>, b) = <<a, b>>
      <4>1. /\ Append(<<a>>, b) \in Seq({a, b}) /\ Len(Append(<<a>>, b)) = 2
            /\ Append(<<a>>, b)[1] = a /\ Append(<<a>>, b)[2] = b
        BY <3>1, AppendProperties
      <4>2. <<a, b>> \in Seq({a, b}) /\ Len(<<a, b>>) = 2 /\ <<a, b>>[1] = a /\ <<a, b>>[2] = b
        OBVIOUS
      <4>3. \A s, t \in Seq({a, b}) :
              Len(s) = 2 /\ Len(t) = 2 /\ s[1] = t[1] /\ s[2] = t[2] => s = t
        <5>1. \A k \in 1..2 : k = 1 \/ k = 2
          OBVIOUS
        <5>. QED BY <5>1, SeqEqual
      <4>. QED BY <4>1, <4>2, <4>3
    <3>. QED BY <3>1, <3>2, AppendIsConcat
  <2>. QED BY <2>1, Zenon DEF Separator, LineSeparator
<1>3. Unlaid(<<"\n">>) = <<>> /\ Unlaid(Separator) = Separator
  BY UnlaidWord, UnlaidKeeps, Zenon DEF Layout
<1>4. Separator \in Seq(S \cup Layout) /\ <<"\n">> \in Seq(S \cup Layout)
  <2>1. \A a, T : a \in T => <<a>> \in Seq(T)
    OBVIOUS
  <2>2. ", " \in S
    BY SeparatorTyped
  <2>. QED BY <2>1, <2>2, Zenon DEF Separator, Layout
<1>5. Unlaid(Separator \o <<"\n">>) = Separator \o <<>>
  <2>. DEFINE break == <<"\n">>
  <2>1. Unlaid(break) = <<>> /\ break \in Seq(S \cup Layout)
    BY <1>3, <1>4
  <2>. HIDE DEF break
  <2>2. Unlaid(Separator \o break) = Unlaid(Separator) \o Unlaid(break)
    BY <1>4, <2>1, UnlaidConcat
  <2>. QED BY <1>3, <2>1, <2>2, Zenon DEF break
<1>6. Separator \o <<>> = Separator
  BY ConcatEmptySeq
<1>. QED BY <1>1, <1>2, <1>5, <1>6, Zenon

\* A list that is indented line by line is, but for the layout, the list.
LEMMA UnlaidJoined ==
  ASSUME NEW S, S \cap Layout = {}, Separator \in Seq(S)
  PROVE  \A items \in Seq(Seq(S) \ {<<>>}) :
           /\ Unlaid(JoinCsvIndented(items)) = JoinCsv(items)
           /\ JoinCsvIndented(items) \in Seq(S \cup Layout)
<1>. DEFINE Term == Seq(S) \ {<<>>}
<1>. DEFINE All == S \cup Layout
<1>. DEFINE P == {items \in Seq(Term) : Unlaid(JoinCsvIndented(items)) = JoinCsv(items)}
<1>1. LineSeparator \in Seq(All) /\ Indentation \in Seq(All) /\ Separator \in Seq(All)
  BY SeparatorTyped, SeqMonotonic
<1>2. Term \subseteq Seq(S) /\ Seq(S) \subseteq Seq(All) /\ Seq(Term) \subseteq Seq(Seq(All))
      /\ Seq(Term) \subseteq Seq(Seq(S))
  BY SeqMonotonic
<1>3. \A items \in Seq(Term) : JoinCsvIndented(items) \in Seq(All)
  BY <1>1, <1>2, JoinCsvIndentedUnfolds
<1>4. <<>> \in P
  <2>1. JoinCsvIndented(<<>>) = <<>>
    BY <1>1, JoinCsvIndentedNone
  <2>2. <<>> \in Seq(Term)
    OBVIOUS
  <2>. QED BY <2>1, <2>2, UnlaidNone, JoinCsvNone
<1>5. ASSUME NEW items \in Seq(Term), NEW x \in Term, items \in P
      PROVE  Append(items, x) \in P
  <2>. DEFINE flat == JoinCsv(items)
  <2>. DEFINE lines == JoinCsvIndented(items)
  <2>1. /\ Append(items, x) \in Seq(Term)
        /\ x \in Seq(S) /\ x \in Seq(All) /\ x # <<>>
        /\ flat \in Seq(S) /\ lines \in Seq(All) /\ Unlaid(lines) = flat
    <3>1. flat \in Seq(S)
      BY <1>2, JoinCsvUnfolds
    <3>. QED BY <1>2, <1>3, <1>5, <3>1, AppendProperties
  <2>2. /\ JoinCsv(Append(items, x)) = JoinedCsv(flat, x)
        /\ JoinCsvIndented(Append(items, x)) = JoinedIndented(lines, x)
    BY <1>1, <1>2, <2>1, JoinCsvUnfolds, JoinCsvIndentedUnfolds
  <2>3. Unlaid(x) = x /\ Unlaid(LineSeparator) = Separator /\ Unlaid(Indentation) = <<>>
    BY <2>1, UnlaidKeeps, UnlaidSeparators
  <2>4. flat = <<>> <=> lines = <<>>
    <3>1. flat = <<>> => items = <<>>
      BY JoinCsvEmpty
    <3>2. items = <<>> => lines = <<>>
      BY <1>1, JoinCsvIndentedNone
    <3>. QED BY <2>1, <3>1, <3>2, UnlaidNone
  <2>. HIDE DEF flat, lines
  <2>5. Unlaid(JoinedIndented(lines, x)) = JoinedCsv(flat, x)
    <3>. DEFINE between == IF IsEmpty(lines) THEN <<>> ELSE LineSeparator
    <3>. DEFINE comma == IF IsEmpty(flat) THEN <<>> ELSE Separator
    <3>1. between \in Seq(All) /\ comma \in Seq(S) /\ Unlaid(between) = comma
      BY <1>1, <2>3, <2>4, UnlaidNone DEF IsEmpty
    <3>. HIDE DEF between, comma, All
    <3>0. \A s, t \in Seq(All) : Unlaid(s \o t) = Unlaid(s) \o Unlaid(t)
      BY UnlaidConcat
    <3>2. Unlaid(((lines \o between) \o Indentation) \o x) = ((flat \o comma) \o <<>>) \o x
      <4>1. /\ lines \o between \in Seq(All)
            /\ (lines \o between) \o Indentation \in Seq(All)
        BY <1>1, <2>1, <3>1, ConcatTyped
      <4>2. Unlaid(lines \o between) = flat \o comma
        BY <2>1, <3>0, <3>1
      <4>3. Unlaid((lines \o between) \o Indentation) = (flat \o comma) \o <<>>
        <5>1. Unlaid((lines \o between) \o Indentation)
              = Unlaid(lines \o between) \o Unlaid(Indentation)
          BY <1>1, <3>0, <4>1
        <5>. QED BY <2>3, <4>2, <5>1, Zenon
      <4>. QED BY <2>1, <2>3, <3>0, <4>1, <4>3
    <3>3. (flat \o comma) \o <<>> = flat \o comma
      BY <2>1, <3>1, ConcatProperties, ConcatEmptySeq
    <3>4. JoinedIndented(lines, x) = ((lines \o between) \o Indentation) \o x
      BY Zenon DEF JoinedIndented, between, LineSeparator, Indentation
    <3>5. JoinedCsv(flat, x) = (flat \o comma) \o x
      BY Zenon DEF JoinedCsv, comma, Separator
    <3>. QED BY <3>2, <3>3, <3>4, <3>5, Zenon
  <2>. QED BY <2>1, <2>2, <2>5
<1>. HIDE DEF P
<1>6. Seq(Term) \subseteq P
  BY <1>4, <1>5, SequencesByAppend
<1>. QED BY <1>3, <1>6 DEF P

-----------------------------------------------------------------------------
\* One step of TermsAhead: the token ahead, and the terms after it.
TermsFrom(token, rest, words, comma) ==
  IF token \in words THEN <<<<>>>>
  ELSE IF token = comma THEN <<<<>>>> \o rest
  ELSE <<<<token>> \o Head(rest)>> \o Tail(rest)

\* Reading one token makes lists of terms of lists of terms.
LEMMA TermsFromTyped ==
  ASSUME NEW S, NEW words, NEW comma
  PROVE  \A token \in S, rest \in Seq(Seq(S)) \ {<<>>} :
           TermsFrom(token, rest, words, comma) \in Seq(Seq(S)) \ {<<>>}
<1>1. ASSUME NEW token \in S, NEW rest \in Seq(Seq(S)) \ {<<>>}
      PROVE  TermsFrom(token, rest, words, comma) \in Seq(Seq(S)) \ {<<>>}
  <2>. DEFINE V == Seq(Seq(S)) \ {<<>>}
  <2>1. <<>> \in Seq(S) /\ <<token>> \in Seq(S) /\ Head(rest) \in Seq(S) /\ Tail(rest) \in Seq(Seq(S))
    BY HeadTailProperties
  <2>2. <<token>> \o Head(rest) \in Seq(S)
    BY <2>1, ConcatTyped
  <2>3. \A term \in Seq(S) : <<term>> \in V
    OBVIOUS
  <2>4. \A term \in Seq(S), more \in Seq(Seq(S)) : <<term>> \o more \in V
    BY ConcatTyped, ConcatEqualIffEmpty
  <2>. QED BY <2>1, <2>2, <2>3, <2>4, Zenon DEF TermsFrom
<1>. QED BY <1>1

\* T returns the terms ahead of a text.
ReadsTerms(T, S, words, comma) ==
  /\ T \in [Seq(S) -> Seq(Seq(S)) \ {<<>>}]
  /\ T[<<>>] = <<<<>>>>
  /\ \A token \in S, ws \in Seq(S) :
       T[<<token>> \o ws] = TermsFrom(token, T[ws], words, comma)

\* The body of TermsAhead.
Ahead(ws, rest, words, comma) ==
  IF ws = <<>> \/ Head(ws) \in words THEN <<<<>>>>
  ELSE IF Head(ws) = comma THEN <<<<>>>> \o rest
  ELSE <<<<Head(ws)>> \o Head(rest)>> \o Tail(rest)

\* What stands first in a sequence, and what follows it.
LEMMA ConsProperties ==
  ASSUME NEW S, NEW token \in S, NEW ws \in Seq(S)
  PROVE  /\ <<token>> \o ws \in Seq(S)
         /\ <<token>> \o ws # <<>>
         /\ Head(<<token>> \o ws) = token
         /\ Tail(<<token>> \o ws) = ws
<1>1. <<token>> \in Seq(S) /\ Len(<<token>>) = 1
  OBVIOUS
<1>2. <<token>> \o ws \in Seq(S) /\ <<token>> \o ws # <<>>
  BY <1>1, ConcatProperties
<1>. QED BY <1>1, <1>2, ConcatProperties, HeadTailProperties

\* The reverse of a sequence ends with what stood first.
LEMMA ReverseCons ==
  ASSUME NEW S, NEW ws \in Seq(S)
  PROVE  /\ Reverse(ws) \in Seq(S)
         /\ \A token \in S : Reverse(<<token>> \o ws) = Append(Reverse(ws), token)
<1>. DEFINE n == Len(ws)
<1>1. n \in Nat /\ \A k \in 1..n : ws[k] \in S
  BY LenProperties, ElementOfSeq
<1>2. Reverse(ws) \in Seq(S) /\ Len(Reverse(ws)) = n /\ \A k \in 1..n : Reverse(ws)[k] = ws[n - k + 1]
  BY <1>1 DEF Reverse
<1>3. ASSUME NEW token \in S
      PROVE  Reverse(<<token>> \o ws) = Append(Reverse(ws), token)
  <2>. DEFINE more == <<token>> \o ws
  <2>1. /\ more \in Seq(S) /\ Len(more) = n + 1 /\ more[1] = token
        /\ \A k \in 1..n : more[k+1] = ws[k]
    BY <1>1
  <2>. HIDE DEF more
  <2>2. /\ Reverse(more) \in Seq(S) /\ Len(Reverse(more)) = n + 1
        /\ \A k \in 1..n+1 : Reverse(more)[k] = more[(n + 1) - k + 1]
    BY <1>1, <2>1 DEF Reverse
  <2>3. /\ Append(Reverse(ws), token) \in Seq(S) /\ Len(Append(Reverse(ws), token)) = n + 1
        /\ \A k \in 1..n : Append(Reverse(ws), token)[k] = Reverse(ws)[k]
        /\ Append(Reverse(ws), token)[n+1] = token
    BY <1>1, <1>2, AppendProperties
  <2>4. \A k \in 1..n+1 : Reverse(more)[k] = Append(Reverse(ws), token)[k]
    <3>1. ASSUME NEW k \in 1..n PROVE Reverse(more)[k] = Append(Reverse(ws), token)[k]
      <4>1. n - k + 1 \in 1..n /\ (n + 1) - k + 1 = (n - k + 1) + 1 /\ k \in 1..n+1
        BY <1>1
      <4>. QED BY <1>2, <2>1, <2>2, <2>3, <4>1
    <3>2. Reverse(more)[n+1] = Append(Reverse(ws), token)[n+1]
      BY <1>1, <2>1, <2>2, <2>3
    <3>3. \A k \in 1..n+1 : k \in 1..n \/ k = n + 1
      BY <1>1
    <3>. QED BY <3>1, <3>2, <3>3, Zenon
  <2>. QED BY <2>2, <2>3, <2>4, SeqEqual DEF more
<1>. QED BY <1>2, <1>3

IsAhead(T, S, words, comma) ==
  T = [ws \in Seq(S) |-> Ahead(ws, T[Tail(ws)], words, comma)]

\* A reader of terms exists: recursion over the length of the text.
LEMMA TermsAheadExists ==
  ASSUME NEW S, NEW words, NEW comma
  PROVE  \E T : IsAhead(T, S, words, comma)
<1>. DEFINE V == Seq(Seq(S)) \ {<<>>}
<1>. DEFINE join == [p \in V \X S |-> TermsFrom(p[2], p[1], words, comma)]
<1>. DEFINE Value(ws, v) == Gathered(v, V, Reverse(ws), <<<<>>>>, join)
<1>. DEFINE T == [ws \in Seq(S) |-> CHOOSE v : Value(ws, v)]
<1>1. /\ join \in [V \X S -> V]
      /\ \A rest \in V, token \in S : join[<<rest, token>>] = TermsFrom(token, rest, words, comma)
  <2>1. \A rest \in V, token \in S : TermsFrom(token, rest, words, comma) \in V
    BY TermsFromTyped
  <2>. HIDE DEF V
  <2>. QED BY <2>1
<1>2. <<<<>>>> \in V
  OBVIOUS
<1>. HIDE DEF join, V
<1>3. \A ws \in Seq(S) : Value(ws, T[ws])
  <2>1. ASSUME NEW ws \in Seq(S) PROVE \E v : Value(ws, v)
    <3>1. Reverse(ws) \in Seq(S)
      BY ReverseCons
    <3>2. PICK h : Gathers(h, V, Reverse(ws), <<<<>>>>, join)
      BY <1>1, <1>2, <3>1, GatheringExists
    <3>. QED BY <3>2, Zenon DEF Gathered
  <2>. HIDE DEF Value
  <2>. QED BY <2>1
<1>. HIDE DEF T
<1>4. T[<<>>] = <<<<>>>>
  <2>1. Value(<<>>, T[<<>>])
    <3>1. <<>> \in Seq(S)
      OBVIOUS
    <3>. QED BY <1>3, <3>1, Zenon
  <2>2. Len(Reverse(<<>>)) = 0
    BY DEF Reverse
  <2>. QED BY <2>1, <2>2 DEF Gathered, Gathers
<1>5. ASSUME NEW ws \in Seq(S), NEW token \in S
      PROVE  T[<<token>> \o ws] = TermsFrom(token, T[ws], words, comma)
  <2>1. <<token>> \o ws \in Seq(S)
    BY ConsProperties
  <2>2. /\ Reverse(ws) \in Seq(S)
        /\ Reverse(<<token>> \o ws) = Append(Reverse(ws), token)
    BY ReverseCons
  <2>3. Value(ws, T[ws]) /\ Value(<<token>> \o ws, T[<<token>> \o ws])
    BY <1>3, <2>1, Zenon
  <2>4. /\ Gathered(T[ws], V, Reverse(ws), <<<<>>>>, join)
        /\ Gathered(T[<<token>> \o ws], V, Append(Reverse(ws), token), <<<<>>>>, join)
    BY <2>2, <2>3, Zenon
  <2>5. T[ws] \in V /\ T[<<token>> \o ws] = join[<<T[ws], token>>]
    <3>. DEFINE reversed == Reverse(ws)
    <3>. DEFINE v == T[ws]
    <3>. DEFINE w == T[<<token>> \o ws]
    <3>. DEFINE base == <<<<>>>>
    <3>1. /\ Gathered(v, V, reversed, base, join) /\ reversed \in Seq(S) /\ base \in V
          /\ Gathered(w, V, Append(reversed, token), base, join)
      BY <1>2, <2>2, <2>4
    <3>. HIDE DEF v, w, base, reversed
    <3>2. v \in V /\ w = join[<<v, token>>]
      BY ONLY <3>1, token \in S, GatheredMore
    <3>. QED BY <3>2 DEF v, w
  <2>. QED BY <1>1, <2>5
<1>6. ASSUME NEW ws \in Seq(S)
      PROVE  T[ws] = Ahead(ws, T[Tail(ws)], words, comma)
  <2>1. CASE ws = <<>>
    BY <1>4, <2>1 DEF Ahead
  <2>2. CASE ws # <<>>
    <3>1. Head(ws) \in S /\ Tail(ws) \in Seq(S) /\ ws = <<Head(ws)>> \o Tail(ws)
      BY <2>2, HeadTailProperties
    <3>2. T[ws] = TermsFrom(Head(ws), T[Tail(ws)], words, comma)
      BY <1>5, <3>1, Zenon
    <3>. QED BY <2>2, <3>2, Zenon DEF TermsFrom, Ahead
  <2>. QED BY <2>1, <2>2
<1>7. T = [ws \in Seq(S) |-> Ahead(ws, T[Tail(ws)], words, comma)]
  <2>1. T = [ws \in Seq(S) |-> T[ws]]
    BY DEF T
  <2>. QED BY <1>6, <2>1, Zenon
<1>. QED BY <1>7, Zenon DEF IsAhead

\* TermsAhead, wherever it is instantiated, returns the terms ahead.
LEMMA TermsAheadReads ==
  ASSUME NEW S, NEW words, NEW comma, NEW T,
         IsAhead(T, S, words, comma)
  PROVE  ReadsTerms(T, S, words, comma)
<1>. DEFINE V == Seq(Seq(S)) \ {<<>>}
<1>. DEFINE P == {ws \in Seq(S) : T[ws] \in V}
<1>. USE DEF IsAhead
<1>1. T[<<>>] = <<<<>>>>
  BY DEF Ahead
<1>2. ASSUME NEW token \in S, NEW ws \in Seq(S)
      PROVE  T[<<token>> \o ws] = TermsFrom(token, T[ws], words, comma)
  <2>1. /\ <<token>> \o ws \in Seq(S)
        /\ <<token>> \o ws # <<>>
        /\ Head(<<token>> \o ws) = token
        /\ Tail(<<token>> \o ws) = ws
    BY ConsProperties
  <2>2. \A w \in Seq(S) : T[w] = Ahead(w, T[Tail(w)], words, comma)
    OBVIOUS
  <2>. QED BY ONLY <2>1, <2>2, Zenon DEF TermsFrom, Ahead
<1>3. Seq(S) \subseteq P
  <2>1. <<>> \in P
    <3>1. <<<<>>>> \in V /\ <<>> \in Seq(S)
      OBVIOUS
    <3>. QED BY <1>1, <3>1
  <2>2. ASSUME NEW token \in S, NEW ws \in Seq(S), ws \in P
        PROVE  <<token>> \o ws \in P
    <3>1. T[ws] \in V
      BY <2>2
    <3>2. TermsFrom(token, T[ws], words, comma) \in V
      BY ONLY <3>1, token \in S, TermsFromTyped
    <3>. QED BY <1>2, <3>2, ConsProperties
  <2>. HIDE DEF P
  <2>. QED BY <2>1, <2>2, SequencesByCons
<1>4. T \in [Seq(S) -> V]
  BY <1>3
<1>. QED BY <1>1, <1>2, <1>4, Zenon DEF ReadsTerms

-----------------------------------------------------------------------------
\* Concatenation associates.
LEMMA Associative ==
  ASSUME NEW S
  PROVE  \A a, b, c \in Seq(S) : (a \o b) \o c = a \o (b \o c)
BY ConcatAssociative

\* Putting sequences together, in any way.  (The solvers are not shown that
\* these are sequences.)
Cat(a, b) == a \o b

Concats(V) ==
  /\ \A r, s \in V : Cat(r, s) \in V
  /\ \A r, s, t \in V : Cat(Cat(r, s), t) = Cat(r, Cat(s, t))

\* Sequences over S can be put together in any way.
LEMMA ConcatsSeq ==
  ASSUME NEW S
  PROVE  Concats(Seq(S))
BY ConcatTyped, ConcatAssociative DEF Concats, Cat

\* Three parts, grouped from the other end.
LEMMA RegroupTwo ==
  ASSUME NEW V, Concats(V), NEW a \in V, NEW b \in V, NEW c \in V
  PROVE  Cat(Cat(a, b), c) = Cat(a, Cat(b, c))
BY DEF Concats

\* A term ahead is read into the first of the terms that follow.
ReadsFirst(T, term, ws) == T[term \o ws] = <<term \o Head(T[ws])>> \o Tail(T[ws])

\* A term before a text is read as part of the first term of the whole.
LEMMA ReadsTerm ==
  ASSUME NEW S, NEW words, NEW comma, NEW T, ReadsTerms(T, S, words, comma),
         NEW ws \in Seq(S)
  PROVE  \A term \in Seq(S \ (words \cup {comma})) : ReadsFirst(T, term, ws)
<1>. DEFINE Plain == S \ (words \cup {comma})
<1>. DEFINE P == {term \in Seq(Plain) : T[term \o ws] = <<term \o Head(T[ws])>> \o Tail(T[ws])}
<1>1. /\ T[ws] \in Seq(Seq(S)) \ {<<>>}
      /\ \A token \in S, w \in Seq(S) : T[<<token>> \o w] = TermsFrom(token, T[w], words, comma)
  BY DEF ReadsTerms
<1>2. Head(T[ws]) \in Seq(S) /\ Tail(T[ws]) \in Seq(Seq(S)) /\ T[ws] = <<Head(T[ws])>> \o Tail(T[ws])
  BY <1>1, HeadTailProperties
<1>3. Seq(Plain) \subseteq Seq(S) /\ Plain \subseteq S
  BY SeqMonotonic
<1>4. <<>> \in P
  <2>1. <<>> \in Seq(Plain) /\ <<>> \o ws = ws /\ <<>> \o Head(T[ws]) = Head(T[ws])
    BY <1>2, ConcatEmptySeq
  <2>. QED BY <1>2, <2>1
<1>5. ASSUME NEW token \in Plain, NEW term \in Seq(Plain), term \in P
      PROVE  <<token>> \o term \in P
  <2>. DEFINE head == Head(T[ws])
  <2>. DEFINE tail == Tail(T[ws])
  <2>1. token \in S /\ term \in Seq(S) /\ <<token>> \in Seq(S) /\ <<token>> \o term \in Seq(Plain)
    BY <1>3, ConsProperties
  <2>2. (<<token>> \o term) \o ws = <<token>> \o (term \o ws) /\ term \o ws \in Seq(S)
    BY <2>1, ConcatProperties, ConcatAssociative
  <2>3. T[<<token>> \o (term \o ws)] = TermsFrom(token, T[term \o ws], words, comma)
    BY <1>1, <2>1, <2>2
  <2>4. T[term \o ws] = <<term \o head>> \o tail
    BY <1>5
  <2>5. TermsFrom(token, <<term \o head>> \o tail, words, comma) = <<<<token>> \o (term \o head)>> \o tail
    <3>1. token \notin words /\ token # comma
      OBVIOUS
    <3>2. term \o head \in Seq(S)
      BY <1>2, <2>1, ConcatProperties
    <3>3. Head(<<term \o head>> \o tail) = term \o head /\ Tail(<<term \o head>> \o tail) = tail
      <4>. DEFINE x == term \o head
      <4>1. x \in Seq(S) /\ tail \in Seq(Seq(S))
        BY <1>2, <3>2
      <4>. HIDE DEF x, tail
      <4>2. Head(<<x>> \o tail) = x /\ Tail(<<x>> \o tail) = tail
        BY ONLY <4>1, ConsProperties
      <4>. QED BY <4>2 DEF x
    <3>. HIDE DEF head, tail, Plain
    <3>. QED BY ONLY <3>1, <3>3, Zenon DEF TermsFrom
  <2>6. <<token>> \o (term \o head) = (<<token>> \o term) \o head
    <3>. DEFINE first == <<token>>
    <3>1. first \in Seq(S) /\ term \in Seq(S) /\ head \in Seq(S)
      BY <1>2, <2>1
    <3>. HIDE DEF first, head, Plain, P
    <3>2. Concats(Seq(S))
      BY ConcatsSeq
    <3>3. Cat(first, Cat(term, head)) = Cat(Cat(first, term), head)
      BY ONLY <3>1, <3>2 DEF Concats
    <3>. QED BY <3>3, Zenon DEF first, Cat
  <2>7. T[(<<token>> \o term) \o ws] = <<(<<token>> \o term) \o head>> \o tail
    BY <2>2, <2>3, <2>4, <2>5, <2>6
  <2>. QED BY <2>1, <2>7
<1>. HIDE DEF P
<1>6. Seq(Plain) \subseteq P
  BY <1>4, <1>5, SequencesByCons
<1>. QED BY <1>6 DEF P, ReadsFirst

\* Nothing of the last term is left.
Stops(T, ws) == Head(T[ws]) = <<>>

\* Lists of terms that a reader can tell apart.
TermsOver(S, words, comma) == Seq(Seq(S \ (words \cup {comma})) \ {<<>>})

ReadsAll(T, terms, ws) == T[JoinCsv(terms) \o ws] = terms \o Tail(T[ws])

\* A list of terms is read back term by term.
LEMMA ReadsJoined ==
  ASSUME NEW S, NEW words, NEW comma \in S \ words, NEW T, ReadsTerms(T, S, words, comma),
         Separator = <<comma>>
  PROVE  \A terms \in TermsOver(S, words, comma), ws \in Seq(S) :
           Stops(T, ws) /\ terms # <<>> => ReadsAll(T, terms, ws)
<1>. DEFINE Plain == S \ (words \cup {comma})
<1>. DEFINE Term == Seq(Plain) \ {<<>>}
<1>. DEFINE Good(terms) ==
       \A ws \in Seq(S) : Stops(T, ws) /\ terms # <<>> => T[JoinCsv(terms) \o ws] = terms \o Tail(T[ws])
<1>. DEFINE P == {terms \in Seq(Term) : Good(terms)}
<1>0. \A a, b, c \in Seq(Seq(S)) : (a \o b) \o c = a \o (b \o c)
  BY Associative
<1>1. /\ \A ws \in Seq(S) : T[ws] \in Seq(Seq(S)) \ {<<>>}
      /\ \A ws \in Seq(S) : Tail(T[ws]) \in Seq(Seq(S))
      /\ \A w \in Seq(S) : T[Separator \o w] = <<<<>>>> \o T[w]
  <2>1. ASSUME NEW w \in Seq(S) PROVE T[Separator \o w] = <<<<>>>> \o T[w]
    <3>1. comma \in S /\ comma \notin words
      OBVIOUS
    <3>2. T[<<comma>> \o w] = TermsFrom(comma, T[w], words, comma)
      BY DEF ReadsTerms
    <3>3. TermsFrom(comma, T[w], words, comma) = <<<<>>>> \o T[w]
      BY <3>1, Zenon DEF TermsFrom
    <3>. QED BY <3>2, <3>3
  <2>2. \A ws \in Seq(S) : T[ws] \in Seq(Seq(S)) \ {<<>>}
    BY DEF ReadsTerms
  <2>3. \A ws \in Seq(S) : Tail(T[ws]) \in Seq(Seq(S))
    BY <2>2, HeadTailProperties
  <2>. QED BY <2>1, <2>2, <2>3
<1>2. /\ Seq(Plain) \subseteq Seq(S) /\ Term \subseteq Seq(S)
      /\ Seq(Term) \subseteq Seq(Seq(S)) /\ Separator \in Seq(S)
  BY SeqMonotonic
<1>3. <<>> \in P
  OBVIOUS
<1>4. ASSUME NEW terms \in Seq(Term), NEW term \in Term, terms \in P
      PROVE  Append(terms, term) \in P
  <2>1. SUFFICES ASSUME NEW ws \in Seq(S), Stops(T, ws)
                 PROVE  T[JoinCsv(Append(terms, term)) \o ws] = Append(terms, term) \o Tail(T[ws])
    BY AppendProperties
  <2>. DEFINE tail == Tail(T[ws])
  <2>. DEFINE text == JoinCsv(terms)
  <2>2. /\ text \in Seq(S) /\ term \in Seq(S) /\ terms \in Seq(Seq(S)) /\ tail \in Seq(Seq(S))
        /\ JoinCsv(Append(terms, term)) = JoinedCsv(text, term)
    BY <1>1, <1>2, JoinCsvUnfolds
  <2>3. T[term \o ws] = <<term>> \o tail
    <3>1. T[term \o ws] = <<term \o Head(T[ws])>> \o tail
      <4>1. ReadsFirst(T, term, ws)
        BY ReadsTerm
      <4>. QED BY <4>1 DEF ReadsFirst
    <3>2. term \o Head(T[ws]) = term
      BY <2>1, <2>2, ConcatEmptySeq DEF Stops
    <3>. QED BY <3>1, <3>2
  <2>4. term \o ws \in Seq(S)
    BY <2>2, ConcatProperties
  <2>5. Append(terms, term) \o tail = terms \o (<<term>> \o tail)
    <3>1. Append(terms, term) = terms \o <<term>> /\ <<term>> \in Seq(Seq(S))
      BY <2>2, AppendIsConcat
    <3>2. (terms \o <<term>>) \o tail = terms \o (<<term>> \o tail)
      <4>. DEFINE one == <<term>>
      <4>. HIDE DEF tail, one
      <4>1. (terms \o one) \o tail = terms \o (one \o tail)
        BY <2>2, <3>1, <1>0 DEF one
      <4>. QED BY <4>1 DEF one
    <3>. QED BY <3>1, <3>2
  <2>6. text = <<>> <=> terms = <<>>
    <3>1. Plain \subseteq S
      OBVIOUS
    <3>2. terms \in Seq(Seq(S) \ {<<>>})
      BY <1>2, SeqMonotonic
    <3>. QED BY <1>2, <3>2, JoinCsvEmpty
  <2>7. CASE terms = <<>>
    <3>1. JoinedCsv(text, term) = (<<>> \o <<>>) \o term
      BY <2>6, <2>7, Zenon DEF JoinedCsv, IsEmpty
    <3>2. (<<>> \o <<>>) \o term = term
      BY <2>2, ConcatEmptySeq
    <3>3. T[JoinedCsv(text, term) \o ws] = <<term>> \o tail
      BY <2>3, <3>1, <3>2, Zenon
    <3>4. Append(terms, term) \o tail = <<term>> \o tail
      BY <2>7
    <3>. QED BY <2>2, <3>3, <3>4
  <2>8. CASE terms # <<>>
    <3>1. JoinedCsv(text, term) = (text \o Separator) \o term
      BY <2>6, <2>8, Zenon DEF JoinedCsv, IsEmpty, Separator
    <3>2. ((text \o Separator) \o term) \o ws = text \o (Separator \o (term \o ws))
      <4>1. text \o Separator \in Seq(S)
        BY <1>2, <2>2, ConcatTyped
      <4>2. ((text \o Separator) \o term) \o ws = (text \o Separator) \o (term \o ws)
        <5>. DEFINE laid == text \o Separator
        <5>. HIDE DEF laid
        <5>1. Concats(Seq(S)) /\ laid \in Seq(S) /\ term \in Seq(S)
          BY <2>2, <4>1, ConcatsSeq DEF laid
        <5>2. Cat(Cat(laid, term), ws) = Cat(laid, Cat(term, ws))
          BY <5>1 DEF Concats
        <5>. QED BY <5>2, Zenon DEF laid, Cat
      <4>3. (text \o Separator) \o (term \o ws) = text \o (Separator \o (term \o ws))
        <5>. DEFINE rest == term \o ws
        <5>. HIDE DEF text, rest
        <5>1. text \in Seq(S) /\ Separator \in Seq(S) /\ rest \in Seq(S)
          BY <1>2, <2>2, <2>4 DEF rest
        <5>2. Concats(Seq(S))
          BY ConcatsSeq
        <5>3. Cat(Cat(text, Separator), rest) = Cat(text, Cat(Separator, rest))
          BY ONLY <5>1, <5>2 DEF Concats
        <5>. QED BY <5>3, Zenon DEF rest, Cat
      <4>. QED BY <4>2, <4>3, Zenon
    <3>3. T[Separator \o (term \o ws)] = <<<<>>>> \o (<<term>> \o tail) /\ Separator \o (term \o ws) \in Seq(S)
      BY <1>1, <1>2, <2>3, <2>4, ConcatTyped
    <3>4. /\ Head(<<<<>>>> \o (<<term>> \o tail)) = <<>>
          /\ Tail(<<<<>>>> \o (<<term>> \o tail)) = <<term>> \o tail
      <4>1. <<>> \in Seq(S) /\ <<term>> \o tail \in Seq(Seq(S))
        BY <2>2, ConsProperties
      <4>. QED BY <4>1, ConsProperties
    <3>5. T[text \o (Separator \o (term \o ws))] = terms \o (<<term>> \o tail)
      BY <1>4, <2>8, <3>3, <3>4 DEF Stops
    <3>. QED BY <2>2, <2>5, <3>1, <3>2, <3>5
  <2>. QED BY <2>7, <2>8
<1>. HIDE DEF P
<1>5. Seq(Term) \subseteq P
  BY <1>3, <1>4, SequencesByAppend
<1>. QED BY <1>5 DEF P, TermsOver, ReadsAll

-----------------------------------------------------------------------------
\* What occurs in a text, by the parts of the text.
LEMMA ToSetConcat ==
  ASSUME NEW S
  PROVE  /\ ToSet(<<>>) = {}
         /\ \A x : ToSet(<<x>>) = {x}
         /\ \A a, b \in Seq(S) : ToSet(a \o b) = ToSet(a) \cup ToSet(b)
         /\ \A a \in Seq(S) : ToSet(a) \subseteq S
<1>1. ToSet(<<>>) = {} /\ \A x : ToSet(<<x>>) = {x}
  BY DEF ToSet
<1>2. ASSUME NEW a \in Seq(S), NEW b \in Seq(S)
      PROVE  ToSet(a \o b) = ToSet(a) \cup ToSet(b)
  <2>1. /\ Len(a) \in Nat /\ Len(b) \in Nat
        /\ DOMAIN a = 1..Len(a) /\ DOMAIN b = 1..Len(b)
        /\ DOMAIN (a \o b) = 1 .. Len(a) + Len(b)
        /\ \A i \in 1..Len(a) : (a \o b)[i] = a[i]
        /\ \A i \in 1..Len(b) : (a \o b)[Len(a) + i] = b[i]
    BY LenProperties, ConcatProperties
  <2>2. \A i \in 1 .. Len(a) + Len(b) : i \in 1..Len(a) \/ \E j \in 1..Len(b) : i = Len(a) + j
    <3>1. TAKE i \in 1 .. Len(a) + Len(b)
    <3>2. CASE i > Len(a)
      <4>1. i - Len(a) \in 1..Len(b) /\ i = Len(a) + (i - Len(a))
        BY <2>1, <3>2
      <4>. QED BY <4>1
    <3>. QED BY <2>1, <3>2
  <2>3. /\ \A i \in 1..Len(a) : i \in 1 .. Len(a) + Len(b)
        /\ \A i \in 1..Len(b) : Len(a) + i \in 1 .. Len(a) + Len(b)
    BY <2>1
  <2>4. ToSet(a \o b) \subseteq ToSet(a) \cup ToSet(b)
    <3>1. ASSUME NEW i \in 1 .. Len(a) + Len(b)
          PROVE  (a \o b)[i] \in ToSet(a) \cup ToSet(b)
      <4>1. CASE i \in 1..Len(a)
        BY <2>1, <4>1 DEF ToSet
      <4>2. ASSUME NEW j \in 1..Len(b), i = Len(a) + j
            PROVE  (a \o b)[i] \in ToSet(b)
        BY <2>1, <4>2 DEF ToSet
      <4>. QED BY <2>2, <4>1, <4>2
    <3>. QED BY <2>1, <3>1 DEF ToSet
  <2>5. ToSet(a) \subseteq ToSet(a \o b) /\ ToSet(b) \subseteq ToSet(a \o b)
    BY <2>1, <2>3 DEF ToSet
  <2>. QED BY <2>4, <2>5
<1>3. \A a \in Seq(S) : ToSet(a) \subseteq S
  BY ElementOfSeq DEF ToSet
<1>. QED BY <1>1, <1>2, <1>3

\* Where a word of a text comes first.
LEMMA FirstOccurrence ==
  ASSUME NEW S, NEW word
  PROVE  \A ws \in Seq(S) : word \in ToSet(ws) =>
           \E a, b \in Seq(S) : ws = a \o (<<word>> \o b) /\ word \notin ToSet(a)
<1>. DEFINE Good(ws) == word \in ToSet(ws) =>
       \E a, b \in Seq(S) : ws = a \o (<<word>> \o b) /\ word \notin ToSet(a)
<1>. DEFINE P == {ws \in Seq(S) : Good(ws)}
<1>1. <<>> \in P
  BY ToSetConcat
<1>2. ASSUME NEW x \in S, NEW ws \in Seq(S), ws \in P PROVE <<x>> \o ws \in P
  <2>1. <<x>> \o ws \in Seq(S) /\ <<x>> \in Seq(S)
    BY ConsProperties
  <2>0. ToSet(<<x>>) = {x} /\ \A a, b \in Seq(S) : ToSet(a \o b) = ToSet(a) \cup ToSet(b)
    BY ToSetConcat
  <2>2. CASE x = word
    <3>1. <<>> \in Seq(S) /\ <<>> \o (<<word>> \o ws) = <<x>> \o ws /\ word \notin ToSet(<<>>)
      BY <2>1, <2>2, ToSetConcat, ConcatEmptySeq
    <3>. QED BY <2>1, <3>1
  <2>3. CASE x # word
    <3>1. SUFFICES ASSUME word \in ToSet(<<x>> \o ws)
                   PROVE  \E a, b \in Seq(S) : <<x>> \o ws = a \o (<<word>> \o b) /\ word \notin ToSet(a)
      BY <2>1
    <3>2. ToSet(<<x>> \o ws) = {x} \cup ToSet(ws)
      BY <2>0, <2>1
    <3>3. PICK a \in Seq(S), b \in Seq(S) : ws = a \o (<<word>> \o b) /\ word \notin ToSet(a)
      BY <1>2, <2>3, <3>1, <3>2
    <3>4. word \in S
      <4>1. ToSet(<<x>> \o ws) \subseteq S
        BY <2>1, ToSetConcat
      <4>. QED BY <3>1, <4>1
    <3>5. <<x>> \o a \in Seq(S) /\ ToSet(<<x>> \o a) = {x} \cup ToSet(a)
      <4>1. <<x>> \o a \in Seq(S)
        BY ConsProperties
      <4>. QED BY <2>0, <2>1, <4>1
    <3>6. <<x>> \o ws = (<<x>> \o a) \o (<<word>> \o b)
      <4>. DEFINE rest == <<word>> \o b
      <4>1. rest \in Seq(S)
        BY <3>4, ConsProperties
      <4>. DEFINE first == <<x>>
      <4>2. first \in Seq(S) /\ a \in Seq(S)
        BY <2>1
      <4>. HIDE DEF first, rest, P, Good
      <4>3. Concats(Seq(S))
        BY ConcatsSeq
      <4>4. Cat(first, Cat(a, rest)) = Cat(Cat(first, a), rest)
        BY ONLY <4>1, <4>2, <4>3 DEF Concats
      <4>. QED BY <3>3, <4>4, Zenon DEF first, rest, Cat
    <3>7. word \notin ToSet(<<x>> \o a)
      BY <2>3, <3>3, <3>5
    <3>. QED BY <3>5, <3>6, <3>7
  <2>. QED BY <2>2, <2>3
<1>. HIDE DEF P
<1>3. Seq(S) \subseteq P
  BY <1>1, <1>2, SequencesByCons
<1>. QED BY <1>3 DEF P

\* ReadClause of a reader whose terms ahead are T.
TermsOf(terms) == IF terms = <<<<>>>> THEN <<>> ELSE terms

ReadFrom(T, ws, keyword) ==
  IF \A k \in DOMAIN ws : ws[k] # keyword THEN <<>>
  ELSE LET at == CHOOSE k \in DOMAIN ws : /\ ws[k] = keyword
                                         /\ \A j \in DOMAIN ws : j < k => ws[j] # keyword
       IN  <<TermsOf(T[SubSeq(ws, at + 1, Len(ws))])>>

\* A keyword that does not occur has no clause.
LEMMA ReadsNone ==
  ASSUME NEW S, NEW T, NEW ws \in Seq(S), NEW keyword, keyword \notin ToSet(ws)
  PROVE  ReadFrom(T, ws, keyword) = <<>>
<1>1. \A k \in DOMAIN ws : ws[k] # keyword
  BY DEF ToSet
<1>. QED BY <1>1, Zenon DEF ReadFrom

\* A clause is read from the first occurrence of its keyword.
LEMMA ReadsFrom ==
  ASSUME NEW S, NEW T, NEW a \in Seq(S), NEW b \in Seq(S), NEW keyword \in S,
         keyword \notin ToSet(a)
  PROVE  ReadFrom(T, a \o (<<keyword>> \o b), keyword) = <<TermsOf(T[b])>>
<1>. DEFINE ws == a \o (<<keyword>> \o b)
<1>. DEFINE n == Len(a)
<1>1. <<keyword>> \o b \in Seq(S) /\ ws \in Seq(S) /\ n \in Nat /\ Len(b) \in Nat
  BY ConsProperties, ConcatTyped, LenProperties
<1>2. /\ Len(ws) = n + 1 + Len(b)
      /\ \A i \in 1..n : ws[i] = a[i]
      /\ ws[n+1] = keyword
      /\ \A i \in 1..Len(b) : ws[n+1+i] = b[i]
  <2>. DEFINE rest == <<keyword>> \o b
  <2>1. /\ Len(rest) = 1 + Len(b) /\ rest[1] = keyword /\ rest \in Seq(S)
        /\ \A i \in 1..Len(b) : rest[1+i] = b[i]
    <3>1. <<keyword>> \in Seq(S) /\ Len(<<keyword>>) = 1 /\ <<keyword>>[1] = keyword
      OBVIOUS
    <3>. QED BY <3>1, <1>1, ConcatProperties
  <2>. HIDE DEF rest
  <2>2. /\ Len(a \o rest) = n + Len(rest)
        /\ \A i \in 1..n : (a \o rest)[i] = a[i]
        /\ \A i \in 1..Len(rest) : (a \o rest)[n+i] = rest[i]
    <3>1. \A s, t \in Seq(S) :
            /\ Len(s \o t) = Len(s) + Len(t)
            /\ \A i \in 1..Len(s) : (s \o t)[i] = s[i]
            /\ \A i \in 1..Len(t) : (s \o t)[Len(s)+i] = t[i]
      BY ConcatProperties
    <3>. QED BY <2>1, <3>1
  <2>3. 1 \in 1..Len(rest) /\ \A i \in 1..Len(b) : 1+i \in 1..Len(rest) /\ n+(1+i) = n+1+i
    BY <1>1, <2>1
  <2>. QED BY <1>1, <2>1, <2>2, <2>3 DEF rest
<1>. HIDE DEF ws
<1>. DEFINE First(k) == ws[k] = keyword /\ \A j \in DOMAIN ws : j < k => ws[j] # keyword
<1>3. n + 1 \in DOMAIN ws /\ First(n + 1) /\ \A k \in DOMAIN ws : First(k) => k = n + 1
  <2>1. DOMAIN ws = 1..n+1+Len(b)
    BY <1>1, <1>2, LenProperties
  <2>2. \A k \in 1..n : a[k] # keyword
    BY LenProperties DEF ToSet
  <2>3. n + 1 \in DOMAIN ws
    BY <1>1, <2>1
  <2>4. \A j \in DOMAIN ws : j < n + 1 => ws[j] # keyword
    <3>1. \A j \in DOMAIN ws : j < n + 1 => j \in 1..n
      BY <1>1, <2>1
    <3>. QED BY <1>2, <2>2, <3>1
  <2>5. \A k \in DOMAIN ws : First(k) => ~(n + 1 < k) /\ ~(k < n + 1)
    BY <1>2, <2>3, <2>4
  <2>. QED BY <1>1, <1>2, <2>1, <2>3, <2>4, <2>5
<1>4. SubSeq(ws, n + 1 + 1, Len(ws)) = b
  <2>1. n + 1 + 1 \in 1 .. Len(ws) + 1
    BY <1>1, <1>2
  <2>2. /\ SubSeq(ws, n + 1 + 1, Len(ws)) \in Seq(S)
        /\ Len(SubSeq(ws, n + 1 + 1, Len(ws))) = Len(b)
        /\ \A i \in 1..Len(b) : SubSeq(ws, n + 1 + 1, Len(ws))[i] = ws[n + 1 + i]
    BY <1>1, <1>2
  <2>. QED BY <1>2, <2>2, SeqEqual
<1>5. (CHOOSE k \in DOMAIN ws : First(k)) = n + 1
  <2>. HIDE DEF First
  <2>. QED BY <1>3
<1>6. ~(\A k \in DOMAIN ws : ws[k] # keyword)
  BY <1>3
<1>7. ReadFrom(T, ws, keyword) = <<TermsOf(T[SubSeq(ws, (CHOOSE k \in DOMAIN ws : First(k)) + 1, Len(ws))])>>
  BY <1>6, Zenon DEF ReadFrom
<1>. QED BY <1>4, <1>5, <1>7, Zenon DEF ws

\* The clause that a text begins with.
LEMMA ReadsAhead ==
  ASSUME NEW S, NEW T, NEW b \in Seq(S), NEW keyword \in S
  PROVE  ReadFrom(T, <<keyword>> \o b, keyword) = <<TermsOf(T[b])>>
<1>. DEFINE ws == <<keyword>> \o b
<1>1. ws \in Seq(S)
  BY ConsProperties
<1>2. <<>> \in Seq(S) /\ keyword \notin ToSet(<<>>)
  BY ToSetConcat
<1>3. ReadFrom(T, <<>> \o ws, keyword) = <<TermsOf(T[b])>>
  BY <1>2, ReadsFrom
<1>. HIDE DEF ws
<1>4. <<>> \o ws = ws
  BY <1>1, ConcatEmptySeq
<1>. QED BY <1>3, <1>4 DEF ws

\* What stands before a keyword is skipped.
LEMMA ReadsBeyond ==
  ASSUME NEW S, NEW T, NEW a \in Seq(S), NEW ws \in Seq(S), NEW keyword,
         keyword \notin ToSet(a)
  PROVE  ReadFrom(T, a \o ws, keyword) = ReadFrom(T, ws, keyword)
<1>1. a \o ws \in Seq(S) /\ ToSet(a \o ws) = ToSet(a) \cup ToSet(ws)
  BY ConcatTyped, ToSetConcat
<1>2. CASE keyword \notin ToSet(ws)
  BY <1>1, <1>2, ReadsNone
<1>3. CASE keyword \in ToSet(ws)
  <2>1. PICK before \in Seq(S), after \in Seq(S) :
          ws = before \o (<<keyword>> \o after) /\ keyword \notin ToSet(before)
    BY <1>3, FirstOccurrence
  <2>2. keyword \in S
    <3>1. ToSet(ws) \subseteq S
      BY ToSetConcat
    <3>. QED BY <1>3, <3>1
  <2>. DEFINE rest == <<keyword>> \o after
  <2>3. rest \in Seq(S) /\ a \o before \in Seq(S)
    BY <2>2, ConsProperties, ConcatTyped
  <2>. HIDE DEF rest
  <2>4. a \o (before \o rest) = (a \o before) \o rest
    <3>1. Concats(Seq(S))
      BY ConcatsSeq
    <3>2. Cat(a, Cat(before, rest)) = Cat(Cat(a, before), rest)
      BY <2>3, <3>1 DEF Concats
    <3>. QED BY <3>2, Zenon DEF Cat
  <2>5. keyword \notin ToSet(a \o before)
    <3>1. ToSet(a \o before) = ToSet(a) \cup ToSet(before)
      BY ToSetConcat
    <3>. QED BY <2>1, <3>1
  <2>6. ReadFrom(T, before \o rest, keyword) = <<TermsOf(T[after])>>
    BY <2>1, <2>2, ReadsFrom DEF rest
  <2>7. ReadFrom(T, (a \o before) \o rest, keyword) = <<TermsOf(T[after])>>
    BY <2>2, <2>3, <2>5, ReadsFrom DEF rest
  <2>. QED BY <2>1, <2>4, <2>6, <2>7 DEF rest
<1>. QED BY <1>2, <1>3

-----------------------------------------------------------------------------
\* A keyword and the list after it, if there is one.
Written(keyword, clause) ==
  IF clause = <<>> THEN <<>> ELSE <<keyword>> \o JoinCsv(clause[1])

InOrder(rank, ws) ==
  \A i, j \in DOMAIN ws :
    i < j /\ ws[i] \in DOMAIN rank /\ ws[j] \in DOMAIN rank => rank[ws[i]] < rank[ws[j]]

\* A keyword of a lower rank may be put before a text.
LEMMA InOrderCons ==
  ASSUME NEW S, NEW ws \in Seq(S), NEW rank, InOrder(rank, ws), NEW word \in S,
         \A w \in DOMAIN rank : w \in ToSet(ws) => rank[word] < rank[w]
  PROVE  InOrder(rank, <<word>> \o ws)
<1>. DEFINE new == <<word>> \o ws
<1>. DEFINE n == Len(ws)
<1>1. /\ n \in Nat /\ DOMAIN ws = 1..n /\ DOMAIN new = 1..n+1
      /\ new[1] = word /\ \A i \in 1..n : new[1+i] = ws[i]
  <2>1. <<word>> \in Seq(S) /\ Len(<<word>>) = 1 /\ <<word>>[1] = word
    OBVIOUS
  <2>. QED BY <2>1, ConcatProperties, LenProperties
<1>. HIDE DEF new, n
<1>2. ASSUME NEW i \in 1..n+1, NEW j \in 1..n+1,
             i < j, new[i] \in DOMAIN rank, new[j] \in DOMAIN rank
      PROVE  rank[new[i]] < rank[new[j]]
  <2>1. j-1 \in 1..n /\ new[j] = ws[j-1]
    <3>1. j-1 \in 1..n /\ 1 + (j-1) = j
      BY <1>1, <1>2
    <3>. QED BY <1>1, <3>1
  <2>2. CASE i = 1
    <3>1. ws[j-1] \in ToSet(ws)
      BY <1>1, <2>1 DEF ToSet
    <3>. QED BY <1>1, <1>2, <2>1, <2>2, <3>1
  <2>3. CASE i # 1
    <3>1. i-1 \in 1..n /\ 1 + (i-1) = i /\ i-1 < j-1
      BY <1>1, <1>2, <2>3
    <3>2. new[i] = ws[i-1]
      BY <1>1, <3>1
    <3>. QED BY <1>1, <1>2, <2>1, <3>1, <3>2 DEF InOrder
  <2>. QED BY <2>2, <2>3
<1>. QED BY <1>1, <1>2 DEF InOrder, new

\* What holds no keyword may be put before a text.
LEMMA InOrderBeyond ==
  ASSUME NEW S, NEW ws \in Seq(S), NEW rank, InOrder(rank, ws), NEW a \in Seq(S),
         ToSet(a) \cap DOMAIN rank = {}
  PROVE  InOrder(rank, a \o ws)
<1>. DEFINE new == a \o ws
<1>. DEFINE n == Len(ws)
<1>. DEFINE m == Len(a)
<1>1. /\ n \in Nat /\ m \in Nat /\ DOMAIN ws = 1..n /\ DOMAIN a = 1..m /\ DOMAIN new = 1..m+n
      /\ \A i \in 1..m : new[i] = a[i]
      /\ \A i \in 1..n : new[m+i] = ws[i]
  BY ConcatProperties, LenProperties
<1>. HIDE DEF new, n, m
<1>2. ASSUME NEW i \in 1..m+n, new[i] \in DOMAIN rank
      PROVE  i-m \in 1..n /\ new[i] = ws[i-m]
  <2>1. i \notin 1..m
    <3>1. \A k \in 1..m : a[k] \notin DOMAIN rank
      BY <1>1 DEF ToSet
    <3>. QED BY <1>1, <1>2, <3>1
  <2>2. i-m \in 1..n /\ m+(i-m) = i
    BY <1>1, <2>1
  <2>. QED BY <1>1, <2>2
<1>3. ASSUME NEW i \in 1..m+n, NEW j \in 1..m+n,
             i < j, new[i] \in DOMAIN rank, new[j] \in DOMAIN rank
      PROVE  rank[new[i]] < rank[new[j]]
  <2>1. i-m < j-m
    BY <1>1, <1>3
  <2>2. /\ i-m \in DOMAIN ws /\ new[i] = ws[i-m]
        /\ j-m \in DOMAIN ws /\ new[j] = ws[j-m]
    BY <1>1, <1>2, <1>3
  <2>3. ws[i-m] \in DOMAIN rank /\ ws[j-m] \in DOMAIN rank
    BY <1>3, <2>2
  <2>4. rank[ws[i-m]] < rank[ws[j-m]]
    BY <2>1, <2>2, <2>3, Zenon DEF InOrder
  <2>. QED BY <2>2, <2>4, Zenon
<1>. QED BY <1>1, <1>3 DEF InOrder, new

\* ws is the part of a statement whose clauses rank above k, and says what said
\* has for them.
Says(T, S, rank, said, k, ws) ==
  /\ ws \in Seq(S)
  /\ T[ws] = <<<<>>>>
  /\ \A w \in DOMAIN rank : w \in ToSet(ws) <=> rank[w] > k /\ said[w] # <<>>
  /\ \A w \in DOMAIN rank : rank[w] > k => ReadFrom(T, ws, w) = said[w]
  /\ InOrder(rank, ws)

\* No text says nothing.
LEMMA SaysNothing ==
  ASSUME NEW S, NEW words, NEW comma, NEW T, ReadsTerms(T, S, words, comma),
         NEW rank \in [words -> Nat], NEW k \in Nat, \A w \in words : rank[w] <= k, NEW said
  PROVE  Says(T, S, rank, said, k, <<>>)
<1>1. <<>> \in Seq(S) /\ T[<<>>] = <<<<>>>>
  BY DEF ReadsTerms
<1>2. DOMAIN rank = words /\ \A w \in words : ~(rank[w] > k)
  OBVIOUS
<1>3. ToSet(<<>>) = {} /\ InOrder(rank, <<>>)
  BY ToSetConcat DEF InOrder
<1>. QED BY <1>1, <1>2, <1>3 DEF Says

\* A clause before the others.
LEMMA SaysMore ==
  ASSUME NEW S, NEW words, words \subseteq S, NEW comma \in S \ words, Separator = <<comma>>,
         NEW T, ReadsTerms(T, S, words, comma),
         NEW rank \in [words -> Nat], \A v, w \in words : rank[v] = rank[w] => v = w,
         NEW said, NEW keyword \in words,
         NEW ws, Says(T, S, rank, said, rank[keyword], ws),
         said[keyword] = <<>> \/ \E terms \in TermsOver(S, words, comma) : said[keyword] = <<terms>>
  PROVE  Says(T, S, rank, said, rank[keyword] - 1, Written(keyword, said[keyword]) \o ws)
<1>. DEFINE k == rank[keyword]
<1>1. /\ ws \in Seq(S) /\ T[ws] = <<<<>>>>
      /\ \A w \in words : w \in ToSet(ws) <=> rank[w] > k /\ said[w] # <<>>
      /\ \A w \in words : rank[w] > k => ReadFrom(T, ws, w) = said[w]
      /\ InOrder(rank, ws)
  BY DEF Says
<1>2. \A w \in words : /\ rank[w] > k-1 <=> w = keyword \/ rank[w] > k
                       /\ w = keyword => ~(rank[w] > k)
  BY rank \in [words -> Nat], \A v, w \in words : rank[v] = rank[w] => v = w
<1>3. DOMAIN rank = words /\ keyword \in S /\ keyword \notin ToSet(ws)
  BY <1>1, <1>2
<1>4. CASE said[keyword] = <<>>
  <2>1. Written(keyword, said[keyword]) \o ws = ws
    BY <1>1, <1>4, ConcatEmptySeq DEF Written
  <2>2. ReadFrom(T, ws, keyword) = <<>>
    BY <1>1, <1>3, ReadsNone
  <2>3. \A w \in words : w \in ToSet(ws) <=> rank[w] > k-1 /\ said[w] # <<>>
    BY <1>1, <1>2, <1>4
  <2>4. \A w \in words : rank[w] > k-1 => ReadFrom(T, ws, w) = said[w]
    BY <1>1, <1>2, <1>4, <2>2
  <2>. QED BY <1>1, <1>3, <2>1, <2>3, <2>4 DEF Says
<1>5. ASSUME NEW terms \in TermsOver(S, words, comma), said[keyword] = <<terms>>
      PROVE  Says(T, S, rank, said, k-1, Written(keyword, said[keyword]) \o ws)
  <2>. DEFINE Term == Seq(S \ (words \cup {comma})) \ {<<>>}
  <2>. DEFINE body == JoinCsv(terms)
  <2>. DEFINE tail == body \o ws
  <2>1. terms \in Seq(Term)
    BY DEF TermsOver
  <2>2. body \in Seq(S \ words)
    <3>1. terms \in Seq(Seq(S \ words))
      <4>1. Term \subseteq Seq(S \ words)
        BY SeqMonotonic
      <4>. QED BY <2>1, <4>1, SeqMonotonic
    <3>2. Separator \in Seq(S \ words)
      OBVIOUS
    <3>. QED BY <3>1, <3>2, JoinCsvUnfolds
  <2>3. body \in Seq(S) /\ ToSet(body) \cap words = {}
    <3>1. ToSet(body) \subseteq S \ words
      BY <2>2, ToSetConcat
    <3>2. Seq(S \ words) \subseteq Seq(S)
      BY SeqMonotonic
    <3>. QED BY <2>2, <3>1, <3>2
  <2>4. tail \in Seq(S) /\ ToSet(tail) = ToSet(body) \cup ToSet(ws)
    BY <1>1, <2>3, ConcatTyped, ToSetConcat
  <2>5. TermsOf(T[tail]) = terms
    <3>1. Head(<<<<>>>>) = <<>> /\ Tail(<<<<>>>>) = <<>>
      OBVIOUS
    <3>2. CASE terms = <<>>
      <4>1. tail = ws
        BY <1>1, <3>2, JoinCsvNone, ConcatEmptySeq
      <4>. QED BY <1>1, <3>2, <4>1 DEF TermsOf
    <3>3. CASE terms # <<>>
      <4>1. T[tail] = terms \o Tail(T[ws])
        <5>1. Stops(T, ws)
          BY <1>1, <3>1 DEF Stops
        <5>2. ReadsAll(T, terms, ws)
          BY <1>1, <3>3, <5>1, ReadsJoined
        <5>. QED BY <5>2 DEF ReadsAll
      <4>2. terms \o <<>> = terms
        BY <2>1, ConcatEmptySeq
      <4>3. terms # <<<<>>>>
        <5>1. Len(<<<<>>>>) = 1 /\ <<<<>>>>[1] = <<>> /\ 1 \in 1..1
          OBVIOUS
        <5>2. \A i \in 1..Len(terms) : terms[i] # <<>>
          BY <2>1, ElementOfSeq
        <5>. QED BY <5>1, <5>2
      <4>. QED BY <1>1, <3>1, <4>1, <4>2, <4>3 DEF TermsOf
    <3>. QED BY <3>2, <3>3
  <2>. DEFINE new == <<keyword>> \o tail
  <2>6. Written(keyword, said[keyword]) \o ws = new
    <3>1. Written(keyword, said[keyword]) = <<keyword>> \o body
      BY <1>5 DEF Written
    <3>2. <<keyword>> \in Seq(S)
      BY <1>3
    <3>3. (<<keyword>> \o body) \o ws = <<keyword>> \o tail
      <4>. DEFINE word == <<keyword>>
      <4>. HIDE DEF word, body
      <4>1. Concats(Seq(S)) /\ word \in Seq(S) /\ body \in Seq(S) /\ ws \in Seq(S)
        BY <1>1, <2>3, <3>2, ConcatsSeq DEF word
      <4>2. Cat(Cat(word, body), ws) = Cat(word, Cat(body, ws))
        BY ONLY <4>1 DEF Concats
      <4>. QED BY <4>2, Zenon DEF word, tail, Cat
    <3>. QED BY <3>1, <3>3
  <2>. HIDE DEF body, tail
  <2>7. new \in Seq(S) /\ T[new] = <<<<>>>>
    <3>1. T[new] = TermsFrom(keyword, T[tail], words, comma)
      BY <1>3, <2>4 DEF ReadsTerms
    <3>. QED BY <1>3, <2>4, <3>1, ConsProperties DEF TermsFrom
  <2>8. <<keyword>> \in Seq(S) /\ ToSet(<<keyword>>) = {keyword} /\ ToSet(new) = {keyword} \cup ToSet(tail)
    <3>1. <<keyword>> \in Seq(S)
      BY <1>3
    <3>2. ToSet(<<keyword>>) = {keyword}
      BY ToSetConcat
    <3>3. ToSet(new) = ToSet(<<keyword>>) \cup ToSet(tail)
      <4>1. \A a, b \in Seq(S) : ToSet(a \o b) = ToSet(a) \cup ToSet(b)
        BY ToSetConcat
      <4>. QED BY <2>4, <3>1, <4>1
    <3>. QED BY <3>1, <3>2, <3>3
  <2>9. \A w \in words : w \in ToSet(new) <=> rank[w] > k-1 /\ said[w] # <<>>
    <3>1. \A w \in words : w \in ToSet(new) <=> w = keyword \/ w \in ToSet(ws)
      BY <2>3, <2>4, <2>8
    <3>2. said[keyword] # <<>>
      BY <1>5
    <3>. HIDE DEF new, k
    <3>. QED BY <1>1, <1>2, <3>1, <3>2
  <2>10. ASSUME NEW w \in words, rank[w] > k-1 PROVE ReadFrom(T, new, w) = said[w]
    <3>1. CASE w = keyword
      <4>1. ReadFrom(T, new, keyword) = <<TermsOf(T[tail])>>
        <5>1. keyword \in S /\ tail \in Seq(S)
          BY <1>3, <2>4
        <5>2. ReadFrom(T, <<keyword>> \o tail, keyword) = <<TermsOf(T[tail])>>
          BY ONLY <5>1, ReadsAhead
        <5>. QED BY <5>2, Zenon
      <4>. QED BY <1>5, <2>5, <3>1, <4>1
    <3>2. CASE w # keyword
      <4>1. w \notin ToSet(<<keyword>>) /\ w \notin ToSet(body)
        BY <2>3, <2>8, <3>2
      <4>2. ReadFrom(T, new, w) = ReadFrom(T, tail, w)
        <5>. DEFINE one == <<keyword>>
        <5>. HIDE DEF one
        <5>1. one \in Seq(S) /\ tail \in Seq(S) /\ w \notin ToSet(one)
          BY <2>4, <2>8, <4>1 DEF one
        <5>2. ReadFrom(T, one \o tail, w) = ReadFrom(T, tail, w)
          BY ONLY <5>1, ReadsBeyond
        <5>. QED BY <5>2 DEF one
      <4>3. ReadFrom(T, tail, w) = ReadFrom(T, ws, w)
        BY <1>1, <2>3, <4>1, ReadsBeyond DEF tail
      <4>. QED BY <1>1, <1>2, <2>10, <3>2, <4>2, <4>3
    <3>. QED BY <3>1, <3>2
  <2>11. InOrder(rank, new)
    <3>1. InOrder(rank, tail)
      BY <1>1, <1>3, <2>3, InOrderBeyond DEF tail
    <3>2. \A w \in words : w \in ToSet(tail) => rank[keyword] < rank[w]
      BY <1>1, <2>3, <2>4
    <3>. QED BY <1>3, <2>4, <3>1, <3>2, InOrderCons
  <2>. HIDE DEF new
  <2>. QED BY <1>3, <2>6, <2>7, <2>9, <2>10, <2>11 DEF Says
<1>. QED BY <1>4, <1>5

-----------------------------------------------------------------------------
\* A list of one term is the term.
LEMMA JoinCsvOne ==
  ASSUME NEW S, Separator \in Seq(S)
  PROVE  \A term \in Seq(S) : JoinCsv(<<term>>) = term
<1>1. ASSUME NEW term \in Seq(S) PROVE JoinCsv(<<term>>) = term
  <2>1. <<>> \in Seq(Seq(S)) /\ Append(<<>>, term) = <<term>>
    OBVIOUS
  <2>2. JoinCsv(Append(<<>>, term)) = JoinedCsv(JoinCsv(<<>>), term)
    BY <2>1, JoinCsvUnfolds
  <2>3. JoinedCsv(<<>>, term) = (<<>> \o <<>>) \o term
    BY Zenon DEF JoinedCsv, IsEmpty
  <2>4. (<<>> \o <<>>) \o term = term
    BY ConcatEmptySeq
  <2>. QED BY <2>1, <2>2, <2>3, <2>4, JoinCsvNone, Zenon
<1>. QED BY <1>1

\* One term is joined to itself, indented.
LEMMA JoinCsvIndentedOne ==
  ASSUME NEW S, LineSeparator \in Seq(S), Indentation \in Seq(S)
  PROVE  \A term \in Seq(S) : JoinCsvIndented(<<term>>) = Indentation \o term
<1>1. ASSUME NEW term \in Seq(S) PROVE JoinCsvIndented(<<term>>) = Indentation \o term
  <2>1. <<>> \in Seq(Seq(S)) /\ Append(<<>>, term) = <<term>>
    OBVIOUS
  <2>2. JoinCsvIndented(Append(<<>>, term)) = JoinedIndented(JoinCsvIndented(<<>>), term)
    BY <2>1, JoinCsvIndentedUnfolds
  <2>3. JoinedIndented(<<>>, term) = ((<<>> \o <<>>) \o Indentation) \o term
    BY Zenon DEF JoinedIndented, IsEmpty, Indentation
  <2>4. ((<<>> \o <<>>) \o Indentation) \o term = Indentation \o term
    BY ConcatEmptySeq
  <2>5. JoinCsvIndented(<<>>) = <<>>
    BY JoinCsvIndentedNone
  <2>. QED BY <2>1, <2>2, <2>3, <2>4, <2>5, Zenon
<1>. QED BY <1>1

\* Layout does not change the order of the keywords.
LEMMA InOrderAppend ==
  ASSUME NEW S, NEW ws \in Seq(S), NEW rank, NEW word \in S
  PROVE  InOrder(rank, Append(ws, word)) <=>
           /\ InOrder(rank, ws)
           /\ word \in DOMAIN rank =>
                \A w \in DOMAIN rank : w \in ToSet(ws) => rank[w] < rank[word]
<1>. DEFINE new == Append(ws, word)
<1>. DEFINE n == Len(ws)
<1>1. /\ n \in Nat /\ DOMAIN ws = 1..n /\ DOMAIN new = 1..n+1
      /\ new[n+1] = word /\ \A i \in 1..n : new[i] = ws[i]
  BY AppendProperties, LenProperties
<1>. HIDE DEF new, n
<1>2. ASSUME InOrder(rank, new)
      PROVE  /\ InOrder(rank, ws)
             /\ word \in DOMAIN rank =>
                  \A w \in DOMAIN rank : w \in ToSet(ws) => rank[w] < rank[word]
  <2>1. \A i \in 1..n : i \in 1..n+1 /\ i < n+1
    BY <1>1
  <2>2. n+1 \in 1..n+1
    BY <1>1
  <2>3. InOrder(rank, ws)
    BY <1>1, <1>2, <2>1 DEF InOrder
  <2>4. ASSUME word \in DOMAIN rank, NEW w \in DOMAIN rank, w \in ToSet(ws)
        PROVE  rank[w] < rank[word]
    <3>1. PICK i \in 1..n : ws[i] = w
      BY <1>1, <2>4 DEF ToSet
    <3>. QED BY <1>1, <1>2, <2>1, <2>2, <2>4, <3>1 DEF InOrder
  <2>. QED BY <2>3, <2>4
<1>3. ASSUME InOrder(rank, ws),
             word \in DOMAIN rank =>
               \A w \in DOMAIN rank : w \in ToSet(ws) => rank[w] < rank[word]
      PROVE  InOrder(rank, new)
  <2>1. ASSUME NEW i \in 1..n+1, NEW j \in 1..n+1,
               i < j, new[i] \in DOMAIN rank, new[j] \in DOMAIN rank
        PROVE  rank[new[i]] < rank[new[j]]
    <3>1. i \in 1..n
      BY <1>1, <2>1
    <3>2. CASE j = n+1
      <4>1. ws[i] \in ToSet(ws)
        BY <1>1, <3>1 DEF ToSet
      <4>. QED BY <1>1, <1>3, <2>1, <3>1, <3>2, <4>1
    <3>3. CASE j # n+1
      <4>1. j \in 1..n
        BY <1>1, <3>3
      <4>. QED BY <1>1, <1>3, <2>1, <3>1, <4>1 DEF InOrder
    <3>. QED BY <3>2, <3>3
  <2>. QED BY <1>1, <2>1 DEF InOrder
<1>. QED BY <1>2, <1>3 DEF new

\* Layout does not change the order of the keywords.
LEMMA UnlaidInOrder ==
  ASSUME NEW S, NEW rank, Layout \cap DOMAIN rank = {}
  PROVE  \A ws \in Seq(S) : InOrder(rank, Unlaid(ws)) => InOrder(rank, ws)
<1>. DEFINE words == DOMAIN rank
<1>. DEFINE Good(ws) ==
       /\ InOrder(rank, Unlaid(ws)) => InOrder(rank, ws)
       /\ \A w \in words : w \in ToSet(Unlaid(ws)) <=> w \in ToSet(ws)
<1>. DEFINE P == {ws \in Seq(S) : Good(ws)}
<1>0. /\ ToSet(<<>>) = {} /\ \A x : ToSet(<<x>>) = {x}
      /\ \A a, b \in Seq(S) : ToSet(a \o b) = ToSet(a) \cup ToSet(b)
  BY ToSetConcat
<1>1. <<>> \in P
  BY UnlaidNone
<1>2. ASSUME NEW ws \in Seq(S), NEW x \in S, ws \in P PROVE Append(ws, x) \in P
  <2>. DEFINE flat == Unlaid(ws)
  <2>. DEFINE more == Append(ws, x)
  <2>0. SUFFICES more \in P
    OBVIOUS
  <2>1. /\ flat \in Seq(S) /\ more \in Seq(S) /\ <<x>> \in Seq(S)
        /\ Unlaid(more) = UnlaidMore(flat, x)
    BY UnlaidUnfolds, AppendProperties
  <2>2. ToSet(more) = ToSet(ws) \cup {x}
    <3>1. more = ws \o <<x>>
      BY AppendIsConcat
    <3>. QED BY <1>0, <2>1, <3>1
  <2>3. InOrder(rank, flat) => InOrder(rank, ws)
    BY <1>2
  <2>4. \A w \in words : w \in ToSet(flat) <=> w \in ToSet(ws)
    BY <1>2
  <2>. HIDE DEF flat, more
  <2>5. CASE x \in Layout
    <3>1. Unlaid(more) = flat /\ x \notin words
      <4>1. Unlaid(more) = flat \o <<>>
        BY <2>1, <2>5, Zenon DEF UnlaidMore
      <4>2. flat \o <<>> = flat
        BY <2>1, ConcatEmptySeq
      <4>. QED BY <2>5, <4>1, <4>2
    <3>2. InOrder(rank, ws) => InOrder(rank, more)
      BY <3>1, InOrderAppend DEF more
    <3>. QED BY <2>1, <2>2, <2>3, <2>4, <3>1, <3>2
  <2>6. CASE x \notin Layout
    <3>1. Unlaid(more) = Append(flat, x)
      <4>1. Unlaid(more) = flat \o <<x>>
        BY <2>1, <2>6, Zenon DEF UnlaidMore
      <4>. QED BY <2>1, <4>1, AppendIsConcat
    <3>2. ToSet(Unlaid(more)) = ToSet(flat) \cup {x}
      <4>1. Append(flat, x) = flat \o <<x>>
        BY <2>1, AppendIsConcat
      <4>2. ToSet(flat \o <<x>>) = ToSet(flat) \cup ToSet(<<x>>) /\ ToSet(<<x>>) = {x}
        BY <1>0, <2>1
      <4>. QED BY <3>1, <4>1, <4>2
    <3>3. InOrder(rank, Append(flat, x)) => InOrder(rank, more)
      <4>1. InOrder(rank, Append(flat, x)) <=>
              /\ InOrder(rank, flat)
              /\ x \in words => \A w \in words : w \in ToSet(flat) => rank[w] < rank[x]
        BY <2>1, InOrderAppend
      <4>2. InOrder(rank, more) <=>
              /\ InOrder(rank, ws)
              /\ x \in words => \A w \in words : w \in ToSet(ws) => rank[w] < rank[x]
        BY InOrderAppend DEF more
      <4>. QED BY <2>3, <2>4, <4>1, <4>2
    <3>. QED BY <2>1, <2>2, <2>4, <3>1, <3>2, <3>3
  <2>. QED BY <2>5, <2>6
<1>. HIDE DEF P
<1>3. Seq(S) \subseteq P
  BY <1>1, <1>2, SequencesByAppend
<1>. QED BY <1>3 DEF P

-----------------------------------------------------------------------------
\* Short sequences by their elements.
LEMMA TuplesTyped ==
  ASSUME NEW S
  PROVE  \A a, b, c \in S : <<a>> \in Seq(S) /\ <<a, b>> \in Seq(S) /\ <<a, b, c>> \in Seq(S)
OBVIOUS

\* A pair, put together.
LEMMA PairConcat ==
  ASSUME NEW a, NEW b
  PROVE  <<a, b>> = <<a>> \o <<b>>
<1>1. <<a>> \in Seq({a, b}) /\ b \in {a, b}
  OBVIOUS
<1>2. Append(<<a>>, b) = <<a, b>>
  <2>1. /\ Append(<<a>>, b) \in Seq({a, b}) /\ Len(Append(<<a>>, b)) = 2
        /\ Append(<<a>>, b)[1] = a /\ Append(<<a>>, b)[2] = b
    BY <1>1, AppendProperties
  <2>2. <<a, b>> \in Seq({a, b}) /\ Len(<<a, b>>) = 2 /\ <<a, b>>[1] = a /\ <<a, b>>[2] = b
    OBVIOUS
  <2>3. \A s, t \in Seq({a, b}) :
          Len(s) = 2 /\ Len(t) = 2 /\ s[1] = t[1] /\ s[2] = t[2] => s = t
    <3>1. \A k \in 1..2 : k = 1 \/ k = 2
      OBVIOUS
    <3>. QED BY <3>1, SeqEqual
  <2>. QED BY <2>1, <2>2, <2>3
<1>. QED BY <1>1, <1>2, AppendIsConcat

\* A triple, put together.
LEMMA TripleConcat ==
  ASSUME NEW a, NEW b, NEW c
  PROVE  /\ <<a, b, c>> = <<a>> \o (<<b>> \o <<c>>)
         /\ <<a, b, c>> = <<a, b>> \o <<c>>
<1>. DEFINE S == {a, b, c}
<1>1. <<a, b>> \in Seq(S) /\ c \in S /\ <<a>> \in Seq(S) /\ <<b>> \in Seq(S) /\ <<c>> \in Seq(S)
  OBVIOUS
<1>2. Append(<<a, b>>, c) = <<a, b, c>>
  <2>1. /\ Append(<<a, b>>, c) \in Seq(S) /\ Len(Append(<<a, b>>, c)) = 3
        /\ Append(<<a, b>>, c)[1] = a /\ Append(<<a, b>>, c)[2] = b /\ Append(<<a, b>>, c)[3] = c
    BY <1>1, AppendProperties
  <2>2. /\ <<a, b, c>> \in Seq(S) /\ Len(<<a, b, c>>) = 3
        /\ <<a, b, c>>[1] = a /\ <<a, b, c>>[2] = b /\ <<a, b, c>>[3] = c
    OBVIOUS
  <2>3. \A s, t \in Seq(S) :
          Len(s) = 3 /\ Len(t) = 3 /\ s[1] = t[1] /\ s[2] = t[2] /\ s[3] = t[3] => s = t
    <3>1. \A k \in 1..3 : k = 1 \/ k = 2 \/ k = 3
      OBVIOUS
    <3>. HIDE DEF S
    <3>. QED BY <3>1, SeqEqual
  <2>. HIDE DEF S
  <2>. QED BY <2>1, <2>2, <2>3
<1>3. <<a, b, c>> = <<a, b>> \o <<c>>
  BY <1>1, <1>2, AppendIsConcat
<1>4. (<<a>> \o <<b>>) \o <<c>> = <<a>> \o (<<b>> \o <<c>>)
  <2>. HIDE DEF S
  <2>. QED BY <1>1, Associative
<1>. QED BY <1>3, <1>4, PairConcat

\* Four parts, grouped from the other end.
LEMMA RegroupThree ==
  ASSUME NEW V, Concats(V), NEW a \in V, NEW b \in V, NEW c \in V, NEW d \in V
  PROVE  Cat(Cat(Cat(a, b), c), d) = Cat(a, Cat(b, Cat(c, d)))
BY DEF Concats
=============================================================================
