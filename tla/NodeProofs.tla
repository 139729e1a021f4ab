------------------------------ MODULE NodeProofs ------------------------------
(***************************************************************************)
(* Theorems about the nodes of expressions.  As one client builds them     *)
(* (ExprNodes): every node's size is the length of its text, and lazy      *)
(* rendering is eager rendering.  As any number of threads share them      *)
(* (SharedNodes): the same, reference counting keeps alive whatever is in  *)
(* use, and a rendering, call by call, writes the text of its node.        *)
(***************************************************************************)
EXTENDS SharedNodes, TextLemmas, FiniteSetTheorems

Text == Seq(Tokens)

WellFormed(heap) == heap \in Seq(Node) /\ ChildrenFirst(heap)

\* f accumulates the sizes of parts.
Sums(f, heap, parts) ==
  /\ f[0] = 0
  /\ \A k \in 1..Len(parts) : f[k] = f[k-1] + PartSize(heap, parts[k])

\* The parts of a node that may be added to heap.
PartOver(heap) == [text : Text, node : 0..Len(heap), context : Precedences]

PartsOver(heap) == Seq(PartOver(heap))

\* A part of a node over a well-typed heap has a size.
LEMMA PartSizeNat ==
  ASSUME NEW heap \in Seq(Node), NEW parts \in PartsOver(heap), NEW k \in 1..Len(parts)
  PROVE  PartSize(heap, parts[k]) \in Nat
<1>. DEFINE part == parts[k]
<1>1. part \in PartOver(heap)
  BY ElementOfSeq DEF PartsOver
<1>2. CASE part.node = 0
  BY <1>1, <1>2 DEF PartSize, PartOver, Text
<1>3. CASE part.node # 0
  <2>1. part.node \in 1..Len(heap)
    BY <1>1, <1>3 DEF PartOver
  <2>2. heap[part.node] \in Node
    BY <2>1, ElementOfSeq
  <2>3. heap[part.node].size \in Nat
    BY <2>2 DEF Node
  <2>. QED BY <1>3, <2>3 DEF PartSize
<1>. QED BY <1>2, <1>3

\* TotalSize is the sum of the sizes of the parts.
LEMMA TotalSizeSums ==
  ASSUME NEW heap \in Seq(Node), NEW parts \in PartsOver(heap)
  PROVE  \E f \in [0..Len(parts) -> Nat] :
           Sums(f, heap, parts) /\ TotalSize(heap, parts) = f[Len(parts)]
<1>. DEFINE n == Len(parts)
<1>. DEFINE step == [k \in 1..n |-> [v \in Nat |-> v + PartSize(heap, parts[k])]]
<1>1. n \in Nat /\ \A k \in 1..n : PartSize(heap, parts[k]) \in Nat
  BY PartSizeNat DEF PartsOver
<1>2. step \in [1..n -> [Nat -> Nat]]
  BY <1>1
<1>3. PICK h : Accumulates(h, Nat, n, 0, step)
  <2>. HIDE DEF n, step
  <2>. QED BY <1>1, <1>2, Accumulation
<1>. DEFINE Recursive(g) ==
       g = [k \in 0..n |-> IF k = 0 THEN 0 ELSE g[k-1] + PartSize(heap, parts[k])]
<1>4. Recursive(h)
  <2>1. \A k \in 1..n : h[k-1] \in Nat /\ h[k] = step[k][h[k-1]]
    <3>1. \A k \in 1..n : k-1 \in 0..n
      BY <1>1
    <3>. HIDE DEF n, step
    <3>. QED BY <1>3, <3>1 DEF Accumulates
  <2>2. \A k \in 1..n : h[k] = h[k-1] + PartSize(heap, parts[k])
    BY <1>1, <2>1
  <2>3. h \in [0..n -> Nat] /\ h[0] = 0
    <3>. HIDE DEF step
    <3>. QED BY <1>3 DEF Accumulates
  <2>4. \A k \in 0..n : h[k] = IF k = 0 THEN 0 ELSE h[k-1] + PartSize(heap, parts[k])
    BY <1>1, <2>2, <2>3
  <2>. QED BY <2>3, <2>4
<1>. DEFINE g == CHOOSE x : Recursive(x)
<1>5. Recursive(g)
  <2>. HIDE DEF Recursive
  <2>. QED BY <1>4, Zenon
<1>6. TotalSize(heap, parts) = g[n]
  BY Zenon DEF TotalSize
<1>. HIDE DEF g
<1>7. \A k \in 0..n : g[k] = IF k = 0 THEN 0 ELSE g[k-1] + PartSize(heap, parts[k])
  BY <1>5, Zenon
<1>8. \A k \in 0..n : g[k] \in Nat
  <2>. DEFINE T == {k \in 0..n : g[k] \notin Nat}
  <2>1. SUFFICES ASSUME T # {} PROVE FALSE
    OBVIOUS
  <2>2. PICK m \in T : \A k \in T : m <= k
    <3>1. T \in SUBSET Nat
      OBVIOUS
    <3>. HIDE DEF T
    <3>. QED BY <2>1, <3>1, LeastNat
  <2>3. m # 0
    BY <1>7
  <2>4. m-1 \in 0..n /\ m-1 \notin T
    BY <2>2, <2>3
  <2>5. g[m] = g[m-1] + PartSize(heap, parts[m]) /\ g[m-1] \in Nat
    BY <1>7, <2>3, <2>4
  <2>6. m \in 1..n
    BY <2>3
  <2>7. g[m] \in Nat
    BY <1>1, <2>5, <2>6
  <2>. QED BY <2>7
<1>9. g \in [0..n -> Nat]
  BY <1>5, <1>8
<1>10. Sums(g, heap, parts)
  BY <1>1, <1>7 DEF Sums
<1>. QED BY <1>6, <1>9, <1>10

\* It depends on the nodes the parts refer to only.
LEMMA TotalSizeLocal ==
  ASSUME NEW heap \in Seq(Node), NEW later \in Seq(Node), NEW parts \in PartsOver(heap),
         Len(heap) <= Len(later), \A i \in 1..Len(heap) : later[i] = heap[i]
  PROVE  TotalSize(later, parts) = TotalSize(heap, parts)
<1>. DEFINE n == Len(parts)
<1>1. parts \in PartsOver(later)
  <2>1. PartOver(heap) \subseteq PartOver(later)
    BY LenProperties DEF PartOver
  <2>. QED BY <2>1, SeqMonotonic DEF PartsOver
<1>2. \A k \in 1..n : PartSize(later, parts[k]) = PartSize(heap, parts[k])
  <2>1. TAKE k \in 1..n
  <2>2. parts[k] \in PartOver(heap)
    BY ElementOfSeq DEF PartsOver
  <2>3. parts[k].node # 0 => parts[k].node \in 1..Len(heap)
    BY <2>2 DEF PartOver
  <2>. QED BY <2>3 DEF PartSize
<1>3. PICK f \in [0..n -> Nat] : Sums(f, heap, parts) /\ TotalSize(heap, parts) = f[n]
  BY TotalSizeSums
<1>4. PICK g \in [0..n -> Nat] : Sums(g, later, parts) /\ TotalSize(later, parts) = g[n]
  BY <1>1, TotalSizeSums
<1>5. n \in Nat
  BY LenProperties DEF PartsOver
<1>. DEFINE T == {k \in 0..n : f[k] # g[k]}
<1>6. SUFFICES ASSUME T # {} PROVE FALSE
  <2>1. n \in 0..n /\ (n \notin T => f[n] = g[n])
    BY <1>5
  <2>. QED BY <1>3, <1>4, <2>1
<1>7. PICK m \in T : \A k \in T : m <= k
  <2>1. T \in SUBSET Nat
    BY <1>5
  <2>. HIDE DEF T
  <2>. QED BY <1>6, <2>1, LeastNat
<1>8. m # 0
  BY <1>3, <1>4 DEF Sums
<1>9. m-1 \in 0..n /\ m-1 \notin T /\ m \in 1..n
  BY <1>5, <1>7, <1>8
<1>. QED BY <1>2, <1>3, <1>4, <1>9 DEF Sums

-----------------------------------------------------------------------------
\* A node's parts refer to nodes of its heap, all built before it.
LEMMA NodeParts ==
  ASSUME NEW heap, WellFormed(heap), NEW i \in 1..Len(heap)
  PROVE  /\ heap[i] \in Node
         /\ heap[i].parts \in PartsOver(heap)
         /\ \A k \in 1..Len(heap[i].parts) :
              heap[i].parts[k] \in PartOver(heap) /\ heap[i].parts[k].node \in 0..i-1
<1>. DEFINE parts == heap[i].parts
<1>1. Len(heap) \in Nat /\ heap[i] \in Node /\ DOMAIN heap = 1..Len(heap)
  BY ElementOfSeq, LenProperties DEF WellFormed
<1>2. parts \in Seq(Part) /\ heap[i].parts = parts
  BY <1>1 DEF Node
<1>. HIDE DEF parts
<1>3. Len(parts) \in Nat /\ DOMAIN parts = 1..Len(parts)
  BY <1>2, LenProperties
<1>4. \A k \in 1..Len(parts) : parts[k] \in PartOver(heap) /\ parts[k].node \in 0..i-1
  <2>1. TAKE k \in 1..Len(parts)
  <2>2. parts[k] \in Part
    BY <1>2, ElementOfSeq
  <2>3. parts[k].node < i
    BY <1>1, <1>2, <1>3 DEF WellFormed, ChildrenFirst
  <2>4. parts[k].node \in 0..i-1 /\ parts[k].node \in 0..Len(heap)
    BY <1>1, <2>2, <2>3 DEF Part
  <2>. QED BY <2>2, <2>4 DEF Part, PartOver, Text
<1>5. parts \in Seq(PartOver(heap))
  BY <1>2, <1>3, <1>4
<1>. QED BY <1>1, <1>2, <1>4, <1>5 DEF PartsOver

\* What the parts of node i render to, given the texts of earlier nodes.
Pieces(heap, text, i) ==
  [k \in 1..Len(heap[i].parts) |-> PartText(heap, text, heap[i].parts[k])]

\* The recursion of Render, over the first m nodes.
Renders(text, heap, m) ==
  text = [i \in 1..m |-> FlattenSeq(Pieces(heap, text, i))]

\* The recursion is well-founded: texts for all nodes exist.
LEMMA RenderExists ==
  ASSUME NEW heap, WellFormed(heap)
  PROVE  \E text : Renders(text, heap, Len(heap))
<1>. DEFINE n == Len(heap)
<1>. DEFINE T == {m \in 0..n : ~\E text : Renders(text, heap, m)}
<1>1. n \in Nat
  BY LenProperties DEF WellFormed
<1>2. SUFFICES ASSUME T # {} PROVE FALSE
  <2>1. n \in 0..n
    BY <1>1
  <2>. QED BY <2>1, Zenon
<1>3. PICK m \in T : \A k \in T : m <= k
  <2>1. T \in SUBSET Nat
    BY <1>1
  <2>. HIDE DEF T
  <2>. QED BY <1>2, <2>1, LeastNat
<1>4. m # 0
  <2>1. Renders([i \in 1..0 |-> <<>>], heap, 0)
    BY DEF Renders
  <2>. QED BY <2>1
<1>5. m \in 1..n /\ m-1 \in 0..n /\ ~(m <= m-1)
  BY <1>1, <1>4
<1>6. PICK text : Renders(text, heap, m-1)
  <2>1. m-1 \notin T
    BY <1>3, <1>5
  <2>. QED BY <1>5, <2>1
<1>. DEFINE more == [i \in 1..m |-> FlattenSeq(Pieces(heap, text, i))]
<1>7. \A j \in 1..m-1 : more[j] = text[j]
  BY <1>5, <1>6 DEF Renders
<1>8. \A i \in 1..m : Pieces(heap, more, i) = Pieces(heap, text, i)
  <2>1. TAKE i \in 1..m
  <2>. HIDE DEF more
  <2>2. i \in 1..n
    BY <1>1, <1>5
  <2>3. \A k \in 1..Len(heap[i].parts) :
          PartText(heap, more, heap[i].parts[k]) = PartText(heap, text, heap[i].parts[k])
    <3>1. TAKE k \in 1..Len(heap[i].parts)
    <3>2. heap[i].parts[k].node \in 0..i-1
      BY <2>2, NodeParts
    <3>3. heap[i].parts[k].node # 0 =>
            more[heap[i].parts[k].node] = text[heap[i].parts[k].node]
      BY <1>5, <1>7, <3>2
    <3>. QED BY <3>3 DEF PartText
  <2>. QED BY <2>3 DEF Pieces
<1>9. Renders(more, heap, m)
  BY <1>8, Zenon DEF Renders
<1>. QED BY <1>9

\* What Render returns is a sequence of texts, one for each node.
LEMMA RenderTyped ==
  ASSUME NEW heap, WellFormed(heap)
  PROVE  Render(heap) = [i \in 1..Len(heap) |-> FlattenSeq(Pieces(heap, Render(heap), i))]
<1>1. PICK text : Renders(text, heap, Len(heap))
  BY RenderExists
<1>. DEFINE chosen == CHOOSE x : Renders(x, heap, Len(heap))
<1>2. Renders(chosen, heap, Len(heap))
  BY <1>1, Zenon
<1>3. Render(heap) = chosen
  BY Zenon DEF Render, Renders, Pieces
<1>4. Renders(Render(heap), heap, Len(heap))
  BY <1>2, <1>3, Zenon
<1>. QED BY <1>4, Zenon DEF Renders

\* Render unfolds to the pieces of each node.
LEMMA RenderUnfolds ==
  ASSUME NEW heap, WellFormed(heap), NEW i \in 1..Len(heap)
  PROVE  Render(heap)[i] = FlattenSeq(Pieces(heap, Render(heap), i))
BY RenderTyped, Zenon

SizesAreTotals(heap) ==
  \A i \in 1..Len(heap) : heap[i].size = TotalSize(heap, heap[i].parts)

\* Parentheses add two to the length.
LEMMA BracketedLength ==
  ASSUME NEW t \in Seq(Tokens)
  PROVE  /\ <<"(">> \o t \o <<")">> \in Seq(Tokens)
         /\ Len(<<"(">> \o t \o <<")">>) = Len(t) + 2
<1>. DEFINE open == <<"(">>
<1>. DEFINE shut == <<")">>
<1>0. /\ "(" \in Tokens /\ ")" \in Tokens
      /\ \A S : \A x \in S : <<x>> \in Seq(S) /\ Len(<<x>>) = 1
  <2>1. Punctuation \subseteq Tokens
    BY ClientAssumption
  <2>2. "(" \in Punctuation /\ ")" \in Punctuation
    BY DEF Punctuation
  <2>. QED BY <2>1, <2>2
<1>1. open \in Seq(Tokens) /\ Len(open) = 1
  BY <1>0, Zenon
<1>2. shut \in Seq(Tokens) /\ Len(shut) = 1
  BY <1>0, Zenon
<1>3. Len(t) \in Nat
  BY LenProperties
<1>. HIDE DEF open, shut
<1>4. open \o t \in Seq(Tokens) /\ Len(open \o t) = 1 + Len(t)
  BY <1>1, ConcatProperties
<1>5. (open \o t) \o shut \in Seq(Tokens) /\ Len((open \o t) \o shut) = Len(t) + 2
  BY <1>2, <1>3, <1>4, ConcatProperties
<1>. QED BY <1>5 DEF open, shut

\* A heap whose sizes are those MakeNode computes renders to texts of these
\* sizes.
LEMMA RenderedLength ==
  ASSUME NEW heap, WellFormed(heap), SizesAreTotals(heap), NEW i \in 1..Len(heap)
  PROVE  Render(heap)[i] \in Text /\ Len(Render(heap)[i]) = heap[i].size
<1>. DEFINE text == Render(heap)
<1>. DEFINE Good(j) == text[j] \in Text /\ Len(text[j]) = heap[j].size
<1>. DEFINE T == {j \in 1..Len(heap) : ~Good(j)}
<1>1. SUFFICES ASSUME T # {} PROVE FALSE
  OBVIOUS
<1>2. PICK m \in T : \A k \in T : m <= k
  <2>1. T \in SUBSET Nat
    OBVIOUS
  <2>. HIDE DEF T
  <2>. QED BY <1>1, <2>1, LeastNat
<1>. DEFINE parts == heap[m].parts
<1>. DEFINE n == Len(parts)
<1>3. m \in 1..Len(heap) /\ heap \in Seq(Node) /\ Len(heap) \in Nat
  BY LenProperties DEF WellFormed
<1>4. parts \in PartsOver(heap) /\ n \in Nat
        /\ \A k \in 1..n : parts[k] \in PartOver(heap) /\ parts[k].node \in 0..m-1
  BY <1>3, NodeParts, LenProperties DEF PartsOver
<1>5. \A j \in 1..m-1 : Good(j)
  <2>1. TAKE j \in 1..m-1
  <2>2. j \in 1..Len(heap) /\ ~(m <= j)
    BY <1>3
  <2>3. j \notin T
    BY <1>2, <2>2
  <2>. QED BY <2>2, <2>3
<1>. HIDE DEF text
<1>6. \A k \in 1..n : PartText(heap, text, parts[k]) \in Text
                      /\ Len(PartText(heap, text, parts[k])) = PartSize(heap, parts[k])
  <2>1. TAKE k \in 1..n
  <2>. DEFINE part == parts[k]
  <2>2. part \in PartOver(heap) /\ part.node \in 0..m-1
    BY <1>4
  <2>. SUFFICES PartText(heap, text, part) \in Text
                /\ Len(PartText(heap, text, part)) = PartSize(heap, part)
    OBVIOUS
  <2>. HIDE DEF part
  <2>3. CASE part.node = 0
    BY <2>2, <2>3 DEF PartText, PartSize, PartOver
  <2>4. CASE part.node # 0
    <3>1. text[part.node] \in Seq(Tokens) /\ Len(text[part.node]) = heap[part.node].size
      BY <1>5, <2>2, <2>4 DEF Text
    <3>. DEFINE bare == text[part.node]
    <3>. DEFINE bracketed == <<"(">> \o bare \o <<")">>
    <3>2. bracketed \in Seq(Tokens) /\ Len(bracketed) = Len(bare) + 2
      BY <3>1, BracketedLength
    <3>3. PartText(heap, text, part)
            = IF NeedsParens(heap[part.node].precedence, part.context) THEN bracketed ELSE bare
      BY <2>4 DEF PartText
    <3>4. PartSize(heap, part) = Len(bare)
            + IF NeedsParens(heap[part.node].precedence, part.context) THEN 2 ELSE 0
      BY <2>4, <3>1 DEF PartSize
    <3>5. Len(bare) \in Nat
      BY <3>1, LenProperties
    <3>. HIDE DEF bare, bracketed
    <3>. QED BY <3>1, <3>2, <3>3, <3>4, <3>5 DEF Text, bare
  <2>. QED BY <2>3, <2>4
<1>. DEFINE pieces == Pieces(heap, text, m)
<1>7. Len(pieces) = n /\ pieces \in Seq(Text)
        /\ \A k \in 1..n : Len(pieces[k]) = PartSize(heap, parts[k])
  BY <1>4, <1>6 DEF Pieces
<1>8. PICK f \in [0..n -> Nat] : Sums(f, heap, parts) /\ TotalSize(heap, parts) = f[n]
  BY <1>3, <1>4, TotalSizeSums
<1>9. FlattenSeq(pieces) \in Text /\ Len(FlattenSeq(pieces)) = f[n]
  <2>1. f[0] = 0 /\ \A k \in 1..Len(pieces) : f[k] = f[k-1] + Len(pieces[k])
    <3>. HIDE DEF pieces, parts
    <3>. QED BY <1>7, <1>8 DEF Sums
  <2>2. pieces \in Seq(Seq(Tokens))
    BY <1>7 DEF Text
  <2>3. FlattenSeq(pieces) \in Seq(Tokens) /\ Len(FlattenSeq(pieces)) = f[Len(pieces)]
    <3>. HIDE DEF pieces
    <3>. QED BY <2>1, <2>2, Flattened
  <2>. QED BY <1>7, <2>3 DEF Text
<1>10. text[m] = FlattenSeq(pieces)
  BY <1>3, RenderUnfolds DEF text
<1>11. heap[m].size = f[n]
  BY <1>3, <1>8 DEF SizesAreTotals
<1>12. Good(m)
  BY <1>9, <1>10, <1>11
<1>. QED BY <1>12

-----------------------------------------------------------------------------
\* The inductive invariant: TypeOK alone does not bound a size, since the
\* node it was computed from could change; the totals tie the two.
Inv == TypeOK /\ SizesAreTotals(nodes)

\* The invariant, read as what the lemmas about one heap assume.
LEMMA InvWellFormed ==
  ASSUME Inv
  PROVE  WellFormed(nodes) /\ Len(nodes) \in Nat /\ DOMAIN nodes = 1..Len(nodes)
BY LenProperties DEF Inv, TypeOK, WellFormed

\* Every binding strength the methods pass is one of the enum.
LEMMA PrecedencesTyped ==
  {kSymbol, kDot, kTypecast, kIndex, kUnaryPlus, kCollate, kExp, kMul, kPlus, kAnyOther,
   kBetween, kCompare, kIs, kNot, kAnd, kOr, kExtract} \subseteq Precedences
BY DEF Precedences, kSymbol, kDot, kTypecast, kIndex, kUnaryPlus, kCollate, kExp, kMul,
       kPlus, kAnyOther, kBetween, kCompare, kIs, kNot, kAnd, kOr, kExtract

\* The texts the code writes itself are texts.
LEMMA WordsTyped ==
  /\ Punctuation \subseteq Tokens
  /\ \A a \in Tokens : <<a>> \in Text
  /\ \A a, b \in Tokens : <<a, b>> \in Text
  /\ \A a, b, c \in Tokens : <<a, b, c>> \in Text
  /\ \A a, b, c, d \in Tokens : <<a, b, c, d>> \in Text
  /\ \A s, t \in Text : s \o t \in Text
<1>1. Punctuation \subseteq Tokens
  BY ClientAssumption
<1>2. /\ \A a \in Tokens : <<a>> \in Seq(Tokens)
      /\ \A a, b \in Tokens : <<a, b>> \in Seq(Tokens)
      /\ \A a, b, c \in Tokens : <<a, b, c>> \in Seq(Tokens)
      /\ \A a, b, c, d \in Tokens : <<a, b, c, d>> \in Seq(Tokens)
  OBVIOUS
<1>3. \A s, t \in Seq(Tokens) : s \o t \in Seq(Tokens)
  BY ConcatProperties
<1>. QED BY <1>1, <1>2, <1>3, Zenon DEF Text

\* A literal part, and a part naming a node that exists.
LEMMA PartsTyped ==
  ASSUME NEW heap \in Seq(Node)
  PROVE  /\ \A text \in Text : Fragment(text) \in PartOver(heap)
         /\ \A i \in DOMAIN heap, context \in Precedences :
              ChildRef(i, context) \in PartOver(heap)
<1>1. Len(heap) \in Nat /\ DOMAIN heap = 1..Len(heap) /\ <<>> \in Text
  BY LenProperties DEF Text
<1>. QED BY <1>1, PrecedencesTyped DEF Fragment, ChildRef, PartOver

\* Displays and concatenations of parts are part lists.
LEMMA PartLists ==
  ASSUME NEW P
  PROVE  /\ \A a \in P : <<a>> \in Seq(P)
         /\ \A a, b \in P : <<a, b>> \in Seq(P)
         /\ \A a, b, c \in P : <<a, b, c>> \in Seq(P)
         /\ \A a, b, c, d \in P : <<a, b, c, d>> \in Seq(P)
         /\ \A s, t \in Seq(P) : s \o t \in Seq(P)
<1>1. \A s, t \in Seq(P) : s \o t \in Seq(P)
  BY ConcatProperties
<1>. QED BY <1>1

\* A leaf is the node of one literal part.
LEMMA LeafIsNode ==
  ASSUME Inv, NEW text \in Text, NEW precedence
  PROVE  /\ <<Fragment(text)>> \in PartsOver(nodes)
         /\ MakeLeaf(text, precedence) = MakeNode(precedence, <<Fragment(text)>>)
<1>. DEFINE parts == <<Fragment(text)>>
<1>1. nodes \in Seq(Node)
  BY DEF Inv, TypeOK
<1>2. parts \in PartsOver(nodes)
  BY <1>1, PartsTyped, PartLists DEF PartsOver
<1>3. PICK f \in [0..Len(parts) -> Nat] :
        Sums(f, nodes, parts) /\ TotalSize(nodes, parts) = f[Len(parts)]
  BY <1>1, <1>2, TotalSizeSums
<1>4. Len(parts) = 1 /\ parts[1] = Fragment(text)
  OBVIOUS
<1>5. PartSize(nodes, Fragment(text)) = Len(text) /\ Len(text) \in Nat
  BY LenProperties DEF PartSize, Fragment, Text
<1>. HIDE DEF parts
<1>6. TotalSize(nodes, parts) = Len(text)
  BY <1>3, <1>4, <1>5 DEF Sums
<1>. QED BY <1>2, <1>6 DEF MakeLeaf, MakeNode, parts

\* Building a node over existing ones preserves the invariant: the sizes of
\* the nodes already built stay the totals of their parts.
LEMMA BuildStep ==
  ASSUME Inv, NEW precedence \in Precedences, NEW parts \in PartsOver(nodes),
         Build(MakeNode(precedence, parts)),
         conditions' \subseteq conditions \cup {Len(nodes) + 1}
  PROVE  Inv'
<1>. DEFINE node == MakeNode(precedence, parts)
<1>. DEFINE n == Len(nodes)
<1>1. nodes \in Seq(Node) /\ n \in Nat /\ DOMAIN nodes = 1..n /\ WellFormed(nodes)
  BY InvWellFormed DEF WellFormed
<1>2. nodes' = Append(nodes, node)
  BY DEF Build
<1>3. /\ node.parts = parts
      /\ node.size = TotalSize(nodes, parts)
      /\ node.precedence = precedence
  BY DEF MakeNode
<1>4. /\ Len(parts) \in Nat /\ DOMAIN parts = 1..Len(parts)
      /\ \A k \in 1..Len(parts) : parts[k] \in PartOver(nodes)
  BY ElementOfSeq, LenProperties DEF PartsOver
<1>5. node \in Node
  <2>1. PartOver(nodes) \subseteq Part
    BY <1>1 DEF PartOver, Part, Text
  <2>2. parts \in Seq(Part)
    BY <2>1, SeqMonotonic DEF PartsOver
  <2>3. TotalSize(nodes, parts) \in Nat
    <3>1. PICK f \in [0..Len(parts) -> Nat] : TotalSize(nodes, parts) = f[Len(parts)]
      BY <1>1, TotalSizeSums
    <3>2. Len(parts) \in 0..Len(parts)
      BY <1>4
    <3>. QED BY <3>1, <3>2
  <2>. QED BY <2>2, <2>3 DEF Node, MakeNode
<1>. HIDE DEF node
<1>6. /\ nodes' \in Seq(Node)
      /\ Len(nodes') = n + 1
      /\ DOMAIN nodes' = 1..n+1
      /\ \A i \in 1..n : nodes'[i] = nodes[i]
      /\ nodes'[n+1] = node
  BY <1>1, <1>2, <1>5, AppendProperties
<1>7. ChildrenFirst(nodes')
  <2>1. SUFFICES ASSUME NEW i \in 1..n+1, NEW k \in DOMAIN nodes'[i].parts
                 PROVE  nodes'[i].parts[k].node < i
    BY <1>6 DEF ChildrenFirst
  <2>2. CASE i \in 1..n
    BY <1>1, <1>6, <2>1, <2>2 DEF WellFormed, ChildrenFirst
  <2>3. CASE i = n + 1
    <3>1. k \in 1..Len(parts)
      BY <1>3, <1>4, <1>6, <2>1, <2>3
    <3>2. parts[k].node \in 0..n
      BY <1>4, <3>1 DEF PartOver
    <3>. QED BY <1>1, <1>3, <1>6, <2>3, <3>2
  <2>. QED BY <1>1, <2>2, <2>3
<1>8. conditions' \subseteq DOMAIN nodes' /\ outcome' = "built"
  BY <1>1, <1>6 DEF Build, Inv, TypeOK
<1>9. SizesAreTotals(nodes')
  <2>1. SUFFICES ASSUME NEW i \in 1..n+1
                 PROVE  nodes'[i].size = TotalSize(nodes', nodes'[i].parts)
    BY <1>6 DEF SizesAreTotals
  <2>2. \A p \in PartsOver(nodes) : TotalSize(nodes', p) = TotalSize(nodes, p)
    BY <1>1, <1>6, TotalSizeLocal
  <2>3. CASE i \in 1..n
    <3>1. nodes[i].parts \in PartsOver(nodes)
      BY <1>1, <2>3, NodeParts
    <3>2. nodes[i].size = TotalSize(nodes, nodes[i].parts)
      BY <2>3 DEF Inv, SizesAreTotals
    <3>. QED BY <1>6, <2>2, <2>3, <3>1, <3>2
  <2>4. CASE i = n + 1
    BY <1>3, <1>6, <2>2, <2>4
  <2>. QED BY <1>1, <2>3, <2>4
<1>. QED BY <1>6, <1>7, <1>8, <1>9 DEF Inv, TypeOK

\* Every call that returns a node does so by Build; those that throw, by Throw.
LEMMA BuildPreserves ==
  ASSUME Inv, NEW precedence \in Precedences, NEW parts \in PartsOver(nodes),
         \/ BuildExpr(MakeNode(precedence, parts))
         \/ BuildCondition(MakeNode(precedence, parts))
  PROVE  Inv'
<1>1. Build(MakeNode(precedence, parts)) /\ conditions' \subseteq conditions \cup {Len(nodes) + 1}
  BY DEF BuildExpr, BuildCondition
<1>. QED BY <1>1, BuildStep

\* A leaf is built like any other node.
LEMMA LeafPreserves ==
  ASSUME Inv, NEW precedence \in Precedences, NEW text \in Text,
         \/ BuildExpr(MakeLeaf(text, precedence))
         \/ BuildCondition(MakeLeaf(text, precedence))
  PROVE  Inv'
<1>. DEFINE parts == <<Fragment(text)>>
<1>1. parts \in PartsOver(nodes) /\ MakeLeaf(text, precedence) = MakeNode(precedence, parts)
  BY LeafIsNode
<1>. HIDE DEF parts
<1>. QED BY <1>1, BuildPreserves

\* A call that throws leaves every node as it was.
LEMMA ThrowPreserves ==
  ASSUME Inv,
         NEW exception \in {"InvalidIdentifier", "InvalidOperator", "InvalidArgument"},
         Throw(exception)
  PROVE  Inv'
BY DEF Throw, Inv, TypeOK, ChildrenFirst, SizesAreTotals

\* The argument lists of the model are lists of handles.
LEMMA BoundedArgs == Argument \subseteq Seq(Exprs)
<1>1. SUFFICES ASSUME NEW args \in Argument PROVE args \in Seq(Exprs)
  OBVIOUS
<1>2. PICK m \in 0..MaxArgs : args \in [1..m -> Exprs]
  BY DEF Argument, SeqOf
<1>3. m \in Nat
  BY ClientAssumption
<1>. QED BY <1>2, <1>3

\* The separated argument list of a call, the empty one included.
LEMMA CommaListTyped ==
  ASSUME Inv, NEW args \in Seq(Exprs)
  PROVE  CommaList(args) \in PartsOver(nodes)
<1>. DEFINE P == PartOver(nodes)
<1>. DEFINE m == Len(args)
<1>1. args \in [1..m -> Exprs]
  BY LenProperties
<1>2. m \in Nat /\ Len(args) = m
  BY LenProperties
<1>. HIDE DEF m
<1>3. /\ Fragment(<<",", " ">>) \in P
      /\ \A i \in Exprs : ChildRef(i, kExtract) \in P
  <2>1. nodes \in Seq(Node) /\ kExtract \in Precedences
    BY PrecedencesTyped DEF Inv, TypeOK
  <2>2. "," \in Punctuation /\ " " \in Punctuation
    BY DEF Punctuation
  <2>3. <<",", " ">> \in Text
    <3>1. "," \in Tokens /\ " " \in Tokens
      BY <2>2, WordsTyped
    <3>. QED BY <3>1, WordsTyped, Zenon
  <2>. QED BY <2>1, <2>3, PartsTyped DEF Exprs
<1>. HIDE DEF P
<1>4. CASE m = 0
  BY <1>2, <1>4 DEF CommaList, PartsOver
<1>5. CASE m # 0
  <2>1. \A k \in 1 .. 2 * m - 1 : k % 2 = 1 => (k + 1) \div 2 \in 1..m
    BY <1>2, <1>5
  <2>2. \A k \in 1 .. 2 * m - 1 : k % 2 = 1 => args[(k + 1) \div 2] \in Exprs
    BY <1>1, <2>1
  <2>3. CommaList(args) \in [1 .. 2 * m - 1 -> P]
    BY <1>2, <1>3, <2>2 DEF CommaList
  <2>4. 2 * m - 1 \in Nat
    BY <1>2, <1>5
  <2>. QED BY <2>3, <2>4 DEF PartsOver, P
<1>. QED BY <1>4, <1>5

\* The words the code writes are tokens, one by one.
LEMMA Keywords ==
  /\ " " \in Tokens /\ "(" \in Tokens /\ ")" \in Tokens /\ "," \in Tokens
  /\ "[" \in Tokens /\ "]" \in Tokens /\ "." \in Tokens /\ "-" \in Tokens
  /\ "NOT" \in Tokens /\ "EXISTS" \in Tokens /\ "DISTINCT" \in Tokens
  /\ "AND" \in Tokens /\ "CAST" \in Tokens /\ "AS t" \in Tokens
  /\ "COLLATE c" \in Tokens
<1>1. Punctuation \subseteq Tokens
  BY ClientAssumption
<1>. QED BY <1>1 DEF Punctuation

\* The fragments that hold an operator or a subquery.
LEMMA FragmentsTyped ==
  ASSUME NEW op \in Tokens
  PROVE  /\ <<" ", op, " ">> \in Text
         /\ <<op, " ">> \in Text
         /\ <<" ", op>> \in Text
         /\ <<" ", op, " ", "(">> \in Text
         /\ Bracketed(op) \in Text
         /\ <<" ", op, " ">> \o Bracketed(op) \in Text
<1>1. <<" ", op, " ">> \in Text /\ Bracketed(op) \in Text
  BY Keywords, WordsTyped, Zenon DEF Bracketed
<1>2. <<" ", op, " ">> \o Bracketed(op) \in Text
  BY <1>1, WordsTyped, Zenon
<1>. QED BY <1>1, <1>2, Keywords, WordsTyped, Zenon

\* The factories: raw text, integers and EXISTS.
LEMMA NewLeafPreserves ==
  ASSUME Inv, NewLeaf
  PROVE  Inv'
<1>1. ASSUME NEW raw \in RawExprs, FromRaw(raw) PROVE Inv'
  <2>1. raw.text \in Text /\ raw.precedence \in Precedences
    BY ClientAssumption DEF Text
  <2>. QED BY <1>1, <2>1, LeafPreserves DEF FromRaw
<1>2. ASSUME NEW n \in Numbers, FromInteger(n) PROVE Inv'
  <2>1. Digits[IF n < 0 THEN -n ELSE n] \in Tokens
    BY ClientAssumption
  <2>2. CASE n < 0
    <3>1. Digits[-n] \in Tokens
      BY <2>1, <2>2
    <3>2. IntegerText(n) \in Text
      BY <2>2, <3>1, Keywords, WordsTyped, Zenon DEF IntegerText
    <3>. QED BY <1>2, <3>2, LeafPreserves, PrecedencesTyped DEF FromInteger
  <2>3. CASE ~(n < 0)
    <3>1. Digits[n] \in Tokens
      BY <2>1, <2>3
    <3>2. IntegerText(n) \in Text
      BY <2>3, <3>1, WordsTyped, Zenon DEF IntegerText
    <3>. QED BY <1>2, <3>2, LeafPreserves, PrecedencesTyped DEF FromInteger
  <2>. QED BY <2>2, <2>3
<1>3. ASSUME NEW text \in RawConditions, ConditionFromRaw(text) PROVE Inv'
  <2>1. text \in Text
    BY ClientAssumption DEF Text
  <2>. QED BY <1>3, <2>1, LeafPreserves, PrecedencesTyped DEF ConditionFromRaw
<1>4. ASSUME NEW word \in Operators, Word(word) PROVE Inv'
  <2>1. <<word>> \in Text
    BY ClientAssumption, WordsTyped
  <2>. QED BY <1>4, <2>1, LeafPreserves, PrecedencesTyped DEF Word
<1>5. ASSUME NEW test \in Operators, NEW query \in Subqueries, Exists(test, query)
      PROVE  Inv'
  <2>1. query \in Tokens
    BY ClientAssumption
  <2>2. /\ Bracketed(query) \in Text
        /\ <<"EXISTS", " ">> \in Text
        /\ <<"NOT", " ", "EXISTS", " ">> \in Text
    BY <2>1, FragmentsTyped, Keywords, WordsTyped, Zenon
  <2>3. ExistsWords(test) \o Bracketed(query) \in Text
    BY <2>2, WordsTyped, Zenon DEF ExistsWords
  <2>. QED BY <1>5, <2>3, LeafPreserves, PrecedencesTyped DEF Exists
<1>. QED BY <1>1, <1>2, <1>3, <1>4, <1>5 DEF NewLeaf

\* A function call over any argument list.
LEMMA CallPreserves ==
  ASSUME Inv, NEW name \in Tokens, NEW prefix \in Text, NEW args \in Seq(Exprs),
         BuildExpr(BuildCallNode(name, prefix, args))
  PROVE  Inv'
<1>. DEFINE parts == <<Fragment(<<name, "(">> \o prefix)>> \o CommaList(args)
                       \o <<Fragment(<<")">>)>>
<1>1. nodes \in Seq(Node)
  BY DEF Inv, TypeOK
<1>2. <<name, "(">> \in Text /\ <<")">> \in Text
  BY Keywords, WordsTyped, Zenon
<1>3. <<name, "(">> \o prefix \in Text
  BY <1>2, WordsTyped, Zenon
<1>4. /\ <<Fragment(<<name, "(">> \o prefix)>> \in PartsOver(nodes)
      /\ <<Fragment(<<")">>)>> \in PartsOver(nodes)
      /\ CommaList(args) \in PartsOver(nodes)
  <2>1. Fragment(<<name, "(">> \o prefix) \in PartOver(nodes)
        /\ Fragment(<<")">>) \in PartOver(nodes)
    BY <1>1, <1>2, <1>3, PartsTyped, Zenon
  <2>. QED BY <2>1, PartLists, CommaListTyped, Zenon DEF PartsOver
<1>5. parts \in PartsOver(nodes)
  BY <1>4, PartLists, Zenon DEF PartsOver
<1>6. BuildExpr(MakeNode(kSymbol, parts))
  BY DEF BuildCallNode
<1>. HIDE DEF parts
<1>. QED BY <1>5, <1>6, BuildPreserves, PrecedencesTyped

\* EagerNodes with their checks of the name and of empty arguments.
LEMMA CallsPreserve ==
  ASSUME Inv, NEW name \in Tokens, NEW args \in Seq(Exprs),
         Call(name, args) \/ CallDistinct(name, args) \/ CallNonEmpty(name, args)
  PROVE  Inv'
<1>1. <<>> \in Text /\ <<"DISTINCT", " ">> \in Text
  <2>1. <<>> \in Text
    BY DEF Text
  <2>2. <<"DISTINCT", " ">> \in Text
    BY Keywords, WordsTyped, Zenon
  <2>. QED BY <2>1, <2>2
<1>2. CASE Call(name, args)
  <2>1. CASE Throw("InvalidIdentifier")
    BY <2>1, ThrowPreserves
  <2>2. CASE BuildExpr(BuildCallNode(name, <<>>, args))
    BY <1>1, <2>2, CallPreserves
  <2>. QED BY <1>2, <2>1, <2>2 DEF Call
<1>3. CASE CallDistinct(name, args)
  <2>1. CASE Throw("InvalidIdentifier") \/ Throw("InvalidArgument")
    BY <2>1, ThrowPreserves
  <2>2. CASE BuildExpr(BuildCallNode(name, <<"DISTINCT", " ">>, args))
    BY <1>1, <2>2, CallPreserves
  <2>. QED BY <1>3, <2>1, <2>2 DEF CallDistinct
<1>4. CASE CallNonEmpty(name, args)
  <2>1. CASE Throw("InvalidArgument")
    BY <2>1, ThrowPreserves
  <2>. QED BY <1>2, <1>4, <2>1 DEF CallNonEmpty
<1>. QED BY <1>2, <1>3, <1>4

\* IN and NOT IN over a value list.
LEMMA InListPreserves ==
  ASSUME Inv, NEW op \in Operators, NEW x \in Exprs, NEW args \in Seq(Exprs),
         InList(op, x, args)
  PROVE  Inv'
<1>1. CASE Throw("InvalidArgument")
  BY <1>1, ThrowPreserves
<1>2. CASE BuildCondition(BuildInListNode(x, op, args))
  <2>. DEFINE parts == <<ChildRef(x, kBetween), Infix(op), Fragment(<<"(">>)>>
                         \o CommaList(args) \o <<Fragment(<<")">>)>>
  <2>1. nodes \in Seq(Node) /\ op \in Tokens
    BY ClientAssumption DEF Inv, TypeOK
  <2>2. <<"(">> \in Text /\ <<")">> \in Text /\ <<" ", op, " ">> \in Text
    BY <2>1, FragmentsTyped, Keywords, WordsTyped, Zenon
  <2>3. /\ ChildRef(x, kBetween) \in PartOver(nodes)
        /\ Infix(op) \in PartOver(nodes)
        /\ Fragment(<<"(">>) \in PartOver(nodes)
        /\ Fragment(<<")">>) \in PartOver(nodes)
    BY <2>1, <2>2, PartsTyped, PrecedencesTyped DEF Infix, Exprs
  <2>4. /\ <<ChildRef(x, kBetween), Infix(op), Fragment(<<"(">>)>> \in PartsOver(nodes)
        /\ <<Fragment(<<")">>)>> \in PartsOver(nodes)
        /\ CommaList(args) \in PartsOver(nodes)
    BY <2>3, PartLists, CommaListTyped, Zenon DEF PartsOver
  <2>5. parts \in PartsOver(nodes)
    BY <2>4, PartLists, Zenon DEF PartsOver
  <2>6. BuildCondition(MakeNode(kBetween, parts))
    BY <1>2 DEF BuildInListNode
  <2>. HIDE DEF parts
  <2>. QED BY <2>5, <2>6, BuildPreserves, PrecedencesTyped
<1>. QED BY <1>1, <1>2 DEF InList

\* Every method that takes an argument list.
LEMMA NewListPreserves ==
  ASSUME Inv, NewList
  PROVE  Inv'
<1>1. PICK args \in Argument :
        \/ \E name \in Functions : Call(name, args) \/ CallDistinct(name, args)
        \/ \E name \in Operators : CallNonEmpty(name, args)
        \/ \E op \in Operators, x \in Exprs : InList(op, x, args)
  BY DEF NewList
<1>2. Functions \subseteq Tokens /\ Operators \subseteq Tokens
  BY ClientAssumption
<1>3. args \in Seq(Exprs)
  BY BoundedArgs
<1>. QED BY <1>1, <1>2, <1>3, CallsPreserve, InListPreserves

\* Every method of one expression, alone or with a subquery.
LEMMA NewUnaryPreserves ==
  ASSUME Inv, NewUnary
  PROVE  Inv'
<1>1. PICK x \in Exprs :
        \/ \E custom \in PrefixOperators : PrefixOp(custom.op, x, custom.precedence)
        \/ Negate(x) \/ NotExpr(x) \/ NotCondition(x) \/ Collate(x) \/ CastRaw(x)
        \/ \E op \in Operators : IsTest(op, x) \/ Aggregate(op, x)
        \/ CountDistinct(x)
        \/ \E op \in Operators, query \in Subqueries :
             InSubquery(op, x, query) \/ QuantifiedSubquery(op, x, query)
  BY DEF NewUnary
<1>. DEFINE P == PartOver(nodes)
<1>2. /\ nodes \in Seq(Node)
      /\ Operators \subseteq Tokens
      /\ Subqueries \subseteq Tokens
  BY ClientAssumption DEF Inv, TypeOK
<1>3. /\ \A text \in Text : Fragment(text) \in P
      /\ \A context \in Precedences : ChildRef(x, context) \in P
      /\ \A a, b \in P : <<a, b>> \in PartsOver(nodes)
      /\ \A a, b, c \in P : <<a, b, c>> \in PartsOver(nodes)
  BY <1>1, <1>2, PartsTyped, PartLists DEF Exprs, PartsOver
<1>. HIDE DEF P
<1>4. ASSUME NEW custom \in PrefixOperators, PrefixOp(custom.op, x, custom.precedence)
      PROVE  Inv'
  <2>1. custom.op \in Tokens /\ custom.precedence \in Precedences
    BY ClientAssumption
  <2>2. <<custom.op, " ">> \in Text
    BY <2>1, FragmentsTyped
  <2>3. CASE Throw("InvalidOperator")
    BY <2>3, ThrowPreserves
  <2>4. <<Fragment(<<custom.op, " ">>), ChildRef(x, custom.precedence)>> \in PartsOver(nodes)
    BY <1>3, <2>1, <2>2
  <2>. QED BY <1>4, <2>1, <2>3, <2>4, BuildPreserves DEF PrefixOp
<1>5. CASE Negate(x)
  <2>1. <<"-">> \in Text
    BY Keywords, WordsTyped, Zenon
  <2>2. <<Fragment(<<"-">>), ChildRef(x, kUnaryPlus)>> \in PartsOver(nodes)
    BY <1>3, <2>1, PrecedencesTyped
  <2>. QED BY <1>5, <2>2, BuildPreserves, PrecedencesTyped DEF Negate
<1>6. CASE NotExpr(x) \/ NotCondition(x)
  <2>1. <<"NOT", " ">> \in Text
    BY Keywords, WordsTyped, Zenon
  <2>2. NotParts(x) \in PartsOver(nodes)
    BY <1>3, <2>1, PrecedencesTyped DEF NotParts
  <2>. QED BY <1>6, <2>2, BuildPreserves, PrecedencesTyped DEF NotExpr, NotCondition
<1>7. CASE Collate(x)
  <2>1. <<" ", "COLLATE c">> \in Text
    BY Keywords, WordsTyped, Zenon
  <2>2. <<ChildRef(x, kCollate), Fragment(<<" ", "COLLATE c">>)>> \in PartsOver(nodes)
    BY <1>3, <2>1, PrecedencesTyped
  <2>. QED BY <1>7, <2>2, BuildPreserves, PrecedencesTyped DEF Collate
<1>8. CASE CastRaw(x)
  <2>1. <<"CAST", " ", "(">> \in Text /\ <<" ", "AS t", ")">> \in Text
    BY Keywords, WordsTyped, Zenon
  <2>2. <<Fragment(<<"CAST", " ", "(">>), ChildRef(x, kTypecast),
          Fragment(<<" ", "AS t", ")">>)>> \in PartsOver(nodes)
    BY <1>3, <2>1, PrecedencesTyped
  <2>. QED BY <1>8, <2>2, BuildPreserves, PrecedencesTyped DEF CastRaw
<1>9. ASSUME NEW op \in Operators, IsTest(op, x)
      PROVE  Inv'
  <2>1. <<" ", op>> \in Text
    BY <1>2, FragmentsTyped
  <2>2. <<ChildRef(x, kIs), Fragment(<<" ", op>>)>> \in PartsOver(nodes)
    BY <1>3, <2>1, PrecedencesTyped
  <2>. QED BY <1>9, <2>2, BuildPreserves, PrecedencesTyped DEF IsTest
<1>10. ASSUME NEW op \in Operators, NEW query \in Subqueries,
              InSubquery(op, x, query) \/ QuantifiedSubquery(op, x, query)
       PROVE  Inv'
  <2>1. op \in Tokens /\ query \in Tokens
    BY <1>2
  <2>2. <<" ", op, " ">> \in Text /\ Bracketed(query) \in Text
    BY <2>1, FragmentsTyped
  <2>3. <<" ", op, " ">> \o Bracketed(query) \in Text
    BY <2>2, WordsTyped, Zenon
  <2>4. /\ <<ChildRef(x, kBetween), Fragment(<<" ", op, " ">> \o Bracketed(query))>>
             \in PartsOver(nodes)
        /\ <<ChildRef(x, kCompare), Fragment(<<" ", op, " ">> \o Bracketed(query))>>
             \in PartsOver(nodes)
    BY <1>3, <2>3, PrecedencesTyped
  <2>. QED BY <1>10, <2>4, BuildPreserves, PrecedencesTyped DEF InSubquery, QuantifiedSubquery
<1>11. ASSUME NEW op \in Operators, Aggregate(op, x)
       PROVE  Inv'
  <2>1. <<x>> \in Seq(Exprs)
    OBVIOUS
  <2>. QED BY <1>2, <1>11, <2>1, CallsPreserve DEF Aggregate
<1>12. CASE CountDistinct(x)
  <2>1. <<x>> \in Seq(Exprs)
    OBVIOUS
  <2>. QED BY <1>2, <1>12, <2>1, CallsPreserve DEF CountDistinct
<1>. QED BY <1>1, <1>4, <1>5, <1>6, <1>7, <1>8, <1>9, <1>10, <1>11, <1>12

\* Two operands around an operator, the node of most binary methods.
LEMMA InfixTyped ==
  ASSUME Inv, NEW a \in Exprs, NEW b \in Exprs, NEW op \in Tokens,
         NEW precedence \in Precedences
  PROVE  InfixParts(op, a, b, precedence) \in PartsOver(nodes)
<1>1. nodes \in Seq(Node) /\ <<" ", op, " ">> \in Text
  BY FragmentsTyped DEF Inv, TypeOK
<1>2. /\ ChildRef(a, precedence) \in PartOver(nodes)
      /\ ChildRef(b, precedence) \in PartOver(nodes)
      /\ Infix(op) \in PartOver(nodes)
  BY <1>1, PartsTyped DEF Infix, Exprs
<1>. QED BY <1>2, PartLists DEF InfixParts, PartsOver

\* An operator given by name, which may be rejected.
LEMMA BinaryOpPreserves ==
  ASSUME Inv, NEW a \in Exprs, NEW b \in Exprs, NEW op \in Tokens,
         NEW precedence \in Precedences, BinaryOp(op, a, b, precedence)
  PROVE  Inv'
<1>1. CASE Throw("InvalidOperator")
  BY <1>1, ThrowPreserves
<1>2. CASE BuildExpr(MakeNode(precedence, InfixParts(op, a, b, precedence)))
  BY <1>2, InfixTyped, BuildPreserves
<1>. QED BY <1>1, <1>2 DEF BinaryOp

\* A binary method that returns a Condition.
LEMMA PredicatePreserves ==
  ASSUME Inv, NEW a \in Exprs, NEW b \in Exprs, NEW op \in Tokens,
         NEW precedence \in Precedences, Predicate(op, a, b, precedence)
  PROVE  Inv'
BY InfixTyped, BuildPreserves DEF Predicate

\* Every method that takes another operand.
LEMMA NewBinaryPreserves ==
  ASSUME Inv, NewBinary
  PROVE  Inv'
<1>1. PICK a \in Exprs, b \in Exprs :
        \/ \E custom \in CustomOperators : BinaryOp(custom.op, a, b, custom.precedence)
        \/ Power(a, b) \/ Concat(a, b) \/ Dot(a, b) \/ Index(a, b)
        \/ And(a, b) \/ Or(a, b) \/ NullIf(a, b)
        \/ \E op \in Operators :
             \/ Arithmetic(op, a, b) \/ Like(op, a, b) \/ CompareOp(a, op, b)
             \/ IsDistinctFrom(op, a, b) \/ Quantified(op, a, b)
             \/ \E x \in Exprs : Between(op, x, a, b)
  BY DEF NewBinary
<1>2. nodes \in Seq(Node) /\ Operators \subseteq Tokens
  BY ClientAssumption DEF Inv, TypeOK
<1>. DEFINE P == PartOver(nodes)
<1>3. /\ \A text \in Text : Fragment(text) \in P
      /\ \A i \in Exprs, context \in Precedences : ChildRef(i, context) \in P
      /\ \A c, d \in P : <<c, d>> \in PartsOver(nodes)
      /\ \A c, d, e \in P : <<c, d, e>> \in PartsOver(nodes)
      /\ \A c, d, e, f \in P : <<c, d, e, f>> \in PartsOver(nodes)
      /\ \A s, t \in PartsOver(nodes) : s \o t \in PartsOver(nodes)
  BY <1>2, PartsTyped, PartLists DEF Exprs, PartsOver
<1>. HIDE DEF P
<1>4. ASSUME NEW custom \in CustomOperators, BinaryOp(custom.op, a, b, custom.precedence)
      PROVE  Inv'
  <2>1. custom.op \in Tokens /\ custom.precedence \in Precedences
    BY ClientAssumption
  <2>. QED BY <1>4, <2>1, BinaryOpPreserves
<1>5. CASE Power(a, b) \/ Concat(a, b)
  BY <1>2, <1>5, BinaryOpPreserves, PrecedencesTyped DEF Power, Concat
<1>6. CASE And(a, b) \/ Or(a, b)
  BY <1>2, <1>6, PredicatePreserves, PrecedencesTyped DEF And, Or
<1>7. CASE Dot(a, b)
  <2>1. <<".">> \in Text
    BY Keywords, WordsTyped, Zenon
  <2>2. <<ChildRef(a, kDot), Fragment(<<".">>), ChildRef(b, kDot)>> \in PartsOver(nodes)
    BY <1>3, <2>1, PrecedencesTyped
  <2>. QED BY <1>7, <2>2, BuildPreserves, PrecedencesTyped DEF Dot
<1>8. CASE Index(a, b)
  <2>1. <<"[">> \in Text /\ <<"]">> \in Text
    BY Keywords, WordsTyped, Zenon
  <2>2. <<ChildRef(a, kIndex), Fragment(<<"[">>), ChildRef(b, kExtract), Fragment(<<"]">>)>>
          \in PartsOver(nodes)
    BY <1>3, <2>1, PrecedencesTyped
  <2>. QED BY <1>8, <2>2, BuildPreserves, PrecedencesTyped DEF Index
<1>9. ASSUME NEW op \in Operators, Arithmetic(op, a, b)
      PROVE  Inv'
  BY <1>2, <1>9, BinaryOpPreserves, PrecedencesTyped DEF Arithmetic
<1>10. ASSUME NEW op \in Operators,
              Like(op, a, b) \/ CompareOp(a, op, b) \/ IsDistinctFrom(op, a, b)
       PROVE  Inv'
  BY <1>2, <1>10, PredicatePreserves, PrecedencesTyped DEF Like, CompareOp, IsDistinctFrom
<1>11. ASSUME NEW op \in Operators, Quantified(op, a, b)
       PROVE  Inv'
  <2>1. <<" ", op, " ", "(">> \in Text /\ <<")">> \in Text
    BY <1>2, FragmentsTyped, Keywords, WordsTyped, Zenon
  <2>2. <<ChildRef(a, kCompare), Fragment(<<" ", op, " ", "(">>), ChildRef(b, kExtract),
          Fragment(<<")">>)>> \in PartsOver(nodes)
    BY <1>3, <2>1, PrecedencesTyped
  <2>. QED BY <1>11, <2>2, BuildPreserves, PrecedencesTyped DEF Quantified
<1>12. ASSUME NEW op \in Operators, NEW x \in Exprs, Between(op, x, a, b)
       PROVE  Inv'
  <2>1. InfixParts(op, x, a, kBetween) \in PartsOver(nodes)
    BY <1>2, InfixTyped, PrecedencesTyped
  <2>2. <<" ", "AND", " ">> \in Text
    BY Keywords, WordsTyped, Zenon
  <2>3. <<Infix("AND"), ChildRef(b, kBetween)>> \in PartsOver(nodes)
    BY <1>3, <2>2, PrecedencesTyped DEF Infix
  <2>4. InfixParts(op, x, a, kBetween) \o <<Infix("AND"), ChildRef(b, kBetween)>>
          \in PartsOver(nodes)
    BY <1>3, <2>1, <2>3, Zenon
  <2>. QED BY <1>12, <2>4, BuildPreserves, PrecedencesTyped DEF Between
<1>13. CASE NullIf(a, b)
  <2>1. <<a, b>> \in Seq(Exprs)
    OBVIOUS
  <2>. QED BY <1>2, <1>13, <2>1, CallsPreserve DEF NullIf
<1>. QED BY <1>1, <1>4, <1>5, <1>6, <1>7, <1>8, <1>9, <1>10, <1>11, <1>12, <1>13

-----------------------------------------------------------------------------
\* No call breaks the invariant.
LEMMA NextPreserves ==
  ASSUME Inv, [Next]_vars
  PROVE  Inv'
<1>1. CASE NewLeaf
  BY <1>1, NewLeafPreserves
<1>2. CASE NewList
  BY <1>2, NewListPreserves
<1>3. CASE NewUnary
  BY <1>3, NewUnaryPreserves
<1>4. CASE NewBinary
  BY <1>4, NewBinaryPreserves
<1>5. CASE UNCHANGED vars
  BY <1>5 DEF vars, Inv, TypeOK, ChildrenFirst, SizesAreTotals
<1>. QED BY <1>1, <1>2, <1>3, <1>4, <1>5 DEF Next

\* Every handle a client ever holds names a node that exists, every node
\* refers to earlier nodes only, and every size is the total MakeNode took.
THEOREM InvHolds == Spec => []Inv
<1>1. Init => Inv
  BY DEF Init, Inv, TypeOK, ChildrenFirst, SizesAreTotals
<1>2. Inv /\ [Next]_vars => Inv'
  BY NextPreserves
<1>. QED BY <1>1, <1>2, PTL DEF Spec

\* The nodes a client program builds are well formed, and no handle dangles,
\* after any sequence of calls of expr.cpp and condition.cpp.
THEOREM TypeCorrect == Spec => []TypeOK
<1>1. Inv => TypeOK
  BY DEF Inv
<1>. QED BY <1>1, InvHolds, PTL

\* node.hpp:30-32: the size a node was given when it was built is the length
\* of what AppendPart writes for it, whatever is built later.
THEOREM SizesExact == Spec => []SizeExact
<1>1. Inv => SizeExact
  <2>1. SUFFICES ASSUME Inv PROVE SizeExact
    OBVIOUS
  <2>2. WellFormed(nodes) /\ SizesAreTotals(nodes) /\ DOMAIN nodes = 1..Len(nodes)
    BY <2>1, InvWellFormed DEF Inv
  <2>. QED BY <2>2, RenderedLength DEF SizeExact
<1>. QED BY <1>1, InvHolds, PTL

\* The values of Eager's variables.
EagerNodes(heap) ==
  [i \in DOMAIN heap |-> [precedence |-> heap[i].precedence, parts |-> heap[i].parts]]

\* Nodes built later do not change what a node renders to.
LEMMA RenderLocal ==
  ASSUME NEW heap, NEW later, WellFormed(heap), WellFormed(later),
         Len(heap) <= Len(later), \A i \in 1..Len(heap) : later[i] = heap[i],
         NEW i \in 1..Len(heap)
  PROVE  Render(later)[i] = Render(heap)[i]
<1>. DEFINE text == Render(heap)
<1>. DEFINE more == Render(later)
<1>. DEFINE T == {j \in 1..Len(heap) : more[j] # text[j]}
<1>1. SUFFICES ASSUME T # {} PROVE FALSE
  OBVIOUS
<1>2. PICK m \in T : \A k \in T : m <= k
  <2>1. T \in SUBSET Nat
    OBVIOUS
  <2>. HIDE DEF T
  <2>. QED BY <1>1, <2>1, LeastNat
<1>3. /\ Len(heap) \in Nat /\ Len(later) \in Nat
      /\ m \in 1..Len(heap) /\ m \in 1..Len(later) /\ later[m] = heap[m]
  BY LenProperties DEF WellFormed
<1>4. \A j \in 1..m-1 : more[j] = text[j]
  <2>1. TAKE j \in 1..m-1
  <2>2. j \in 1..Len(heap) /\ ~(m <= j)
    BY <1>3
  <2>. QED BY <1>2, <2>2
<1>. HIDE DEF text, more
<1>5. Pieces(later, more, m) = Pieces(heap, text, m)
  <2>1. \A k \in 1..Len(heap[m].parts) :
          PartText(later, more, heap[m].parts[k]) = PartText(heap, text, heap[m].parts[k])
    <3>1. TAKE k \in 1..Len(heap[m].parts)
    <3>. DEFINE part == heap[m].parts[k]
    <3>2. part.node \in 0..m-1
      BY <1>3, NodeParts
    <3>. HIDE DEF part
    <3>3. part.node # 0 => /\ more[part.node] = text[part.node]
                           /\ later[part.node] = heap[part.node]
      BY <1>3, <1>4, <3>2
    <3>4. PartText(later, more, part) = PartText(heap, text, part)
      BY <3>3 DEF PartText
    <3>. QED BY <3>4 DEF part
  <2>. QED BY <1>3, <2>1 DEF Pieces
<1>6. more[m] = text[m]
  BY <1>3, <1>5, RenderUnfolds DEF text, more
<1>. QED BY <1>2, <1>6 DEF text, more

-----------------------------------------------------------------------------
\* A call adds one node or none.
Grows == nodes' = nodes \/ \E node : nodes' = Append(nodes, node)

\* Every method ends in Build or in an exception.
LEMMA StepsGrow ==
  ASSUME [Next]_vars
  PROVE  Grows
<1>1. ASSUME NEW node, Build(node) PROVE Grows
  BY <1>1 DEF Build, Grows
<1>2. ASSUME NEW exception, Throw(exception) PROVE Grows
  BY <1>2 DEF Throw, Grows
<1>3. ASSUME NEW node, BuildExpr(node) \/ BuildCondition(node) PROVE Grows
  BY <1>1, <1>3 DEF BuildExpr, BuildCondition
<1>4. CASE NewLeaf
  BY <1>3, <1>4 DEF NewLeaf, FromRaw, FromInteger, ConditionFromRaw, Word, Exists
<1>5. ASSUME NEW name, NEW args, Call(name, args) \/ CallDistinct(name, args)
      PROVE  Grows
  BY <1>2, <1>3, <1>5 DEF Call, CallDistinct
<1>6. CASE NewList
  BY <1>2, <1>3, <1>5, <1>6 DEF NewList, CallNonEmpty, InList
<1>7. CASE NewUnary
  <2>1. ASSUME NEW op, NEW x, NEW precedence, PrefixOp(op, x, precedence) PROVE Grows
    BY <1>2, <1>3, <2>1 DEF PrefixOp
  <2>2. ASSUME NEW x, \/ Negate(x) \/ NotExpr(x) \/ NotCondition(x)
                      \/ Collate(x) \/ CastRaw(x)
        PROVE  Grows
    BY <1>3, <2>2 DEF Negate, NotExpr, NotCondition, Collate, CastRaw
  <2>3. ASSUME NEW op, NEW x, NEW query,
               \/ IsTest(op, x) \/ Aggregate(op, x) \/ CountDistinct(x)
               \/ InSubquery(op, x, query) \/ QuantifiedSubquery(op, x, query)
        PROVE  Grows
    BY <1>3, <1>5, <2>3
       DEF IsTest, Aggregate, CountDistinct, InSubquery, QuantifiedSubquery
  <2>. QED BY <1>7, <2>1, <2>2, <2>3 DEF NewUnary
<1>8. ASSUME NEW op, NEW a, NEW b, NEW precedence,
             BinaryOp(op, a, b, precedence) \/ Predicate(op, a, b, precedence)
      PROVE  Grows
  BY <1>2, <1>3, <1>8 DEF BinaryOp, Predicate
<1>9. CASE NewBinary
  <2>1. ASSUME NEW a, NEW b,
               \/ Power(a, b) \/ Concat(a, b) \/ Dot(a, b) \/ Index(a, b)
               \/ And(a, b) \/ Or(a, b) \/ NullIf(a, b)
        PROVE  Grows
    <3>1. CASE Dot(a, b) \/ Index(a, b)
      BY <1>3, <3>1 DEF Dot, Index
    <3>. QED BY <1>5, <1>8, <2>1, <3>1 DEF Power, Concat, And, Or, NullIf
  <2>2. ASSUME NEW op, NEW a, NEW b, NEW x,
               \/ Arithmetic(op, a, b) \/ Like(op, a, b) \/ CompareOp(a, op, b)
               \/ IsDistinctFrom(op, a, b) \/ Quantified(op, a, b) \/ Between(op, x, a, b)
        PROVE  Grows
    <3>1. CASE Quantified(op, a, b) \/ Between(op, x, a, b)
      BY <1>3, <3>1 DEF Quantified, Between
    <3>. QED BY <1>8, <2>2, <3>1 DEF Arithmetic, Like, CompareOp, IsDistinctFrom
  <2>. QED BY <1>8, <1>9, <2>1, <2>2 DEF NewBinary
<1>10. CASE UNCHANGED vars
  BY <1>10 DEF vars, Grows
<1>. QED BY <1>4, <1>6, <1>7, <1>9, <1>10 DEF Next

\* What a part renders to does not change either.
LEMMA PartLocal ==
  ASSUME NEW heap, NEW later, WellFormed(heap), WellFormed(later),
         Len(heap) <= Len(later), \A i \in 1..Len(heap) : later[i] = heap[i],
         NEW part, part.node \in 0..Len(heap)
  PROVE  PartText(later, Render(later), part) = PartText(heap, Render(heap), part)
<1>1. Len(heap) \in Nat
  BY LenProperties DEF WellFormed
<1>2. CASE part.node = 0
  BY <1>2 DEF PartText
<1>3. CASE part.node # 0
  <2>1. part.node \in 1..Len(heap)
    BY <1>1, <1>3
  <2>2. Render(later)[part.node] = Render(heap)[part.node]
    BY <2>1, RenderLocal
  <2>. QED BY <1>3, <2>1, <2>2 DEF PartText
<1>. QED BY <1>2, <1>3

\* The eager specification brackets the operands that AppendPart brackets.
LEMMA PieceShown ==
  ASSUME Inv, NEW part \in PartOver(nodes)
  PROVE  Eager!Shown(part) = PartText(nodes, Render(nodes), part)
<1>1. /\ Len(nodes) \in Nat /\ DOMAIN nodes = 1..Len(nodes) /\ nodes \in Seq(Node)
      /\ part.node \in 0..Len(nodes) /\ part.context \in Int
  BY InvWellFormed DEF WellFormed, PartOver, Precedences, kSymbol, kExtract
<1>. DEFINE text == Render(nodes)
<1>. HIDE DEF text
<1>2. Eager!Shown(part) = IF part.node = 0 THEN part.text
                          ELSE IF EagerNodes(nodes)[part.node].precedence < part.context
                               THEN text[part.node]
                               ELSE <<"(">> \o text[part.node] \o <<")">>
  BY Zenon DEF Eager!Shown, Eager!Operand, EagerNodes, text
<1>3. CASE part.node = 0
  BY <1>2, <1>3 DEF PartText
<1>4. CASE part.node # 0
  <2>1. EagerNodes(nodes)[part.node].precedence = nodes[part.node].precedence
    BY <1>1, <1>4 DEF EagerNodes
  <2>2. nodes[part.node].precedence \in Int
    <3>1. nodes[part.node] \in Node
      BY <1>1, <1>4, ElementOfSeq
    <3>. QED BY <3>1 DEF Node, Precedences, kSymbol, kExtract
  <2>. QED BY <1>1, <1>2, <1>4, <2>1, <2>2 DEF PartText, NeedsParens, text
<1>. QED BY <1>3, <1>4

-----------------------------------------------------------------------------
\* A call that builds a node is the same call on eager texts.
LEMMA StepEager ==
  ASSUME Inv, Inv', Grows
  PROVE  [Eager!EagerNext]_<<EagerNodes(nodes), Render(nodes)>>
<1>1. CASE nodes' = nodes
  BY <1>1
<1>2. ASSUME NEW node, nodes' = Append(nodes, node)
      PROVE  Eager!EagerNext
  <2>. DEFINE n == Len(nodes)
  <2>1. /\ WellFormed(nodes) /\ nodes \in Seq(Node) /\ n \in Nat /\ DOMAIN nodes = 1..n
        /\ WellFormed(nodes') /\ nodes' \in Seq(Node) /\ DOMAIN nodes' = 1..Len(nodes')
    BY InvWellFormed DEF Inv, TypeOK, WellFormed
  <2>2. /\ Len(nodes') = n + 1
        /\ \A i \in 1..n : nodes'[i] = nodes[i]
        /\ nodes'[n+1] = node
    BY <1>2, <2>1, AppendProperties
  <2>3. /\ node.parts \in PartsOver(nodes)
        /\ Len(node.parts) \in Nat /\ DOMAIN node.parts = 1..Len(node.parts)
        /\ \A k \in 1..Len(node.parts) : node.parts[k] \in PartOver(nodes)
    <3>1. n + 1 \in 1..Len(nodes')
      BY <2>1, <2>2
    <3>2. /\ nodes'[n+1].parts \in PartsOver(nodes')
          /\ \A k \in 1..Len(nodes'[n+1].parts) :
               /\ nodes'[n+1].parts[k] \in PartOver(nodes')
               /\ nodes'[n+1].parts[k].node \in 0..(n+1)-1
      BY <2>1, <3>1, NodeParts
    <3>3. /\ node.parts \in PartsOver(nodes')
          /\ Len(node.parts) \in Nat /\ DOMAIN node.parts = 1..Len(node.parts)
      BY <2>2, <3>2, LenProperties DEF PartsOver
    <3>4. \A k \in 1..Len(node.parts) : node.parts[k] \in PartOver(nodes)
      BY <2>1, <2>2, <3>2 DEF PartOver
    <3>5. node.parts \in Seq(PartOver(nodes))
      BY <3>3, <3>4 DEF PartsOver
    <3>. QED BY <3>3, <3>4, <3>5 DEF PartsOver
  <2>. DEFINE call == [precedence |-> node.precedence, parts |-> node.parts]
  <2>4. EagerNodes(nodes)' = Append(EagerNodes(nodes), call)
    BY <2>1, <2>2 DEF EagerNodes
  <2>5. Len(EagerNodes(nodes)) = n /\ DOMAIN EagerNodes(nodes) = 1..n /\ EagerNodes(nodes)'[Len(EagerNodes(nodes)')] = call
    BY <2>1, <2>2 DEF EagerNodes
  <2>. DEFINE shown == [k \in DOMAIN node.parts |-> Eager!Shown(node.parts[k])]
  <2>6. Pieces(nodes', Render(nodes'), n+1) = shown
    <3>1. \A k \in 1..Len(node.parts) :
            PartText(nodes', Render(nodes'), node.parts[k]) = Eager!Shown(node.parts[k])
      <4>1. TAKE k \in 1..Len(node.parts)
      <4>. DEFINE part == node.parts[k]
      <4>2. part \in PartOver(nodes) /\ part.node \in 0..n
        BY <2>3 DEF PartOver
      <4>. HIDE DEF part
      <4>3. PartText(nodes', Render(nodes'), part) = PartText(nodes, Render(nodes), part)
        BY <2>1, <2>2, <4>2, PartLocal
      <4>4. PartText(nodes, Render(nodes), part) = Eager!Shown(part)
        BY <4>2, PieceShown
      <4>. QED BY <4>3, <4>4 DEF part
    <3>. QED BY <2>2, <2>3, <3>1 DEF Pieces
  <2>7. Render(nodes)' = Append(Render(nodes), FlattenSeq(shown))
    <3>1. Render(nodes) \in Seq(Text) /\ Len(Render(nodes)) = n
      BY <2>1, RenderTyped, RenderedLength DEF Inv
    <3>2. Render(nodes)' \in Seq(Text) /\ Len(Render(nodes)') = n + 1
      BY <2>1, <2>2, RenderTyped, RenderedLength DEF Inv
    <3>3. \A i \in 1..n : Render(nodes)'[i] = Render(nodes)[i]
      BY <2>1, <2>2, RenderLocal
    <3>4. Render(nodes)'[n+1] = FlattenSeq(shown)
      <4>1. n + 1 \in 1..Len(nodes')
        BY <2>1, <2>2
      <4>2. Render(nodes')[n+1] = FlattenSeq(Pieces(nodes', Render(nodes'), n+1))
        BY <2>1, <4>1, RenderUnfolds
      <4>. QED BY <2>6, <4>2
    <3>. HIDE DEF shown
    <3>5. FlattenSeq(shown) \in Text
      BY <2>1, <2>2, <3>2, <3>4, ElementOfSeq
    <3>. DEFINE text == Render(nodes)
    <3>. DEFINE more == Append(text, FlattenSeq(shown))
    <3>6. /\ more \in Seq(Text) /\ Len(more) = n + 1
          /\ \A i \in 1..n : more[i] = text[i]
          /\ more[n+1] = FlattenSeq(shown)
      <4>. HIDE DEF text
      <4>. QED BY <3>1, <3>5, AppendProperties DEF text
    <3>7. \A i \in 1..n+1 : Render(nodes)'[i] = more[i]
      BY <2>1, <3>3, <3>4, <3>6
    <3>. HIDE DEF more
    <3>8. Render(nodes)' = more
      BY <3>2, <3>6, <3>7, SeqEqual
    <3>. QED BY <3>8 DEF more
  <2>8. /\ call.precedence = node.precedence /\ call.parts = node.parts
        /\ \A k \in DOMAIN node.parts : node.parts[k].node \in {0} \cup 1..n
    BY <2>1, <2>3 DEF PartOver
  <2>9. Eager!Combine(node.precedence, node.parts)
    <3>1. Eager!FlattenSeq(shown) = FlattenSeq(shown)
      <4>. HIDE DEF shown
      <4>. QED BY Zenon DEF FlattenSeq, Eager!FlattenSeq
    <3>2. Render(nodes)' = Append(Render(nodes), Eager!FlattenSeq(shown))
      BY <2>7, <3>1, Zenon
    <3>3. \A k \in DOMAIN node.parts : node.parts[k].node \in {0} \cup DOMAIN EagerNodes(nodes)
      BY <2>5, <2>8
    <3>4. EagerNodes(nodes)' = Append(EagerNodes(nodes),
                            [precedence |-> node.precedence, parts |-> node.parts])
      BY <2>4
    <3>. HIDE DEF n
    <3>. QED BY <3>2, <3>3, <3>4, Zenon DEF Eager!Combine, EagerNodes
  <2>10. Len(EagerNodes(nodes)') = Len(EagerNodes(nodes)) + 1
    BY <2>1, <2>2 DEF EagerNodes
  <2>. DEFINE made == EagerNodes(nodes)'[Len(EagerNodes(nodes)')]
  <2>11. made.precedence = node.precedence /\ made.parts = node.parts
    BY <2>5, <2>8
  <2>12. Eager!Combine(made.precedence, made.parts)
    <3>. HIDE DEF made
    <3>. QED BY <2>9, <2>11 DEF Eager!Combine
  <2>. QED BY <2>10, <2>12, Zenon DEF Eager!EagerNext, EagerNodes
<1>. QED BY <1>1, <1>2 DEF Grows

\* Before the first call there is no text.
LEMMA StartsEager ==
  ASSUME nodes = <<>>
  PROVE  Eager!EagerInit
<1>1. WellFormed(nodes)
  BY DEF WellFormed, ChildrenFirst
<1>2. Render(nodes) = <<>>
  <2>1. Len(nodes) = 0
    OBVIOUS
  <2>2. Render(nodes) = [i \in 1..0 |-> FlattenSeq(Pieces(nodes, Render(nodes), i))]
    BY <1>1, <2>1, RenderTyped
  <2>. QED BY <2>2
<1>3. EagerNodes(nodes) = <<>>
  BY DEF EagerNodes
<1>. QED BY <1>2, <1>3 DEF Eager!EagerInit, EagerNodes

\* node.hpp:26-32: whatever the client builds, what a node renders to is the
\* text it would have been given when it was built.
THEOREM RendersEagerly == Spec => ImplementsEager
<1>1. Init => Eager!EagerInit
  BY StartsEager DEF Init
<1>2. Inv /\ Inv' /\ [Next]_vars => [Eager!EagerNext]_<<EagerNodes(nodes), Render(nodes)>>
  BY StepsGrow, StepEager
<1>. QED BY <1>1, <1>2, InvHolds, PTL DEF Spec, ImplementsEager, Eager!EagerSpec, EagerNodes

-----------------------------------------------------------------------------
\* The placeholders are texts.
LEMMA PlaceholderPreserves ==
  ASSUME Inv, InitPlaceholder
  PROVE  Inv' /\ Grows
<1>. DEFINE raw == [text |-> Placeholders[Len(nodes) + 1], precedence |-> kSymbol]
<1>1. FromRaw(raw) /\ Len(nodes) < Len(Placeholders)
  BY DEF InitPlaceholder
<1>2. raw.text \in Text /\ raw.precedence \in Precedences
  <2>1. Len(nodes) + 1 \in 1..Len(Placeholders)
    BY <1>1, InvWellFormed, SharingAssumption, LenProperties
  <2>. QED BY <2>1, SharingAssumption, ElementOfSeq, PrecedencesTyped DEF Text
<1>3. Inv'
  BY <1>1, <1>2, LeafPreserves DEF FromRaw
<1>4. Grows
  BY <1>1 DEF FromRaw, BuildExpr, Build, Grows
<1>. QED BY <1>3, <1>4

\* A step of a thread builds what some method builds, or nothing.
LEMMA SharedPreserves ==
  ASSUME Inv, [SharedNext]_sharedVars
  PROVE  Inv' /\ Grows
<1>1. CASE InitPlaceholder
  BY <1>1, PlaceholderPreserves
<1>2. CASE UNCHANGED vars
  BY <1>2, NextPreserves, StepsGrow
<1>3. ASSUME NEW t \in Threads, BeginCall(t) PROVE Inv' /\ Grows
  <2>1. CASE BuildShared(t)
    BY <2>1, NextPreserves, StepsGrow DEF BuildShared
  <2>2. ASSUME NEW u, NEW i, CopyHandle(t, u, i) PROVE UNCHANGED vars
    BY <2>2 DEF CopyHandle
  <2>3. ASSUME NEW i, DropHandle(t, i) PROVE UNCHANGED vars
    BY <2>3 DEF DropHandle
  <2>4. ASSUME NEW i, NEW context, StartRendering(t, i, context) PROVE UNCHANGED vars
    BY <2>4 DEF StartRendering
  <2>. QED BY <1>2, <1>3, <2>1, <2>2, <2>3, <2>4 DEF BeginCall
<1>4. ASSUME NEW t \in Threads, Continue(t) PROVE UNCHANGED vars
  BY <1>4 DEF Continue, ReleaseFragment, Release, AppendFragment, EnterChild, LeaveNode
<1>. QED BY <1>1, <1>2, <1>3, <1>4 DEF SharedNext, sharedVars

\* The same nodes, handles and sizes when the client is several threads.
THEOREM SharedInvHolds == SharedSpec => []Inv
<1>1. SharedInit => Inv
  BY DEF SharedInit, Init, Inv, TypeOK, ChildrenFirst, SizesAreTotals
<1>2. Inv /\ [SharedNext]_sharedVars => Inv'
  BY SharedPreserves
<1>. QED BY <1>1, <1>2, PTL DEF SharedSpec

\* Laziness shows nowhere either when threads share, copy, render and drop the
\* handles of the same nodes.
THEOREM SharedRendersEagerly == SharedSpec => ImplementsEager
<1>1. SharedInit => Eager!EagerInit
  BY StartsEager DEF SharedInit, Init
<1>2. Inv /\ Inv' /\ [SharedNext]_sharedVars
        => [Eager!EagerNext]_<<EagerNodes(nodes), Render(nodes)>>
  BY SharedPreserves, StepEager
<1>. QED BY <1>1, <1>2, SharedInvHolds, PTL
         DEF SharedSpec, ImplementsEager, Eager!EagerSpec, EagerNodes

-----------------------------------------------------------------------------
\* Reference counting keeps alive whatever is in use.

\* Where e stands in s.
Positions(s, e) == {k \in DOMAIN s : s[k] = e}

\* A sequence holds an element finitely often.
LEMMA OccurrencesFinite ==
  ASSUME NEW S, NEW s \in Seq(S), NEW e
  PROVE  /\ IsFiniteSet(Positions(s, e))
         /\ Occurrences(s, e) = Cardinality(Positions(s, e))
         /\ Occurrences(s, e) \in Nat
         /\ Occurrences(s, e) = 0 <=> e \notin Range(s)
<1>1. Len(s) \in Nat /\ DOMAIN s = 1..Len(s)
  BY LenProperties
<1>2. IsFiniteSet(Positions(s, e))
  <2>1. IsFiniteSet(1..Len(s))
    BY <1>1, FS_Interval
  <2>2. Positions(s, e) \in SUBSET (1..Len(s))
    BY <1>1 DEF Positions
  <2>. QED BY <2>1, <2>2, FS_Subset
<1>3. Occurrences(s, e) = Cardinality(Positions(s, e))
  BY Zenon DEF Occurrences, Positions
<1>4. Positions(s, e) = {} <=> e \notin Range(s)
  BY DEF Positions, Range
<1>. QED BY <1>2, <1>3, <1>4, FS_CardinalityType, FS_EmptySet

\* A longer sequence holds an element as often as its two pieces do.
LEMMA OccurrencesConcat ==
  ASSUME NEW S, NEW s \in Seq(S), NEW r \in Seq(S), NEW e
  PROVE  Occurrences(s \o r, e) = Occurrences(s, e) + Occurrences(r, e)
<1>. DEFINE m == Len(s)
<1>. DEFINE n == Len(r)
<1>1. /\ m \in Nat /\ DOMAIN s = 1..m
      /\ n \in Nat /\ DOMAIN r = 1..n
      /\ s \o r \in Seq(S) /\ DOMAIN (s \o r) = 1..(m+n)
      /\ \A k \in 1..(m+n) : (s \o r)[k] = IF k <= m THEN s[k] ELSE r[k-m]
  BY LenProperties, ConcatProperties
<1>. DEFINE A == Positions(s, e)
<1>. DEFINE B == Positions(r, e)
<1>. DEFINE C == Positions(s \o r, e) \ A
<1>2. Positions(s \o r, e) = A \cup C /\ A \cap C = {}
  BY <1>1 DEF Positions
<1>3. ExistsBijection(B, C)
  <2>. DEFINE f == [k \in B |-> k + m]
  <2>1. B \in SUBSET (1..n)
    BY <1>1 DEF Positions
  <2>2. f \in [B -> C]
    <3>1. \A k \in B : k + m \in 1..(m+n) /\ ~(k + m <= m) /\ (k + m) - m = k /\ r[k] = e
      BY <1>1, <2>1 DEF Positions
    <3>2. \A k \in B : k + m \in C
      BY <1>1, <3>1 DEF Positions
    <3>. QED BY <3>2
  <2>3. \A a, b \in B : f[a] = f[b] => a = b
    BY <1>1, <2>1
  <2>4. \A c \in C : \E b \in B : f[b] = c
    <3>1. TAKE c \in C
    <3>2. c \in 1..(m+n) /\ ~(c <= m) /\ r[c-m] = e
      BY <1>1 DEF Positions
    <3>3. c - m \in B /\ f[c - m] = c
      BY <1>1, <3>2 DEF Positions
    <3>. QED BY <3>3
  <2>. HIDE DEF f, B, C
  <2>. QED BY <2>2, <2>3, <2>4
           DEF ExistsBijection, Bijection, Injection, Surjection, IsInjective
<1>4. /\ IsFiniteSet(A) /\ Occurrences(s, e) = Cardinality(A)
      /\ IsFiniteSet(B) /\ Occurrences(r, e) = Cardinality(B)
      /\ Occurrences(s \o r, e) = Cardinality(Positions(s \o r, e))
  BY <1>1, OccurrencesFinite
<1>. HIDE DEF A, B, C
<1>5. IsFiniteSet(C) /\ Cardinality(C) = Cardinality(B)
  BY <1>3, <1>4, FS_Bijection
<1>6. Cardinality(A \cup C) = Cardinality(A) + Cardinality(C)
  <2>1. Cardinality(A) \in Nat /\ Cardinality(C) \in Nat
    BY <1>4, <1>5, FS_CardinalityType
  <2>2. Cardinality(A \cup C) = Cardinality(A) + Cardinality(C) - Cardinality(A \cap C)
    BY <1>4, <1>5, FS_Union
  <2>3. Cardinality(A \cap C) = 0
    BY <1>2, FS_EmptySet
  <2>. QED BY <2>1, <2>2, <2>3
<1>. QED BY <1>2, <1>4, <1>5, <1>6

\* The first element, and the rest.
LEMMA OccurrencesHead ==
  ASSUME NEW S, NEW s \in Seq(S), s # <<>>, NEW e
  PROVE  Occurrences(s, e) = Occurrences(Tail(s), e) + IF Head(s) = e THEN 1 ELSE 0
<1>. DEFINE x == Head(s)
<1>1. x \in S /\ Tail(s) \in Seq(S) /\ <<x>> \in Seq(S) /\ s = <<x>> \o Tail(s)
  OBVIOUS
<1>2. Occurrences(<<x>>, e) = IF x = e THEN 1 ELSE 0
  <2>1. Positions(<<x>>, e) = IF x = e THEN {1} ELSE {}
    <3>1. DOMAIN <<x>> = {1} /\ <<x>>[1] = x
      OBVIOUS
    <3>. HIDE DEF x
    <3>2. \A k : k \in Positions(<<x>>, e) <=> k = 1 /\ x = e
      BY <3>1 DEF Positions
    <3>3. x = e => Positions(<<x>>, e) = {1}
      BY <3>2
    <3>4. x # e => Positions(<<x>>, e) = {}
      BY <3>2
    <3>. QED BY <3>3, <3>4
  <2>2. Occurrences(<<x>>, e) = Cardinality(Positions(<<x>>, e))
    BY <1>1, OccurrencesFinite
  <2>3. Cardinality({1}) = 1 /\ Cardinality({}) = 0
    BY FS_Singleton, FS_EmptySet
  <2>. HIDE DEF x
  <2>. QED BY <2>1, <2>2, <2>3
<1>3. Occurrences(<<x>> \o Tail(s), e) = Occurrences(<<x>>, e) + Occurrences(Tail(s), e)
  BY <1>1, OccurrencesConcat
<1>4. Occurrences(Tail(s), e) \in Nat
  BY <1>1, OccurrencesFinite
<1>. HIDE DEF x
<1>5. Occurrences(<<x>> \o Tail(s), e) = Occurrences(s, e)
  BY <1>1, Zenon
<1>6. Occurrences(s, e) = Occurrences(Tail(s), e) + IF x = e THEN 1 ELSE 0
  BY <1>2, <1>3, <1>4, <1>5
<1>. QED BY <1>6, Zenon DEF x

\* The rest of a sequence has no new elements.
LEMMA TailKeeps ==
  ASSUME NEW S, NEW s \in Seq(S), s # <<>>
  PROVE  /\ Tail(s) \in Seq(S)
         /\ Range(Tail(s)) \subseteq Range(s)
         /\ Head(s) \in Range(s)
<1>1. /\ Tail(s) \in Seq(S) /\ Len(s) \in Nat \ {0} /\ Len(Tail(s)) = Len(s) - 1
      /\ DOMAIN s = 1..Len(s) /\ DOMAIN Tail(s) = 1 .. Len(s) - 1
      /\ \A k \in 1 .. Len(s) - 1 : Tail(s)[k] = s[k+1]
      /\ Head(s) = s[1]
  BY LenProperties, HeadTailProperties
<1>. QED BY <1>1 DEF Range

\* A longer sequence has the elements of its two pieces.
LEMMA ConcatKeeps ==
  ASSUME NEW S, NEW s \in Seq(S), NEW r \in Seq(S)
  PROVE  s \o r \in Seq(S) /\ Range(s \o r) = Range(s) \cup Range(r)
<1>1. /\ Len(s) \in Nat /\ DOMAIN s = 1..Len(s)
      /\ Len(r) \in Nat /\ DOMAIN r = 1..Len(r)
      /\ s \o r \in Seq(S) /\ DOMAIN (s \o r) = 1 .. Len(s) + Len(r)
      /\ \A k \in 1 .. Len(s) + Len(r) :
           (s \o r)[k] = IF k <= Len(s) THEN s[k] ELSE r[k - Len(s)]
  BY LenProperties, ConcatProperties
<1>2. ASSUME NEW e \in Range(s \o r) PROVE e \in Range(s) \cup Range(r)
  <2>1. PICK k \in 1 .. Len(s) + Len(r) : e = (s \o r)[k]
    BY <1>1, <1>2 DEF Range
  <2>2. CASE k <= Len(s)
    BY <1>1, <2>1, <2>2 DEF Range
  <2>3. CASE ~(k <= Len(s))
    <3>1. k - Len(s) \in 1..Len(r) /\ e = r[k - Len(s)]
      BY <1>1, <2>1, <2>3
    <3>. QED BY <1>1, <3>1 DEF Range
  <2>. QED BY <2>2, <2>3
<1>3. ASSUME NEW e \in Range(s) PROVE e \in Range(s \o r)
  <2>1. PICK k \in 1..Len(s) : e = s[k]
    BY <1>1, <1>3 DEF Range
  <2>2. k \in 1 .. Len(s) + Len(r) /\ (s \o r)[k] = e
    BY <1>1, <2>1
  <2>. QED BY <1>1, <2>2 DEF Range
<1>4. ASSUME NEW e \in Range(r) PROVE e \in Range(s \o r)
  <2>1. PICK k \in 1..Len(r) : e = r[k]
    BY <1>1, <1>4 DEF Range
  <2>2. /\ k + Len(s) \in 1 .. Len(s) + Len(r) /\ ~(k + Len(s) <= Len(s))
        /\ (k + Len(s)) - Len(s) = k
    BY <1>1
  <2>3. (s \o r)[k + Len(s)] = e
    BY <1>1, <2>1, <2>2
  <2>. QED BY <1>1, <2>2, <2>3 DEF Range
<1>. QED BY <1>1, <1>2, <1>3, <1>4

-----------------------------------------------------------------------------
\* Where e stands in the sequences f[x] of the x in X.
Spots(X, f, e) == {p \in X \X Nat : p[2] \in DOMAIN f[p[1]] /\ f[p[1]][p[2]] = e}

Sequences(X, f, S) == \A x \in X : f[x] \in Seq(S)

\* Finitely many sequences hold an element finitely often.
LEMMA SpotsFinite ==
  ASSUME NEW X, IsFiniteSet(X), NEW S, NEW f, Sequences(X, f, S), NEW e
  PROVE  IsFiniteSet(Spots(X, f, e)) /\ Cardinality(Spots(X, f, e)) \in Nat
<1>. DEFINE at == [x \in X |-> {x} \X Positions(f[x], e)]
<1>. DEFINE Columns == {at[x] : x \in X}
<1>1. IsFiniteSet(Columns)
  <2>1. at \in Surjection(X, Columns)
    BY DEF Surjection
  <2>. QED BY <2>1, FS_Surjection
<1>2. \A T \in Columns : IsFiniteSet(T)
  <2>1. TAKE T \in Columns
  <2>2. PICK x \in X : T = {x} \X Positions(f[x], e)
    OBVIOUS
  <2>3. IsFiniteSet({x}) /\ IsFiniteSet(Positions(f[x], e))
    BY OccurrencesFinite, FS_Singleton DEF Sequences
  <2>. QED BY <2>2, <2>3, FS_Product
<1>3. Spots(X, f, e) = UNION Columns
  <2>1. ASSUME NEW p \in Spots(X, f, e) PROVE p \in UNION Columns
    <3>1. p[1] \in X /\ p[2] \in Positions(f[p[1]], e) /\ p = <<p[1], p[2]>>
      BY DEF Spots, Positions
    <3>2. p \in at[p[1]]
      BY <3>1
    <3>. QED BY <3>1, <3>2
  <2>2. ASSUME NEW p \in UNION Columns PROVE p \in Spots(X, f, e)
    <3>1. PICK x \in X : p \in {x} \X Positions(f[x], e)
      OBVIOUS
    <3>2. DOMAIN f[x] \subseteq Nat
      BY LenProperties DEF Sequences
    <3>. QED BY <3>1, <3>2 DEF Spots, Positions
  <2>. QED BY <2>1, <2>2
<1>. QED BY <1>1, <1>2, <1>3, FS_UNION, FS_CardinalityType

\* One of the sequences apart.
LEMMA SpotsSplit ==
  ASSUME NEW X, IsFiniteSet(X), NEW S, NEW f, Sequences(X, f, S), NEW x \in X, NEW e
  PROVE  Cardinality(Spots(X, f, e))
           = Cardinality(Spots(X \ {x}, f, e)) + Occurrences(f[x], e)
<1>. DEFINE A == Spots(X \ {x}, f, e)
<1>. DEFINE P == Positions(f[x], e)
<1>. DEFINE C == {x} \X P
<1>1. IsFiniteSet(A) /\ Cardinality(A) \in Nat
  <2>1. IsFiniteSet(X \ {x})
    BY FS_RemoveElement
  <2>2. Sequences(X \ {x}, f, S)
    BY DEF Sequences
  <2>. QED BY <2>1, <2>2, SpotsFinite
<1>2. /\ IsFiniteSet(P) /\ Occurrences(f[x], e) = Cardinality(P)
      /\ Occurrences(f[x], e) \in Nat
  BY OccurrencesFinite DEF Sequences
<1>3. IsFiniteSet(C) /\ Cardinality(C) = Cardinality(P)
  <2>1. IsFiniteSet({x}) /\ Cardinality({x}) = 1
    BY FS_Singleton
  <2>2. IsFiniteSet(C) /\ Cardinality(C) = Cardinality({x}) * Cardinality(P)
    BY <1>2, <2>1, FS_Product
  <2>. QED BY <1>2, <2>1, <2>2
<1>4. Spots(X, f, e) = A \cup C
  <2>1. DOMAIN f[x] \subseteq Nat
    BY LenProperties DEF Sequences
  <2>2. ASSUME NEW p \in Spots(X, f, e) PROVE p \in A \cup C
    BY DEF Spots, Positions
  <2>3. ASSUME NEW p \in A \cup C PROVE p \in Spots(X, f, e)
    BY <2>1 DEF Spots, Positions
  <2>. QED BY <2>2, <2>3
<1>5. A \cap C = {}
  BY DEF Spots
<1>. HIDE DEF A, C, P
<1>6. Cardinality(A \cup C) = Cardinality(A) + Cardinality(C) - Cardinality(A \cap C)
  BY <1>1, <1>3, FS_Union
<1>7. Cardinality(A \cap C) = 0
  BY <1>5, FS_EmptySet
<1>. QED BY <1>1, <1>2, <1>3, <1>4, <1>6, <1>7 DEF A

-----------------------------------------------------------------------------
\* Who has a handle of node i, in which part of which node it stands, and who
\* is about to let go of it.
HandlesOf(held, i) == {h \in Holders : i \in held[h]}

Operands(heap) ==
  [j \in DOMAIN heap |-> [k \in DOMAIN heap[j].parts |-> heap[j].parts[k].node]]

Uses(held, live, heap, pending, i) ==
  Cardinality(HandlesOf(held, i)) + Cardinality(Spots(live, Operands(heap), i))
    + Cardinality(Spots(Threads, pending, i))

Walk == [node : Nat, next : Nat \ {0}, bracketed : BOOLEAN]

Shape ==
  /\ handles \in [Holders -> SUBSET (DOMAIN nodes)]
  /\ owners \in Seq(Int) /\ Len(owners) = Len(nodes)
  /\ alive \subseteq DOMAIN nodes
  /\ releases \in [Threads -> Seq(0..Len(nodes))]
  /\ callStack \in [Threads -> Seq(Walk)]

\* What is reached by a counted reference is alive.
OwnedLive ==
  /\ \A h \in Holders : handles[h] \subseteq alive
  /\ \A i \in alive : Range(Operands(nodes)[i]) \subseteq alive \cup {0}
  /\ \A t \in Threads : Range(releases[t]) \subseteq alive \cup {0}

\* The use count of a living node is the number of its references.
Counted == \A i \in alive : owners[i] = Uses(handles, alive, nodes, releases, i)

\* EagerNodes that go from a node the thread can name to a part of it, and on to a
\* part of that.
Trail(calls, t) ==
  /\ calls # <<>> => calls[1].node \in Reach(t)
  /\ \A k \in 1 .. Len(calls) - 1 :
       /\ calls[k].node \in DOMAIN nodes
       /\ calls[k+1].node \in Range(Operands(nodes)[calls[k].node]) \ {0}

Walks(t) == Trail(callStack[t], t)

Ownership == Inv /\ Shape /\ OwnedLive /\ Counted /\ \A t \in Threads : Walks(t)

-----------------------------------------------------------------------------
\* Finitely many hold a handle.
LEMMA HandlesFinite ==
  ASSUME NEW held, NEW i
  PROVE  IsFiniteSet(HandlesOf(held, i)) /\ Cardinality(HandlesOf(held, i)) \in Nat
<1>1. IsFiniteSet(Holders)
  BY SharingAssumption, FS_AddElement DEF Holders
<1>2. HandlesOf(held, i) \in SUBSET Holders
  BY DEF HandlesOf
<1>. QED BY <1>1, <1>2, FS_Subset, FS_CardinalityType

\* The parts of a node hold handles of earlier ones.
LEMMA OperandsTyped ==
  ASSUME NEW heap, WellFormed(heap), NEW j \in DOMAIN heap
  PROVE  /\ Operands(heap)[j] \in Seq(0..Len(heap))
         /\ Range(Operands(heap)[j]) \subseteq 0..j-1
         /\ DOMAIN Operands(heap)[j] = DOMAIN heap[j].parts
         /\ \A k \in DOMAIN heap[j].parts : Operands(heap)[j][k] = heap[j].parts[k].node
<1>1. Len(heap) \in Nat /\ DOMAIN heap = 1..Len(heap) /\ j \in 1..Len(heap)
  BY LenProperties DEF WellFormed
<1>2. /\ Len(heap[j].parts) \in Nat /\ DOMAIN heap[j].parts = 1..Len(heap[j].parts)
      /\ \A k \in 1..Len(heap[j].parts) : heap[j].parts[k].node \in 0..j-1
  BY <1>1, NodeParts, LenProperties DEF PartsOver
<1>3. Operands(heap)[j] = [k \in 1..Len(heap[j].parts) |-> heap[j].parts[k].node]
  BY <1>2 DEF Operands
<1>4. \A k \in 1..Len(heap[j].parts) : heap[j].parts[k].node \in 0..Len(heap)
  BY <1>1, <1>2
<1>. QED BY <1>2, <1>3, <1>4 DEF Range

\* The two differ at x alone.
Replaced(f, g, x) == \A t \in Threads : t # x => g[t] = f[t]

\* One thread's references to let go of, replaced.
LEMMA PendingReplaced ==
  ASSUME NEW S, NEW pending, NEW later, NEW t \in Threads, NEW e,
         Sequences(Threads, pending, S), Sequences(Threads, later, S),
         Replaced(pending, later, t)
  PROVE  /\ Cardinality(Spots(Threads, pending, e)) \in Nat
         /\ Cardinality(Spots(Threads, later, e)) \in Nat
         /\ Occurrences(pending[t], e) \in Nat
         /\ Occurrences(later[t], e) \in Nat
         /\ Cardinality(Spots(Threads, later, e)) + Occurrences(pending[t], e)
              = Cardinality(Spots(Threads, pending, e)) + Occurrences(later[t], e)
<1>1. IsFiniteSet(Threads)
  BY SharingAssumption
<1>2. Occurrences(pending[t], e) \in Nat /\ Occurrences(later[t], e) \in Nat
  BY OccurrencesFinite DEF Sequences
<1>3. /\ Cardinality(Spots(Threads, pending, e)) \in Nat
      /\ Cardinality(Spots(Threads, later, e)) \in Nat
  BY <1>1, SpotsFinite
<1>4. Cardinality(Spots(Threads, later, e)) + Occurrences(pending[t], e)
        = Cardinality(Spots(Threads, pending, e)) + Occurrences(later[t], e)
  <2>1. Spots(Threads \ {t}, pending, e) = Spots(Threads \ {t}, later, e)
    BY DEF Spots, Replaced
  <2>2. Cardinality(Spots(Threads, later, e))
          = Cardinality(Spots(Threads \ {t}, later, e)) + Occurrences(later[t], e)
    BY <1>1, SpotsSplit
  <2>3. Cardinality(Spots(Threads, pending, e))
          = Cardinality(Spots(Threads \ {t}, pending, e)) + Occurrences(pending[t], e)
    BY <1>1, SpotsSplit
  <2>4. Cardinality(Spots(Threads \ {t}, pending, e)) \in Nat
    BY <1>1, FS_RemoveElement, SpotsFinite DEF Sequences
  <2>. QED BY <1>2, <2>1, <2>2, <2>3, <2>4
<1>. QED BY <1>2, <1>3, <1>4

\* A living node's references are counted in three parts.
LEMMA UsesTyped ==
  ASSUME Ownership, NEW i
  PROVE  /\ Cardinality(HandlesOf(handles, i)) \in Nat
         /\ Cardinality(Spots(alive, Operands(nodes), i)) \in Nat
         /\ Cardinality(Spots(Threads, releases, i)) \in Nat
         /\ IsFiniteSet(alive) /\ Sequences(alive, Operands(nodes), 0..Len(nodes))
<1>1. WellFormed(nodes) /\ Len(nodes) \in Nat /\ DOMAIN nodes = 1..Len(nodes)
  BY InvWellFormed DEF Ownership
<1>2. IsFiniteSet(alive)
  <2>1. IsFiniteSet(1..Len(nodes))
    BY <1>1, FS_Interval
  <2>2. alive \in SUBSET (1..Len(nodes))
    BY <1>1 DEF Ownership, Shape
  <2>. QED BY <2>1, <2>2, FS_Subset
<1>3. Sequences(alive, Operands(nodes), 0..Len(nodes))
  BY <1>1, OperandsTyped DEF Sequences, Ownership, Shape
<1>4. Cardinality(Spots(alive, Operands(nodes), i)) \in Nat
  BY <1>2, <1>3, SpotsFinite
<1>5. Cardinality(Spots(Threads, releases, i)) \in Nat
  BY SharingAssumption, SpotsFinite DEF Ownership, Shape, Sequences
<1>. QED BY <1>2, <1>3, <1>4, <1>5, HandlesFinite

\* One element on its own.
LEMMA OccurrencesOne ==
  ASSUME NEW S, NEW x \in S, NEW e
  PROVE  Occurrences(<<x>>, e) = IF x = e THEN 1 ELSE 0
<1>1. <<x>> \in Seq(S) /\ <<x>> # <<>> /\ Head(<<x>>) = x /\ Tail(<<x>>) = <<>>
  OBVIOUS
<1>2. Occurrences(<<>>, e) = 0
  <2>1. <<>> \in Seq(S) /\ e \notin Range(<<>>)
    BY DEF Range
  <2>. QED BY <2>1, OccurrencesFinite
<1>3. Occurrences(<<x>>, e) = Occurrences(Tail(<<x>>), e) + IF Head(<<x>>) = e THEN 1 ELSE 0
  BY <1>1, OccurrencesHead, Zenon
<1>4. Occurrences(<<x>>, e) = 0 + IF x = e THEN 1 ELSE 0
  BY <1>1, <1>2, <1>3, Zenon
<1>. QED BY <1>4

-----------------------------------------------------------------------------
\* A copy of a handle is counted.
LEMMA CopyKeepsOwnership ==
  ASSUME Ownership, Inv', NEW t \in Threads, NEW u \in Threads, NEW i, CopyHandle(t, u, i)
  PROVE  Ownership'
<1>1. /\ i \in Reach(t) \ handles[u]
      /\ handles' = [handles EXCEPT ![u] = @ \cup {i}]
      /\ owners' = [owners EXCEPT ![i] = @ + 1]
      /\ UNCHANGED <<nodes, alive, releases, callStack>>
  BY DEF CopyHandle, vars
<1>2. /\ i \in alive /\ i \in DOMAIN nodes /\ i \in DOMAIN owners
      /\ t \in Holders /\ u \in Holders /\ Statics \in Holders
      /\ handles \in [Holders -> SUBSET (DOMAIN nodes)]
      /\ owners \in Seq(Int) /\ DOMAIN owners = DOMAIN nodes
  BY <1>1, InvWellFormed, LenProperties DEF Reach, Holders, Ownership, Shape, OwnedLive
<1>3. Shape'
  BY <1>1, <1>2 DEF Ownership, Shape
<1>4. OwnedLive'
  BY <1>1, <1>2 DEF Ownership, OwnedLive
<1>5. Counted'
  <2>1. ASSUME NEW e \in alive
        PROVE  owners'[e] = Uses(handles', alive, nodes, releases, e)
    <3>1. /\ owners[e] = Uses(handles, alive, nodes, releases, e)
          /\ e \in DOMAIN owners /\ owners[e] \in Int
      BY <1>2 DEF Ownership, Counted, Shape
    <3>2. CASE e = i
      <4>1. HandlesOf(handles', e) = HandlesOf(handles, e) \cup {u} /\ u \notin HandlesOf(handles, e)
        BY <1>1, <1>2, <3>2 DEF HandlesOf
      <4>2. Cardinality(HandlesOf(handles', e)) = Cardinality(HandlesOf(handles, e)) + 1
        BY <4>1, HandlesFinite, FS_AddElement
      <4>3. owners'[e] = owners[e] + 1
        BY <1>1, <1>2, <3>2
      <4>. QED BY <3>1, <4>2, <4>3, UsesTyped DEF Uses
    <3>3. CASE e # i
      <4>1. HandlesOf(handles', e) = HandlesOf(handles, e)
        BY <1>1, <1>2, <3>3 DEF HandlesOf
      <4>2. owners'[e] = owners[e]
        BY <1>1, <1>2, <3>1, <3>3
      <4>. QED BY <3>1, <4>1, <4>2 DEF Uses
    <3>. QED BY <3>2, <3>3
  <2>. QED BY <1>1, <2>1 DEF Counted
<1>6. \A v \in Threads : Walks(v)'
  <2>1. \A v \in Threads : Reach(v) \subseteq Reach(v)'
    BY <1>1, <1>2 DEF Reach, Holders
  <2>. QED BY <1>1, <2>1 DEF Ownership, Walks, Trail
<1>. QED BY <1>3, <1>4, <1>5, <1>6 DEF Ownership

\* What was a handle is now a reference to let go of.
LEMMA DropKeepsOwnership ==
  ASSUME Ownership, Inv', NEW t \in Threads, NEW i, DropHandle(t, i)
  PROVE  Ownership'
<1>1. /\ callStack[t] = <<>> /\ releases[t] = <<>>
      /\ i \in handles[t]
      /\ handles' = [handles EXCEPT ![t] = @ \ {i}]
      /\ releases' = [releases EXCEPT ![t] = <<i>>]
      /\ UNCHANGED <<nodes, owners, alive, callStack>>
  BY DEF DropHandle, Ready, Idle, vars
<1>2. /\ i \in alive /\ i \in DOMAIN nodes /\ i \in 0..Len(nodes)
      /\ t \in Holders /\ Statics \in Holders
      /\ handles \in [Holders -> SUBSET (DOMAIN nodes)]
      /\ releases \in [Threads -> Seq(0..Len(nodes))]
  BY <1>1, InvWellFormed DEF Holders, Ownership, Shape, OwnedLive
<1>3. Shape'
  <2>1. <<i>> \in Seq(0..Len(nodes))
    BY <1>2
  <2>. QED BY <1>1, <1>2, <2>1 DEF Ownership, Shape
<1>4. OwnedLive'
  <2>1. Range(<<i>>) = {i}
    BY DEF Range
  <2>. QED BY <1>1, <1>2, <2>1 DEF Ownership, OwnedLive
<1>5. Counted'
  <2>1. ASSUME NEW e \in alive
        PROVE  Uses(handles', alive, nodes, releases', e) = Uses(handles, alive, nodes, releases, e)
    <3>1. /\ Cardinality(Spots(Threads, releases, e)) \in Nat
          /\ Cardinality(Spots(Threads, releases', e)) \in Nat
          /\ Cardinality(Spots(Threads, releases', e)) + 0
               = Cardinality(Spots(Threads, releases, e)) + (IF i = e THEN 1 ELSE 0)
      <4>1. <<i>> \in Seq(0..Len(nodes)) /\ Range(<<>>) = {}
        BY <1>2 DEF Range
      <4>2. Occurrences(<<i>>, e) = IF i = e THEN 1 ELSE 0
        BY <1>2, OccurrencesOne
      <4>3. Occurrences(releases[t], e) = 0
        BY <1>1, <1>2, <4>1, OccurrencesFinite
      <4>4. /\ Cardinality(Spots(Threads, releases, e)) \in Nat
            /\ Cardinality(Spots(Threads, releases', e)) \in Nat
            /\ Cardinality(Spots(Threads, releases', e)) + Occurrences(releases[t], e)
                 = Cardinality(Spots(Threads, releases, e)) + Occurrences(<<i>>, e)
        <5>1. Sequences(Threads, releases, 0..Len(nodes)) /\ Sequences(Threads, releases', 0..Len(nodes))
          BY <1>1, <1>2, <4>1 DEF Sequences
        <5>2. Replaced(releases, releases', t) /\ releases'[t] = <<i>>
          BY <1>1, <1>2 DEF Replaced
        <5>. QED BY <5>1, <5>2, PendingReplaced
      <4>. QED BY <4>2, <4>3, <4>4
    <3>2. Cardinality(HandlesOf(handles, e))
            = Cardinality(HandlesOf(handles', e)) + (IF i = e THEN 1 ELSE 0)
      <4>1. CASE i = e
        <5>1. HandlesOf(handles', e) = HandlesOf(handles, e) \ {t} /\ t \in HandlesOf(handles, e)
          BY <1>1, <1>2, <4>1 DEF HandlesOf
        <5>2. Cardinality(HandlesOf(handles', e)) = Cardinality(HandlesOf(handles, e)) - 1
          BY <5>1, HandlesFinite, FS_RemoveElement
        <5>. QED BY <4>1, <5>2, HandlesFinite
      <4>2. CASE i # e
        <5>1. HandlesOf(handles', e) = HandlesOf(handles, e)
          BY <1>1, <1>2, <4>2 DEF HandlesOf
        <5>. QED BY <4>2, <5>1, HandlesFinite
      <4>. QED BY <4>1, <4>2
    <3>3. Cardinality(HandlesOf(handles', e)) \in Nat
      BY HandlesFinite
    <3>. QED BY <3>1, <3>2, <3>3, UsesTyped DEF Uses
  <2>. QED BY <1>1, <2>1 DEF Counted, Ownership
<1>6. \A v \in Threads : Walks(v)'
  <2>1. TAKE v \in Threads
  <2>2. CASE v = t
    BY <1>1, <2>2 DEF Walks, Trail
  <2>3. CASE v # t
    <3>1. Reach(v)' = Reach(v)
      BY <1>1, <1>2, <2>3, SharingAssumption DEF Reach, Holders
    <3>. QED BY <1>1, <3>1 DEF Ownership, Walks, Trail
  <2>. QED BY <2>2, <2>3
<1>. QED BY <1>3, <1>4, <1>5, <1>6 DEF Ownership

\* A part without a handle refers to nothing.
LEMMA FragmentReleased ==
  ASSUME Ownership, Inv', NEW t \in Threads, ReleaseFragment(t)
  PROVE  Ownership'
<1>1. /\ releases[t] # <<>> /\ Head(releases[t]) = 0
      /\ releases' = [releases EXCEPT ![t] = Tail(@)]
      /\ UNCHANGED <<nodes, handles, owners, alive, callStack>>
  BY DEF ReleaseFragment, vars
<1>2. /\ releases \in [Threads -> Seq(0..Len(nodes))]
      /\ Tail(releases[t]) \in Seq(0..Len(nodes))
      /\ Range(Tail(releases[t])) \subseteq Range(releases[t])
  <2>1. releases \in [Threads -> Seq(0..Len(nodes))]
    BY DEF Ownership, Shape
  <2>. QED BY <1>1, <2>1, TailKeeps
<1>3. Shape'
  BY <1>1, <1>2 DEF Ownership, Shape
<1>4. OwnedLive'
  BY <1>1, <1>2 DEF Ownership, OwnedLive
<1>5. Counted'
  <2>1. ASSUME NEW e \in alive
        PROVE  Cardinality(Spots(Threads, releases', e)) = Cardinality(Spots(Threads, releases, e))
    <3>1. 0 # e
      BY InvWellFormed DEF Ownership, Shape
    <3>2. Occurrences(releases[t], e)
            = Occurrences(Tail(releases[t]), e) + IF Head(releases[t]) = e THEN 1 ELSE 0
      BY <1>1, <1>2, OccurrencesHead
    <3>3. /\ Cardinality(Spots(Threads, releases, e)) \in Nat
          /\ Cardinality(Spots(Threads, releases', e)) \in Nat
          /\ Occurrences(Tail(releases[t]), e) \in Nat
          /\ Cardinality(Spots(Threads, releases', e)) + Occurrences(releases[t], e)
               = Cardinality(Spots(Threads, releases, e)) + Occurrences(Tail(releases[t]), e)
      <4>1. Sequences(Threads, releases, 0..Len(nodes)) /\ Sequences(Threads, releases', 0..Len(nodes))
        BY <1>1, <1>2 DEF Sequences
      <4>2. Replaced(releases, releases', t) /\ releases'[t] = Tail(releases[t])
        BY <1>1, <1>2 DEF Replaced
      <4>. QED BY <4>1, <4>2, PendingReplaced
    <3>. QED BY <1>1, <3>1, <3>2, <3>3
  <2>. QED BY <1>1, <2>1 DEF Counted, Ownership, Uses
<1>6. \A v \in Threads : Walks(v)'
  BY <1>1 DEF Ownership, Walks, Trail, Reach
<1>. QED BY <1>3, <1>4, <1>5, <1>6 DEF Ownership

\* One reference less, and its node goes with the last.
LEMMA ReleaseKeepsOwnership ==
  ASSUME Ownership, Inv', NEW t \in Threads, Release(t)
  PROVE  Ownership'
<1>. DEFINE i == Head(releases[t])
<1>. DEFINE rest == Tail(releases[t])
<1>. DEFINE last == owners[i] = 1
<1>. DEFINE T == 0..Len(nodes)
<1>. DEFINE in(e) == Cardinality(HandlesOf(handles, e))
<1>. DEFINE parts(e) == Cardinality(Spots(alive, Operands(nodes), e))
<1>. DEFINE due(e) == Cardinality(Spots(Threads, releases, e))
<1>1. /\ releases[t] # <<>> /\ i # 0
      /\ owners' = [owners EXCEPT ![i] = @ - 1]
      /\ alive' = IF last THEN alive \ {i} ELSE alive
      /\ releases' = [releases EXCEPT ![t] = (IF last THEN References(i) ELSE <<>>) \o rest]
      /\ UNCHANGED <<nodes, handles, callStack>>
  BY DEF Release, vars
<1>2. /\ releases \in [Threads -> Seq(T)] /\ releases[t] \in Seq(T)
      /\ rest \in Seq(T) /\ Range(rest) \subseteq Range(releases[t]) /\ i \in Range(releases[t])
  <2>1. releases \in [Threads -> Seq(T)]
    BY DEF Ownership, Shape
  <2>. QED BY <1>1, <2>1, TailKeeps
<1>3. /\ WellFormed(nodes) /\ Len(nodes) \in Nat /\ DOMAIN nodes = 1..Len(nodes)
      /\ i \in alive /\ i \in DOMAIN nodes
      /\ alive \subseteq DOMAIN nodes
      /\ owners \in Seq(Int) /\ DOMAIN owners = DOMAIN nodes
      /\ \A e \in DOMAIN nodes : owners[e] \in Int
  BY <1>1, <1>2, InvWellFormed, LenProperties, ElementOfSeq DEF Ownership, Shape, OwnedLive
<1>4. /\ Operands(nodes)[i] = References(i)
      /\ References(i) \in Seq(T)
      /\ Range(References(i)) \subseteq 0..i-1
      /\ Range(References(i)) \subseteq alive \cup {0}
  <2>1. Operands(nodes)[i] = References(i)
    BY <1>3 DEF Operands, References
  <2>. QED BY <1>3, <2>1, OperandsTyped DEF Ownership, OwnedLive
<1>5. \A e : in(e) \in Nat /\ parts(e) \in Nat /\ due(e) \in Nat
  BY UsesTyped
<1>6. \A e \in alive : owners[e] = in(e) + parts(e) + due(e)
  BY DEF Ownership, Counted, Uses
<1>7. \A e :
        /\ Occurrences(rest, e) \in Nat /\ Occurrences(References(i), e) \in Nat
        /\ Occurrences(releases[t], e) = Occurrences(rest, e) + IF i = e THEN 1 ELSE 0
        /\ Occurrences(References(i) \o rest, e)
             = Occurrences(References(i), e) + Occurrences(rest, e)
  <2>1. TAKE e
  <2>2. Occurrences(rest, e) \in Nat /\ Occurrences(References(i), e) \in Nat
    BY <1>2, <1>4, OccurrencesFinite
  <2>3. Occurrences(releases[t], e) = Occurrences(rest, e) + IF i = e THEN 1 ELSE 0
    BY <1>1, <1>2, OccurrencesHead
  <2>4. Occurrences(References(i) \o rest, e) = Occurrences(References(i), e) + Occurrences(rest, e)
    BY <1>2, <1>4, OccurrencesConcat
  <2>. QED BY <2>2, <2>3, <2>4
<1>8. Sequences(Threads, releases, T)
  BY <1>2 DEF Sequences
<1>0. owners' \in Seq(Int) /\ Len(owners') = Len(nodes) /\ owners'[i] = owners[i] - 1
  BY <1>1, <1>3, LenProperties DEF Ownership, Shape
<1>9. \A v \in Threads : Walks(v)'
  BY <1>1 DEF Ownership, Walks, Trail, Reach
<1>. HIDE DEF i, rest, in, parts, due
<1>10. CASE ~last
  <2>1. /\ alive' = alive /\ releases' = [releases EXCEPT ![t] = rest]
        /\ releases'[t] = rest
    BY <1>1, <1>2, <1>10
  <2>2. Sequences(Threads, releases', T) /\ Replaced(releases, releases', t)
    BY <1>2, <2>1 DEF Sequences, Replaced
  <2>3. Shape'
    <3>1. releases' \in [Threads -> Seq(T)]
      BY <1>2, <2>1
    <3>. QED BY <1>0, <1>1, <2>1, <3>1 DEF Ownership, Shape
  <2>4. OwnedLive'
    BY <1>1, <1>2, <2>1 DEF Ownership, OwnedLive
  <2>5. ASSUME NEW e \in alive
        PROVE  owners'[e] = Uses(handles, alive, nodes, releases', e)
    <3>1. Cardinality(Spots(Threads, releases', e)) + Occurrences(releases[t], e)
            = due(e) + Occurrences(rest, e)
      <4>1. Cardinality(Spots(Threads, releases', e)) + Occurrences(releases[t], e)
              = Cardinality(Spots(Threads, releases, e)) + Occurrences(releases'[t], e)
        BY <1>8, <2>2, PendingReplaced
      <4>. QED BY <2>1, <4>1 DEF due
    <3>2. Cardinality(Spots(Threads, releases', e)) \in Nat
      BY <1>8, <2>2, PendingReplaced
    <3>3. Cardinality(Spots(Threads, releases', e)) + (IF i = e THEN 1 ELSE 0) = due(e)
      <4>1. /\ Occurrences(rest, e) \in Nat
            /\ Occurrences(releases[t], e) = Occurrences(rest, e) + IF i = e THEN 1 ELSE 0
        BY <1>7
      <4>. QED BY <1>5, <3>1, <3>2, <4>1
    <3>4. owners'[e] = owners[e] - IF i = e THEN 1 ELSE 0
      BY <1>1, <1>3
    <3>. QED BY <1>5, <1>6, <3>2, <3>3, <3>4 DEF Uses, in, parts
  <2>. QED BY <1>1, <1>9, <2>1, <2>3, <2>4, <2>5 DEF Ownership, Counted
<1>11. CASE last
  <2>. DEFINE given == References(i) \o rest
  <2>1. /\ alive' = alive \ {i} /\ releases' = [releases EXCEPT ![t] = given]
        /\ given \in Seq(T) /\ releases'[t] = given
        /\ Range(given) = Range(References(i)) \cup Range(rest)
    <3>1. given \in Seq(T) /\ Range(given) = Range(References(i)) \cup Range(rest)
      BY <1>2, <1>4, ConcatKeeps
    <3>. QED BY <1>1, <1>2, <1>11, <3>1
  <2>. HIDE DEF given
  <2>2. Sequences(Threads, releases', T) /\ Replaced(releases, releases', t)
    BY <1>2, <2>1 DEF Sequences, Replaced
  <2>3. /\ in(i) = 0 /\ parts(i) = 0
        /\ Occurrences(rest, i) = 0
        /\ Cardinality(Spots(Threads \ {t}, releases, i)) = 0
    <3>1. /\ due(i) = Cardinality(Spots(Threads \ {t}, releases, i)) + Occurrences(releases[t], i)
          /\ Cardinality(Spots(Threads \ {t}, releases, i)) \in Nat
      <4>1. IsFiniteSet(Threads) /\ IsFiniteSet(Threads \ {t})
        BY SharingAssumption, FS_RemoveElement
      <4>2. Sequences(Threads \ {t}, releases, T)
        BY <1>8 DEF Sequences
      <4>. QED BY <1>8, <4>1, <4>2, SpotsSplit, SpotsFinite DEF due
    <3>2. Occurrences(releases[t], i) = Occurrences(rest, i) + 1 /\ Occurrences(rest, i) \in Nat
      BY <1>7
    <3>3. 1 = in(i) + parts(i) + due(i)
      BY <1>3, <1>6, <1>11
    <3>4. in(i) \in Nat /\ parts(i) \in Nat /\ due(i) \in Nat
      BY <1>5
    <3>. QED BY <3>1, <3>2, <3>3, <3>4
  <2>4. /\ HandlesOf(handles, i) = {}
        /\ Spots(alive, Operands(nodes), i) = {}
        /\ Spots(Threads \ {t}, releases, i) = {}
        /\ i \notin Range(rest)
    <3>1. /\ IsFiniteSet(HandlesOf(handles, i)) /\ IsFiniteSet(Spots(alive, Operands(nodes), i))
          /\ IsFiniteSet(Spots(Threads \ {t}, releases, i))
      <4>1. IsFiniteSet(Threads \ {t}) /\ Sequences(Threads \ {t}, releases, T)
        BY <1>8, SharingAssumption, FS_RemoveElement DEF Sequences
      <4>. QED BY <4>1, HandlesFinite, UsesTyped, SpotsFinite
    <3>. QED BY <1>2, <2>3, <3>1, FS_EmptySet, OccurrencesFinite DEF in, parts
  <2>5. \A h \in Holders : i \notin handles[h]
    BY <2>4 DEF HandlesOf
  <2>6. \A j \in alive : i \notin Range(Operands(nodes)[j])
    <3>1. ASSUME NEW j \in alive, i \in Range(Operands(nodes)[j]) PROVE FALSE
      <4>1. PICK k \in DOMAIN Operands(nodes)[j] : Operands(nodes)[j][k] = i
        BY <3>1 DEF Range
      <4>2. DOMAIN Operands(nodes)[j] \subseteq Nat
        BY <1>3, OperandsTyped, LenProperties
      <4>3. <<j, k>> \in Spots(alive, Operands(nodes), i)
        BY <4>1, <4>2 DEF Spots
      <4>. QED BY <2>4, <4>3
    <3>. QED BY <3>1
  <2>7. \A u \in Threads : u # t => i \notin Range(releases[u])
    <3>1. ASSUME NEW u \in Threads \ {t}, i \in Range(releases[u]) PROVE FALSE
      <4>1. PICK k \in DOMAIN releases[u] : releases[u][k] = i
        BY <3>1 DEF Range
      <4>2. DOMAIN releases[u] \subseteq Nat
        BY <1>2, LenProperties
      <4>3. <<u, k>> \in Spots(Threads \ {t}, releases, i)
        BY <4>1, <4>2 DEF Spots
      <4>. QED BY <2>4, <4>3
    <3>. QED BY <3>1
  <2>8. Shape'
    <3>1. releases' \in [Threads -> Seq(T)]
      BY <1>2, <2>1
    <3>. QED BY <1>0, <1>1, <2>1, <3>1 DEF Ownership, Shape
  <2>9. OwnedLive'
    <3>1. \A h \in Holders : handles[h] \subseteq alive \ {i}
      BY <2>5 DEF Ownership, OwnedLive
    <3>2. \A j \in alive : Range(Operands(nodes)[j]) \subseteq (alive \ {i}) \cup {0}
      BY <2>6 DEF Ownership, OwnedLive
    <3>3. Range(given) \subseteq (alive \ {i}) \cup {0}
      <4>1. i \notin 0..i-1
        BY <1>3
      <4>2. Range(rest) \subseteq alive \cup {0}
        BY <1>2 DEF Ownership, OwnedLive
      <4>. QED BY <1>4, <2>1, <2>4, <4>1, <4>2
    <3>4. \A u \in Threads : Range(releases'[u]) \subseteq (alive \ {i}) \cup {0}
      <4>1. ASSUME NEW u \in Threads, u # t
            PROVE  Range(releases'[u]) \subseteq (alive \ {i}) \cup {0}
        <5>1. releases'[u] = releases[u]
          BY <2>2, <4>1 DEF Replaced
        <5>. QED BY <2>7, <4>1, <5>1 DEF Ownership, OwnedLive
      <4>. QED BY <2>1, <3>3, <4>1
    <3>. QED BY <1>1, <2>1, <3>1, <3>2, <3>4 DEF OwnedLive
  <2>10. ASSUME NEW e \in alive \ {i}
         PROVE  owners'[e] = Uses(handles, alive \ {i}, nodes, releases', e)
    <3>1. /\ Cardinality(Spots(Threads, releases', e)) + Occurrences(releases[t], e)
               = due(e) + Occurrences(given, e)
          /\ Cardinality(Spots(Threads, releases', e)) \in Nat
      <4>1. /\ Cardinality(Spots(Threads, releases', e)) + Occurrences(releases[t], e)
                 = Cardinality(Spots(Threads, releases, e)) + Occurrences(releases'[t], e)
            /\ Cardinality(Spots(Threads, releases', e)) \in Nat
        BY <1>8, <2>2, PendingReplaced
      <4>. QED BY <2>1, <4>1 DEF due
    <3>2. /\ Occurrences(releases[t], e) = Occurrences(rest, e)
          /\ Occurrences(given, e) = Occurrences(References(i), e) + Occurrences(rest, e)
          /\ Occurrences(rest, e) \in Nat /\ Occurrences(References(i), e) \in Nat
      <4>1. Occurrences(rest, e) \in Nat /\ Occurrences(References(i), e) \in Nat
        BY <1>7
      <4>2. Occurrences(releases[t], e) = Occurrences(rest, e) + IF i = e THEN 1 ELSE 0
        BY <1>7
      <4>3. Occurrences(given, e) = Occurrences(References(i), e) + Occurrences(rest, e)
        BY <1>7 DEF given
      <4>. QED BY <4>1, <4>2, <4>3
    <3>3. /\ parts(e) = Cardinality(Spots(alive \ {i}, Operands(nodes), e))
                        + Occurrences(References(i), e)
          /\ Cardinality(Spots(alive \ {i}, Operands(nodes), e)) \in Nat
      <4>1. IsFiniteSet(alive) /\ Sequences(alive, Operands(nodes), T)
        BY UsesTyped
      <4>2. IsFiniteSet(alive \ {i}) /\ Sequences(alive \ {i}, Operands(nodes), T)
        BY <4>1, FS_RemoveElement DEF Sequences
      <4>3. Cardinality(Spots(alive, Operands(nodes), e))
              = Cardinality(Spots(alive \ {i}, Operands(nodes), e))
                + Occurrences(Operands(nodes)[i], e)
        <5>1. i \in alive
          BY <1>3
        <5>. QED BY ONLY <4>1, <5>1, SpotsSplit
      <4>4. Cardinality(Spots(alive \ {i}, Operands(nodes), e)) \in Nat
        BY <4>2, SpotsFinite
      <4>. QED BY <1>4, <4>3, <4>4 DEF parts
    <3>4. owners'[e] = owners[e]
      BY <1>1, <1>3
    <3>. QED BY <1>5, <1>6, <3>1, <3>2, <3>3, <3>4 DEF Uses, in
  <2>. QED BY <1>1, <1>9, <2>1, <2>8, <2>9, <2>10 DEF Ownership, Counted
<1>. QED BY <1>10, <1>11

-----------------------------------------------------------------------------
\* What a thread can name, it or the constants own.
LEMMA NamedLive ==
  ASSUME Ownership, NEW t \in Threads
  PROVE  Reach(t) \subseteq alive /\ alive \subseteq DOMAIN nodes
BY DEF Ownership, OwnedLive, Shape, Reach, Holders

\* The nodes a rendering is in are alive: the outermost is owned by a handle,
\* each further one by the one before it.
LEMMA WalkLive ==
  ASSUME Ownership, NEW t \in Threads, NEW k \in 1..Len(callStack[t])
  PROVE  callStack[t][k].node \in alive
<1>. DEFINE T == {j \in 1..Len(callStack[t]) : callStack[t][j].node \notin alive}
<1>1. SUFFICES ASSUME T # {} PROVE FALSE
  OBVIOUS
<1>2. PICK m \in T : \A j \in T : m <= j
  <2>1. T \in SUBSET Nat
    OBVIOUS
  <2>. HIDE DEF T
  <2>. QED BY <1>1, <2>1, LeastNat
<1>3. Len(callStack[t]) \in Nat /\ (m = 1 => callStack[t] # <<>>)
  BY LenProperties DEF Ownership, Shape
<1>4. CASE m = 1
  BY <1>2, <1>3, <1>4, NamedLive DEF Ownership, Walks, Trail
<1>5. CASE m # 1
  <2>1. m - 1 \in 1 .. Len(callStack[t]) - 1 /\ m - 1 \notin T /\ (m - 1) + 1 = m
    BY <1>2, <1>3, <1>5
  <2>2. callStack[t][m-1].node \in alive
    BY <1>3, <2>1
  <2>3. callStack[t][m].node \in Range(Operands(nodes)[callStack[t][m-1].node]) \ {0}
    BY <2>1 DEF Ownership, Walks, Trail
  <2>. QED BY <1>2, <2>2, <2>3 DEF Ownership, OwnedLive
<1>. QED BY <1>4, <1>5

\* A step from node to node, and nothing else.
LEMMA WalkStep ==
  ASSUME Ownership, Inv', NEW t \in Threads, NEW s,
         UNCHANGED <<nodes, handles, owners, alive, releases>>,
         callStack' = [callStack EXCEPT ![t] = s],
         s \in Seq(Walk),
         Trail(s, t)
  PROVE  Ownership'
<1>1. callStack \in [Threads -> Seq(Walk)]
  BY DEF Ownership, Shape
<1>2. Shape'
  BY <1>1 DEF Ownership, Shape
<1>3. OwnedLive' /\ Counted'
  BY DEF Ownership, OwnedLive, Counted
<1>4. \A v \in Threads : Walks(v)'
  <2>1. TAKE v \in Threads
  <2>2. Reach(v)' = Reach(v)
    BY DEF Reach
  <2>3. CASE v = t
    BY <1>1, <2>2, <2>3 DEF Walks, Trail
  <2>4. CASE v # t
    BY <1>1, <2>2, <2>4 DEF Walks, Trail, Ownership
  <2>. QED BY <2>3, <2>4
<1>. QED BY <1>2, <1>3, <1>4 DEF Ownership

\* The call a thread is in, and its calls after one more part.
LEMMA NextTyped ==
  ASSUME Ownership, NEW t \in Threads, callStack[t] # <<>>
  PROVE  /\ callStack[t] \in Seq(Walk)
         /\ Len(callStack[t]) \in Nat \ {0}
         /\ Top(t) = callStack[t][Len(callStack[t])]
         /\ Top(t) \in Walk
         /\ Top(t).node \in alive
         /\ Top(t).node \in DOMAIN nodes
         /\ Advanced(t) \in Seq(Walk)
         /\ Len(Advanced(t)) = Len(callStack[t])
         /\ \A k \in 1..Len(callStack[t]) : Advanced(t)[k].node = callStack[t][k].node
<1>1. /\ callStack[t] \in Seq(Walk) /\ Len(callStack[t]) \in Nat \ {0}
      /\ DOMAIN callStack[t] = 1..Len(callStack[t])
      /\ \A k \in 1..Len(callStack[t]) : callStack[t][k] \in Walk
  BY LenProperties, ElementOfSeq DEF Ownership, Shape
<1>2. Top(t) = callStack[t][Len(callStack[t])]
  BY DEF Top, Last
<1>3. Len(callStack[t]) \in 1..Len(callStack[t])
  BY <1>1
<1>4. Top(t) \in Walk /\ Top(t).node \in alive
  BY <1>1, <1>2, <1>3, WalkLive
<1>5. Top(t).node \in DOMAIN nodes
  BY <1>4, NamedLive
<1>. DEFINE n == Len(callStack[t])
<1>6. \A w \in Walk : [w EXCEPT !.next = @ + 1] \in Walk /\ [w EXCEPT !.next = @ + 1].node = w.node
  BY DEF Walk
<1>7. /\ Advanced(t) = [k \in 1..n |-> IF k = n THEN [callStack[t][k] EXCEPT !.next = @ + 1]
                                               ELSE callStack[t][k]]
  BY <1>1 DEF Advanced
<1>8. Advanced(t) \in Seq(Walk) /\ Len(Advanced(t)) = n
  BY <1>1, <1>6, <1>7
<1>9. \A k \in 1..n : Advanced(t)[k].node = callStack[t][k].node
  BY <1>1, <1>6, <1>7
<1>. QED BY <1>1, <1>2, <1>4, <1>5, <1>8, <1>9

\* Render, AppendPart and the return from it.
LEMMA RenderingKeepsOwnership ==
  ASSUME Ownership, Inv', NEW t \in Threads,
         \/ \E i \in Exprs, context \in Contexts : StartRendering(t, i, context)
         \/ AppendFragment(t) \/ EnterChild(t) \/ LeaveNode(t)
  PROVE  Ownership'
<1>0. /\ WellFormed(nodes) /\ Len(nodes) \in Nat /\ DOMAIN nodes = 1..Len(nodes)
      /\ \A i \in DOMAIN nodes : nodes[i].precedence \in Int
  <2>1. WellFormed(nodes) /\ Len(nodes) \in Nat /\ DOMAIN nodes = 1..Len(nodes)
    BY InvWellFormed DEF Ownership
  <2>2. \A i \in DOMAIN nodes : nodes[i] \in Node
    BY <2>1, ElementOfSeq DEF WellFormed
  <2>. QED BY <2>1, <2>2 DEF Node, Precedences, kSymbol, kExtract
<1>1. \A i \in DOMAIN nodes, context \in Int :
        Begun(i, NeedsParens(nodes[i].precedence, context)) \in Walk
  BY <1>0 DEF Begun, Walk, NeedsParens
<1>2. ASSUME NEW i, NEW context \in Contexts, StartRendering(t, i, context) PROVE Ownership'
  <2>. DEFINE frame == Begun(i, NeedsParens(nodes[i].precedence, context))
  <2>1. /\ i \in Reach(t) /\ callStack' = [callStack EXCEPT ![t] = <<frame>>]
        /\ UNCHANGED <<nodes, handles, owners, alive, releases>>
    BY <1>2 DEF StartRendering, vars
  <2>2. frame \in Walk
    <3>1. context \in Int /\ i \in DOMAIN nodes
      BY <2>1, SharingAssumption, NamedLive DEF Precedences, kSymbol, kExtract
    <3>. QED BY <1>1, <3>1
  <2>3. frame.node = i
    BY DEF Begun
  <2>. HIDE DEF frame
  <2>4. <<frame>> \in Seq(Walk) /\ Len(<<frame>>) = 1 /\ <<frame>>[1] = frame
    BY <2>2
  <2>5. Trail(<<frame>>, t)
    BY <2>1, <2>3, <2>4 DEF Trail
  <2>. QED BY <2>1, <2>4, <2>5, WalkStep
<1>3. \A k \in 1 .. Len(callStack[t]) - 1 :
        /\ callStack[t][k].node \in DOMAIN nodes
        /\ callStack[t][k+1].node \in Range(Operands(nodes)[callStack[t][k].node]) \ {0}
  BY DEF Ownership, Walks, Trail
<1>4. CASE AppendFragment(t)
  <2>1. /\ callStack[t] # <<>> /\ callStack' = [callStack EXCEPT ![t] = Advanced(t)]
        /\ UNCHANGED <<nodes, handles, owners, alive, releases>>
    BY <1>4 DEF AppendFragment, vars
  <2>. DEFINE s == Advanced(t)
  <2>. DEFINE n == Len(callStack[t])
  <2>2. /\ n \in Nat \ {0} /\ s \in Seq(Walk) /\ Len(s) = n
        /\ \A k \in 1..n : s[k].node = callStack[t][k].node
    BY <2>1, NextTyped
  <2>. HIDE DEF s
  <2>3. s[1].node \in Reach(t)
    <3>1. 1 \in 1..n
      BY <2>2
    <3>. QED BY <2>1, <2>2, <3>1 DEF Ownership, Walks, Trail
  <2>4. \A k \in 1 .. Len(s) - 1 :
          /\ s[k].node \in DOMAIN nodes
          /\ s[k+1].node \in Range(Operands(nodes)[s[k].node]) \ {0}
    <3>1. TAKE k \in 1 .. Len(s) - 1
    <3>2. k \in 1..n-1 /\ k \in 1..n /\ k+1 \in 1..n
      BY <2>2
    <3>. QED BY <1>3, <2>2, <3>2
  <2>5. Trail(s, t)
    BY <2>3, <2>4 DEF Trail
  <2>. QED BY <2>1, <2>2, <2>5, WalkStep DEF s
<1>5. CASE EnterChild(t)
  <2>. DEFINE child == NextPart(t).node
  <2>. DEFINE frame == Begun(child, NeedsParens(nodes[child].precedence, NextPart(t).context))
  <2>. DEFINE s == Append(Advanced(t), frame)
  <2>. DEFINE n == Len(callStack[t])
  <2>1. /\ callStack[t] # <<>> /\ Remaining(t) /\ child # 0
        /\ callStack' = [callStack EXCEPT ![t] = s]
        /\ UNCHANGED <<nodes, handles, owners, alive, releases>>
    BY <1>5 DEF EnterChild, vars
  <2>2. /\ Top(t).node \in DOMAIN nodes
        /\ child \in Range(Operands(nodes)[Top(t).node]) \ {0}
        /\ child \in DOMAIN nodes
        /\ NextPart(t).context \in Int
    <3>1. /\ Top(t).node \in DOMAIN nodes /\ Top(t).node \in 1..Len(nodes)
          /\ Top(t).next \in Nat \ {0}
      BY <1>0, <2>1, NextTyped DEF Walk
    <3>. DEFINE j == Top(t).node
    <3>2. /\ nodes[j].parts \in PartsOver(nodes)
          /\ Len(nodes[j].parts) \in Nat /\ DOMAIN nodes[j].parts = 1..Len(nodes[j].parts)
          /\ \A k \in 1..Len(nodes[j].parts) :
               nodes[j].parts[k] \in PartOver(nodes) /\ nodes[j].parts[k].node \in 0..j-1
      BY <1>0, <3>1, NodeParts, LenProperties DEF PartsOver
    <3>3. Top(t).next \in 1..Len(nodes[j].parts)
      BY <2>1, <3>1, <3>2 DEF Remaining
    <3>4. NextPart(t) = nodes[j].parts[Top(t).next]
      BY DEF NextPart
    <3>5. NextPart(t) \in PartOver(nodes) /\ child \in 0..j-1
      BY <3>2, <3>3, <3>4
    <3>6. /\ DOMAIN Operands(nodes)[j] = 1..Len(nodes[j].parts)
          /\ Operands(nodes)[j][Top(t).next] = child
      <4>1. /\ DOMAIN Operands(nodes)[j] = DOMAIN nodes[j].parts
            /\ \A k \in DOMAIN nodes[j].parts : Operands(nodes)[j][k] = nodes[j].parts[k].node
        BY <1>0, <3>1, OperandsTyped
      <4>. QED BY <3>2, <3>3, <3>4, <4>1
    <3>7. child \in Range(Operands(nodes)[j])
      BY <3>3, <3>6 DEF Range
    <3>8. child \in DOMAIN nodes
      BY <1>0, <2>1, <3>1, <3>5
    <3>9. NextPart(t).context \in Int
      BY <3>5 DEF PartOver, Precedences, kSymbol, kExtract
    <3>. QED BY <2>1, <3>1, <3>7, <3>8, <3>9
  <2>3. frame \in Walk
    BY <1>1, <2>2
  <2>4. frame.node = child
    BY DEF Begun
  <2>. HIDE DEF child, frame
  <2>5. /\ n \in Nat \ {0} /\ Len(Advanced(t)) = n
        /\ s \in Seq(Walk) /\ Len(s) = n + 1
        /\ \A k \in 1..n : s[k] = Advanced(t)[k]
        /\ s[n+1] = frame
    <3>1. n \in Nat \ {0} /\ Advanced(t) \in Seq(Walk) /\ Len(Advanced(t)) = n
      BY <2>1, NextTyped
    <3>. QED BY <2>3, <3>1, AppendProperties
  <2>. HIDE DEF s
  <2>6. \A k \in 1..n : s[k].node = callStack[t][k].node
    BY <2>1, <2>5, NextTyped
  <2>7. s[1].node \in Reach(t)
    BY <2>1, <2>5, <2>6 DEF Ownership, Walks, Trail
  <2>8. \A k \in 1 .. Len(s) - 1 :
          /\ s[k].node \in DOMAIN nodes
          /\ s[k+1].node \in Range(Operands(nodes)[s[k].node]) \ {0}
    <3>1. TAKE k \in 1 .. Len(s) - 1
    <3>2. CASE k < n
      <4>1. k \in 1..n-1 /\ k \in 1..n /\ k+1 \in 1..n
        BY <2>5, <3>2
      <4>. QED BY <1>3, <2>6, <4>1
    <3>3. CASE ~(k < n)
      <4>1. k = n /\ k \in 1..n
        BY <2>5, <3>3
      <4>2. s[k].node = Top(t).node
        BY <2>1, <2>6, <4>1, NextTyped
      <4>. QED BY <2>2, <2>4, <2>5, <4>1, <4>2
    <3>. QED BY <3>2, <3>3
  <2>9. Trail(s, t)
    BY <2>7, <2>8 DEF Trail
  <2>. QED BY <2>1, <2>5, <2>9, WalkStep
<1>6. CASE LeaveNode(t)
  <2>. DEFINE s == Front(callStack[t])
  <2>. DEFINE n == Len(callStack[t])
  <2>1. /\ callStack[t] # <<>> /\ callStack' = [callStack EXCEPT ![t] = s]
        /\ UNCHANGED <<nodes, handles, owners, alive, releases>>
    BY <1>6 DEF LeaveNode, vars
  <2>2. /\ s \in Seq(Walk) /\ n \in Nat \ {0} /\ Len(s) = n - 1
        /\ \A k \in 1..n-1 : s[k] = callStack[t][k]
    <3>1. /\ n \in Nat \ {0} /\ \A k \in 1 .. n-1 : callStack[t][k] \in Walk
      BY <2>1, NextTyped, ElementOfSeq
    <3>2. s = SubSeq(callStack[t], 1, n-1)
      BY DEF Front
    <3>3. /\ SubSeq(callStack[t], 1, n-1) \in Seq(Walk)
          /\ Len(SubSeq(callStack[t], 1, n-1)) = IF 1 <= n-1 THEN (n-1)-1+1 ELSE 0
          /\ \A k \in 1 .. (n-1)-1+1 : SubSeq(callStack[t], 1, n-1)[k] = callStack[t][1+k-1]
      BY <3>1, SubSeqProperties
    <3>. QED BY <3>1, <3>2, <3>3
  <2>. HIDE DEF s
  <2>3. s # <<>> => s[1].node \in Reach(t)
    <3>1. s # <<>> => Len(s) # 0
      BY <2>2, EmptySeq
    <3>2. s # <<>> => 1 \in 1..n-1
      BY <2>2, <3>1
    <3>. QED BY <2>1, <2>2, <3>2 DEF Ownership, Walks, Trail
  <2>4. \A k \in 1 .. Len(s) - 1 :
          /\ s[k].node \in DOMAIN nodes
          /\ s[k+1].node \in Range(Operands(nodes)[s[k].node]) \ {0}
    <3>1. TAKE k \in 1 .. Len(s) - 1
    <3>2. k \in 1..n-1 /\ k+1 \in 1..n-1
      BY <2>2
    <3>. QED BY <1>3, <2>2, <3>2
  <2>5. Trail(s, t)
    BY <2>3, <2>4 DEF Trail
  <2>. QED BY <2>1, <2>2, <2>5, WalkStep
<1>. QED BY <1>2, <1>4, <1>5, <1>6

-----------------------------------------------------------------------------
\* The parts of a new node count as owners of its operands, and the client as
\* the only owner of the node.
LEMMA BuildingKeepsOwnership ==
  ASSUME Ownership, Inv', NEW node, nodes' = Append(nodes, node),
         NEW holder \in Holders, OwnNew(holder),
         UNCHANGED <<releases, callStack>>,
         Range(Operands(nodes')[Len(nodes')]) \subseteq alive \cup {0}
  PROVE  Ownership'
<1>. DEFINE n == Len(nodes)
<1>. DEFINE new == n + 1
<1>. DEFINE operands == Operands(nodes')[new]
<1>1. /\ WellFormed(nodes) /\ n \in Nat /\ DOMAIN nodes = 1..n
      /\ nodes \in Seq(Node) /\ WellFormed(nodes')
  BY InvWellFormed DEF Ownership, Inv, TypeOK, WellFormed
<1>2. /\ Len(nodes') = new /\ DOMAIN nodes' = 1..new
      /\ \A j \in 1..n : nodes'[j] = nodes[j]
      /\ new \in DOMAIN nodes' /\ new \notin DOMAIN nodes /\ DOMAIN nodes \subseteq DOMAIN nodes'
  <2>1. /\ Len(nodes') = new /\ \A j \in 1..n : nodes'[j] = nodes[j]
    BY <1>1, AppendProperties
  <2>2. DOMAIN nodes' = 1..new
    BY <1>1, <2>1, LenProperties DEF WellFormed
  <2>. QED BY <1>1, <2>1, <2>2
<1>3. \A j \in DOMAIN nodes : Operands(nodes')[j] = Operands(nodes)[j]
  BY <1>1, <1>2 DEF Operands
<1>4. /\ operands = [k \in DOMAIN nodes'[new].parts |-> nodes'[new].parts[k].node]
      /\ operands \in Seq(0..new) /\ Range(operands) \subseteq 0..new-1
      /\ Range(operands) \subseteq alive \cup {0}
  <2>1. operands = [k \in DOMAIN nodes'[new].parts |-> nodes'[new].parts[k].node]
    BY <1>2 DEF Operands
  <2>2. operands \in Seq(0..new) /\ Range(operands) \subseteq 0..new-1
    BY <1>1, <1>2, OperandsTyped
  <2>. QED BY <1>2, <2>1, <2>2
<1>. HIDE DEF operands
<1>5. /\ owners' = Append([e \in DOMAIN owners |-> owners[e] + Occurrences(operands, e)], 1)
      /\ handles' = [handles EXCEPT ![holder] = @ \cup {new}]
      /\ alive' = alive \cup {new}
  BY <1>2, <1>4, Zenon DEF OwnNew
<1>6. /\ handles \in [Holders -> SUBSET (DOMAIN nodes)]
      /\ alive \subseteq DOMAIN nodes
      /\ releases \in [Threads -> Seq(0..n)]
      /\ owners \in Seq(Int) /\ DOMAIN owners = 1..n /\ \A e \in 1..n : owners[e] \in Int
  BY <1>1, LenProperties, ElementOfSeq DEF Ownership, Shape
<1>7. \A e : Occurrences(operands, e) \in Nat /\ (Occurrences(operands, e) = 0 <=> e \notin Range(operands))
  BY <1>4, OccurrencesFinite
<1>8. /\ owners' \in Seq(Int) /\ Len(owners') = new
      /\ \A e \in 1..n : owners'[e] = owners[e] + Occurrences(operands, e)
      /\ owners'[new] = 1
  <2>. DEFINE counts == [e \in 1..n |-> owners[e] + Occurrences(operands, e)]
  <2>1. counts \in Seq(Int) /\ Len(counts) = n
    BY <1>1, <1>6, <1>7
  <2>2. owners' = Append(counts, 1)
    BY <1>5, <1>6
  <2>3. \A e \in 1..n : counts[e] = owners[e] + Occurrences(operands, e)
    OBVIOUS
  <2>. HIDE DEF counts
  <2>. QED BY <1>1, <2>1, <2>2, <2>3, AppendProperties
<1>9. Shape'
  <2>1. handles' \in [Holders -> SUBSET (DOMAIN nodes')]
    BY <1>2, <1>5, <1>6
  <2>2. releases' \in [Threads -> Seq(0..Len(nodes'))]
    <3>1. Seq(0..n) \subseteq Seq(0..new)
      BY <1>1, SeqMonotonic
    <3>. QED BY <1>2, <1>6, <3>1
  <2>3. alive' \subseteq DOMAIN nodes'
    BY <1>2, <1>5, <1>6
  <2>. QED BY <1>2, <1>8, <2>1, <2>2, <2>3 DEF Ownership, Shape
<1>10. OwnedLive'
  <2>1. \A h \in Holders : handles'[h] \subseteq alive'
    BY <1>5, <1>6 DEF Ownership, OwnedLive
  <2>2. \A j \in alive' : Range(Operands(nodes')[j]) \subseteq alive' \cup {0}
    <3>1. TAKE j \in alive'
    <3>2. CASE j = new
      BY <1>4, <1>5, <3>2 DEF operands
    <3>3. CASE j # new
      BY <1>3, <1>5, <1>6, <3>3 DEF Ownership, OwnedLive
    <3>. QED BY <3>2, <3>3
  <2>3. \A t \in Threads : Range(releases[t]) \subseteq alive' \cup {0}
    BY <1>5 DEF Ownership, OwnedLive
  <2>. QED BY <2>1, <2>2, <2>3 DEF OwnedLive
<1>11. Counted'
  <2>1. \A e : Cardinality(Spots(alive, Operands(nodes'), e)) = Cardinality(Spots(alive, Operands(nodes), e))
    <3>1. TAKE e
    <3>2. Spots(alive, Operands(nodes'), e) = Spots(alive, Operands(nodes), e)
      BY <1>3, <1>6 DEF Spots
    <3>. QED BY <3>2
  <2>2. \A e : Cardinality(Spots(alive', Operands(nodes'), e))
                 = Cardinality(Spots(alive, Operands(nodes), e)) + Occurrences(operands, e)
    <3>1. TAKE e
    <3>2. IsFiniteSet(alive') /\ new \in alive' /\ alive' \ {new} = alive
      <4>1. IsFiniteSet(alive)
        BY UsesTyped
      <4>2. new \notin alive
        BY <1>2, <1>6
      <4>3. IsFiniteSet(alive \cup {new})
        BY <4>1, FS_AddElement
      <4>. QED BY <1>5, <4>2, <4>3
    <3>3. Sequences(alive', Operands(nodes'), 0..new)
      <4>1. \A j \in DOMAIN nodes' : Operands(nodes')[j] \in Seq(0..Len(nodes'))
        BY <1>1, OperandsTyped
      <4>2. alive' \subseteq DOMAIN nodes'
        BY <1>2, <1>5, <1>6
      <4>. QED BY <1>2, <4>1, <4>2 DEF Sequences
    <3>4. Cardinality(Spots(alive', Operands(nodes'), e))
            = Cardinality(Spots(alive' \ {new}, Operands(nodes'), e))
              + Occurrences(Operands(nodes')[new], e)
      BY ONLY <3>2, <3>3, SpotsSplit
    <3>. QED BY <2>1, <3>2, <3>4 DEF operands
  <2>3. ASSUME NEW e \in alive
        PROVE  owners'[e] = Uses(handles', alive', nodes', releases, e)
    <3>1. HandlesOf(handles', e) = HandlesOf(handles, e)
      BY <1>2, <1>5, <1>6 DEF HandlesOf
    <3>2. owners[e] = Uses(handles, alive, nodes, releases, e)
      BY DEF Ownership, Counted
    <3>3. /\ Cardinality(HandlesOf(handles, e)) \in Nat
          /\ Cardinality(Spots(alive, Operands(nodes), e)) \in Nat
          /\ Cardinality(Spots(Threads, releases, e)) \in Nat
      BY UsesTyped
    <3>4. owners'[e] = owners[e] + Occurrences(operands, e) /\ Occurrences(operands, e) \in Nat
      BY <1>1, <1>6, <1>7, <1>8
    <3>5. Cardinality(Spots(alive', Operands(nodes'), e))
            = Cardinality(Spots(alive, Operands(nodes), e)) + Occurrences(operands, e)
      BY <2>2
    <3>. QED BY <3>1, <3>2, <3>3, <3>4, <3>5 DEF Uses
  <2>4. owners'[new] = Uses(handles', alive', nodes', releases, new)
    <3>1. HandlesOf(handles', new) = {holder}
      BY <1>2, <1>5, <1>6 DEF HandlesOf
    <3>2. Spots(alive, Operands(nodes), new) = {}
      <4>1. ASSUME NEW p \in Spots(alive, Operands(nodes), new) PROVE FALSE
        <5>1. p[1] \in DOMAIN nodes /\ new \in Range(Operands(nodes)[p[1]])
          BY <1>6 DEF Spots, Range
        <5>2. new \in 0..p[1]-1 /\ p[1] \in 1..n
          BY <1>1, <5>1, OperandsTyped
        <5>. QED BY <1>1, <5>2
      <4>. QED BY <4>1
    <3>3. Occurrences(operands, new) = 0
      <4>1. new \notin 0..new-1
        BY <1>1
      <4>. QED BY <1>4, <1>7, <4>1
    <3>4. Spots(Threads, releases, new) = {}
      <4>1. ASSUME NEW p \in Spots(Threads, releases, new) PROVE FALSE
        <5>1. p[1] \in Threads /\ p[2] \in DOMAIN releases[p[1]] /\ releases[p[1]][p[2]] = new
          BY DEF Spots
        <5>2. releases[p[1]] \in Seq(0..n)
          BY <1>6, <5>1
        <5>3. new \in 0..n
          BY <5>1, <5>2, ElementOfSeq, LenProperties
        <5>. QED BY <1>1, <5>3
      <4>. QED BY <4>1
    <3>5. Cardinality({holder}) = 1 /\ Cardinality({}) = 0
      BY FS_Singleton, FS_EmptySet
    <3>6. Cardinality(Spots(alive', Operands(nodes'), new)) = 0
      <4>1. Cardinality(Spots(alive, Operands(nodes), new)) = 0
        BY <3>2, <3>5
      <4>2. Cardinality(Spots(alive', Operands(nodes'), new))
              = Cardinality(Spots(alive, Operands(nodes), new)) + Occurrences(operands, new)
        BY <2>2
      <4>. QED BY <3>3, <4>1, <4>2
    <3>7. Cardinality(HandlesOf(handles', new)) = 1
          /\ Cardinality(Spots(Threads, releases, new)) = 0
      BY <3>1, <3>4, <3>5
    <3>. QED BY <1>8, <3>6, <3>7 DEF Uses
  <2>5. ASSUME NEW e \in alive'
        PROVE  owners'[e] = Uses(handles', alive', nodes', releases, e)
    <3>1. e \in alive \/ e = new
      BY <1>5
    <3>. QED BY <2>3, <2>4, <3>1
  <2>. QED BY <2>5 DEF Counted
<1>12. \A v \in Threads : Walks(v)'
  <2>1. TAKE v \in Threads
  <2>2. Reach(v) \subseteq Reach(v)'
    BY <1>5, <1>6 DEF Reach, Holders
  <2>. QED BY <1>2, <1>3, <2>2 DEF Ownership, Walks, Trail
<1>. QED BY <1>9, <1>10, <1>11, <1>12 DEF Ownership

\* Every step keeps the counts exact.
LEMMA OwnershipPreserved ==
  ASSUME Ownership, [SharedNext]_sharedVars
  PROVE  Ownership'
<1>1. Inv /\ Inv' /\ Grows
  BY SharedPreserves DEF Ownership
<1>2. CASE InitPlaceholder
  <2>. DEFINE node == MakeLeaf(Placeholders[Len(nodes) + 1], kSymbol)
  <2>1. nodes' = Append(nodes, node) /\ OwnNew(Statics) /\ UNCHANGED <<releases, callStack>>
    BY <1>2 DEF InitPlaceholder, FromRaw, BuildExpr, Build
  <2>2. node.parts = <<Fragment(Placeholders[Len(nodes) + 1])>>
    BY DEF MakeLeaf
  <2>3. Len(nodes') \in DOMAIN nodes' /\ nodes'[Len(nodes')] = node
    <3>1. nodes \in Seq(Node) /\ Len(nodes) \in Nat /\ DOMAIN nodes' = 1..Len(nodes')
      BY <1>1, InvWellFormed DEF WellFormed
    <3>. HIDE DEF node
    <3>. QED BY <2>1, <3>1, AppendProperties
  <2>4. Range(Operands(nodes')[Len(nodes')]) \subseteq alive \cup {0}
    <3>1. Operands(nodes')[Len(nodes')]
            = [k \in DOMAIN node.parts |-> node.parts[k].node]
      BY <2>3 DEF Operands
    <3>2. \A k \in DOMAIN node.parts : node.parts[k].node = 0
      BY <2>2 DEF Fragment
    <3>. HIDE DEF node
    <3>. QED BY <3>1, <3>2 DEF Range
  <2>. HIDE DEF node
  <2>. QED BY <1>1, <2>1, <2>4, BuildingKeepsOwnership DEF Holders
<1>3. CASE UNCHANGED sharedVars
  BY <1>1, <1>3 DEF sharedVars, sharing, vars, Ownership, Shape, OwnedLive, Counted,
                    Walks, Trail, Reach
<1>4. ASSUME NEW t \in Threads, BuildShared(t) PROVE Ownership'
  <2>1. /\ Len(nodes') > Len(nodes) /\ OwnNew(t) /\ UNCHANGED <<releases, callStack>>
        /\ \A k \in DOMAIN Last(nodes').parts : Last(nodes').parts[k].node \in Reach(t) \cup {0}
    BY <1>4 DEF BuildShared
  <2>2. PICK node : nodes' = Append(nodes, node)
    <3>1. nodes' # nodes
      BY <1>1, <2>1, InvWellFormed
    <3>. QED BY <1>1, <3>1 DEF Grows
  <2>3. Len(nodes') \in DOMAIN nodes'
    <3>1. nodes \in Seq(Node) /\ Len(nodes) \in Nat /\ DOMAIN nodes' = 1..Len(nodes')
      BY <1>1, InvWellFormed DEF WellFormed
    <3>. QED BY <2>2, <3>1, AppendProperties
  <2>4. Range(Operands(nodes')[Len(nodes')]) \subseteq alive \cup {0}
    BY <2>1, <2>3, NamedLive DEF Operands, Range, Last
  <2>. QED BY <1>1, <2>1, <2>2, <2>4, BuildingKeepsOwnership DEF Holders
<1>5. ASSUME NEW t \in Threads, BeginCall(t) PROVE Ownership'
  <2>1. ASSUME NEW u \in Threads, NEW i, CopyHandle(t, u, i) PROVE Ownership'
    BY <1>1, <2>1, CopyKeepsOwnership
  <2>2. ASSUME NEW i, DropHandle(t, i) PROVE Ownership'
    BY <1>1, <2>2, DropKeepsOwnership
  <2>3. ASSUME NEW i \in Exprs, NEW context \in Contexts, StartRendering(t, i, context) PROVE Ownership'
    BY <1>1, <2>3, RenderingKeepsOwnership
  <2>. QED BY <1>4, <1>5, <2>1, <2>2, <2>3 DEF BeginCall
<1>6. ASSUME NEW t \in Threads, Continue(t) PROVE Ownership'
  BY <1>1, <1>6, FragmentReleased, ReleaseKeepsOwnership, RenderingKeepsOwnership
     DEF Continue
<1>. QED BY <1>2, <1>3, <1>5, <1>6 DEF SharedNext

\* node.cpp:61 and node.hpp:15-24: whatever the threads share, copy, render and
\* drop, nothing that is in use has been destroyed.
THEOREM NothingInUseIsGone == SharedSpec => []NothingDangles
<1>1. SharedInit => Ownership
  <2>1. SUFFICES ASSUME SharedInit PROVE Ownership
    OBVIOUS
  <2>2. /\ nodes = <<>> /\ owners = <<>> /\ alive = {}
        /\ handles = [h \in Holders |-> {}]
        /\ releases = [t \in Threads |-> <<>>] /\ callStack = [t \in Threads |-> <<>>]
    BY <2>1 DEF SharedInit, Init
  <2>3. Inv
    BY <2>1 DEF SharedInit, Init, Inv, TypeOK, ChildrenFirst, SizesAreTotals
  <2>4. Shape
    BY <2>2 DEF Shape
  <2>5. OwnedLive
    BY <2>2 DEF OwnedLive, Range
  <2>6. Counted /\ \A t \in Threads : Walks(t)
    BY <2>2 DEF Counted, Walks, Trail
  <2>. QED BY <2>3, <2>4, <2>5, <2>6 DEF Ownership
<1>2. Ownership /\ [SharedNext]_sharedVars => Ownership'
  BY OwnershipPreserved
<1>3. Ownership => NothingDangles
  <2>1. SUFFICES ASSUME Ownership PROVE NothingDangles
    OBVIOUS
  <2>2. \A i \in alive : Range(References(i)) \subseteq alive \cup {0}
    <3>1. TAKE i \in alive
    <3>2. Operands(nodes)[i] = References(i)
      BY <2>1, NamedLive DEF Operands, References, Ownership, Shape
    <3>. QED BY <2>1, <3>2 DEF Ownership, OwnedLive
  <2>3. \A t \in Threads : \A k \in DOMAIN callStack[t] : callStack[t][k].node \in alive
    BY <2>1, WalkLive, LenProperties DEF Ownership, Shape
  <2>. QED BY <2>1, <2>2, <2>3 DEF NothingDangles, Ownership, OwnedLive
<1>. QED BY <1>1, <1>2, <1>3, PTL DEF SharedSpec

-----------------------------------------------------------------------------
\* A rendering writes the text of its node.

\* Texts can be joined in any order of the joins.
LEMMA TextJoins ==
  /\ <<>> \in Text /\ <<"(">> \in Text /\ <<")">> \in Text
  /\ \A a, b \in Text : a \o b \in Text
  /\ \A a, b, c \in Text : (a \o b) \o c = a \o (b \o c)
  /\ \A a \in Text : <<>> \o a = a /\ a \o <<>> = a
<1>1. "(" \in Tokens /\ ")" \in Tokens
  BY Keywords
<1>2. <<>> \in Text /\ <<"(">> \in Text /\ <<")">> \in Text
  BY <1>1 DEF Text
<1>3. \A a, b \in Text : a \o b \in Text
  BY ConcatProperties DEF Text
<1>4. \A a, b, c \in Text : (a \o b) \o c = a \o (b \o c)
  BY ONLY ConcatAssociative DEF Text
<1>5. \A a \in Text : <<>> \o a = a /\ a \o <<>> = a
  BY ConcatEmptySeq DEF Text
<1>. QED BY <1>2, <1>3, <1>4, <1>5

\* What is written first is a prefix of the whole.
LEMMA JoinPrefix ==
  ASSUME NEW a \in Text, NEW b \in Text
  PROVE  IsPrefix(a, a \o b)
<1>. DEFINE w == a \o b
<1>. DEFINE n == Len(a)
<1>1. /\ n \in Nat /\ Len(b) \in Nat /\ w \in Seq(Tokens) /\ Len(w) = n + Len(b)
      /\ \A k \in 1..n : a[k] \in Tokens /\ w[k] = a[k]
  <2>1. /\ a \in Seq(Tokens) /\ b \in Seq(Tokens)
        /\ n \in Nat /\ Len(b) \in Nat
    BY LenProperties DEF Text
  <2>2. /\ w \in Seq(Tokens) /\ Len(w) = n + Len(b)
        /\ \A k \in 1 .. n + Len(b) : w[k] = IF k <= n THEN a[k] ELSE b[k - n]
    BY <2>1, ConcatProperties
  <2>3. \A k \in 1..n : k \in 1 .. n + Len(b) /\ k <= n
    BY <2>1
  <2>. HIDE DEF w
  <2>. QED BY <2>1, <2>2, <2>3, ElementOfSeq
<1>. HIDE DEF w
<1>2. SubSeq(a, 1, n) = SubSeq(w, 1, n)
  <2>. DEFINE first == SubSeq(a, 1, n)
  <2>. DEFINE same == SubSeq(w, 1, n)
  <2>1. \A k \in 1..n : w[k] \in Tokens
    BY <1>1
  <2>2. /\ first \in Seq(Tokens) /\ Len(first) = IF 1 <= n THEN n-1+1 ELSE 0
        /\ \A k \in 1 .. n-1+1 : first[k] = a[1+k-1]
    BY <1>1, SubSeqProperties
  <2>3. /\ same \in Seq(Tokens) /\ Len(same) = IF 1 <= n THEN n-1+1 ELSE 0
        /\ \A k \in 1 .. n-1+1 : same[k] = w[1+k-1]
    BY <1>1, <2>1, SubSeqProperties
  <2>. HIDE DEF first, same
  <2>4. Len(first) = n /\ Len(same) = n /\ \A k \in 1..n : first[k] = same[k]
    BY <1>1, <2>2, <2>3
  <2>5. first = same
    BY <2>2, <2>3, <2>4, SeqEqual
  <2>. QED BY <2>5 DEF first, same
<1>3. n <= Len(w)
  BY <1>1
<1>. QED BY <1>2, <1>3 DEF IsPrefix, w

-----------------------------------------------------------------------------
\* What the parts of node i, from each on, render to.
Rests(heap, i) == CHOOSE rest : Tails(rest, Tokens, Pieces(heap, Render(heap), i))

Renderable(heap) == WellFormed(heap) /\ SizesAreTotals(heap)

\* rest[k] is what node i renders to from its k-th part on.
PartByPart(heap, i, rest) ==
  /\ Len(heap[i].parts) \in Nat
  /\ \A k \in 1 .. Len(heap[i].parts) + 1 : rest[k] \in Text
  /\ rest[Len(heap[i].parts) + 1] = <<>>
  /\ \A k \in 1..Len(heap[i].parts) :
       /\ PartText(heap, Render(heap), heap[i].parts[k]) \in Text
       /\ rest[k] = PartText(heap, Render(heap), heap[i].parts[k]) \o rest[k+1]
  /\ rest[1] = Render(heap)[i]

\* The text a node renders to, part by part.
LEMMA RestsTyped ==
  ASSUME NEW heap, Renderable(heap), NEW i \in 1..Len(heap)
  PROVE  PartByPart(heap, i, Rests(heap, i))
<1>. DEFINE text == Render(heap)
<1>. DEFINE parts == heap[i].parts
<1>. DEFINE n == Len(parts)
<1>. DEFINE pieces == Pieces(heap, text, i)
<1>1. /\ WellFormed(heap) /\ SizesAreTotals(heap)
      /\ Len(heap) \in Nat /\ n \in Nat
      /\ \A k \in 1..n : parts[k] \in PartOver(heap) /\ parts[k].node \in 0..i-1
  <2>1. Len(heap) \in Nat
    BY LenProperties DEF Renderable, WellFormed
  <2>. QED BY <2>1, NodeParts, LenProperties DEF Renderable, PartsOver
<1>2. \A j \in 1..Len(heap) : text[j] \in Text
  BY <1>1, RenderedLength
<1>3. \A k \in 1..n : PartText(heap, text, parts[k]) \in Text
  <2>1. TAKE k \in 1..n
  <2>. DEFINE part == parts[k]
  <2>2. part.text \in Text /\ part.node \in 0..i-1
    BY <1>1 DEF PartOver
  <2>. HIDE DEF part, text
  <2>3. part.node # 0 => text[part.node] \in Text
    BY <1>1, <1>2, <2>2
  <2>4. part.node # 0 => <<"(">> \o text[part.node] \o <<")">> \in Text
    BY <2>3, TextJoins
  <2>5. PartText(heap, text, part) \in Text
    BY <2>2, <2>3, <2>4 DEF PartText
  <2>. QED BY <2>5 DEF part
<1>4. /\ pieces \in Seq(Text) /\ Len(pieces) = n
      /\ \A k \in 1..n : pieces[k] = PartText(heap, text, parts[k])
  <2>. HIDE DEF text
  <2>. QED BY <1>1, <1>3 DEF Pieces
<1>. DEFINE rest == Rests(heap, i)
<1>5. Tails(rest, Tokens, pieces)
  <2>1. pieces \in Seq(Seq(Tokens))
    BY <1>4 DEF Text
  <2>2. \E r : Tails(r, Tokens, pieces)
    <3>. HIDE DEF pieces
    <3>. QED BY <2>1, TailsExist
  <2>3. rest = CHOOSE r : Tails(r, Tokens, pieces)
    BY DEF Rests
  <2>. HIDE DEF rest, pieces
  <2>. QED BY <2>2, <2>3, Zenon
<1>6. FlattenSeq(pieces) = rest[1]
  <2>1. pieces \in Seq(Seq(Tokens))
    BY <1>4 DEF Text
  <2>. HIDE DEF rest, pieces
  <2>. QED BY <1>5, <2>1, TailsFlatten
<1>7. text[i] = FlattenSeq(pieces)
  BY <1>1, RenderUnfolds
<1>. HIDE DEF rest, pieces
<1>8. /\ \A k \in 1..n+1 : rest[k] \in Text
      /\ rest[n+1] = <<>>
      /\ \A k \in 1..n : rest[k] = pieces[k] \o rest[k+1]
  BY <1>4, <1>5 DEF Tails, Text
<1>9. rest[1] = text[i]
  BY <1>6, <1>7
<1>. HIDE DEF text
<1>. QED BY <1>1, <1>3, <1>4, <1>8, <1>9 DEF rest, text, PartByPart

-----------------------------------------------------------------------------
\* A call of AppendPart, the brackets it writes and the text it still owes.
Activation == [node : Nat, next : Nat \ {0}, bracketed : BOOLEAN]

Opens(call) == IF call.bracketed THEN <<"(">> ELSE <<>>

Closes(call) == IF call.bracketed THEN <<")">> ELSE <<>>

Owed(heap, call) == Rests(heap, call.node)[call.next] \o Closes(call)

Whole(heap, call) == Opens(call) \o (Render(heap)[call.node] \o Closes(call))

\* A call at one of its node's parts or behind the last.
Standing(heap, call) ==
  /\ call \in Activation
  /\ call.node \in 1..Len(heap)
  /\ call.next \in 1 .. Len(heap[call.node].parts) + 1

Advance(call) == [call EXCEPT !.next = @ + 1]

\* Brackets are texts.
LEMMA BracketsTyped ==
  ASSUME NEW call
  PROVE  Opens(call) \in Text /\ Closes(call) \in Text
BY TextJoins DEF Opens, Closes

\* What a call owes, at the first part, from part to part, and behind the last.
LEMMA OwedText ==
  ASSUME NEW heap, Renderable(heap), NEW call, Standing(heap, call)
  PROVE  LET parts == heap[call.node].parts
         IN  /\ Owed(heap, call) \in Text
             /\ call.next = 1 => Opens(call) \o Owed(heap, call) = Whole(heap, call)
             /\ call.next = Len(parts) + 1 => Owed(heap, call) = Closes(call)
             /\ call.next <= Len(parts) =>
                  /\ Standing(heap, Advance(call))
                  /\ PartText(heap, Render(heap), parts[call.next]) \in Text
                  /\ Owed(heap, call) = PartText(heap, Render(heap), parts[call.next])
                                          \o Owed(heap, Advance(call))
<1>. DEFINE i == call.node
<1>. DEFINE k == call.next
<1>. DEFINE n == Len(heap[i].parts)
<1>. DEFINE rest == Rests(heap, i)
<1>. DEFINE piece == PartText(heap, Render(heap), heap[i].parts[k])
<1>1. /\ i \in 1..Len(heap) /\ k \in 1..n+1 /\ k \in Nat /\ call \in Activation
  BY DEF Standing, Activation
<1>2. /\ n \in Nat /\ rest[k] \in Text /\ rest[n+1] = <<>>
      /\ rest[1] = Render(heap)[i]
      /\ k <= n => piece \in Text /\ rest[k] = piece \o rest[k+1] /\ rest[k+1] \in Text
  <2>1. PartByPart(heap, i, rest)
    BY <1>1, RestsTyped
  <2>2. n \in Nat /\ (k <= n => k \in 1..n /\ k+1 \in 1..n+1)
    BY <1>1, <2>1 DEF PartByPart
  <2>. HIDE DEF i, k, rest
  <2>. QED BY <1>1, <2>1, <2>2 DEF PartByPart
<1>3. Closes(call) \in Text /\ Opens(call) \in Text
  BY BracketsTyped
<1>4. Owed(heap, call) = rest[k] \o Closes(call)
  BY DEF Owed
<1>5. Owed(heap, call) \in Text
  <2>. HIDE DEF rest, k
  <2>. QED BY <1>2, <1>3, <1>4, TextJoins
<1>6. k = 1 => Opens(call) \o Owed(heap, call) = Whole(heap, call)
  <2>. HIDE DEF rest, k
  <2>. QED BY <1>2, <1>4 DEF Whole
<1>7. k = n + 1 => Owed(heap, call) = Closes(call)
  <2>1. k = n + 1 => rest[k] = <<>>
    BY <1>2
  <2>. HIDE DEF rest, k, n
  <2>. QED BY <1>3, <1>4, <2>1, TextJoins
<1>8. ASSUME k <= n
      PROVE  /\ Standing(heap, Advance(call)) /\ piece \in Text
             /\ Owed(heap, call) = piece \o Owed(heap, Advance(call))
  <2>1. Advance(call) = [node |-> i, next |-> k + 1, bracketed |-> call.bracketed]
    BY <1>1 DEF Advance, Activation
  <2>2. /\ Advance(call).node = i /\ Advance(call).next = k + 1
        /\ Advance(call).bracketed = call.bracketed
    BY <2>1
  <2>3. Advance(call) \in Activation
    BY <1>1, <2>1 DEF Activation
  <2>4. k + 1 \in 1..n+1
    BY <1>1, <1>2, <1>8
  <2>5. Standing(heap, Advance(call))
    <3>. HIDE DEF k
    <3>. QED BY <1>1, <2>2, <2>3, <2>4 DEF Standing
  <2>6. Owed(heap, Advance(call)) = rest[k+1] \o Closes(call)
    <3>. HIDE DEF i, k
    <3>. QED BY <2>2 DEF Owed, Closes
  <2>. HIDE DEF rest, piece, k, n
  <2>7. (piece \o rest[k+1]) \o Closes(call) = piece \o (rest[k+1] \o Closes(call))
    <3>1. piece \in Text /\ rest[k+1] \in Text
      BY <1>2, <1>8
    <3>. QED BY <1>3, <3>1, TextJoins, Zenon
  <2>. QED BY <1>2, <1>4, <1>8, <2>5, <2>6, <2>7
<1>. QED BY <1>5, <1>6, <1>7, <1>8

\* Building does not change what a call owes.
LEMMA OwedLocal ==
  ASSUME NEW heap, NEW later, WellFormed(heap), WellFormed(later),
         Len(heap) <= Len(later), \A i \in 1..Len(heap) : later[i] = heap[i],
         NEW call, call.node \in 1..Len(heap)
  PROVE  /\ Owed(later, call) = Owed(heap, call)
         /\ Whole(later, call) = Whole(heap, call)
         /\ Standing(heap, call) => Standing(later, call)
<1>. DEFINE i == call.node
<1>1. /\ Len(heap) \in Nat /\ Len(later) \in Nat
      /\ i \in 1..Len(heap) /\ i \in 1..Len(later) /\ later[i] = heap[i]
  BY LenProperties DEF WellFormed
<1>2. Render(later)[i] = Render(heap)[i]
  BY <1>1, RenderLocal
<1>3. Pieces(later, Render(later), i) = Pieces(heap, Render(heap), i)
  <2>1. \A k \in 1..Len(heap[i].parts) :
          PartText(later, Render(later), heap[i].parts[k])
            = PartText(heap, Render(heap), heap[i].parts[k])
    <3>1. TAKE k \in 1..Len(heap[i].parts)
    <3>. DEFINE part == heap[i].parts[k]
    <3>2. part.node \in 0..i-1
      BY <1>1, NodeParts
    <3>3. part.node \in 0..Len(heap)
      BY <1>1, <3>2
    <3>. HIDE DEF part
    <3>4. PartText(later, Render(later), part) = PartText(heap, Render(heap), part)
      BY <3>3, PartLocal
    <3>. QED BY <3>4 DEF part
  <2>. QED BY <1>1, <2>1 DEF Pieces
<1>4. Rests(later, i) = Rests(heap, i)
  BY <1>3, Zenon DEF Rests
<1>5. Owed(later, call) = Owed(heap, call)
  BY <1>4, Zenon DEF Owed
<1>6. Whole(later, call) = Whole(heap, call)
  BY <1>2, Zenon DEF Whole
<1>. QED BY <1>1, <1>5, <1>6 DEF Standing

-----------------------------------------------------------------------------
\* left[k] is what the outermost k calls owe, the innermost of them first.
Stacked(left, heap, calls) ==
  /\ left \in [0..Len(calls) -> Text]
  /\ left[0] = <<>>
  /\ \A k \in 1..Len(calls) : left[k] = Owed(heap, calls[k]) \o left[k-1]

\* The text calls will write until the outermost returns.
Owe(heap, calls, text) == \E left : Stacked(left, heap, calls) /\ left[Len(calls)] = text

\* A further call writes its text first.
LEMMA OweMore ==
  ASSUME NEW heap, NEW calls \in Seq(Activation), NEW call \in Activation, NEW text,
         Owe(heap, calls, text), Owed(heap, call) \in Text
  PROVE  Owe(heap, Append(calls, call), Owed(heap, call) \o text)
<1>. DEFINE n == Len(calls)
<1>. DEFINE more == Append(calls, call)
<1>. DEFINE first == Owed(heap, call)
<1>1. /\ n \in Nat /\ Len(more) = n + 1 /\ more[n+1] = call
      /\ \A k \in 1..n : more[k] = calls[k]
  BY LenProperties, AppendProperties
<1>2. PICK left : Stacked(left, heap, calls) /\ left[n] = text
  BY DEF Owe
<1>3. /\ left \in [0..n -> Text] /\ left[0] = <<>> /\ left[n] = text /\ first \in Text
      /\ \A k \in 1..n : left[k] = Owed(heap, calls[k]) \o left[k-1]
  BY <1>2 DEF Stacked
<1>. HIDE DEF more, first
<1>. DEFINE higher == [k \in 0..n+1 |-> IF k = n + 1 THEN first \o text ELSE left[k]]
<1>4. \A k \in 0..n+1 : k = n + 1 \/ k \in 0..n
  BY <1>1
<1>5. first \o text \in Text
  <2>1. n \in 0..n
    BY <1>1
  <2>. QED BY <1>3, <2>1, TextJoins
<1>6. higher \in [0..n+1 -> Text]
  BY <1>3, <1>4, <1>5
<1>7. higher[0] = <<>> /\ higher[n+1] = first \o text
  BY <1>1, <1>3
<1>8. \A k \in 1..n+1 : higher[k] = Owed(heap, more[k]) \o higher[k-1]
  <2>1. TAKE k \in 1..n+1
  <2>2. CASE k = n + 1
    <3>1. higher[k-1] = text
      BY <1>1, <1>3, <2>2
    <3>. QED BY <1>1, <1>7, <2>2, <3>1 DEF first
  <2>3. CASE k # n + 1
    <3>1. k \in 1..n /\ k-1 \in 0..n /\ k \in 0..n+1 /\ k-1 \in 0..n+1 /\ k-1 # n+1
      BY <1>1, <2>3
    <3>2. higher[k] = left[k] /\ higher[k-1] = left[k-1]
      BY <2>3, <3>1
    <3>. QED BY <1>1, <1>3, <3>1, <3>2
  <2>. QED BY <2>2, <2>3
<1>. HIDE DEF higher
<1>9. Stacked(higher, heap, more) /\ higher[Len(more)] = first \o text
  BY <1>1, <1>6, <1>7, <1>8 DEF Stacked
<1>. QED BY <1>9 DEF Owe, more, first

\* The text begins with what call owes, and calls owe the rest.
OweBeside(heap, calls, call, text) ==
  \E rest \in Text : Owe(heap, calls, rest) /\ text = Owed(heap, call) \o rest

\* When the innermost call returns, the others go on.
LEMMA OweLess ==
  ASSUME NEW heap, NEW calls \in Seq(Activation), NEW call \in Activation, NEW text,
         NEW more, more = Append(calls, call), Owe(heap, more, text)
  PROVE  OweBeside(heap, calls, call, text)
<1>. DEFINE n == Len(calls)
<1>1. /\ n \in Nat /\ Len(more) = n + 1 /\ more[n+1] = call
      /\ \A k \in 1..n : more[k] = calls[k]
  BY LenProperties, AppendProperties
<1>2. PICK left : Stacked(left, heap, more) /\ left[n+1] = text
  BY <1>1 DEF Owe
<1>3. /\ left \in [0..n+1 -> Text] /\ left[0] = <<>>
      /\ \A k \in 1..n+1 : left[k] = Owed(heap, more[k]) \o left[k-1]
  BY <1>1, <1>2 DEF Stacked
<1>. DEFINE lower == [k \in 0..n |-> left[k]]
<1>4. \A k \in 0..n : k \in 0..n+1
  BY <1>1
<1>5. lower \in [0..n -> Text] /\ lower[0] = <<>>
  BY <1>1, <1>3, <1>4
<1>6. \A k \in 1..n : lower[k] = Owed(heap, calls[k]) \o lower[k-1]
  <2>1. TAKE k \in 1..n
  <2>2. k \in 1..n+1 /\ k \in 0..n /\ k-1 \in 0..n
    BY <1>1
  <2>3. lower[k] = left[k] /\ lower[k-1] = left[k-1]
    BY <2>2
  <2>. QED BY <1>1, <1>3, <2>2, <2>3
<1>7. lower[n] = left[n] /\ left[n] \in Text /\ text = Owed(heap, call) \o left[n]
  <2>1. n \in 0..n /\ n \in 0..n+1 /\ n+1 \in 1..n+1 /\ (n+1)-1 = n
    BY <1>1
  <2>2. left[n+1] = Owed(heap, call) \o left[n]
    BY <1>1, <1>3, <2>1
  <2>. QED BY <1>2, <1>3, <2>1, <2>2
<1>. HIDE DEF lower
<1>8. Owe(heap, calls, left[n])
  BY <1>5, <1>6, <1>7 DEF Owe, Stacked
<1>. QED BY <1>7, <1>8 DEF OweBeside

-----------------------------------------------------------------------------
\* What is written and what is still owed make the text of the first call's node.
OnTrack(heap, calls, written) ==
  /\ calls \in Seq(Activation)
  /\ \A k \in 1..Len(calls) : Standing(heap, calls[k])
  /\ written \in Text
  /\ \E text \in Text : Owe(heap, calls, text) /\ written \o text = Whole(heap, calls[1])

\* The same for calls other than the innermost, which owes text.
Below(heap, calls, written, call) ==
  /\ calls \in Seq(Activation) /\ call \in Activation
  /\ \A k \in 1..Len(calls) : Standing(heap, calls[k])
  /\ written \in Text
  /\ \E rest \in Text :
       /\ Owe(heap, calls, rest)
       /\ written \o (Owed(heap, call) \o rest)
            = Whole(heap, IF calls = <<>> THEN call ELSE calls[1])

\* The innermost call on its own.
LEMMA OnTrackSplit ==
  ASSUME NEW heap, NEW lower \in Seq(Activation), NEW call \in Activation, NEW written,
         OnTrack(heap, Append(lower, call), written)
  PROVE  Below(heap, lower, written, call) /\ Standing(heap, call)
<1>. DEFINE n == Len(lower)
<1>. DEFINE calls == Append(lower, call)
<1>1. /\ n \in Nat /\ Len(calls) = n + 1 /\ calls[n+1] = call
      /\ \A k \in 1..n : calls[k] = lower[k] /\ k \in 1..n+1
      /\ n + 1 \in 1..n+1
  BY LenProperties, AppendProperties
<1>. HIDE DEF calls
<1>2. /\ \A k \in 1..n+1 : Standing(heap, calls[k])
      /\ written \in Text
  BY <1>1 DEF OnTrack, calls
<1>3. PICK text \in Text : Owe(heap, calls, text) /\ written \o text = Whole(heap, calls[1])
  BY DEF OnTrack, calls
<1>4. PICK rest \in Text : Owe(heap, lower, rest) /\ text = Owed(heap, call) \o rest
  <2>1. calls = Append(lower, call)
    BY DEF calls
  <2>2. OweBeside(heap, lower, call, text)
    BY <1>3, <2>1, OweLess
  <2>. QED BY <2>2 DEF OweBeside
<1>5. calls[1] = IF lower = <<>> THEN call ELSE lower[1]
  <2>1. lower # <<>> => n # 0
    BY EmptySeq
  <2>2. CASE lower = <<>>
    <3>1. n = 0
      BY <2>2
    <3>. QED BY <1>1, <2>2, <3>1
  <2>3. CASE lower # <<>>
    <3>1. 1 \in 1..n
      BY <1>1, <2>1, <2>3
    <3>. QED BY <1>1, <2>3, <3>1
  <2>. QED BY <2>2, <2>3
<1>6. \A k \in 1..n : Standing(heap, lower[k])
  BY <1>1, <1>2
<1>7. Standing(heap, call)
  BY <1>1, <1>2
<1>8. written \o (Owed(heap, call) \o rest)
        = Whole(heap, IF lower = <<>> THEN call ELSE lower[1])
  BY <1>3, <1>4, <1>5, Zenon
<1>. QED BY <1>2, <1>4, <1>6, <1>7, <1>8 DEF Below

\* And back on those below it.
LEMMA OnTrackJoin ==
  ASSUME NEW heap, Renderable(heap), NEW lower, NEW written, NEW call,
         Below(heap, lower, written, call), Standing(heap, call)
  PROVE  OnTrack(heap, Append(lower, call), written)
<1>. DEFINE n == Len(lower)
<1>. DEFINE calls == Append(lower, call)
<1>0. /\ lower \in Seq(Activation) /\ call \in Activation /\ written \in Text
      /\ \A k \in 1..n : Standing(heap, lower[k])
  BY DEF Below
<1>1. /\ n \in Nat /\ calls \in Seq(Activation) /\ Len(calls) = n + 1 /\ calls[n+1] = call
      /\ \A k \in 1..n : calls[k] = lower[k]
  BY <1>0, LenProperties, AppendProperties
<1>. HIDE DEF calls
<1>2. PICK rest \in Text :
        /\ Owe(heap, lower, rest)
        /\ written \o (Owed(heap, call) \o rest)
             = Whole(heap, IF lower = <<>> THEN call ELSE lower[1])
  BY DEF Below
<1>3. Owed(heap, call) \in Text /\ Owed(heap, call) \o rest \in Text
  BY OwedText, TextJoins
<1>4. Owe(heap, calls, Owed(heap, call) \o rest)
  BY <1>0, <1>2, <1>3, OweMore DEF calls
<1>5. calls[1] = IF lower = <<>> THEN call ELSE lower[1]
  <2>1. lower # <<>> => n # 0
    BY <1>0, EmptySeq
  <2>2. CASE lower = <<>>
    <3>1. n = 0
      BY <2>2
    <3>. QED BY <1>1, <2>2, <3>1
  <2>3. CASE lower # <<>>
    <3>1. 1 \in 1..n
      BY <1>1, <2>1, <2>3
    <3>. QED BY <1>1, <2>3, <3>1
  <2>. QED BY <2>2, <2>3
<1>6. \A k \in 1 .. n + 1 : Standing(heap, calls[k])
  <2>1. \A k \in 1 .. n + 1 : k \in 1..n \/ k = n + 1
    BY <1>1
  <2>. QED BY <1>0, <1>1, <2>1
<1>7. written \o (Owed(heap, call) \o rest) = Whole(heap, calls[1])
  BY <1>2, <1>5, Zenon
<1>. QED BY <1>0, <1>1, <1>3, <1>4, <1>6, <1>7 DEF OnTrack, calls

\* A part is written and the call goes on to the next.
LEMMA OnTrackPart ==
  ASSUME NEW heap, Renderable(heap), NEW lower, NEW written, NEW call,
         Below(heap, lower, written, call), Standing(heap, call),
         call.next <= Len(heap[call.node].parts)
  PROVE  OnTrack(heap, Append(lower, Advance(call)),
                 written \o PartText(heap, Render(heap), heap[call.node].parts[call.next]))
<1>. DEFINE piece == PartText(heap, Render(heap), heap[call.node].parts[call.next])
<1>. DEFINE further == Advance(call)
<1>1. /\ Standing(heap, further) /\ piece \in Text
      /\ Owed(heap, call) = piece \o Owed(heap, further)
  BY OwedText
<1>2. Owed(heap, further) \in Text
  BY <1>1, OwedText
<1>3. further \in Activation /\ Whole(heap, further) = Whole(heap, call)
  BY <1>1 DEF Standing, Advance, Whole, Opens, Closes, Activation
<1>. HIDE DEF piece, further
<1>4. PICK rest \in Text :
        /\ Owe(heap, lower, rest)
        /\ written \o (Owed(heap, call) \o rest)
             = Whole(heap, IF lower = <<>> THEN call ELSE lower[1])
  BY DEF Below
<1>5. written \in Text /\ written \o piece \in Text
  BY <1>1, TextJoins DEF Below
<1>6. (written \o piece) \o (Owed(heap, further) \o rest)
        = written \o (Owed(heap, call) \o rest)
  <2>1. Owed(heap, further) \o rest \in Text
    BY <1>2, TextJoins
  <2>2. (written \o piece) \o (Owed(heap, further) \o rest)
          = written \o (piece \o (Owed(heap, further) \o rest))
    BY <1>1, <1>5, <2>1, TextJoins, Zenon
  <2>3. piece \o (Owed(heap, further) \o rest) = (piece \o Owed(heap, further)) \o rest
    BY <1>1, <1>2, TextJoins, Zenon
  <2>. QED BY <1>1, <2>2, <2>3, Zenon
<1>7. Whole(heap, IF lower = <<>> THEN call ELSE lower[1])
        = Whole(heap, IF lower = <<>> THEN further ELSE lower[1])
  BY <1>3
<1>8. Below(heap, lower, written \o piece, further)
  <2>1. (written \o piece) \o (Owed(heap, further) \o rest)
          = Whole(heap, IF lower = <<>> THEN further ELSE lower[1])
    BY <1>4, <1>6, <1>7, Zenon
  <2>. QED BY <1>3, <1>4, <1>5, <2>1 DEF Below
<1>. QED BY <1>1, <1>8, OnTrackJoin DEF piece, further

\* A part that is a node is written by a call of its own.
LEMMA OnTrackEnter ==
  ASSUME NEW heap, Renderable(heap), NEW calls, NEW written, NEW call,
         calls # <<>>, written \in Text,
         OnTrack(heap, calls, written \o Whole(heap, call)),
         Standing(heap, call), call.next = 1
  PROVE  OnTrack(heap, Append(calls, call), written \o Opens(call))
<1>1. /\ Owed(heap, call) \in Text /\ Opens(call) \in Text
      /\ Opens(call) \o Owed(heap, call) = Whole(heap, call)
  BY OwedText, BracketsTyped
<1>2. PICK text \in Text :
        /\ Owe(heap, calls, text)
        /\ (written \o Whole(heap, call)) \o text = Whole(heap, calls[1])
  BY DEF OnTrack
<1>3. (written \o Opens(call)) \o (Owed(heap, call) \o text) = Whole(heap, calls[1])
  <2>0. Owed(heap, call) \o text \in Text
    BY <1>1, TextJoins, Zenon
  <2>1. Whole(heap, call) \in Text
    <3>1. Opens(call) \o Owed(heap, call) \in Text
      BY <1>1, TextJoins, Zenon
    <3>. QED BY <1>1, <3>1, Zenon
  <2>2. (written \o Opens(call)) \o (Owed(heap, call) \o text)
          = written \o (Opens(call) \o (Owed(heap, call) \o text))
    BY <1>1, <2>0, TextJoins, Zenon
  <2>3. Opens(call) \o (Owed(heap, call) \o text) = (Opens(call) \o Owed(heap, call)) \o text
    BY <1>1, TextJoins, Zenon
  <2>4. (written \o Whole(heap, call)) \o text = written \o (Whole(heap, call) \o text)
    BY <2>1, TextJoins, Zenon
  <2>. QED BY <1>1, <1>2, <2>2, <2>3, <2>4, Zenon
<1>4. written \o Opens(call) \in Text
  BY <1>1, TextJoins
<1>5. Below(heap, calls, written \o Opens(call), call)
  BY <1>2, <1>3, <1>4 DEF Below, OnTrack, Standing
<1>. QED BY <1>5, OnTrackJoin

\* The innermost call closes its bracket and returns.
LEMMA OnTrackLeave ==
  ASSUME NEW heap, Renderable(heap), NEW lower, lower # <<>>, NEW written, NEW call,
         Below(heap, lower, written, call), Standing(heap, call),
         call.next = Len(heap[call.node].parts) + 1
  PROVE  OnTrack(heap, lower, written \o Closes(call))
<1>1. Owed(heap, call) = Closes(call) /\ Closes(call) \in Text
  BY OwedText, BracketsTyped
<1>2. PICK rest \in Text :
        /\ Owe(heap, lower, rest)
        /\ written \o (Owed(heap, call) \o rest) = Whole(heap, lower[1])
  BY DEF Below
<1>3. written \in Text /\ written \o Closes(call) \in Text
  BY <1>1, TextJoins DEF Below
<1>4. (written \o Closes(call)) \o rest = written \o (Closes(call) \o rest)
  BY <1>1, <1>3, TextJoins, Zenon
<1>5. (written \o Closes(call)) \o rest = Whole(heap, lower[1])
  BY <1>1, <1>2, <1>4, Zenon
<1>. QED BY <1>2, <1>3, <1>5 DEF OnTrack, Below

\* The first call of a rendering.
LEMMA OnTrackStart ==
  ASSUME NEW heap, Renderable(heap), NEW call, Standing(heap, call), call.next = 1
  PROVE  OnTrack(heap, <<call>>, Opens(call))
<1>. DEFINE nothing == [k \in 0..0 |-> <<>>]
<1>0. call \in Activation /\ <<>> \in Seq(Activation) /\ Append(<<>>, call) = <<call>>
  BY DEF Standing
<1>1. Owe(heap, <<>>, <<>>)
  <2>1. Len(<<>>) = 0
    OBVIOUS
  <2>2. /\ nothing \in [0..0 -> Text] /\ nothing[0] = <<>>
        /\ 1..0 = {}
    BY TextJoins
  <2>. HIDE DEF nothing
  <2>3. Stacked(nothing, heap, <<>>) /\ nothing[Len(<<>>)] = <<>>
    BY <2>1, <2>2 DEF Stacked
  <2>. QED BY <2>3 DEF Owe
<1>2. /\ Owed(heap, call) \in Text /\ Opens(call) \in Text
      /\ Opens(call) \o Owed(heap, call) = Whole(heap, call)
  BY OwedText, BracketsTyped
<1>3. Opens(call) \o (Owed(heap, call) \o <<>>) = Whole(heap, call)
  BY <1>2, TextJoins, Zenon
<1>4. Below(heap, <<>>, Opens(call), call)
  <2>1. Len(<<>>) = 0 /\ 1..0 = {} /\ <<>> \in Text
    BY TextJoins
  <2>2. \A k \in 1..Len(<<>>) : Standing(heap, <<>>[k])
    BY <2>1
  <2>3. Opens(call) \o (Owed(heap, call) \o <<>>)
          = Whole(heap, IF <<>> = <<>> THEN call ELSE <<>>[1])
    BY <1>3, Zenon
  <2>. QED BY <1>0, <1>1, <1>2, <2>1, <2>2, <2>3 DEF Below
<1>5. OnTrack(heap, Append(<<>>, call), Opens(call))
  BY <1>4, OnTrackJoin
<1>. QED BY <1>0, <1>5, Zenon

\* Building does not disturb a rendering.
LEMMA OnTrackLocal ==
  ASSUME NEW heap, NEW later, WellFormed(heap), WellFormed(later),
         Len(heap) <= Len(later), \A i \in 1..Len(heap) : later[i] = heap[i],
         NEW calls, calls # <<>>, NEW written, OnTrack(heap, calls, written)
  PROVE  OnTrack(later, calls, written)
<1>1. \A k \in 1..Len(calls) :
        /\ Standing(later, calls[k])
        /\ Owed(later, calls[k]) = Owed(heap, calls[k])
        /\ Whole(later, calls[k]) = Whole(heap, calls[k])
  <2>1. \A k \in 1..Len(calls) : Standing(heap, calls[k]) /\ calls[k].node \in 1..Len(heap)
    BY DEF OnTrack, Standing
  <2>. QED BY <2>1, OwedLocal
<1>2. PICK text \in Text : Owe(heap, calls, text) /\ written \o text = Whole(heap, calls[1])
  BY DEF OnTrack
<1>3. Owe(later, calls, text)
  <2>1. PICK left : Stacked(left, heap, calls) /\ left[Len(calls)] = text
    BY <1>2 DEF Owe
  <2>2. Stacked(left, later, calls)
    BY <1>1, <2>1 DEF Stacked
  <2>. QED BY <2>1, <2>2 DEF Owe
<1>4. 1 \in 1..Len(calls)
  BY EmptySeq, LenProperties DEF OnTrack
<1>. QED BY <1>1, <1>2, <1>3, <1>4 DEF OnTrack

-----------------------------------------------------------------------------
\* The innermost call and those below it.
LEMMA InnermostCall ==
  ASSUME NEW s \in Seq(Activation), s # <<>>
  PROVE  /\ Front(s) \in Seq(Activation) /\ Last(s) \in Activation
         /\ s = Append(Front(s), Last(s))
         /\ Len(s) = 1 <=> Front(s) = <<>>
         /\ [s EXCEPT ![Len(s)].next = @ + 1] = Append(Front(s), Advance(Last(s)))
<1>. DEFINE n == Len(s)
<1>. DEFINE lower == Front(s)
<1>. DEFINE top == Last(s)
<1>1. /\ n \in Nat \ {0} /\ DOMAIN s = 1..n /\ n \in 1..n
      /\ \A k \in 1..n : s[k] \in Activation
      /\ top = s[n] /\ top \in Activation
  <2>1. n \in Nat \ {0} /\ DOMAIN s = 1..n
    BY EmptySeq, LenProperties
  <2>2. n \in 1..n
    BY <2>1
  <2>. QED BY <2>1, <2>2, ElementOfSeq DEF Last
<1>2. /\ lower \in Seq(Activation) /\ Len(lower) = n - 1
      /\ \A k \in 1..n-1 : lower[k] = s[k]
  <2>1. \A k \in 1 .. n-1 : s[k] \in Activation
    BY <1>1
  <2>2. lower = SubSeq(s, 1, n-1)
    BY DEF Front
  <2>3. /\ SubSeq(s, 1, n-1) \in Seq(Activation)
        /\ Len(SubSeq(s, 1, n-1)) = IF 1 <= n-1 THEN (n-1)-1+1 ELSE 0
        /\ \A k \in 1 .. (n-1)-1+1 : SubSeq(s, 1, n-1)[k] = s[1+k-1]
    BY <1>1, <2>1, SubSeqProperties
  <2>. QED BY <1>1, <2>2, <2>3
<1>. HIDE DEF lower, top
<1>3. Advance(top) \in Activation
  <2>1. \A call \in Activation : [call EXCEPT !.next = @ + 1] \in Activation
    BY DEF Activation
  <2>. QED BY <1>1, <2>1 DEF Advance
<1>4. \A call \in Activation :
        LET longer == Append(lower, call)
        IN  /\ longer \in Seq(Activation) /\ Len(longer) = n /\ longer[n] = call
            /\ \A k \in 1..n-1 : longer[k] = s[k]
  <2>1. TAKE call \in Activation
  <2>2. /\ Append(lower, call) \in Seq(Activation)
        /\ Len(Append(lower, call)) = Len(lower) + 1
        /\ Append(lower, call)[Len(lower) + 1] = call
        /\ \A k \in 1..Len(lower) : Append(lower, call)[k] = lower[k]
    BY <1>2, AppendProperties
  <2>3. Len(lower) + 1 = n /\ Len(lower) = n - 1
    BY <1>1, <1>2
  <2>. QED BY <1>2, <2>2, <2>3
<1>5. s = Append(lower, top)
  <2>. DEFINE longer == Append(lower, top)
  <2>1. /\ longer \in Seq(Activation) /\ Len(longer) = n /\ longer[n] = top
        /\ \A k \in 1..n-1 : longer[k] = s[k]
    BY <1>1, <1>4
  <2>. HIDE DEF longer
  <2>2. \A k \in 1..n : longer[k] = s[k]
    BY <1>1, <2>1
  <2>3. longer = s
    BY <2>1, <2>2, SeqEqual
  <2>. QED BY <2>3 DEF longer
<1>6. [s EXCEPT ![Len(s)].next = @ + 1] = Append(lower, Advance(top))
  <2>. DEFINE longer == Append(lower, Advance(top))
  <2>. DEFINE moved == [s EXCEPT ![n] = Advance(top)]
  <2>1. /\ longer \in Seq(Activation) /\ Len(longer) = n /\ longer[n] = Advance(top)
        /\ \A k \in 1..n-1 : longer[k] = s[k]
    BY <1>3, <1>4
  <2>2. /\ moved \in Seq(Activation) /\ Len(moved) = n
        /\ \A k \in 1..n : moved[k] = IF k = n THEN Advance(top) ELSE s[k]
    BY <1>1, <1>3
  <2>3. [s EXCEPT ![Len(s)].next = @ + 1] = moved
    BY <1>1 DEF Advance
  <2>. HIDE DEF longer, moved
  <2>4. \A k \in 1..n : longer[k] = moved[k]
    <3>1. TAKE k \in 1..n
    <3>2. (k = n \/ k \in 1..n-1) /\ (k \in 1..n-1 => k # n)
      <4>1. n \in Nat /\ k \in 1..n
        BY <1>1
      <4>. HIDE DEF n
      <4>. QED BY ONLY <4>1
    <3>. QED BY <2>1, <2>2, <3>2
  <2>5. longer = moved
    BY <2>1, <2>2, <2>4, SeqEqual
  <2>. QED BY <2>3, <2>5 DEF longer
<1>7. n = 1 <=> lower = <<>>
  <2>1. lower = <<>> <=> Len(lower) = 0
    BY <1>2, EmptySeq
  <2>. QED BY <1>1, <1>2, <2>1
<1>. QED BY <1>1, <1>2, <1>5, <1>6, <1>7 DEF lower, top

\* The inductive invariant: every rendering is on track.
Rendering ==
  /\ Inv
  /\ callStack \in [Threads -> Seq(Activation)]
  /\ out \in [Threads -> Text]
  /\ \A t \in Threads : callStack[t] # <<>> => OnTrack(nodes, callStack[t], out[t])

\* A step of a rendering is nobody else's.
LEMMA OwnRendering ==
  ASSUME Rendering, Inv', NEW t \in Threads, NEW calls \in Seq(Activation),
         NEW written \in Text, calls # <<>> => OnTrack(nodes, calls, written),
         callStack' = [callStack EXCEPT ![t] = calls], out' = [out EXCEPT ![t] = written],
         nodes' = nodes
  PROVE  Rendering'
<1>1. /\ callStack' \in [Threads -> Seq(Activation)] /\ out' \in [Threads -> Text]
      /\ callStack'[t] = calls /\ out'[t] = written
      /\ \A u \in Threads : u # t => callStack'[u] = callStack[u] /\ out'[u] = out[u]
  BY DEF Rendering
<1>2. ASSUME NEW u \in Threads, callStack'[u] # <<>> PROVE OnTrack(nodes', callStack'[u], out'[u])
  <2>1. CASE u = t
    BY <1>1, <1>2, <2>1
  <2>2. CASE u # t
    BY <1>1, <1>2, <2>2 DEF Rendering
  <2>. QED BY <2>1, <2>2
<1>. QED BY <1>1, <1>2 DEF Rendering

\* A call's node, its next part and where it stands.
LEMMA InnermostStands ==
  ASSUME Rendering, NEW t \in Threads, callStack[t] # <<>>
  PROVE  /\ Renderable(nodes) /\ callStack[t] \in Seq(Activation)
         /\ Top(t) = Last(callStack[t])
         /\ Standing(nodes, Top(t))
         /\ Below(nodes, Front(callStack[t]), out[t], Top(t))
<1>1. Renderable(nodes) /\ callStack[t] \in Seq(Activation) /\ OnTrack(nodes, callStack[t], out[t])
  BY InvWellFormed DEF Rendering, Renderable, Inv
<1>2. /\ Front(callStack[t]) \in Seq(Activation) /\ Last(callStack[t]) \in Activation
      /\ callStack[t] = Append(Front(callStack[t]), Last(callStack[t]))
  BY <1>1, InnermostCall
<1>3. /\ Below(nodes, Front(callStack[t]), out[t], Last(callStack[t]))
      /\ Standing(nodes, Last(callStack[t]))
  <2>1. OnTrack(nodes, Append(Front(callStack[t]), Last(callStack[t])), out[t])
    BY <1>1, <1>2, Zenon
  <2>. QED BY <1>2, <2>1, OnTrackSplit
<1>. QED BY <1>1, <1>3 DEF Top

\* Render opens the first call.
LEMMA StartKeepsTrack ==
  ASSUME Rendering, Inv', NEW t \in Threads, NEW i \in Exprs, NEW context,
         StartRendering(t, i, context)
  PROVE  Rendering'
<1>. DEFINE bracketed == NeedsParens(nodes[i].precedence, context)
<1>. DEFINE call == Begun(i, bracketed)
<1>1. /\ callStack' = [callStack EXCEPT ![t] = <<call>>]
      /\ out' = [out EXCEPT ![t] = IF bracketed THEN <<"(">> ELSE <<>>]
      /\ nodes' = nodes
  BY DEF StartRendering, vars
<1>2. Renderable(nodes) /\ DOMAIN nodes = 1..Len(nodes)
  BY InvWellFormed DEF Rendering, Renderable, Inv
<1>3. bracketed \in BOOLEAN
  BY DEF NeedsParens
<1>. HIDE DEF bracketed
<1>4. call \in Activation /\ call.node = i /\ call.next = 1 /\ call.bracketed = bracketed
  BY <1>2, <1>3 DEF Begun, Activation, Exprs
<1>5. Standing(nodes, call)
  <2>1. Len(nodes[i].parts) \in Nat
    BY <1>2, NodeParts, LenProperties DEF Exprs, Renderable, PartsOver
  <2>2. 1 \in 1 .. Len(nodes[i].parts) + 1
    BY <2>1
  <2>. HIDE DEF call
  <2>. QED BY <1>2, <1>4, <2>2 DEF Standing, Exprs
<1>. HIDE DEF call
<1>6. out' = [out EXCEPT ![t] = Opens(call)]
  BY <1>1, <1>4 DEF Opens
<1>7. OnTrack(nodes, <<call>>, Opens(call))
  BY <1>2, <1>4, <1>5, OnTrackStart
<1>8. <<call>> \in Seq(Activation) /\ Opens(call) \in Text
  BY <1>4, BracketsTyped
<1>. QED BY <1>1, <1>6, <1>7, <1>8, OwnRendering

\* AppendPart writes a part, enters a child and returns.
LEMMA WritingKeepsTrack ==
  ASSUME Rendering, Inv', NEW t \in Threads,
         AppendFragment(t) \/ EnterChild(t) \/ LeaveNode(t)
  PROVE  Rendering'
<1>. DEFINE top == Top(t)
<1>. DEFINE lower == Front(callStack[t])
<1>. DEFINE parts == nodes[top.node].parts
<1>. DEFINE part == parts[top.next]
<1>. DEFINE piece == PartText(nodes, Render(nodes), part)
<1>. DEFINE further == Append(lower, Advance(top))
<1>1. callStack[t] # <<>> /\ nodes' = nodes
  BY DEF AppendFragment, EnterChild, LeaveNode, vars
<1>2. /\ Renderable(nodes) /\ callStack[t] \in Seq(Activation) /\ top = Last(callStack[t])
      /\ Standing(nodes, top) /\ Below(nodes, lower, out[t], top)
      /\ out[t] \in Text /\ lower \in Seq(Activation)
  BY <1>1, InnermostStands, InnermostCall DEF Rendering
<1>3. Advanced(t) = further
  BY <1>1, <1>2, InnermostCall DEF Advanced
<1>4. ASSUME Remaining(t)
      PROVE  /\ OnTrack(nodes, further, out[t] \o piece)
             /\ piece \in Text /\ further \in Seq(Activation) /\ further # <<>>
             /\ part = NextPart(t)
  <2>1. top.next <= Len(parts)
    BY <1>4 DEF Remaining
  <2>2. OnTrack(nodes, further, out[t] \o piece)
    <3>. HIDE DEF lower, top
    <3>. QED BY <1>2, <2>1, OnTrackPart
  <2>3. piece \in Text
    <3>. HIDE DEF top
    <3>. QED BY <1>2, <2>1, OwedText
  <2>4. part = NextPart(t)
    BY DEF NextPart
  <2>5. further # <<>>
    BY <1>2
  <2>. HIDE DEF further, piece, part
  <2>. QED BY <2>2, <2>3, <2>4, <2>5 DEF OnTrack
<1>5. Len(parts) \in Nat
  BY <1>2, NodeParts, LenProperties DEF Standing, Renderable, PartsOver
<1>6. CASE AppendFragment(t)
  <2>1. /\ Remaining(t) /\ NextPart(t).node = 0
        /\ out' = [out EXCEPT ![t] = @ \o NextPart(t).text]
        /\ callStack' = [callStack EXCEPT ![t] = further]
    BY <1>3, <1>6 DEF AppendFragment
  <2>2. piece = NextPart(t).text
    BY <1>4, <2>1 DEF PartText
  <2>. HIDE DEF further, piece, part
  <2>3. out[t] \o piece \in Text
    BY <1>2, <1>4, <2>1, TextJoins
  <2>4. out' = [out EXCEPT ![t] = out[t] \o piece]
    BY <2>1, <2>2
  <2>. QED BY <1>1, <1>4, <2>1, <2>3, <2>4, OwnRendering
<1>7. CASE EnterChild(t)
  <2>. DEFINE child == part.node
  <2>. DEFINE bracketed == NeedsParens(nodes[child].precedence, part.context)
  <2>. DEFINE call == Begun(child, bracketed)
  <2>1. /\ Remaining(t) /\ part.node # 0
        /\ out' = [out EXCEPT ![t] = IF bracketed THEN @ \o <<"(">> ELSE @]
        /\ callStack' = [callStack EXCEPT ![t] = Append(further, call)]
    BY <1>3, <1>4, <1>7 DEF EnterChild
  <2>2. child \in 1..Len(nodes) /\ Len(nodes) \in Nat
    <3>1. top.node \in 1..Len(nodes) /\ top.next \in 1..Len(parts)
      <4>1. Remaining(t) /\ Standing(nodes, top) /\ Len(parts) \in Nat
        BY <1>2, <1>5, <2>1
      <4>2. top.next <= Len(parts) /\ top.next \in 1 .. Len(parts) + 1 /\ top.node \in 1..Len(nodes)
        BY ONLY <4>1 DEF Standing, Remaining
      <4>. HIDE DEF top, parts
      <4>. QED BY ONLY <4>1, <4>2
    <3>2. part.node \in 0..top.node-1
      <4>. HIDE DEF top
      <4>. QED BY <1>2, <3>1, NodeParts DEF Renderable
    <3>3. Len(nodes) \in Nat
      BY <1>2, LenProperties DEF Renderable, WellFormed
    <3>. HIDE DEF top, part
    <3>. QED BY <2>1, <3>1, <3>2, <3>3
  <2>3. bracketed \in BOOLEAN
    BY DEF NeedsParens
  <2>. HIDE DEF further, part
  <2>4. piece = IF bracketed THEN <<"(">> \o Render(nodes)[child] \o <<")">>
                ELSE Render(nodes)[child]
    BY <2>1 DEF PartText
  <2>5. Render(nodes)[child] \in Text
    BY <1>2, <2>2, RenderedLength DEF Renderable
  <2>. HIDE DEF bracketed, piece
  <2>6. call \in Activation /\ call.node = child /\ call.next = 1 /\ call.bracketed = bracketed
    <3>. HIDE DEF child
    <3>. QED BY <2>2, <2>3 DEF Begun, Activation
  <2>7. Standing(nodes, call)
    <3>1. Len(nodes[child].parts) \in Nat
      <4>. HIDE DEF child
      <4>. QED BY <1>2, <2>2, NodeParts, LenProperties DEF Renderable, PartsOver
    <3>2. 1 \in 1 .. Len(nodes[child].parts) + 1
      BY <3>1
    <3>. HIDE DEF call
    <3>. QED BY <2>2, <2>6, <3>2 DEF Standing
  <2>. HIDE DEF call, child
  <2>8. piece = Whole(nodes, call)
    <3>1. Whole(nodes, call) = Opens(call) \o (Render(nodes)[child] \o Closes(call))
      BY <2>6 DEF Whole
    <3>2. CASE bracketed
      <4>1. Opens(call) = <<"(">> /\ Closes(call) = <<")">>
        BY <2>6, <3>2 DEF Opens, Closes
      <4>2. (<<"(">> \o Render(nodes)[child]) \o <<")">>
              = <<"(">> \o (Render(nodes)[child] \o <<")">>)
        BY <2>5, TextJoins, Zenon
      <4>. QED BY <2>4, <3>1, <3>2, <4>1, <4>2, Zenon
    <3>3. CASE ~bracketed
      <4>1. Opens(call) = <<>> /\ Closes(call) = <<>>
        BY <2>6, <3>3 DEF Opens, Closes
      <4>2. <<>> \o (Render(nodes)[child] \o <<>>) = Render(nodes)[child]
        BY <2>5, TextJoins, Zenon
      <4>. QED BY <2>4, <3>1, <3>3, <4>1, <4>2, Zenon
    <3>. QED BY <3>2, <3>3
  <2>9. OnTrack(nodes, Append(further, call), out[t] \o Opens(call))
    BY <1>2, <1>4, <2>1, <2>6, <2>7, <2>8, OnTrackEnter
  <2>10. out' = [out EXCEPT ![t] = out[t] \o Opens(call)]
    <3>1. out[t] \o <<>> = out[t]
      BY <1>2, TextJoins, Zenon
    <3>. QED BY <2>1, <2>6, <3>1 DEF Opens
  <2>11. Append(further, call) \in Seq(Activation) /\ out[t] \o Opens(call) \in Text
    BY <2>9 DEF OnTrack
  <2>. QED BY <1>1, <2>1, <2>9, <2>10, <2>11, OwnRendering
<1>8. CASE LeaveNode(t)
  <2>1. /\ ~Remaining(t) /\ callStack' = [callStack EXCEPT ![t] = lower]
        /\ out' = [out EXCEPT ![t] = IF Len(callStack[t]) = 1 THEN <<>> ELSE @ \o Closing(t)]
        /\ Closing(t) = Closes(top)
        /\ (Len(callStack[t]) = 1 <=> lower = <<>>)
    BY <1>1, <1>2, <1>8, InnermostCall DEF LeaveNode, Closing, Closes
  <2>2. top.next = Len(parts) + 1
    BY <1>2, <1>5, <2>1 DEF Remaining, Standing
  <2>. HIDE DEF lower, top
  <2>3. CASE lower = <<>>
    <3>1. out' = [out EXCEPT ![t] = <<>>] /\ <<>> \in Text
      BY <2>1, <2>3, TextJoins
    <3>. QED BY <1>1, <1>2, <2>1, <2>3, <3>1, OwnRendering
  <2>4. CASE lower # <<>>
    <3>1. OnTrack(nodes, lower, out[t] \o Closes(top))
      BY <1>2, <2>2, <2>4, OnTrackLeave
    <3>2. out' = [out EXCEPT ![t] = out[t] \o Closes(top)]
      BY <2>1, <2>4
    <3>3. out[t] \o Closes(top) \in Text
      BY <3>1 DEF OnTrack
    <3>. QED BY <1>1, <1>2, <2>1, <3>1, <3>2, <3>3, OwnRendering
  <2>. QED BY <2>3, <2>4
<1>. QED BY <1>6, <1>7, <1>8

\* Building, copying and dropping leave the renderings alone.
LEMMA OthersKeepTrack ==
  ASSUME Rendering, Inv', Grows, UNCHANGED <<callStack, out>>
  PROVE  Rendering'
<1>1. /\ WellFormed(nodes) /\ WellFormed(nodes')
      /\ nodes \in Seq(Node) /\ Len(nodes) \in Nat /\ Len(nodes') \in Nat
  BY LenProperties DEF Rendering, Inv, TypeOK, WellFormed
<1>2. Len(nodes) <= Len(nodes') /\ \A i \in 1..Len(nodes) : nodes'[i] = nodes[i]
  <2>1. CASE nodes' = nodes
    BY <1>1, <2>1
  <2>2. ASSUME NEW node, nodes' = Append(nodes, node)
        PROVE  Len(nodes) <= Len(nodes') /\ \A i \in 1..Len(nodes) : nodes'[i] = nodes[i]
    BY <1>1, <2>2, AppendProperties
  <2>. QED BY <2>1, <2>2 DEF Grows
<1>3. ASSUME NEW t \in Threads, callStack[t] # <<>> PROVE OnTrack(nodes', callStack[t], out[t])
  <2>1. OnTrack(nodes, callStack[t], out[t])
    BY <1>3 DEF Rendering
  <2>. QED BY <1>1, <1>2, <1>3, <2>1, OnTrackLocal
<1>. QED BY <1>3 DEF Rendering

\* Every step keeps every rendering on track.
LEMMA RenderingPreserved ==
  ASSUME Rendering, [SharedNext]_sharedVars
  PROVE  Rendering'
<1>1. Inv' /\ Grows
  BY SharedPreserves DEF Rendering
<1>2. CASE InitPlaceholder \/ UNCHANGED sharedVars
  BY <1>1, <1>2, OthersKeepTrack DEF InitPlaceholder, sharedVars, sharing
<1>3. ASSUME NEW t \in Threads, BeginCall(t) PROVE Rendering'
  <2>1. ASSUME NEW i \in Exprs, NEW context \in Contexts, StartRendering(t, i, context)
        PROVE  Rendering'
    BY <1>1, <2>1, StartKeepsTrack
  <2>2. ASSUME NEW u, NEW i, BuildShared(t) \/ CopyHandle(t, u, i) \/ DropHandle(t, i)
        PROVE  Rendering'
    BY <1>1, <2>2, OthersKeepTrack DEF BuildShared, CopyHandle, DropHandle
  <2>. QED BY <1>3, <2>1, <2>2 DEF BeginCall
<1>4. ASSUME NEW t \in Threads, Continue(t) PROVE Rendering'
  <2>1. CASE ReleaseFragment(t) \/ Release(t)
    BY <1>1, <2>1, OthersKeepTrack DEF ReleaseFragment, Release
  <2>2. CASE AppendFragment(t) \/ EnterChild(t) \/ LeaveNode(t)
    BY <1>1, <2>2, WritingKeepsTrack
  <2>. QED BY <1>4, <2>1, <2>2 DEF Continue
<1>. QED BY <1>2, <1>3, <1>4 DEF SharedNext

\* A rendering on track has written the text from the first token on, and its
\* last call, behind the last part, has only the bracket left to write.
LEMMA OnTrackWrites ==
  ASSUME NEW heap, Renderable(heap), NEW calls, calls # <<>>, NEW written,
         OnTrack(heap, calls, written)
  PROVE  /\ IsPrefix(written, Whole(heap, calls[1]))
         /\ Len(calls) = 1 /\ calls[1].next = Len(heap[calls[1].node].parts) + 1
              => written \o Closes(calls[1]) = Whole(heap, calls[1])
<1>1. PICK text \in Text : Owe(heap, calls, text) /\ written \o text = Whole(heap, calls[1])
  BY DEF OnTrack
<1>2. IsPrefix(written, Whole(heap, calls[1]))
  <2>1. IsPrefix(written, written \o text)
    BY JoinPrefix DEF OnTrack
  <2>. QED BY <1>1, <2>1, Zenon
<1>3. ASSUME Len(calls) = 1, calls[1].next = Len(heap[calls[1].node].parts) + 1
      PROVE  written \o Closes(calls[1]) = Whole(heap, calls[1])
  <2>1. 1 \in 1..Len(calls) /\ Standing(heap, calls[1])
    BY <1>3 DEF OnTrack
  <2>2. Owed(heap, calls[1]) = Closes(calls[1]) /\ Closes(calls[1]) \in Text
    BY <1>3, <2>1, OwedText, BracketsTyped
  <2>3. text = Owed(heap, calls[1]) \o <<>>
    <3>1. PICK left : Stacked(left, heap, calls) /\ left[Len(calls)] = text
      BY <1>1 DEF Owe
    <3>2. left[0] = <<>> /\ left[1] = Owed(heap, calls[1]) \o left[1-1] /\ left[1] = text
      BY <1>3, <2>1, <3>1 DEF Stacked
    <3>3. 1 - 1 = 0
      OBVIOUS
    <3>. QED BY <3>2, <3>3, Zenon
  <2>4. text = Closes(calls[1])
    BY <2>2, <2>3, TextJoins, Zenon
  <2>. QED BY <1>1, <2>4
<1>. QED BY <1>2, <1>3

\* The text a call writes, with its brackets or without.
LEMMA WholeText ==
  ASSUME NEW heap, Renderable(heap), NEW call, call.node \in 1..Len(heap)
  PROVE  Whole(heap, call) = IF call.bracketed
                             THEN <<"(">> \o Render(heap)[call.node] \o <<")">>
                             ELSE Render(heap)[call.node]
<1>. DEFINE bare == Render(heap)[call.node]
<1>1. bare \in Text
  BY RenderedLength DEF Renderable
<1>2. Whole(heap, call) = Opens(call) \o (bare \o Closes(call))
  BY DEF Whole
<1>. HIDE DEF bare
<1>3. CASE call.bracketed
  <2>1. Opens(call) = <<"(">> /\ Closes(call) = <<")">>
    BY <1>3 DEF Opens, Closes
  <2>2. (<<"(">> \o bare) \o <<")">> = <<"(">> \o (bare \o <<")">>)
    BY <1>1, TextJoins, Zenon
  <2>3. Whole(heap, call) = (<<"(">> \o bare) \o <<")">>
    BY <1>2, <2>1, <2>2, Zenon
  <2>. QED BY <1>3, <2>3 DEF bare
<1>4. CASE ~call.bracketed
  <2>1. Opens(call) = <<>> /\ Closes(call) = <<>>
    BY <1>4 DEF Opens, Closes
  <2>2. <<>> \o (bare \o <<>>) = bare
    BY <1>1, TextJoins, Zenon
  <2>3. Whole(heap, call) = bare
    BY <1>2, <2>1, <2>2, Zenon
  <2>. QED BY <1>4, <2>3 DEF bare
<1>. QED BY <1>3, <1>4

\* node.cpp:61-80: on any number of threads, whatever the others build, copy and
\* drop meanwhile, a rendering writes the text of its node.
THEOREM RenderingsWriteTheirText == SharedSpec => []WritesItsText
<1>1. SharedInit => Rendering
  <2>1. SUFFICES ASSUME SharedInit PROVE Rendering
    OBVIOUS
  <2>2. Inv
    BY <2>1 DEF SharedInit, Init, Inv, TypeOK, ChildrenFirst, SizesAreTotals
  <2>3. /\ callStack = [t \in Threads |-> <<>>] /\ out = [t \in Threads |-> <<>>]
        /\ <<>> \in Text /\ <<>> \in Seq(Activation)
    BY <2>1, TextJoins DEF SharedInit
  <2>. QED BY <2>2, <2>3 DEF Rendering
<1>2. Rendering /\ [SharedNext]_sharedVars => Rendering'
  BY RenderingPreserved
<1>3. Rendering => WritesItsText
  <2>1. SUFFICES ASSUME Rendering, NEW t \in Threads, callStack[t] # <<>>
        PROVE  LET root  == callStack[t][1]
                   bare  == Render(nodes)[root.node]
                   whole == IF root.bracketed THEN <<"(">> \o bare \o <<")">> ELSE bare
               IN  /\ IsPrefix(out[t], whole)
                   /\ Len(callStack[t]) = 1 /\ ~Remaining(t) => out[t] \o Closing(t) = whole
    BY DEF WritesItsText
  <2>. DEFINE root == callStack[t][1]
  <2>2. /\ Renderable(nodes) /\ callStack[t] \in Seq(Activation)
        /\ OnTrack(nodes, callStack[t], out[t])
    BY <2>1, InnermostStands DEF Rendering
  <2>3. Standing(nodes, root) /\ root.node \in 1..Len(nodes)
    <3>1. 1 \in 1..Len(callStack[t])
      BY <2>1, <2>2, EmptySeq, LenProperties
    <3>. QED BY <2>2, <3>1 DEF OnTrack, Standing
  <2>4. IsPrefix(out[t], Whole(nodes, root))
    BY <2>1, <2>2, OnTrackWrites
  <2>5. ASSUME Len(callStack[t]) = 1, ~Remaining(t)
        PROVE  out[t] \o Closing(t) = Whole(nodes, root)
    <3>1. Top(t) = root
      BY <2>5 DEF Top, Last
    <3>2. Len(nodes[root.node].parts) \in Nat
      BY <2>2, <2>3, NodeParts, LenProperties DEF Renderable, PartsOver
    <3>3. ~(root.next <= Len(nodes[root.node].parts))
      BY <2>5, <3>1 DEF Remaining
    <3>4. root.next = Len(nodes[root.node].parts) + 1
      <4>. HIDE DEF root
      <4>. QED BY <2>3, <3>2, <3>3 DEF Standing
    <3>5. Closing(t) = Closes(root)
      BY <3>1 DEF Closing, Closes
    <3>. QED BY <2>1, <2>2, <2>5, <3>4, <3>5, OnTrackWrites
  <2>6. Whole(nodes, root) = IF root.bracketed
                             THEN <<"(">> \o Render(nodes)[root.node] \o <<")">>
                             ELSE Render(nodes)[root.node]
    <3>. HIDE DEF root
    <3>. QED BY <2>2, <2>3, WholeText
  <2>. QED BY <2>4, <2>5, <2>6, Zenon
<1>. QED BY <1>1, <1>2, <1>3, PTL DEF SharedSpec
=============================================================================
