--------------------------- MODULE InsertIntoProofs ---------------------------
(***************************************************************************)
(* What an INSERT builder renders, for any argument lists and any sequence *)
(* of calls.                                                               *)
(***************************************************************************)
EXTENDS InsertInto, TextLemmas, FiniteSetTheorems

\* The texts the code writes itself are texts.
LEMMA WordsTyped ==
  /\ \A a \in Tokens : <<a>> \in Text
  /\ \A a, b \in Tokens : <<a, b>> \in Text
  /\ \A a, b, c \in Tokens : <<a, b, c>> \in Text
  /\ \A s, t \in Text : s \o t \in Text
<1>1. /\ \A a \in Tokens : <<a>> \in Seq(Tokens)
      /\ \A a, b \in Tokens : <<a, b>> \in Seq(Tokens)
      /\ \A a, b, c \in Tokens : <<a, b, c>> \in Seq(Tokens)
  OBVIOUS
<1>2. \A s, t \in Seq(Tokens) : s \o t \in Seq(Tokens)
  BY ConcatProperties
<1>. QED BY <1>1, <1>2, Zenon DEF Text

\* The words of the statement are tokens, one by one.
LEMMA KeywordsTyped ==
  /\ "INSERT INTO" \in Tokens /\ "t" \in Tokens /\ "VALUES" \in Tokens
  /\ "(" \in Tokens /\ ")" \in Tokens /\ ", " \in Tokens /\ " " \in Tokens
  /\ "=" \in Tokens /\ "ON CONFLICT" \in Tokens /\ "DO NOTHING" \in Tokens
  /\ "DO UPDATE SET" \in Tokens /\ "RETURNING" \in Tokens
<1>1. Keywords \subseteq Tokens
  BY InsertAssumption
<1>. QED BY <1>1 DEF Keywords

\* A joined list of texts is a text.
LEMMA JoinCsvTyped ==
  ASSUME NEW items \in Seq(Text)
  PROVE  JoinCsv(items) \in Text
<1>1. Separator \in Seq(Tokens)
  BY KeywordsTyped, WordsTyped DEF Text, Separator
<1>. QED BY <1>1, JoinCsvUnfolds DEF Text

\* Flattened, without the lengths.
LEMMA FlattenTyped ==
  ASSUME NEW seqs \in Seq(Text)
  PROVE  FlattenSeq(seqs) \in Text
<1>. DEFINE n == Len(seqs)
<1>. DEFINE step == [k \in 1..n |-> [v \in Nat |-> v + Len(seqs[k])]]
<1>1. n \in Nat /\ seqs \in Seq(Seq(Tokens)) /\ \A k \in 1..n : Len(seqs[k]) \in Nat
  BY ElementOfSeq, LenProperties DEF Text
<1>2. step \in [1..n -> [Nat -> Nat]]
  BY <1>1
<1>3. PICK f : Accumulates(f, Nat, n, 0, step)
  <2>. HIDE DEF n, step
  <2>. QED BY <1>1, <1>2, Accumulation
<1>4. f[0] = 0 /\ \A k \in 1..n : f[k] = f[k-1] + Len(seqs[k])
  <2>1. \A k \in 1..n : k-1 \in 0..n
    BY <1>1
  <2>2. f[0] = 0 /\ \A k \in 1..n : f[k-1] \in Nat /\ f[k] = step[k][f[k-1]]
    <3>. HIDE DEF n, step
    <3>. QED BY <1>3, <2>1 DEF Accumulates
  <2>. QED BY <2>2
<1>. QED BY <1>1, <1>4, Flattened DEF Text

\* A parenthesised list, and the lists of all rows.
LEMMA ListsTyped ==
  /\ \A terms \in Seq(Text) : Tuple(terms) \in Text
  /\ \A rs \in Seq(Seq(Text)) : Tuples(rs) \in Text
<1>1. <<"(">> \in Text /\ <<")">> \in Text /\ <<", ">> \in Text
  BY KeywordsTyped, WordsTyped, Zenon
<1>2. ASSUME NEW terms \in Seq(Text) PROVE Tuple(terms) \in Text
  <2>1. JoinCsv(terms) \in Text
    BY JoinCsvTyped
  <2>. QED BY <1>1, <2>1, WordsTyped, Zenon DEF Tuple
<1>3. ASSUME NEW rs \in Seq(Seq(Text)) PROVE Tuples(rs) \in Text
  <2>. DEFINE Row(r) == IF r = 1 THEN Tuple(rs[r]) ELSE <<", ">> \o Tuple(rs[r])
  <2>. DEFINE pieces == [r \in DOMAIN rs |-> Row(r)]
  <2>1. ASSUME NEW r \in DOMAIN rs PROVE Row(r) \in Text
    <3>1. rs[r] \in Seq(Text)
      BY <2>1, ElementOfSeq, LenProperties
    <3>2. Tuple(rs[r]) \in Text /\ <<", ">> \o Tuple(rs[r]) \in Text
      BY <1>1, <1>2, <3>1, WordsTyped, Zenon
    <3>. QED BY <3>2
  <2>. HIDE DEF Row
  <2>2. pieces \in Seq(Text)
    <3>1. DOMAIN rs = 1..Len(rs) /\ Len(rs) \in Nat
      BY LenProperties
    <3>2. pieces \in [1..Len(rs) -> Text]
      BY <2>1, <3>1
    <3>. QED BY <3>1, <3>2
  <2>3. FlattenSeq(pieces) \in Text
    <3>. HIDE DEF pieces
    <3>. QED BY <2>2, FlattenTyped
  <2>. QED BY <2>3 DEF Tuples, Row
<1>. QED BY <1>2, <1>3

\* What ToString returns, and the pieces the lists stand between.
LEMMA StatementTyped ==
  ASSUME TypeOK
  PROVE  /\ <<"INSERT INTO", "t">> \in Text /\ <<"VALUES">> \in Text
         /\ Tuple(columns) \in Text /\ Tuples(rows) \in Text
         /\ Optional(<<>>, onConflict) \in Text
         /\ Optional(<<"RETURNING">>, returning) \in Text
         /\ Statement \in Text
<1>1. /\ <<"INSERT INTO", "t">> \in Text /\ <<"VALUES">> \in Text
      /\ <<"RETURNING">> \in Text
  BY KeywordsTyped, WordsTyped, Zenon
<1>2. Tuple(columns) \in Text /\ Tuples(rows) \in Text
  BY ListsTyped DEF TypeOK
<1>3. <<>> \in Text
  BY DEF Text
<1>4. onConflict \in Text /\ returning \in Text
  BY DEF TypeOK
<1>5. Optional(<<>>, onConflict) \in Text /\ Optional(<<"RETURNING">>, returning) \in Text
  BY <1>1, <1>3, <1>4, WordsTyped, Zenon DEF Optional
<1>. QED BY <1>1, <1>2, <1>5, WordsTyped, Zenon DEF Statement

\* The assignments of DO UPDATE SET.
LEMMA AssignmentsTyped ==
  ASSUME NEW list \in AssignmentLists
  PROVE  Assignments(list) \in Text
<1>0. <<" ", "=", " ">> \in Text
  BY KeywordsTyped, WordsTyped, Zenon
<1>. DEFINE Rendered(k) == RenderBinary(list[k].column, "=", list[k].value)
<1>. DEFINE terms == [k \in DOMAIN list |-> Rendered(k)]
<1>1. list \in Seq([column : Text, value : Text])
  BY InsertAssumption
<1>2. DOMAIN list = 1..Len(list) /\ Len(list) \in Nat
  BY <1>1, LenProperties
<1>3. ASSUME NEW k \in DOMAIN list PROVE Rendered(k) \in Text
  <2>1. list[k] \in [column : Text, value : Text]
    BY <1>1, <1>2, <1>3, ElementOfSeq
  <2>2. list[k].column \in Text /\ list[k].value \in Text
    BY <2>1
  <2>. QED BY <1>0, <2>2, WordsTyped, Zenon DEF RenderBinary
<1>. HIDE DEF Rendered
<1>4. terms \in [1..Len(list) -> Text]
  BY <1>2, <1>3
<1>5. terms \in Seq(Text)
  BY <1>2, <1>4
<1>6. JoinCsv(terms) \in Text
  <2>. HIDE DEF terms
  <2>. QED BY <1>5, JoinCsvTyped
<1>. QED BY <1>6 DEF Assignments, Rendered

\* The clauses the ON CONFLICT setters build.
LEMMA ConflictTyped ==
  /\ <<"ON CONFLICT", "DO NOTHING">> \in Text
  /\ \A target \in Targets : ConflictTarget(target) \o <<"DO NOTHING">> \in Text
  /\ \A target \in Targets, list \in AssignmentLists :
       ConflictTarget(target) \o <<"DO UPDATE SET">> \o Assignments(list) \in Text
<1>1. /\ <<"ON CONFLICT", "DO NOTHING">> \in Text /\ <<"DO NOTHING">> \in Text
      /\ <<"DO UPDATE SET">> \in Text /\ <<"ON CONFLICT", "(">> \in Text
      /\ <<")">> \in Text
  BY KeywordsTyped, WordsTyped, Zenon
<1>2. ASSUME NEW target \in Targets PROVE ConflictTarget(target) \in Text
  <2>1. target \in Seq(Text)
    BY InsertAssumption
  <2>2. JoinCsv(target) \in Text
    BY <2>1, JoinCsvTyped
  <2>. QED BY <1>1, <2>2, WordsTyped, Zenon DEF ConflictTarget
<1>. QED BY <1>1, <1>2, AssignmentsTyped, WordsTyped, Zenon

-----------------------------------------------------------------------------
\* A list the builder holds but never accepted broke the arity, and still
\* does.
RejectedBreaksArity ==
  /\ columns # <<>> /\ columns \notin accepted["columns"] => ~SameArity(columns, rows)
  /\ rows # <<>> /\ rows \notin accepted["rows"] => ~SameArity(columns, rows)

\* A clause accepted is the clause held.
AcceptedIsHeld ==
  /\ \A cols \in accepted["columns"] : cols # <<>> => columns = cols
  /\ \A rs \in accepted["rows"] : rs # <<>> => rows = rs
  /\ \A items \in accepted["returning"] : items # <<>> => returning = items

\* The last text rendered is that of the present fields.
TextIsCurrent == outcome = "rendered" => CanRender /\ text = Statement

\* The inductive invariant.  What renders was accepted because a rejected
\* list keeps SameArity false, and ToString asks it again.
IInv == TypeOK /\ RejectedBreaksArity /\ AcceptedIsHeld /\ TextIsCurrent

\* Accept adds one value to one setter's history.
LEMMA AcceptAdds ==
  ASSUME TypeOK, NEW setter \in Setters, NEW value, Accept(setter, value)
  PROVE  /\ DOMAIN accepted' = Setters
         /\ accepted'[setter] = accepted[setter] \cup {value}
         /\ \A other \in Setters \ {setter} : accepted'[other] = accepted[other]
         /\ outcome' = "ok" /\ text' = text
BY DEF TypeOK, Accept

\* A call that throws and assigns nothing.
LEMMA ThrowPreserves ==
  ASSUME IInv, NEW exception \in {"LogicError", "InvalidArgument"},
         Throw(exception), UNCHANGED fields
  PROVE  IInv'
BY DEF IInv, TypeOK, RejectedBreaksArity, AcceptedIsHeld, TextIsCurrent, Throw, fields

\* Columns: the list may be rejected after it was stored.
LEMMA ColumnsPreserves ==
  ASSUME IInv, NEW cols \in ColumnLists, Columns(cols)
  PROVE  IInv'
<1>1. CASE AlreadySet(columns)
  BY <1>1, ThrowPreserves DEF AlreadySet
<1>2. CASE columns = <<>> /\ columns' = cols /\ UNCHANGED <<rows, returning, onConflict>>
           /\ EnsureSameArity("columns", cols)
  <2>1. cols \in Seq(Text)
    BY InsertAssumption
  <2>2. SameArity(columns, rows)
    BY <1>2 DEF SameArity, IsEmpty
  <2>3. CASE SameArity(columns', rows') /\ Accept("columns", cols)
    <3>1. /\ DOMAIN accepted' = Setters
          /\ accepted'["columns"] = accepted["columns"] \cup {cols}
          /\ accepted'["rows"] = accepted["rows"]
          /\ accepted'["returning"] = accepted["returning"]
          /\ outcome' = "ok" /\ text' = text
      <4>1. "columns" \in Setters /\ {"rows", "returning"} \subseteq Setters \ {"columns"}
        BY DEF Setters
      <4>. QED BY <2>3, <4>1, AcceptAdds DEF IInv
    <3>2. RejectedBreaksArity' /\ AcceptedIsHeld'
      BY <1>2, <2>2, <3>1 DEF IInv, RejectedBreaksArity, AcceptedIsHeld
    <3>. QED BY <1>2, <2>1, <3>1, <3>2 DEF IInv, TypeOK, TextIsCurrent
  <2>4. CASE ~SameArity(columns', rows') /\ Throw("LogicError")
    <3>1. RejectedBreaksArity' /\ AcceptedIsHeld'
      BY <1>2, <2>2, <2>4 DEF IInv, RejectedBreaksArity, AcceptedIsHeld, Throw
    <3>. QED BY <1>2, <2>1, <2>4, <3>1 DEF IInv, TypeOK, TextIsCurrent, Throw
  <2>. QED BY <1>2, <2>3, <2>4 DEF EnsureSameArity
<1>. QED BY <1>1, <1>2 DEF Columns, IsEmpty

\* Values and Rows, likewise.
LEMMA SetRowsPreserves ==
  ASSUME IInv, NEW rs \in Seq(Seq(Text)), SetRows(rs)
  PROVE  IInv'
<1>1. CASE AlreadySet(rows)
  BY <1>1, ThrowPreserves DEF AlreadySet
<1>2. CASE rows = <<>> /\ rows' = rs /\ UNCHANGED <<columns, returning, onConflict>>
           /\ EnsureSameArity("rows", rs)
  <2>1. SameArity(columns, rows)
    BY <1>2 DEF SameArity, IsEmpty
  <2>2. CASE SameArity(columns', rows') /\ Accept("rows", rs)
    <3>1. /\ DOMAIN accepted' = Setters
          /\ accepted'["rows"] = accepted["rows"] \cup {rs}
          /\ accepted'["columns"] = accepted["columns"]
          /\ accepted'["returning"] = accepted["returning"]
          /\ outcome' = "ok" /\ text' = text
      <4>1. "rows" \in Setters /\ {"columns", "returning"} \subseteq Setters \ {"rows"}
        BY DEF Setters
      <4>. QED BY <2>2, <4>1, AcceptAdds DEF IInv
    <3>2. RejectedBreaksArity' /\ AcceptedIsHeld'
      BY <1>2, <2>1, <3>1 DEF IInv, RejectedBreaksArity, AcceptedIsHeld
    <3>. QED BY <1>2, <3>1, <3>2 DEF IInv, TypeOK, TextIsCurrent
  <2>3. CASE ~SameArity(columns', rows') /\ Throw("LogicError")
    <3>1. RejectedBreaksArity' /\ AcceptedIsHeld'
      BY <1>2, <2>1, <2>3 DEF IInv, RejectedBreaksArity, AcceptedIsHeld, Throw
    <3>. QED BY <1>2, <2>3, <3>1 DEF IInv, TypeOK, TextIsCurrent, Throw
  <2>. QED BY <1>2, <2>2, <2>3 DEF EnsureSameArity
<1>. QED BY <1>1, <1>2 DEF SetRows, IsEmpty

\* Returning holds the joined terms.
LEMMA ReturningPreserves ==
  ASSUME IInv, NEW items \in ReturningLists, Returning(items)
  PROVE  IInv'
<1>1. CASE AlreadySet(returning)
  BY <1>1, ThrowPreserves DEF AlreadySet
<1>. DEFINE clause == JoinCsv(items)
<1>2. CASE returning = <<>> /\ returning' = clause /\ UNCHANGED <<columns, rows, onConflict>>
           /\ Accept("returning", clause)
  <2>1. clause \in Text
    <3>1. items \in Seq(Text)
      BY InsertAssumption
    <3>. QED BY <3>1, JoinCsvTyped
  <2>. HIDE DEF clause
  <2>2. /\ DOMAIN accepted' = Setters
        /\ accepted'["returning"] = accepted["returning"] \cup {clause}
        /\ accepted'["columns"] = accepted["columns"]
        /\ accepted'["rows"] = accepted["rows"]
        /\ outcome' = "ok" /\ text' = text
    <3>1. "returning" \in Setters /\ {"columns", "rows"} \subseteq Setters \ {"returning"}
      BY DEF Setters
    <3>. QED BY <1>2, <3>1, AcceptAdds DEF IInv
  <2>3. RejectedBreaksArity' /\ AcceptedIsHeld'
    BY <1>2, <2>2 DEF IInv, RejectedBreaksArity, AcceptedIsHeld
  <2>. QED BY <1>2, <2>1, <2>2, <2>3 DEF IInv, TypeOK, TextIsCurrent
<1>. QED BY <1>1, <1>2 DEF Returning, IsEmpty

\* The ON CONFLICT setters touch none of the checked clauses.
LEMMA OnConflictPreserves ==
  ASSUME IInv, NEW clause \in Text, SetOnConflict(clause)
  PROVE  IInv'
<1>1. /\ DOMAIN accepted' = Setters
      /\ accepted'["returning"] = accepted["returning"]
      /\ accepted'["columns"] = accepted["columns"]
      /\ accepted'["rows"] = accepted["rows"]
      /\ outcome' = "ok" /\ text' = text
  <2>1. "onConflict" \in Setters
        /\ {"columns", "rows", "returning"} \subseteq Setters \ {"onConflict"}
    BY DEF Setters
  <2>. QED BY <2>1, AcceptAdds DEF IInv, SetOnConflict
<1>. QED BY <1>1 DEF IInv, TypeOK, RejectedBreaksArity, AcceptedIsHeld, TextIsCurrent,
                     SetOnConflict

\* ToString: the text becomes that of the fields it checked.
LEMMA RenderPreserves ==
  ASSUME IInv, RenderCall
  PROVE  IInv'
<1>1. UNCHANGED <<columns, rows, returning, onConflict, accepted>>
  BY DEF RenderCall, fields
<1>2. RejectedBreaksArity' /\ AcceptedIsHeld'
  BY <1>1 DEF IInv, RejectedBreaksArity, AcceptedIsHeld
<1>3. CASE CanRender /\ outcome' = "rendered" /\ text' = Statement
  <2>1. CanRender' = CanRender /\ Statement' = Statement
    BY <1>1 DEF CanRender, Statement
  <2>2. Statement \in Text
    BY StatementTyped DEF IInv
  <2>3. TextIsCurrent' /\ TypeOK'
    BY <1>1, <1>3, <2>1, <2>2 DEF TextIsCurrent, IInv, TypeOK
  <2>. QED BY <1>2, <2>3 DEF IInv
<1>4. CASE ~CanRender /\ outcome' = "LogicError" /\ UNCHANGED text
  BY <1>1, <1>2, <1>4 DEF IInv, TypeOK, TextIsCurrent
<1>. QED BY <1>3, <1>4 DEF RenderCall

-----------------------------------------------------------------------------
\* After any sequence of calls, some of which threw, a list the builder
\* holds was accepted or keeps the statement from rendering.
THEOREM IInvHolds == Spec => []IInv
<1>1. Init => IInv
  BY DEF Init, IInv, TypeOK, RejectedBreaksArity, AcceptedIsHeld, TextIsCurrent, Setters,
         Text
<1>2. IInv /\ [Next]_vars => IInv'
  <2>1. SUFFICES ASSUME IInv, [Next]_vars PROVE IInv'
    OBVIOUS
  <2>2. ASSUME NEW cols \in ColumnLists, Columns(cols) PROVE IInv'
    BY <2>1, <2>2, ColumnsPreserves
  <2>3. ASSUME NEW vals \in ValueLists, Values(vals) PROVE IInv'
    <3>1. vals \in Seq(Text)
      BY InsertAssumption
    <3>2. <<vals>> \in Seq(Seq(Text))
      BY <3>1
    <3>. QED BY <2>1, <2>3, <3>2, SetRowsPreserves DEF Values
  <2>4. ASSUME NEW rs \in RowLists, Rows(rs) PROVE IInv'
    <3>1. rs \in Seq(Seq(Text))
      BY InsertAssumption
    <3>. QED BY <2>1, <2>4, <3>1, SetRowsPreserves DEF Rows
  <2>5. ASSUME NEW items \in ReturningLists, Returning(items) PROVE IInv'
    BY <2>1, <2>5, ReturningPreserves
  <2>6. CASE OnConflictDoNothing
    BY <2>1, <2>6, ConflictTyped, OnConflictPreserves DEF OnConflictDoNothing
  <2>7. ASSUME NEW target \in Targets, OnConflictDoNothingOn(target) PROVE IInv'
    BY <2>1, <2>7, ConflictTyped, OnConflictPreserves DEF OnConflictDoNothingOn
  <2>8. ASSUME NEW target \in Targets, NEW list \in AssignmentLists,
               OnConflictDoUpdate(target, list)
        PROVE  IInv'
    <3>1. CASE Throw("InvalidArgument") /\ UNCHANGED fields
      BY <2>1, <3>1, ThrowPreserves
    <3>. QED BY <2>1, <2>8, <3>1, ConflictTyped, OnConflictPreserves DEF OnConflictDoUpdate
  <2>9. CASE RenderCall
    BY <2>1, <2>9, RenderPreserves
  <2>10. CASE UNCHANGED vars
    BY <2>1, <2>10 DEF vars, fields, IInv, TypeOK, RejectedBreaksArity, AcceptedIsHeld,
                       TextIsCurrent, CanRender, Statement
  <2>. QED BY <2>1, <2>2, <2>3, <2>4, <2>5, <2>6, <2>7, <2>8, <2>9, <2>10 DEF Next
<1>. QED BY <1>1, <1>2, PTL DEF Spec

\* The fields hold texts and lists of texts, whatever was called.
THEOREM TypeCorrect == Spec => []TypeOK
<1>1. IInv => TypeOK
  BY DEF IInv
<1>. QED BY <1>1, IInvHolds, PTL

\* insert_into.cpp stores a list before EnsureSameArity can reject it; no
\* statement ever renders a rejected list.
THEOREM RejectedNeverRendered == Spec => []RejectedIsNeverRendered
<1>1. IInv => RejectedIsNeverRendered
  BY DEF IInv, RejectedBreaksArity, TextIsCurrent, CanRender, IsEmpty, RejectedIsNeverRendered
<1>. QED BY <1>1, IInvHolds, PTL

\* A list that was rejected stays in its field, so every later call that
\* checks the arity fails too.
THEOREM ArityErrorFinal == Spec => ArityErrorIsFinal
<1>1. [Next]_vars => [~SameArity(columns, rows) => ~SameArity(columns', rows')]_vars
  <2>1. SUFFICES ASSUME Next, ~SameArity(columns, rows)
                 PROVE  UNCHANGED <<columns, rows>>
    BY DEF SameArity
  <2>2. ~IsEmpty(columns) /\ ~IsEmpty(rows)
    BY <2>1 DEF SameArity, IsEmpty
  <2>3. ASSUME NEW cols \in ColumnLists, Columns(cols) PROVE UNCHANGED <<columns, rows>>
    BY <2>2, <2>3 DEF Columns, AlreadySet, fields
  <2>4. ASSUME NEW rs, SetRows(rs) PROVE UNCHANGED <<columns, rows>>
    BY <2>2, <2>4 DEF SetRows, AlreadySet, fields
  <2>5. ASSUME NEW items \in ReturningLists, Returning(items)
        PROVE  UNCHANGED <<columns, rows>>
    BY <2>5 DEF Returning, AlreadySet, fields
  <2>6. ASSUME NEW clause, SetOnConflict(clause) PROVE UNCHANGED <<columns, rows>>
    BY <2>6 DEF SetOnConflict
  <2>7. ASSUME NEW target \in Targets, NEW list \in AssignmentLists,
               OnConflictDoUpdate(target, list)
        PROVE  UNCHANGED <<columns, rows>>
    BY <2>6, <2>7 DEF OnConflictDoUpdate, fields
  <2>8. CASE RenderCall
    BY <2>8 DEF RenderCall, fields
  <2>. QED BY <2>1, <2>3, <2>4, <2>5, <2>6, <2>7, <2>8
           DEF Next, Values, Rows, OnConflictDoNothing, OnConflictDoNothingOn
<1>. QED BY <1>1, PTL DEF Spec, ArityErrorIsFinal

-----------------------------------------------------------------------------
\* Past the first sequence, a concatenation is the second.
LEMMA ConcatTail ==
  ASSUME NEW s \in Seq(Tokens), NEW t \in Seq(Tokens), NEW i \in 1..Len(t)
  PROVE  (s \o t)[Len(s) + i] = t[i]
OBVIOUS

\* A text occurs in any text it is concatenated into.
LEMMA OccursBetween ==
  ASSUME NEW before \in Text, NEW part \in Text, NEW after \in Text,
         text = before \o (part \o after)
  PROVE  Occurs(part)
<1>. DEFINE k == Len(before) + 1
<1>. DEFINE m == Len(part)
<1>1. /\ Len(before) \in Nat /\ m \in Nat /\ Len(after) \in Nat
      /\ part \in Seq(Tokens) /\ after \in Seq(Tokens) /\ before \in Seq(Tokens)
  BY LenProperties DEF Text
<1>2. /\ part \o after \in Seq(Tokens)
      /\ Len(part \o after) = m + Len(after)
      /\ \A i \in 1..m : (part \o after)[i] = part[i]
  BY <1>1, ConcatProperties
<1>3. /\ text \in Seq(Tokens)
      /\ Len(text) = Len(before) + m + Len(after)
      /\ \A i \in 1..m : text[Len(before) + i] = part[i]
  <2>. DEFINE rest == part \o after
  <2>1. rest \in Seq(Tokens) /\ Len(rest) = m + Len(after) /\ text = before \o rest
    BY <1>2
  <2>2. \A i \in 1..m : i \in 1..Len(rest) /\ rest[i] = part[i]
    BY <1>1, <1>2
  <2>. HIDE DEF rest
  <2>3. text \in Seq(Tokens) /\ Len(text) = Len(before) + Len(rest)
    BY <1>1, <2>1, ConcatProperties
  <2>4. \A i \in 1..m : (before \o rest)[Len(before) + i] = rest[i]
    BY <1>1, <2>1, <2>2, ConcatTail
  <2>. QED BY <1>1, <2>1, <2>2, <2>3, <2>4
<1>4. k \in 1 .. Len(text) - m + 1
  BY <1>1, <1>3
<1>5. SubSeq(text, k, k + m - 1) = part
  <2>1. SubSeq(text, k, k + m - 1) = [i \in 1..m |-> text[k + i - 1]]
    BY <1>1, <1>3, <1>4
  <2>2. \A i \in 1..m : text[k + i - 1] = part[i]
    BY <1>1, <1>3
  <2>3. part = [i \in 1..m |-> part[i]]
    BY <1>1
  <2>. QED BY <2>1, <2>2, <2>3
<1>. QED BY <1>4, <1>5 DEF Occurs

\* Each list of the builder occurs in its statement.
LEMMA StatementHoldsLists ==
  ASSUME TypeOK, text = Statement
  PROVE  Occurs(Tuple(columns)) /\ Occurs(Tuples(rows)) /\ Occurs(returning)
<1>. DEFINE head == <<"INSERT INTO", "t">>
<1>. DEFINE lists == Tuple(columns)
<1>. DEFINE values == <<"VALUES">>
<1>. DEFINE tuples == Tuples(rows)
<1>. DEFINE conflict == Optional(<<>>, onConflict)
<1>. DEFINE tail == Optional(<<"RETURNING">>, returning)
<1>1. /\ head \in Seq(Tokens) /\ lists \in Seq(Tokens) /\ values \in Seq(Tokens)
      /\ tuples \in Seq(Tokens) /\ conflict \in Seq(Tokens) /\ tail \in Seq(Tokens)
  BY StatementTyped DEF Text
<1>2. text = head \o lists \o values \o tuples \o conflict \o tail
  BY Zenon DEF Statement
<1>3. returning \in Seq(Tokens) /\ <<"RETURNING">> \in Seq(Tokens) /\ <<>> \in Seq(Tokens)
  <2>1. <<"RETURNING">> \in Text
    BY KeywordsTyped, WordsTyped, Zenon
  <2>. QED BY <2>1 DEF TypeOK, Text
<1>4. (tail = <<>> /\ returning = <<>>) \/ tail = <<"RETURNING">> \o returning
  BY DEF Optional, IsEmpty
<1>. HIDE DEF head, lists, values, tuples, conflict, tail
<1>5. \A r, s, t \in Seq(Tokens) : Cat(r, s) \in Seq(Tokens) /\ Cat(Cat(r, s), t) = Cat(r, Cat(s, t))
  BY ConcatsSeq DEF Concats
<1>6. text = Cat(Cat(Cat(Cat(Cat(head, lists), values), tuples), conflict), tail)
  BY <1>2, Zenon DEF Cat
<1>7. /\ text = Cat(Cat(Cat(head, lists), values), Cat(tuples, Cat(conflict, tail)))
       /\ Cat(Cat(head, lists), values) \in Seq(Tokens)
       /\ Cat(head, lists) \in Seq(Tokens)
       /\ Cat(tuples, Cat(conflict, tail)) \in Seq(Tokens)
       /\ Cat(conflict, tail) \in Seq(Tokens)
  <2>1. /\ Cat(head, lists) \in Seq(Tokens)
        /\ Cat(Cat(head, lists), values) \in Seq(Tokens)
        /\ Cat(conflict, tail) \in Seq(Tokens)
        /\ Cat(tuples, Cat(conflict, tail)) \in Seq(Tokens)
    BY <1>1, <1>5
  <2>2. Cat(Cat(Cat(head, lists), values), tuples) \in Seq(Tokens)
    BY <1>1, <1>5, <2>1
  <2>3. text = Cat(Cat(Cat(Cat(head, lists), values), tuples), Cat(conflict, tail))
    BY <1>1, <1>5, <1>6, <2>2
  <2>4. text = Cat(Cat(Cat(head, lists), values), Cat(tuples, Cat(conflict, tail)))
    BY <1>1, <1>5, <2>1, <2>3
  <2>. QED BY <2>1, <2>4
<1>8. Occurs(lists)
  <2>. DEFINE after == Cat(values, Cat(tuples, Cat(conflict, tail)))
  <2>1. text = Cat(head, Cat(lists, after)) /\ after \in Seq(Tokens)
    <3>1. text = Cat(Cat(head, lists), after) /\ after \in Seq(Tokens)
      BY <1>1, <1>5, <1>7
    <3>. HIDE DEF after
    <3>. QED BY <1>1, <1>5, <3>1
  <2>2. text = head \o (lists \o after)
    BY <2>1, Zenon DEF Cat
  <2>. HIDE DEF after
  <2>. QED BY <1>1, <2>1, <2>2, OccursBetween DEF Text
<1>9. Occurs(tuples)
  <2>. DEFINE before == Cat(Cat(head, lists), values)
  <2>. DEFINE after == Cat(conflict, tail)
  <2>1. text = Cat(before, Cat(tuples, after)) /\ before \in Seq(Tokens) /\ after \in Seq(Tokens)
    BY <1>7
  <2>. HIDE DEF before, after
  <2>2. text = before \o (tuples \o after)
    BY <2>1, Zenon DEF Cat
  <2>. QED BY <1>1, <2>1, <2>2, OccursBetween DEF Text
<1>10. Occurs(returning)
  <2>. DEFINE before == Cat(Cat(Cat(Cat(head, lists), values), tuples), conflict)
  <2>1. text = Cat(before, tail) /\ before \in Seq(Tokens)
    BY <1>1, <1>5, <1>6
  <2>. HIDE DEF before
  <2>2. returning \o <<>> = returning
    BY <1>3, ConcatEmptySeq
  <2>3. CASE tail = <<>> /\ returning = <<>>
    <3>1. text = before \o (returning \o <<>>)
      BY <2>1, <2>2, <2>3, Zenon DEF Cat
    <3>. QED BY <1>3, <2>1, <3>1, OccursBetween DEF Text
  <2>4. CASE tail = <<"RETURNING">> \o returning
    <3>. DEFINE keyword == <<"RETURNING">>
    <3>1. keyword \in Seq(Tokens) /\ tail = Cat(keyword, returning)
      BY <1>3, <2>4 DEF Cat
    <3>. HIDE DEF keyword
    <3>2. text = Cat(Cat(before, keyword), returning) /\ Cat(before, keyword) \in Seq(Tokens)
      BY <1>3, <1>5, <2>1, <3>1
    <3>3. text = Cat(before, keyword) \o (returning \o <<>>)
      BY <2>2, <3>2, Zenon DEF Cat
    <3>. QED BY <1>3, <3>2, <3>3, OccursBetween DEF Text
  <2>. QED BY <1>4, <2>3, <2>4
<1>. QED BY <1>8, <1>9, <1>10 DEF lists, tuples

\* The empty text occurs in every text.
LEMMA NothingOccurs ==
  ASSUME text \in Text
  PROVE  Occurs(<<>>)
<1>1. text \in Seq(Tokens) /\ <<>> \in Seq(Tokens)
  BY DEF Text
<1>2. text = <<>> \o (<<>> \o text)
  BY <1>1, ConcatEmptySeq
<1>. QED BY <1>1, <1>2, OccursBetween DEF Text

\* A statement that renders holds every non-empty list accepted before it,
\* whatever was called and whatever threw in between.
THEOREM AcceptedListsRendered == Spec => []ListsAreRendered
<1>1. IInv => ListsAreRendered
  <2>1. SUFFICES ASSUME IInv, outcome = "rendered" PROVE ListsAreRendered
    BY DEF ListsAreRendered
  <2>2. Occurs(Tuple(columns)) /\ Occurs(Tuples(rows)) /\ Occurs(returning)
    BY <2>1, StatementHoldsLists DEF IInv, TextIsCurrent
  <2>3. Occurs(<<>>)
    BY <2>1, NothingOccurs DEF IInv, TypeOK
  <2>4. \A cols \in accepted["columns"] \ {<<>>} : cols = columns
    BY <2>1 DEF IInv, AcceptedIsHeld
  <2>5. \A rs \in accepted["rows"] \ {<<>>} : rs = rows
    BY <2>1 DEF IInv, AcceptedIsHeld
  <2>6. \A items \in accepted["returning"] : items = <<>> \/ items = returning
    BY <2>1 DEF IInv, AcceptedIsHeld
  <2>. QED BY <2>2, <2>3, <2>4, <2>5, <2>6 DEF ListsAreRendered
<1>. QED BY <1>1, IInvHolds, PTL

-----------------------------------------------------------------------------
\* The punctuation of the statement.  (The SMT translation fails on these
\* strings, so the lemmas name them.)
Open  == "("
Close == ")"
Comma == ", "

\* They differ, and a comma is what separates terms.
LEMMA PunctuationApart ==
  Open # Close /\ Comma # Open /\ Comma # Close /\ Separator = <<Comma>>
BY Zenon DEF Open, Close, Comma, Separator

\* The parenthesis that closes the one at k.
Closes(ws, k, c) ==
  /\ c \in k .. Len(ws)
  /\ ws[c] = Close
  /\ \A j \in k .. c-1 : ws[j] # Close

Commas(ws, k, c) == {j \in k .. c : ws[j] = Comma}

\* Each parenthesised list in a text has n commas.
HoldsLists(ws, n) ==
  \A k \in 1 .. Len(ws) : ws[k] = Open =>
    \E c : Closes(ws, k, c) /\ IsFiniteSet(Commas(ws, k, c)) /\ Cardinality(Commas(ws, k, c)) = n

\* Moving a set of positions does not change how many there are.
LEMMA ShiftedSet ==
  ASSUME NEW P \in SUBSET Int, IsFiniteSet(P), NEW d \in Int
  PROVE  IsFiniteSet({d + j : j \in P}) /\ Cardinality({d + j : j \in P}) = Cardinality(P)
<1>. DEFINE Q == {d + j : j \in P}
<1>. DEFINE f == [j \in P |-> d + j]
<1>1. f \in [P -> Q] /\ \A q \in Q : \E j \in P : f[j] = q
  OBVIOUS
<1>2. \A a, b \in P : f[a] = f[b] => a = b
  OBVIOUS
<1>3. ExistsBijection(P, Q)
  <2>. HIDE DEF f, Q
  <2>. QED BY <1>1, <1>2 DEF ExistsBijection, Bijection, Injection, Surjection, IsInjective
<1>. HIDE DEF Q
<1>4. IsFiniteSet(Q) /\ Cardinality(Q) = Cardinality(P)
  BY <1>3, FS_Bijection
<1>. QED BY <1>4 DEF Q

\* The tokens of a text put together from two, by their places.
LEMMA ConcatPlaces ==
  ASSUME NEW S, NEW a \in Seq(S), NEW b \in Seq(S)
  PROVE  /\ a \o b \in Seq(S) /\ Len(a) \in Nat /\ Len(b) \in Nat
         /\ Len(a \o b) = Len(a) + Len(b)
         /\ \A j \in 1..Len(a) : (a \o b)[j] = a[j]
         /\ \A j \in 1..Len(b) : (a \o b)[Len(a) + j] = b[j]
OBVIOUS

\* A list is the same with more text after it.
LEMMA ListKept ==
  ASSUME NEW S, NEW a \in Seq(S), NEW b \in Seq(S), NEW k \in 1 .. Len(a), NEW c, Closes(a, k, c)
  PROVE  Closes(a \o b, k, c) /\ Commas(a \o b, k, c) = Commas(a, k, c)
<1>. DEFINE ws == a \o b
<1>. DEFINE la == Len(a)
<1>1. /\ la \in Nat /\ Len(b) \in Nat /\ Len(ws) = la + Len(b)
      /\ \A j \in 1..la : ws[j] = a[j]
  BY ConcatPlaces
<1>. HIDE DEF ws, la
<1>2. k \in 1..la /\ c \in k..la
  BY DEF Closes, la
<1>3. Commas(ws, k, c) = Commas(a, k, c)
  <2>1. \A j \in k..c : j \in 1..la
    BY <1>1, <1>2
  <2>. QED BY <1>1, <2>1 DEF Commas
<1>4. Closes(ws, k, c)
  <2>1. c \in k .. Len(ws) /\ c \in 1..la
    BY <1>1, <1>2
  <2>2. \A j \in k .. c-1 : j \in 1..la
    BY <1>1, <1>2
  <2>. QED BY <1>1, <2>1, <2>2 DEF Closes
<1>. QED BY <1>3, <1>4 DEF ws

\* Lists of two texts are the lists of the text put together from them.
LEMMA ListsConcat ==
  ASSUME NEW S, NEW n, NEW a \in Seq(S), NEW b \in Seq(S), HoldsLists(a, n), HoldsLists(b, n)
  PROVE  HoldsLists(a \o b, n)
<1>. DEFINE ws == a \o b
<1>. DEFINE la == Len(a)
<1>. DEFINE lb == Len(b)
<1>1. /\ la \in Nat /\ lb \in Nat /\ Len(ws) = la + lb
      /\ \A j \in 1..la : ws[j] = a[j]
      /\ \A j \in 1..lb : ws[la + j] = b[j]
  BY ConcatPlaces
<1>. HIDE DEF ws, la, lb
<1>2. SUFFICES ASSUME NEW k \in 1 .. Len(ws), ws[k] = Open
               PROVE  \E c : /\ Closes(ws, k, c)
                             /\ IsFiniteSet(Commas(ws, k, c)) /\ Cardinality(Commas(ws, k, c)) = n
  BY DEF HoldsLists, ws
<1>3. CASE k <= la
  <2>1. k \in 1..la /\ a[k] = Open
    BY <1>1, <1>2, <1>3
  <2>2. PICK c : Closes(a, k, c) /\ IsFiniteSet(Commas(a, k, c)) /\ Cardinality(Commas(a, k, c)) = n
    BY <2>1 DEF HoldsLists, la
  <2>3. Closes(ws, k, c) /\ Commas(ws, k, c) = Commas(a, k, c)
    <3>1. k \in 1 .. Len(a)
      BY <2>1 DEF la
    <3>. QED BY <2>2, <3>1, ListKept DEF ws
  <2>. QED BY <2>2, <2>3
<1>4. CASE ~(k <= la)
  <2>. DEFINE i == k - la
  <2>1. i \in 1..lb /\ k = la + i /\ b[i] = Open
    BY <1>1, <1>2, <1>4
  <2>. HIDE DEF i
  <2>2. PICK c : Closes(b, i, c) /\ IsFiniteSet(Commas(b, i, c)) /\ Cardinality(Commas(b, i, c)) = n
    BY <2>1 DEF HoldsLists, lb
  <2>3. c \in i..lb /\ \A j \in i..c : j \in 1..lb
    BY <1>1, <2>1, <2>2 DEF Closes, lb
  <2>4. Commas(ws, k, la + c) = {la + j : j \in Commas(b, i, c)}
    <3>1. \A j \in Commas(b, i, c) : la + j \in Commas(ws, k, la + c)
      <4>1. SUFFICES ASSUME NEW j \in i..c, b[j] = Comma
                     PROVE  la + j \in k .. la + c /\ ws[la + j] = Comma
        BY DEF Commas
      <4>2. la + j \in k .. la + c
        BY <1>1, <2>1, <2>3
      <4>3. ws[la + j] = b[j]
        BY <1>1, <2>3
      <4>. QED BY <4>1, <4>2, <4>3
    <3>2. \A m \in Commas(ws, k, la + c) : m - la \in Commas(b, i, c) /\ m = la + (m - la)
      <4>1. SUFFICES ASSUME NEW m \in k .. la + c, ws[m] = Comma
                     PROVE  m - la \in i..c /\ b[m - la] = Comma /\ m = la + (m - la)
        BY DEF Commas
      <4>2. m - la \in i..c /\ m = la + (m - la)
        BY <1>1, <2>1, <2>3
      <4>3. ws[la + (m - la)] = b[m - la]
        BY <1>1, <2>3, <4>2
      <4>. QED BY <4>1, <4>2, <4>3
    <3>. QED BY <3>1, <3>2
  <2>5. /\ IsFiniteSet(Commas(ws, k, la + c)) /\ Cardinality(Commas(ws, k, la + c)) = n
    <3>1. Commas(b, i, c) \in SUBSET Int /\ la \in Int
      BY <1>1, <2>1, <2>3 DEF Commas
    <3>. QED BY <2>2, <2>4, <3>1, ShiftedSet
  <2>6. Closes(ws, k, la + c)
    <3>1. la + c \in k .. Len(ws) /\ ws[la + c] = b[c]
      BY <1>1, <2>1, <2>3
    <3>2. ASSUME NEW m \in k .. (la + c) - 1 PROVE ws[m] # Close
      <4>1. m - la \in i .. c-1 /\ m - la \in 1..lb /\ m = la + (m - la)
        BY <1>1, <2>1, <2>3
      <4>2. ws[la + (m - la)] = b[m - la]
        BY <1>1, <4>1
      <4>3. b[m - la] # Close
        BY <2>2, <4>1 DEF Closes
      <4>. QED BY <4>1, <4>2, <4>3
    <3>. QED BY <2>2, <3>1, <3>2 DEF Closes
  <2>. QED BY <2>5, <2>6
<1>. QED BY <1>3, <1>4

\* A text without a parenthesis has no list.
LEMMA NoLists ==
  ASSUME NEW ws, NEW n, Open \notin ToSet(ws), DOMAIN ws = 1 .. Len(ws)
  PROVE  HoldsLists(ws, n)
BY DEF HoldsLists, ToSet

CommasIn(ws) == {j \in 1 .. Len(ws) : ws[j] = Comma}

HasCommas(ws, n) == IsFiniteSet(CommasIn(ws)) /\ Cardinality(CommasIn(ws)) = n

\* The commas of two texts are the commas of the text put together from them.
LEMMA CommasConcat ==
  ASSUME NEW S, NEW a \in Seq(S), NEW b \in Seq(S), NEW m \in Nat, NEW n \in Nat,
         HasCommas(a, m), HasCommas(b, n)
  PROVE  HasCommas(a \o b, m + n)
<1>. DEFINE ws == a \o b
<1>. DEFINE la == Len(a)
<1>. DEFINE lb == Len(b)
<1>1. /\ la \in Nat /\ lb \in Nat /\ Len(ws) = la + lb
      /\ \A j \in 1..la : ws[j] = a[j]
      /\ \A j \in 1..lb : ws[la + j] = b[j]
  BY ConcatPlaces
<1>. DEFINE A == CommasIn(a)
<1>. DEFINE B == {la + j : j \in CommasIn(b)}
<1>2. A \subseteq 1..la /\ CommasIn(b) \subseteq 1..lb
  BY DEF CommasIn
<1>3. IsFiniteSet(A) /\ Cardinality(A) = m
  BY DEF HasCommas
<1>4. IsFiniteSet(B) /\ Cardinality(B) = n
  <2>1. CommasIn(b) \in SUBSET Int /\ la \in Int
    BY <1>1, <1>2
  <2>. HIDE DEF la
  <2>. QED BY <2>1, ShiftedSet DEF HasCommas
<1>5. A \cap B = {}
  BY <1>1, <1>2
<1>6. CommasIn(ws) = A \cup B
  <2>. HIDE DEF ws, la, lb
  <2>1. ASSUME NEW j \in CommasIn(ws) PROVE j \in A \cup B
    <3>1. j \in 1 .. la + lb /\ ws[j] = Comma
      BY <1>1 DEF CommasIn
    <3>2. CASE j <= la
      <4>1. j \in 1..la /\ a[j] = Comma
        BY <1>1, <3>1, <3>2
      <4>. QED BY <4>1 DEF CommasIn, la
    <3>3. CASE ~(j <= la)
      <4>1. j - la \in 1..lb /\ j = la + (j - la)
        BY <1>1, <3>1, <3>3
      <4>2. b[j - la] = Comma
        BY <1>1, <3>1, <4>1
      <4>3. j - la \in CommasIn(b)
        BY <4>1, <4>2 DEF CommasIn, lb
      <4>. QED BY <4>1, <4>3
    <3>. QED BY <3>2, <3>3
  <2>2. ASSUME NEW j \in A PROVE j \in CommasIn(ws)
    <3>1. j \in 1..la /\ a[j] = Comma
      BY DEF CommasIn, la
    <3>2. j \in 1 .. Len(ws) /\ ws[j] = Comma
      BY <1>1, <3>1
    <3>. QED BY <3>2 DEF CommasIn
  <2>3. ASSUME NEW j \in CommasIn(b) PROVE la + j \in CommasIn(ws)
    <3>1. j \in 1..lb /\ b[j] = Comma
      BY DEF CommasIn, lb
    <3>2. la + j \in 1 .. Len(ws) /\ ws[la + j] = Comma
      BY <1>1, <3>1
    <3>. QED BY <3>2 DEF CommasIn
  <2>. QED BY <2>1, <2>2, <2>3
<1>. HIDE DEF A, B
<1>7. Cardinality(A \cap B) = 0
  BY <1>5, FS_EmptySet
<1>8. IsFiniteSet(A \cup B) /\ Cardinality(A \cup B) = m + n
  <2>1. Cardinality(A \cup B) = Cardinality(A) + Cardinality(B) - Cardinality(A \cap B)
    BY <1>3, <1>4, FS_Union
  <2>2. IsFiniteSet(A \cup B)
    BY <1>3, <1>4, FS_Union
  <2>. QED BY <1>3, <1>4, <1>7, <2>1, <2>2
<1>. QED BY <1>6, <1>8 DEF HasCommas

\* A comma, and texts without any.
LEMMA FewCommas ==
  /\ HasCommas(Separator, 1)
  /\ \A ws : Comma \notin ToSet(ws) /\ DOMAIN ws = 1 .. Len(ws) => HasCommas(ws, 0)
<1>1. HasCommas(Separator, 1)
  <2>1. Len(Separator) = 1 /\ Separator[1] = Comma
    BY PunctuationApart
  <2>2. \A j : j \in CommasIn(Separator) <=> j = 1
    BY <2>1 DEF CommasIn
  <2>3. CommasIn(Separator) = {1}
    BY <2>2
  <2>. QED BY <2>3, FS_Singleton DEF HasCommas
<1>2. ASSUME NEW ws, Comma \notin ToSet(ws), DOMAIN ws = 1 .. Len(ws) PROVE HasCommas(ws, 0)
  <2>1. CommasIn(ws) = {}
    BY <1>2 DEF CommasIn, ToSet
  <2>. QED BY <2>1, FS_EmptySet DEF HasCommas
<1>. QED BY <1>1, <1>2

\* Terms without punctuation are joined with a comma between any two.
LEMMA JoinedCommas ==
  ASSUME NEW S, Comma \in S
  PROVE  \A terms \in Seq(Seq(S \ {Comma}) \ {<<>>}) : terms # <<>> =>
           JoinCsv(terms) \in Seq(S) /\ HasCommas(JoinCsv(terms), Len(terms) - 1)
<1>. DEFINE Term == Seq(S \ {Comma}) \ {<<>>}
<1>. DEFINE Good(terms) ==
       terms # <<>> => JoinCsv(terms) \in Seq(S) /\ HasCommas(JoinCsv(terms), Len(terms) - 1)
<1>. DEFINE P == {terms \in Seq(Term) : Good(terms)}
<1>1. <<>> \in P
  OBVIOUS
<1>2. ASSUME NEW terms \in Seq(Term), NEW term \in Term, terms \in P
      PROVE  Append(terms, term) \in P
  <2>. DEFINE text1 == JoinCsv(terms)
  <2>. DEFINE more == Append(terms, term)
  <2>1. /\ Separator \in Seq(S) /\ terms \in Seq(Seq(S)) /\ term \in Seq(S)
        /\ terms \in Seq(Seq(S) \ {<<>>})
    <3>1. Seq(S \ {Comma}) \subseteq Seq(S)
      BY SeqMonotonic
    <3>2. Term \subseteq Seq(S) \ {<<>>}
      BY <3>1
    <3>3. Seq(Term) \subseteq Seq(Seq(S) \ {<<>>})
      <4>. HIDE DEF Term
      <4>. QED BY <3>2, SeqMonotonic
    <3>4. Seq(Seq(S) \ {<<>>}) \subseteq Seq(Seq(S))
      BY SeqMonotonic
    <3>5. Separator \in Seq(S)
      BY PunctuationApart
    <3>. QED BY <3>1, <3>3, <3>4, <3>5
  <2>2. text1 \in Seq(S) /\ JoinCsv(more) = JoinedCsv(text1, term)
    BY <2>1, JoinCsvUnfolds
  <2>3. text1 = <<>> <=> terms = <<>>
    BY <2>1, JoinCsvEmpty
  <2>4. HasCommas(term, 0)
    <3>1. DOMAIN term = 1 .. Len(term) /\ Comma \notin ToSet(term)
      BY LenProperties, ElementOfSeq DEF ToSet
    <3>. QED BY <3>1, FewCommas
  <2>5. more \in Seq(Term) /\ more # <<>> /\ Len(more) = Len(terms) + 1 /\ Len(terms) \in Nat
    <3>. HIDE DEF Term
    <3>. QED BY AppendProperties, LenProperties
  <2>. HIDE DEF text1
  <2>6. CASE terms = <<>>
    <3>1. JoinedCsv(text1, term) = (<<>> \o <<>>) \o term
      BY <2>3, <2>6, Zenon DEF JoinedCsv, IsEmpty
    <3>2. JoinedCsv(text1, term) = term
      BY <2>1, <3>1, ConcatEmptySeq
    <3>3. Len(more) - 1 = 0
      BY <2>5, <2>6
    <3>. QED BY <2>1, <2>2, <2>4, <2>5, <3>2, <3>3
  <2>7. CASE terms # <<>>
    <3>1. JoinedCsv(text1, term) = (text1 \o Separator) \o term
      BY <2>3, <2>7, Zenon DEF JoinedCsv, IsEmpty, Separator
    <3>2. HasCommas(text1, Len(terms) - 1) /\ Len(terms) - 1 \in Nat
      <4>1. Len(terms) # 0
        BY <2>7
      <4>. QED BY <1>2, <2>5, <2>7, <4>1 DEF text1
    <3>3. text1 \o Separator \in Seq(S) /\ HasCommas(text1 \o Separator, (Len(terms) - 1) + 1)
      BY <2>1, <2>2, <3>2, ConcatTyped, CommasConcat, FewCommas
    <3>. DEFINE before == text1 \o Separator
    <3>. HIDE DEF before
    <3>4. before \in Seq(S) /\ HasCommas(before, Len(terms))
      <4>1. (Len(terms) - 1) + 1 = Len(terms)
        BY <2>5
      <4>. QED BY <3>3, <4>1 DEF before
    <3>5. before \o term \in Seq(S) /\ HasCommas(before \o term, Len(terms) + 0)
      BY <2>1, <2>4, <2>5, <3>4, ConcatTyped, CommasConcat
    <3>6. Len(terms) + 0 = Len(more) - 1
      BY <2>5
    <3>7. JoinCsv(more) = before \o term
      BY <2>2, <3>1 DEF before
    <3>8. Good(more)
      <4>. HIDE DEF more
      <4>. QED BY <3>5, <3>6, <3>7
    <3>. HIDE DEF Good
    <3>. QED BY <2>5, <3>8 DEF more
  <2>. QED BY <2>6, <2>7
<1>. HIDE DEF P, Term
<1>3. Seq(Term) \subseteq P
  BY <1>1, <1>2, SequencesByAppend
<1>. QED BY <1>3 DEF P, Term

\* A parenthesised list of n terms has n - 1 commas.
LEMMA TupleHoldsList ==
  ASSUME NEW S, {Open, Close, Comma} \subseteq S,
         NEW terms \in Seq(Seq(S \ {Open, Close, Comma}) \ {<<>>}), terms # <<>>
  PROVE  Tuple(terms) \in Seq(S) /\ HoldsLists(Tuple(terms), Len(terms) - 1)
<1>. DEFINE list == JoinCsv(terms)
<1>. DEFINE m == Len(list)
<1>. DEFINE n == Len(terms) - 1
<1>. DEFINE ws == Tuple(terms)
<1>1. list \in Seq(S \ {Open, Close}) /\ HasCommas(list, n)
  <2>. DEFINE U == S \ {Open, Close}
  <2>1. S \ {Open, Close, Comma} = U \ {Comma} /\ Comma \in U
    <3>1. Comma \in U
      BY PunctuationApart
    <3>2. S \ {Open, Close, Comma} = U \ {Comma}
      OBVIOUS
    <3>. QED BY <3>1, <3>2
  <2>. HIDE DEF U
  <2>2. terms \in Seq(Seq(U \ {Comma}) \ {<<>>})
    BY <2>1
  <2>. QED BY <2>1, <2>2, JoinedCommas DEF U
<1>2. list \in Seq(S) /\ <<Open>> \in Seq(S) /\ <<Close>> \in Seq(S)
  <2>1. Seq(S \ {Open, Close}) \subseteq Seq(S)
    BY SeqMonotonic
  <2>. QED BY <1>1, <2>1
<1>3. ws = (<<Open>> \o list) \o <<Close>>
  BY Zenon DEF Tuple, Open, Close
<1>. HIDE DEF list, ws
<1>4. /\ ws \in Seq(S) /\ Len(ws) = m + 2 /\ m \in Nat
      /\ ws[1] = Open /\ ws[m+2] = Close
      /\ \A j \in 1..m : ws[1 + j] = list[j]
  <2>. DEFINE open == <<Open>> \o list
  <2>1. /\ open \in Seq(S) /\ Len(open) = 1 + m /\ m \in Nat
        /\ open[1] = Open /\ \A j \in 1..m : open[1 + j] = list[j]
    BY <1>2
  <2>. HIDE DEF open
  <2>2. ws = open \o <<Close>>
    BY <1>3 DEF open
  <2>3. /\ open \o <<Close>> \in Seq(S) /\ Len(open \o <<Close>>) = Len(open) + 1
        /\ (open \o <<Close>>)[Len(open) + 1] = Close
        /\ \A j \in 1 .. Len(open) : (open \o <<Close>>)[j] = open[j]
    BY <1>2, <2>1
  <2>. QED BY <2>1, <2>2, <2>3
<1>5. \A j \in 1..m : list[j] # Open /\ list[j] # Close
  BY <1>1, ElementOfSeq
<1>6. ASSUME NEW k \in 1 .. Len(ws), ws[k] = Open PROVE k = 1
  <2>1. CASE k \in 2 .. m+1
    <3>1. k - 1 \in 1..m /\ k = 1 + (k - 1)
      BY <1>4, <2>1
    <3>2. ws[1 + (k - 1)] = list[k - 1]
      BY <1>4, <3>1
    <3>. QED BY <1>5, <1>6, <3>1, <3>2
  <2>2. k = 1 \/ k \in 2..m+1 \/ k = m+2
    BY <1>4
  <2>3. k # m+2
    BY <1>4, <1>6, PunctuationApart
  <2>. QED BY <2>1, <2>2, <2>3
<1>7. Closes(ws, 1, m+2)
  <2>1. m+2 \in 1 .. Len(ws)
    BY <1>4
  <2>2. ASSUME NEW j \in 1 .. (m+2)-1 PROVE ws[j] # Close
    <3>1. CASE j = 1
      BY <1>4, <3>1, PunctuationApart
    <3>2. CASE j # 1
      <4>1. j - 1 \in 1..m /\ j = 1 + (j - 1)
        BY <1>4, <3>2
      <4>2. ws[1 + (j - 1)] = list[j - 1]
        BY <1>4, <4>1
      <4>. QED BY <1>5, <4>1, <4>2
    <3>. QED BY <3>1, <3>2
  <2>. QED BY <1>4, <2>1, <2>2 DEF Closes
<1>8. Commas(ws, 1, m+2) = {1 + j : j \in CommasIn(list)}
  <2>1. ASSUME NEW i \in Commas(ws, 1, m+2)
        PROVE  i - 1 \in CommasIn(list) /\ i = 1 + (i - 1)
    <3>1. i \in 1 .. m+2 /\ ws[i] = Comma
      BY DEF Commas
    <3>2. i # 1 /\ i # m+2
      BY <1>4, <3>1, PunctuationApart
    <3>3. i - 1 \in 1..m /\ i = 1 + (i - 1)
      BY <1>4, <3>1, <3>2
    <3>4. list[i - 1] = Comma
      BY <1>4, <3>1, <3>3
    <3>. QED BY <3>3, <3>4 DEF CommasIn
  <2>2. ASSUME NEW j \in CommasIn(list) PROVE 1 + j \in Commas(ws, 1, m+2)
    <3>1. j \in 1..m /\ list[j] = Comma
      BY DEF CommasIn
    <3>2. 1 + j \in 1 .. m+2 /\ ws[1 + j] = Comma
      BY <1>4, <3>1
    <3>. QED BY <3>2 DEF Commas
  <2>. QED BY <2>1, <2>2
<1>9. IsFiniteSet(Commas(ws, 1, m+2)) /\ Cardinality(Commas(ws, 1, m+2)) = n
  <2>1. CommasIn(list) \in SUBSET Int
    BY DEF CommasIn
  <2>2. IsFiniteSet(CommasIn(list)) /\ Cardinality(CommasIn(list)) = n
    BY <1>1 DEF HasCommas
  <2>. DEFINE places == CommasIn(list)
  <2>. HIDE DEF n, places
  <2>3. /\ IsFiniteSet({1 + j : j \in places})
        /\ Cardinality({1 + j : j \in places}) = Cardinality(places)
    <3>1. 1 \in Int /\ places \in SUBSET Int /\ IsFiniteSet(places)
      BY <2>1, <2>2 DEF places
    <3>. QED BY ONLY <3>1, ShiftedSet
  <2>. QED BY <1>8, <2>2, <2>3 DEF places
<1>. HIDE DEF m, n
<1>10. HoldsLists(ws, n)
  BY <1>6, <1>7, <1>9 DEF HoldsLists
<1>. QED BY <1>4, <1>10 DEF ws, n

\* The lists of all rows, each with n commas.
LEMMA TuplesHoldLists ==
  ASSUME NEW S, {Open, Close, Comma} \subseteq S, NEW n \in Nat,
         NEW rs \in Seq(Seq(Seq(S \ {Open, Close, Comma}) \ {<<>>})), rs # <<>>,
         \A r \in DOMAIN rs : Len(rs[r]) = n + 1
  PROVE  Tuples(rs) \in Seq(S) /\ HoldsLists(Tuples(rs), n)
<1>. DEFINE Row(r) == IF r = 1 THEN Tuple(rs[r]) ELSE <<", ">> \o Tuple(rs[r])
<1>. DEFINE pieces == [r \in DOMAIN rs |-> Row(r)]
<1>. DEFINE m == Len(rs)
<1>1. m \in Nat \ {0} /\ DOMAIN rs = 1..m
  BY LenProperties
<1>2. ASSUME NEW r \in 1..m PROVE Row(r) \in Seq(S) /\ HoldsLists(Row(r), n)
  <2>. DEFINE row == rs[r]
  <2>. DEFINE list == Tuple(row)
  <2>1. list \in Seq(S) /\ HoldsLists(list, n)
    <3>1. row \in Seq(Seq(S \ {Open, Close, Comma}) \ {<<>>}) /\ Len(row) = n + 1
      BY <1>1, ElementOfSeq
    <3>2. row # <<>> /\ Len(row) - 1 = n
      BY <3>1
    <3>. HIDE DEF row
    <3>. QED BY <3>1, <3>2, TupleHoldsList
  <2>2. Separator \in Seq(S) /\ HoldsLists(Separator, n)
    <3>1. Separator \in Seq(S)
      BY PunctuationApart
    <3>2. DOMAIN Separator = 1 .. Len(Separator)
      BY <3>1, LenProperties
    <3>3. Open \notin ToSet(Separator)
      BY PunctuationApart DEF ToSet
    <3>. QED BY <3>1, <3>2, <3>3, NoLists
  <2>. HIDE DEF list
  <2>3. Separator \o list \in Seq(S) /\ HoldsLists(Separator \o list, n)
    BY <2>1, <2>2, ConcatTyped, ListsConcat
  <2>4. Row(r) = list \/ Row(r) = Separator \o list
    BY Zenon DEF list, Separator
  <2>. HIDE DEF Row
  <2>. QED BY <2>1, <2>3, <2>4, Zenon
<1>. HIDE DEF Row, m
<1>3. /\ pieces \in Seq(Seq(S)) /\ Len(pieces) = m
      /\ \A k \in 1..m : pieces[k] \in Seq(S) /\ HoldsLists(pieces[k], n)
  BY <1>1, <1>2
<1>4. Tuples(rs) = FlattenSeq(pieces)
  BY Zenon DEF Tuples, Row
<1>. HIDE DEF pieces
<1>5. PICK g : /\ FlattenSeq(pieces) = g[m]
               /\ g[1] = pieces[1]
               /\ \A k \in 2..m : g[k] = g[k-1] \o pieces[k]
               /\ \A k \in 1..m : g[k] \in Seq(S)
  <2>1. Len(pieces) # 0
    BY <1>1, <1>3
  <2>. QED BY <1>3, <2>1, FlattenUnfolds
<1>6. \A k \in 1..m : HoldsLists(g[k], n)
  <2>. DEFINE T == {k \in 1..m : ~HoldsLists(g[k], n)}
  <2>1. SUFFICES ASSUME T # {} PROVE FALSE
    OBVIOUS
  <2>2. PICK k \in T : \A l \in T : k <= l
    <3>1. T \in SUBSET Nat
      BY <1>1
    <3>. HIDE DEF T
    <3>. QED BY <2>1, <3>1, LeastNat
  <2>3. k # 1
    BY <1>1, <1>3, <1>5
  <2>4. k \in 2..m /\ k \in 1..m /\ k-1 \in 1..m /\ k-1 \notin T
    BY <1>1, <2>2, <2>3
  <2>5. HoldsLists(g[k-1], n) /\ g[k-1] \in Seq(S) /\ pieces[k] \in Seq(S) /\ HoldsLists(pieces[k], n)
    BY <1>3, <1>5, <2>4
  <2>6. HoldsLists(g[k-1] \o pieces[k], n)
    BY <2>5, ListsConcat
  <2>7. g[k] = g[k-1] \o pieces[k]
    BY <1>5, <2>4
  <2>. QED BY <2>2, <2>6, <2>7
<1>7. m \in 1..m
  BY <1>1
<1>. QED BY <1>4, <1>5, <1>6, <1>7

\* Read up to the first word of Clauses, a text shows the lists before it.
LEMMA ListsRead ==
  ASSUME NEW S, NEW prefix \in Seq(S \ Clauses), NEW rest \in Seq(S),
         rest = <<>> \/ rest[1] \in Clauses,
         NEW n, HoldsLists(prefix, n), text = prefix \o rest
  PROVE  \A k \in 1 .. ListsEnd - 1 : text[k] = Open => CommasWithin(k) = n
<1>. DEFINE lp == Len(prefix)
<1>0. prefix \in Seq(S) /\ \A j \in 1..lp : prefix[j] \notin Clauses
  <2>1. Seq(S \ Clauses) \subseteq Seq(S)
    BY SeqMonotonic
  <2>2. \A j \in 1..lp : prefix[j] \in S \ Clauses
    BY ElementOfSeq
  <2>. QED BY <2>1, <2>2
<1>1. /\ lp \in Nat /\ Len(rest) \in Nat /\ Len(text) = lp + Len(rest)
      /\ \A j \in 1..lp : text[j] = prefix[j]
      /\ \A j \in 1 .. Len(rest) : text[lp + j] = rest[j]
  BY <1>0, ConcatPlaces
<1>2. rest = <<>> => Len(rest) = 0
  OBVIOUS
<1>3. rest # <<>> => 1 \in 1 .. Len(rest)
  BY <1>1
<1>. HIDE DEF lp
<1>4. ListsEnd = lp + 1
  <2>. DEFINE Ends(k) == /\ k \in 1 .. Len(text) + 1
                         /\ k = Len(text) + 1 \/ text[k] \in Clauses
                         /\ \A j \in 1 .. k-1 : text[j] \notin Clauses
  <2>1. Ends(lp + 1)
    <3>1. lp + 1 \in 1 .. Len(text) + 1
      BY <1>1
    <3>2. lp + 1 = Len(text) + 1 \/ text[lp + 1] \in Clauses
      BY <1>1, <1>2, <1>3
    <3>3. \A j \in 1 .. (lp + 1) - 1 : text[j] \notin Clauses
      <4>1. \A j \in 1 .. (lp + 1) - 1 : j \in 1..lp
        BY <1>1
      <4>. QED BY <1>0, <1>1, <4>1
    <3>. QED BY <3>1, <3>2, <3>3
  <2>2. ASSUME NEW k, Ends(k) PROVE k = lp + 1
    <3>1. CASE k < lp + 1
      <4>1. k \in 1..lp /\ k # Len(text) + 1
        BY <1>1, <2>2, <3>1
      <4>. QED BY <1>0, <1>1, <2>2, <4>1
    <3>2. CASE k > lp + 1
      <4>1. lp + 1 \in 1 .. k-1 /\ lp + 1 # Len(text) + 1
        BY <1>1, <2>2, <3>2
      <4>. QED BY <2>1, <2>2, <4>1
    <3>. QED BY <1>1, <2>2, <3>1, <3>2
  <2>. DEFINE End == CHOOSE k : Ends(k)
  <2>. HIDE DEF Ends
  <2>3. Ends(End)
    BY <2>1, Zenon
  <2>4. End = lp + 1
    BY <2>2, <2>3
  <2>5. ListsEnd = End
    BY Zenon DEF ListsEnd, Ends, End
  <2>. QED BY <2>4, <2>5
<1>5. ASSUME NEW k \in 1 .. ListsEnd - 1, text[k] = Open PROVE CommasWithin(k) = n
  <2>1. k \in 1..lp /\ prefix[k] = Open
    BY <1>1, <1>4, <1>5
  <2>2. PICK c : Closes(prefix, k, c) /\ Cardinality(Commas(prefix, k, c)) = n
    BY <2>1 DEF HoldsLists, lp
  <2>3. Closes(text, k, c) /\ Commas(text, k, c) = Commas(prefix, k, c)
    <3>1. k \in 1 .. Len(prefix)
      BY <2>1 DEF lp
    <3>. QED BY <1>0, <2>2, <3>1, ListKept
  <2>4. ASSUME NEW d, Closes(text, k, d) PROVE d = c
    <3>1. d \in k .. Len(text) /\ c \in k .. Len(text)
      BY <2>3, <2>4 DEF Closes
    <3>2. ~(d < c)
      <4>1. d < c => d \in k .. c-1
        BY <2>1, <3>1
      <4>. QED BY <2>3, <2>4, <4>1 DEF Closes
    <3>3. ~(c < d)
      <4>1. c < d => c \in k .. d-1
        BY <2>1, <3>1
      <4>. QED BY <2>3, <2>4, <4>1 DEF Closes
    <3>. QED BY <2>1, <3>1, <3>2, <3>3
  <2>. DEFINE at == CHOOSE d : Closes(text, k, d)
  <2>5. at = c
    <3>1. Closes(text, k, at)
      BY <2>3, Zenon
    <3>. QED BY <2>4, <3>1
  <2>6. Closing(k) = at
    BY Zenon DEF Closing, Closes, Close
  <2>7. CommasWithin(k) = Cardinality(Commas(text, k, at))
    BY <2>6, Zenon DEF CommasWithin, Commas, Comma
  <2>. QED BY <2>2, <2>3, <2>5, <2>7
<1>. QED BY <1>5

\* What stands first in a text stays first.
LEMMA FirstKept ==
  ASSUME NEW S, NEW a \in Seq(S), NEW b \in Seq(S), a # <<>>
  PROVE  a \o b # <<>> /\ (a \o b)[1] = a[1]
<1>1. Len(a) \in Nat \ {0} /\ 1 \in 1 .. Len(a)
  OBVIOUS
<1>2. (a \o b)[1] = a[1] /\ Len(a \o b) = Len(a) + Len(b) /\ Len(b) \in Nat
  BY <1>1, ConcatPlaces
<1>3. Len(a \o b) # 0
  BY <1>1, <1>2
<1>. QED BY <1>2, <1>3

\* A text that begins a clause.
Begins(ws) == ws # <<>> /\ ws[1] \in Clauses

\* Short texts of words, by their first word.
LEMMA FirstWord ==
  /\ \A a : <<a>> # <<>> /\ <<a>>[1] = a
  /\ \A a, b : <<a, b>> # <<>> /\ <<a, b>>[1] = a
OBVIOUS

\* The clauses the setters build begin as such.
LEMMA ConflictBegins ==
  /\ Begins(<<"ON CONFLICT", "DO NOTHING">>)
  /\ \A target \in Targets : Begins(ConflictTarget(target) \o <<"DO NOTHING">>)
  /\ \A target \in Targets, list \in AssignmentLists :
       Begins(ConflictTarget(target) \o <<"DO UPDATE SET">> \o Assignments(list))
<1>. DEFINE word == "ON CONFLICT"
<1>1. word \in Clauses
  BY Zenon DEF Clauses
<1>2. \A a, b \in Text : Begins(a) => Begins(a \o b)
  BY FirstKept DEF Text, Begins
<1>3. Begins(<<"ON CONFLICT", "DO NOTHING">>) /\ Begins(<<"ON CONFLICT", "(">>)
  <2>. HIDE DEF word
  <2>1. \A b : Begins(<<word, b>>)
    BY <1>1, FirstWord DEF Begins
  <2>. QED BY <2>1, Zenon DEF word
<1>4. /\ <<"DO NOTHING">> \in Text /\ <<"DO UPDATE SET">> \in Text
      /\ <<"ON CONFLICT", "(">> \in Text /\ <<")">> \in Text
  BY KeywordsTyped, WordsTyped, Zenon
<1>. HIDE DEF word
<1>5. ASSUME NEW target \in Targets PROVE ConflictTarget(target) \in Text /\ Begins(ConflictTarget(target))
  <2>1. target \in Seq(Text)
    BY InsertAssumption
  <2>2. JoinCsv(target) \in Text
    BY <2>1, JoinCsvTyped
  <2>3. <<"ON CONFLICT", "(">> \o JoinCsv(target) \in Text
    BY <1>4, <2>2, WordsTyped, Zenon
  <2>4. Begins(<<"ON CONFLICT", "(">> \o JoinCsv(target))
    BY <1>2, <1>3, <1>4, <2>2, Zenon
  <2>. QED BY <1>2, <1>4, <2>3, <2>4, WordsTyped, Zenon DEF ConflictTarget
<1>6. \A target \in Targets : Begins(ConflictTarget(target) \o <<"DO NOTHING">>)
  BY <1>2, <1>4, <1>5, Zenon
<1>7. ASSUME NEW target \in Targets, NEW list \in AssignmentLists
      PROVE  Begins(ConflictTarget(target) \o <<"DO UPDATE SET">> \o Assignments(list))
  <2>1. /\ ConflictTarget(target) \o <<"DO UPDATE SET">> \in Text
        /\ Begins(ConflictTarget(target) \o <<"DO UPDATE SET">>)
    BY <1>2, <1>4, <1>5, WordsTyped, Zenon
  <2>. QED BY <1>2, <2>1, AssignmentsTyped, Zenon
<1>. QED BY <1>3, <1>6, <1>7, Zenon

-----------------------------------------------------------------------------
\* The lists of the builder hold terms as PlainText has them, and the clause after them
\* begins with a word no term has.
FieldsPlain ==
  /\ columns \in Seq(PlainText)
  /\ rows \in Seq(Seq(PlainText))
  /\ onConflict = <<>> \/ Begins(onConflict)

\* Each setter stores a list of terms, or the joined text of a clause.
LEMMA PlainKept == Spec => []FieldsPlain
<1>1. Init => FieldsPlain
  BY DEF Init, FieldsPlain
<1>2. FieldsPlain /\ [Next]_vars => FieldsPlain'
  <2>1. SUFFICES ASSUME FieldsPlain, [Next]_vars PROVE FieldsPlain'
    OBVIOUS
  <2>2. ASSUME UNCHANGED fields PROVE FieldsPlain'
    BY <2>1, <2>2 DEF fields, FieldsPlain
  <2>3. ASSUME NEW cols \in ColumnLists, Columns(cols) PROVE FieldsPlain'
    <3>1. cols \in Seq(PlainText)
      BY TermAssumption
    <3>2. CASE columns' = cols /\ UNCHANGED <<rows, returning, onConflict>>
      BY <2>1, <3>1, <3>2 DEF FieldsPlain
    <3>. QED BY <2>2, <2>3, <3>2 DEF Columns, AlreadySet
  <2>4. ASSUME NEW rs \in Seq(Seq(PlainText)), SetRows(rs) PROVE FieldsPlain'
    <3>1. CASE rows' = rs /\ UNCHANGED <<columns, returning, onConflict>>
      BY <2>1, <3>1 DEF FieldsPlain
    <3>. QED BY <2>2, <2>4, <3>1 DEF SetRows, AlreadySet
  <2>5. ASSUME NEW vals \in ValueLists, Values(vals) PROVE FieldsPlain'
    <3>1. <<vals>> \in Seq(Seq(PlainText))
      <4>1. vals \in Seq(PlainText)
        BY TermAssumption
      <4>. QED BY <4>1
    <3>. QED BY <2>4, <2>5, <3>1 DEF Values
  <2>6. ASSUME NEW rs \in RowLists, Rows(rs) PROVE FieldsPlain'
    <3>1. rs \in Seq(Seq(PlainText))
      BY TermAssumption
    <3>. QED BY <2>4, <2>6, <3>1 DEF Rows
  <2>7. ASSUME NEW items \in ReturningLists, Returning(items) PROVE FieldsPlain'
    <3>1. CASE UNCHANGED <<columns, rows, onConflict>>
      BY <2>1, <3>1 DEF FieldsPlain
    <3>. QED BY <2>2, <2>7, <3>1 DEF Returning, AlreadySet
  <2>8. ASSUME NEW clause, Begins(clause), SetOnConflict(clause) PROVE FieldsPlain'
    BY <2>1, <2>8 DEF FieldsPlain, SetOnConflict, Begins
  <2>9. CASE OnConflictDoNothing
    BY <2>8, <2>9, ConflictBegins, Zenon DEF OnConflictDoNothing
  <2>10. ASSUME NEW target \in Targets, OnConflictDoNothingOn(target) PROVE FieldsPlain'
    BY <2>8, <2>10, ConflictBegins, Zenon DEF OnConflictDoNothingOn
  <2>11. ASSUME NEW target \in Targets, NEW list \in AssignmentLists,
                OnConflictDoUpdate(target, list)
         PROVE  FieldsPlain'
    BY <2>2, <2>8, <2>11, ConflictBegins, Zenon DEF OnConflictDoUpdate
  <2>12. CASE RenderCall
    BY <2>2, <2>12 DEF RenderCall
  <2>13. CASE UNCHANGED vars
    BY <2>2, <2>13 DEF vars
  <2>. QED BY <2>1, <2>3, <2>5, <2>6, <2>7, <2>9, <2>10, <2>11, <2>12, <2>13 DEF Next
<1>. QED BY <1>1, <1>2, PTL DEF Spec

\* The statement up to the end of its lists, and what comes after.
ListsPart == <<"INSERT INTO", "t">> \o Tuple(columns) \o <<"VALUES">> \o Tuples(rows)

RestPart == Optional(<<>>, onConflict) \o Optional(<<"RETURNING">>, returning)

\* The statement falls into the two.
LEMMA StatementSplits ==
  ASSUME TypeOK
  PROVE  Statement = ListsPart \o RestPart /\ RestPart \in Text
<1>. DEFINE lists == ListsPart
<1>. DEFINE conflict == Optional(<<>>, onConflict)
<1>. DEFINE tail == Optional(<<"RETURNING">>, returning)
<1>1. lists \in Text /\ conflict \in Text /\ tail \in Text
  BY StatementTyped, WordsTyped, Zenon DEF ListsPart
<1>2. Statement = Cat(Cat(lists, conflict), tail)
  BY Zenon DEF Statement, ListsPart, Cat
<1>. HIDE DEF lists, conflict, tail
<1>3. Cat(Cat(lists, conflict), tail) = Cat(lists, Cat(conflict, tail)) /\ Cat(conflict, tail) \in Text
  <2>1. Concats(Text)
    BY ConcatsSeq DEF Text
  <2>. QED BY <1>1, <2>1 DEF Concats
<1>. QED BY <1>2, <1>3, Zenon DEF lists, conflict, tail, RestPart, Cat

\* After the lists the statement ends, or a clause begins.
LEMMA RestBegins ==
  ASSUME TypeOK, FieldsPlain
  PROVE  RestPart = <<>> \/ Begins(RestPart)
<1>. DEFINE conflict == Optional(<<>>, onConflict)
<1>. DEFINE tail == Optional(<<"RETURNING">>, returning)
<1>1. conflict \in Text /\ tail \in Text /\ returning \in Text /\ <<"RETURNING">> \in Text
  <2>1. <<"RETURNING">> \in Text
    BY KeywordsTyped, WordsTyped, Zenon
  <2>. QED BY <2>1, StatementTyped DEF TypeOK
<1>2. conflict = <<>> \/ Begins(conflict)
  <2>1. onConflict \in Text => <<>> \o onConflict = onConflict
    BY ConcatEmptySeq DEF Text
  <2>. QED BY <2>1, Zenon DEF Optional, FieldsPlain, TypeOK
<1>3. \A a, b \in Text : Begins(a) => Begins(a \o b)
  BY FirstKept DEF Text, Begins
<1>4. tail = <<>> \/ Begins(tail)
  <2>. DEFINE word == "RETURNING"
  <2>1. word \in Clauses
    BY Zenon DEF Clauses
  <2>. HIDE DEF word
  <2>2. Begins(<<word>>)
    BY <2>1, FirstWord DEF Begins
  <2>3. Begins(<<"RETURNING">> \o returning)
    BY <1>1, <1>3, <2>2, Zenon DEF word
  <2>. QED BY <2>3, Zenon DEF Optional
<1>5. RestPart = conflict \o tail
  BY Zenon DEF RestPart
<1>. HIDE DEF conflict, tail
<1>6. CASE conflict = <<>>
  <2>1. RestPart = tail
    BY <1>1, <1>5, <1>6, ConcatEmptySeq DEF Text
  <2>. QED BY <1>4, <2>1
<1>7. CASE Begins(conflict)
  BY <1>1, <1>3, <1>5, <1>7, Zenon
<1>. QED BY <1>2, <1>6, <1>7

\* The lists of a statement that renders hold a comma less than there are columns.
LEMMA ListsPartHolds ==
  ASSUME TypeOK, FieldsPlain, CanRender
  PROVE  ListsPart \in Seq(Tokens \ Clauses) /\ HoldsLists(ListsPart, Len(columns) - 1)
<1>. DEFINE S == Tokens \ Clauses
<1>. DEFINE n == Len(columns) - 1
<1>. DEFINE Term == Seq(S \ {Open, Close, Comma}) \ {<<>>}
<1>1. PlainText = Term
  <2>1. Punctuation = {Open, Close, Comma}
    BY Zenon DEF Punctuation, Open, Close, Comma
  <2>2. Tokens \ (Punctuation \cup Clauses) = S \ {Open, Close, Comma}
    BY <2>1
  <2>. QED BY <2>2, Zenon DEF PlainText
<1>2. {Open, Close, Comma} \subseteq S
  <2>1. Open \notin Clauses /\ Close \notin Clauses /\ Comma \notin Clauses
    BY Zenon DEF Open, Close, Comma, Clauses
  <2>2. Open \in Tokens /\ Close \in Tokens /\ Comma \in Tokens
    BY KeywordsTyped, Zenon DEF Open, Close, Comma
  <2>. QED BY <2>1, <2>2
<1>3. /\ columns \in Seq(Term) /\ columns # <<>>
      /\ rows \in Seq(Seq(Term)) /\ rows # <<>>
      /\ \A r \in DOMAIN rows : Len(rows[r]) = Len(columns)
  BY <1>1 DEF FieldsPlain, CanRender, SameArity, IsEmpty
<1>4. n \in Nat /\ Len(columns) = n + 1
  BY <1>3
<1>5. Tuple(columns) \in Seq(S) /\ HoldsLists(Tuple(columns), n)
  <2>. HIDE DEF S
  <2>. QED BY <1>2, <1>3, TupleHoldsList
<1>6. Tuples(rows) \in Seq(S) /\ HoldsLists(Tuples(rows), n)
  <2>. HIDE DEF S, n
  <2>. QED BY <1>2, <1>3, <1>4, TuplesHoldLists
<1>. DEFINE into == "INSERT INTO"
<1>. DEFINE table == "t"
<1>. DEFINE values == "VALUES"
<1>7. {into, table, values} \subseteq S /\ Open \notin {into, table, values}
  <2>1. into \in Tokens /\ table \in Tokens /\ values \in Tokens
    BY KeywordsTyped, Zenon
  <2>2. into \notin Clauses /\ table \notin Clauses /\ values \notin Clauses
    BY Zenon DEF Clauses
  <2>3. into # Open /\ table # Open /\ values # Open
    BY Zenon DEF Open
  <2>. HIDE DEF into, table, values
  <2>. QED BY <2>1, <2>2, <2>3
<1>8. ListsPart = ((<<into, table>> \o Tuple(columns)) \o <<values>>) \o Tuples(rows)
  BY Zenon DEF ListsPart
<1>. HIDE DEF into, table, values, S, n, Term
<1>9. /\ <<into, table>> \in Seq(S) /\ HoldsLists(<<into, table>>, n)
      /\ <<values>> \in Seq(S) /\ HoldsLists(<<values>>, n)
  <2>1. <<into, table>> \in Seq(S) /\ <<values>> \in Seq(S)
    BY <1>7
  <2>2. DOMAIN <<into, table>> = 1 .. Len(<<into, table>>) /\ DOMAIN <<values>> = 1 .. Len(<<values>>)
    BY <2>1, LenProperties
  <2>3. Open \notin ToSet(<<into, table>>) /\ Open \notin ToSet(<<values>>)
    BY <1>7 DEF ToSet
  <2>. QED BY <2>1, <2>2, <2>3, NoLists
<1>. DEFINE first == <<into, table>> \o Tuple(columns)
<1>10. first \in Seq(S) /\ HoldsLists(first, n)
  BY <1>5, <1>9, ConcatTyped, ListsConcat
<1>. HIDE DEF first
<1>. DEFINE second == first \o <<values>>
<1>11. second \in Seq(S) /\ HoldsLists(second, n)
  BY <1>9, <1>10, ConcatTyped, ListsConcat
<1>. HIDE DEF second
<1>12. second \o Tuples(rows) \in Seq(S) /\ HoldsLists(second \o Tuples(rows), n)
  BY <1>6, <1>11, ConcatTyped, ListsConcat
<1>13. ListsPart = second \o Tuples(rows)
  BY <1>8, Zenon DEF second, first
<1>. QED BY <1>12, <1>13 DEF S, n

\* The column list and each row of a statement that renders hold equally
\* many terms, whatever order the setters were called in and whichever of
\* them threw on the way.
THEOREM ArityHolds == Spec => []RenderedArity
<1>1. IInv /\ FieldsPlain => RenderedArity
  <2>1. SUFFICES ASSUME IInv, FieldsPlain, outcome = "rendered" PROVE RenderedArity
    BY DEF RenderedArity
  <2>2. TypeOK /\ CanRender /\ text = Statement
    BY <2>1 DEF IInv, TextIsCurrent
  <2>. DEFINE n == Len(columns) - 1
  <2>3. ListsPart \in Seq(Tokens \ Clauses) /\ HoldsLists(ListsPart, n)
    BY <2>1, <2>2, ListsPartHolds
  <2>4. text = ListsPart \o RestPart /\ RestPart \in Seq(Tokens)
    BY <2>2, StatementSplits DEF Text
  <2>5. RestPart = <<>> \/ RestPart[1] \in Clauses
    BY <2>1, <2>2, RestBegins DEF Begins
  <2>. HIDE DEF n
  <2>6. \A k \in 1 .. ListsEnd - 1 : text[k] = Open => CommasWithin(k) = n
    BY <2>3, <2>4, <2>5, ListsRead
  <2>. QED BY <2>6, Zenon DEF RenderedArity, Open
<1>. QED BY <1>1, IInvHolds, PlainKept, PTL
=============================================================================
