------------------------------ MODULE ClauseText ------------------------------
(***************************************************************************)
(* impl/render: how the statement builders store and join clause text.     *)
(* Strings, vectors and optionals are all sequences here: a string is its  *)
(* tokens, an optional is empty or holds one value.  An Expr or SelectItem *)
(* given as a term is the text it renders to, so RenderAll of a list of    *)
(* them is the list itself; an OrderByTerm renders to more than its Expr.  *)
(***************************************************************************)
EXTENDS SequencesExt, Integers

IsEmpty(field) == field = <<>>

None == <<>>

Some(value) == <<value>>

\* The separator is written only `if (!s.empty())`, not before every term
\* but the first.
JoinCsv(items) ==
  LET upto[k \in 0..Len(items)] ==
        IF k = 0 THEN <<>>
        ELSE LET s == upto[k-1]
             IN  s \o (IF IsEmpty(s) THEN <<>> ELSE <<", ">>) \o items[k]
  IN  upto[Len(items)]

\* Mutant: a line break is taken for a separator.
JoinLines(items) ==
  LET upto[k \in 0..Len(items)] ==
        IF k = 0 THEN <<>>
        ELSE LET s == upto[k-1]
             IN  s \o (IF IsEmpty(s) THEN <<>> ELSE <<"\n">>) \o <<"    ">> \o items[k]
  IN  upto[Len(items)]

\* select_expr.cpp's variant: the indentation is part of the accumulated text.
JoinCsvIndented(items) ==
  LET upto[k \in 0..Len(items)] ==
        IF k = 0 THEN <<>>
        ELSE LET s == upto[k-1]
             IN  s \o (IF IsEmpty(s) THEN <<>> ELSE <<", ", "\n">>)
                   \o <<"    ">> \o items[k]
  IN  upto[Len(items)]

\* impl::IndentBlock(text, 4), one token for four spaces: a prefix for the text
\* and one after every line break in it, wherever it stands.
IndentBlock(block) ==
  <<"    ">> \o FlattenSeq([k \in DOMAIN block |->
                 IF block[k] = "\n" THEN <<"\n", "    ">> ELSE <<block[k]>>])

\* RenderTerm of an OrderByTerm.
RenderTerm(term) ==
  term.expr
  \o (IF term.direction = "kDescending" THEN <<"DESC">> ELSE <<>>)
  \o (CASE term.nulls_order = "kFirst" -> <<"NULLS FIRST">>
        [] term.nulls_order = "kLast"  -> <<"NULLS LAST">>
        [] OTHER                       -> <<>>)

RenderAll(terms) == [k \in DOMAIN terms |-> RenderTerm(terms[k])]

RenderBinary(lhs, op, rhs) == lhs \o <<" ", op, " ">> \o rhs

-----------------------------------------------------------------------------
Layout == {"\n", "    "}

\* Layout is no part of what a statement says.
Unlaid(ws) ==
  LET upto[k \in 0..Len(ws)] ==
        IF k = 0 THEN <<>>
        ELSE upto[k-1] \o (IF ws[k] \in Layout THEN <<>> ELSE <<ws[k]>>)
  IN  upto[Len(ws)]
=============================================================================
