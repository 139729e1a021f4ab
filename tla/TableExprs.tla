------------------------------ MODULE TableExprs ------------------------------
(***************************************************************************)
(* The VirtualTable hierarchy: tables, joins, set operations, SELECTs and  *)
(* WITH queries, which go into one another as FROM items, operands and     *)
(* subqueries.  A value takes the text of what it is made from when it is  *)
(* made; virtual methods dispatch on "class".  SELECTs have the clauses    *)
(* that matter here; the others are in SelectExpr.                         *)
(*                                                                         *)
(* Every value is held with two histories: its meaning, the calls that     *)
(* made it, as a tree that starts with a word for the call; and whether    *)
(* those calls were sound, which the class hierarchy does not ask: a       *)
(* statement where a statement goes, nothing aliased twice, and no WITH    *)
(* query as the main query of another.                                     *)
(***************************************************************************)
EXTENDS ClauseText, FiniteSets

CONSTANTS
  Tokens,       \* the alphabet of texts
  TableNames,   \* names given to Table::FromRaw, one token each
  Aliases,      \* names given to As
  Malformed,    \* names ValidateIdentifier rejects
  Items,        \* texts given to Select
  JoinKinds,    \* [keyword, natural] records
  SetOpKinds,   \* keywords
  Conditions,   \* texts given to On
  ColumnLists   \* arguments of Using, lists of texts

\* JoinKind::ToString, with and without NATURAL, and SetOpKind::ToString.
PlainKinds   == {"INNER", "CROSS", "LEFT OUTER", "RIGHT OUTER", "FULL OUTER"}
NaturalKinds ==
  {"NATURAL INNER", "NATURAL LEFT OUTER", "NATURAL RIGHT OUTER", "NATURAL FULL OUTER"}
SetOpWords   == {"UNION", "UNION ALL", "INTERSECT", "EXCEPT"}

Keywords ==
  {"(", ")", ", ", "AS", "SELECT", "FROM", "WITH", "JOIN", "ON", "USING"}
    \cup PlainKinds \cup NaturalKinds \cup SetOpWords

Words == Tokens \ (Keywords \cup Layout)

\* As in SelectExpr, what an argument has inside brackets or quotes is one token.
PlainText == Seq(Words) \ {<<>>}

\* Names that validate, and tables, are one word.
ASSUME TableAssumption ==
  /\ Keywords \cup Layout \subseteq Tokens
  /\ TableNames \cup (Aliases \ Malformed) \subseteq Words
  /\ Items \cup Conditions \subseteq PlainText
  /\ ColumnLists \subseteq Seq(PlainText)
  /\ JoinKinds \subseteq [keyword : PlainKinds, natural : {FALSE}]
                      \cup [keyword : NaturalKinds, natural : {TRUE}]
  /\ SetOpKinds \subseteq SetOpWords

VARIABLES
  held,     \* [object, meaning, sound] records: the values the client holds
  outcome   \* how the last call ended

Throw(exception) == outcome' = exception /\ UNCHANGED held

-----------------------------------------------------------------------------
Table(name) == [class |-> "Table", name |-> name]

SelectExpr(from) == [class |-> "SelectExpr", from |-> from, select |-> None]

\* Joins and set operations write their operands the same way.
JoinText(v) ==
  v.a \o <<v.kind, "JOIN">> \o v.b
    \o (IF IsEmpty(v.on) THEN <<>> ELSE <<"ON">> \o v.on)
    \o (IF IsEmpty(v.using) THEN <<>> ELSE <<"USING", "(">> \o v.using \o <<")">>)

SelectText(v) == <<"SELECT">> \o v.select[1] \o <<"FROM">> \o v.from

SelectTextFormatted(v) ==
  <<"SELECT", "\n", "    ">> \o v.select[1] \o <<"\n", "FROM", "\n", "    ">> \o v.from

\* A WithQuery is made by WithBuilder::Main, in WithQueries.
WithText(v) == <<"WITH">> \o v.ctes \o v.main

WithTextFormatted(v) ==
  <<"WITH", "\n">> \o IndentBlock(v.ctesFormatted) \o <<"\n">> \o v.mainFormatted

\* ToString throws only while a SELECT has no select list.
Renders(v) == v.class = "SelectExpr" => ~IsEmpty(v.select)

ToStringPlain(v) ==
  CASE v.class = "Table"      -> v.name
    [] v.class = "Join"       -> JoinText(v)
    [] v.class = "SetOp"      -> v.a \o <<v.kind>> \o v.b
    [] v.class = "SelectExpr" -> SelectText(v)
    [] v.class = "WithQuery"  -> WithText(v)

ToStringFormatted(v) ==
  CASE v.class = "SelectExpr" -> SelectTextFormatted(v)
    [] v.class = "WithQuery"  -> WithTextFormatted(v)
    [] OTHER                  -> ToStringPlain(v)

ToStringBracketed(v) ==
  IF v.class = "Table" THEN ToStringPlain(v) ELSE <<"(">> \o ToStringPlain(v) \o <<")">>

\* For the other classes ToStringAsFromItem throws: an alias is required.
IsFromItem(v) == v.class \in {"Table", "Join"}

ToStringAsFromItem(v) == ToStringPlain(v)

-----------------------------------------------------------------------------
Entry(object, meaning, sound) == [object |-> object, meaning |-> meaning, sound |-> sound]

Init ==
  /\ held = {Entry(Table(<<name>>), <<"table", name>>, TRUE) : name \in TableNames}
  /\ outcome = "ok"

Hold(object, meaning, sound) ==
  /\ held' = held \cup {Entry(object, meaning, sound)}
  /\ outcome' = "ok"

\* An &&-qualified setter: the value that was consumed is gone.
Become(x, object, meaning, sound) ==
  /\ held' = (held \ {x}) \cup {Entry(object, meaning, sound)}
  /\ outcome' = "ok"

Statements == {"select", "set operation", "with"}

SoundStatement(x) == x.sound /\ x.meaning[1] \in Statements

As(x, name) ==
  \/ name \in Malformed /\ Throw("InvalidIdentifier")
  \/ name \notin Malformed /\ ~Renders(x.object) /\ Throw("LogicError")
  \/ /\ name \notin Malformed
     /\ Renders(x.object)
     /\ Hold(Table(ToStringBracketed(x.object) \o <<"AS", name>>),
             <<"as", x.meaning, name>>, x.sound /\ x.meaning[1] # "as")

From(x) ==
  \/ ~IsFromItem(x.object) /\ Throw("LogicError")
  \/ /\ IsFromItem(x.object)
     /\ Hold(SelectExpr(ToStringAsFromItem(x.object)), <<"select", <<>>, x.meaning>>, x.sound)

Select(x, item, meaning, sound) ==
  /\ x.object.class = "SelectExpr"
  /\ \/ ~IsEmpty(x.object.select) /\ Throw("LogicError")
     \/ /\ IsEmpty(x.object.select)
        /\ Become(x, [x.object EXCEPT !.select = Some(item)],
                  <<"select", meaning, x.meaning[3]>>, x.sound /\ sound)

\* VirtualTable::operator Expr, used as a select item.
SelectSubquery(x, query) ==
  /\ query # x
  /\ \/ ~Renders(query.object) /\ Throw("LogicError")
     \/ /\ Renders(query.object)
        /\ Select(x, ToStringBracketed(query.object), <<"subquery", query.meaning>>,
                  SoundStatement(query))

\* Mutant: an operand is written like a FROM item, if it is one.
OperandUnbracketed(v) == IF v.class = "Join" THEN ToStringPlain(v) ELSE ToStringBracketed(v)

Operand(v) == ToStringBracketed(v)

Join(x, y, kind) ==
  \/ ~(Renders(x.object) /\ Renders(y.object)) /\ Throw("LogicError")
  \/ /\ Renders(x.object) /\ Renders(y.object)
     /\ Hold([class |-> "Join", a |-> Operand(x.object), b |-> Operand(y.object),
              kind |-> kind.keyword, natural |-> kind.natural,
              on |-> <<>>, using |-> <<>>],
             <<"join", kind.keyword, x.meaning, y.meaning, <<"unqualified">>>>,
             x.sound /\ y.sound)

\* A second qualification would be remembered beside the first.
Qualify(x, object, qualifier) ==
  Become(x, object, [x.meaning EXCEPT
    ![5] = IF @ = <<"unqualified">> THEN qualifier ELSE @ \o qualifier], x.sound)

\* SetOnce(on_), after the two checks of On.
On(x, exp) ==
  /\ x.object.class = "Join"
  /\ LET refused == x.object.natural \/ ~IsEmpty(x.object.using) \/ ~IsEmpty(x.object.on)
     IN  \/ refused /\ Throw("LogicError")
         \/ ~refused /\ Qualify(x, [x.object EXCEPT !.on = exp], <<"on", exp>>)

\* Mutant: Using looks at its own clause only.
UsingBesideOn(x, columns) ==
  /\ x.object.class = "Join"
  /\ LET refused == x.object.natural \/ ~IsEmpty(x.object.using)
     IN  \/ refused /\ Throw("LogicError")
         \/ ~refused /\ columns = <<>> /\ Throw("InvalidArgument")
         \/ /\ ~refused /\ columns # <<>>
            /\ Qualify(x, [x.object EXCEPT !.using = JoinCsv(columns)], <<"using", columns>>)

\* An empty list is refused after the first two checks and before SetOnce.
Using(x, columns) ==
  /\ x.object.class = "Join"
  /\ LET v == x.object
     IN  \/ (v.natural \/ ~IsEmpty(v.on)) /\ Throw("LogicError")
         \/ ~v.natural /\ IsEmpty(v.on) /\ columns = <<>> /\ Throw("InvalidArgument")
         \/ /\ ~v.natural /\ IsEmpty(v.on) /\ columns # <<>>
            /\ \/ ~IsEmpty(v.using) /\ Throw("LogicError")
               \/ /\ IsEmpty(v.using)
                  /\ Qualify(x, [v EXCEPT !.using = JoinCsv(columns)], <<"using", columns>>)

SetOp(x, y, kind) ==
  \/ ~(Renders(x.object) /\ Renders(y.object)) /\ Throw("LogicError")
  \/ /\ Renders(x.object) /\ Renders(y.object)
     /\ Hold([class |-> "SetOp", a |-> ToStringBracketed(x.object),
              b |-> ToStringBracketed(y.object), kind |-> kind],
             <<"set operation", kind, x.meaning, y.meaning>>,
             SoundStatement(x) /\ SoundStatement(y))

TableNext ==
  \E x \in held :
    \/ \E name \in Aliases : As(x, name)
    \/ From(x)
    \/ \E item \in Items : Select(x, item, <<"expr", item>>, TRUE)
    \/ \E exp \in Conditions : On(x, exp)
    \/ \E columns \in ColumnLists : Using(x, columns)
    \/ \E y \in held :
         \/ SelectSubquery(x, y)
         \/ \E kind \in JoinKinds : Join(x, y, kind)
         \/ \E kind \in SetOpKinds : SetOp(x, y, kind)

-----------------------------------------------------------------------------
Text == Seq(Tokens)

\* The objects of the class hierarchy.
Objects ==
  [class : {"Table"}, name : Text]
    \cup [class : {"SelectExpr"}, from : Text, select : Seq(Text)]
    \cup [class : {"Join"}, a : Text, b : Text, kind : PlainKinds \cup NaturalKinds,
          natural : BOOLEAN, on : Text, using : Text]
    \cup [class : {"SetOp"}, a : Text, b : Text, kind : SetOpWords]
    \cup [class : {"WithQuery"}, ctes : Text, main : Text,
          ctesFormatted : Text, mainFormatted : Text]
=============================================================================
