------------------------------ MODULE WithQueries ------------------------------
(***************************************************************************)
(* WithBuilder, composed with the table values it is given and the queries *)
(* it makes.                                                               *)
(***************************************************************************)
EXTENDS TableExprs

CONSTANTS
  CteNames,   \* names given to With
  MaxHeld     \* bound: values held at once

ASSUME CteAssumption == CteNames \ Malformed \subseteq Words

VARIABLE
  with   \* None, or the one WithBuilder in hand, with two histories: meaning,
         \* the CTEs it was given, and sound, which a Main that throws ends

vars == <<held, outcome, with>>

Ctes == IF with = None THEN 0 ELSE Len(with[1].meaning)

\* Bound: the CTEs of the builder in hand count as values held.
WithinBounds == Cardinality(held) + Ctes <= MaxHeld

WithInit == Init /\ with = None

Cte(name, query) == <<name, "AS">> \o ToStringBracketed(query)

\* Mutant: the brackets are forgotten.
CteFormattedBare(name, query) ==
  <<name, "AS", "\n">> \o IndentBlock(ToStringFormatted(query))

CteFormatted(name, query) ==
  <<name, "AS", "(", "\n">> \o IndentBlock(ToStringFormatted(query)) \o <<"\n", ")">>

\* With(name, query), the free function.
WithStart(name, x) ==
  /\ with = None
  /\ \/ name \in Malformed /\ Throw("InvalidIdentifier") /\ UNCHANGED with
     \/ name \notin Malformed /\ ~Renders(x.object) /\ Throw("LogicError") /\ UNCHANGED with
     \/ /\ name \notin Malformed
        /\ Renders(x.object)
        /\ with' = Some([ctes          |-> Cte(name, x.object),
                         ctesFormatted |-> CteFormatted(name, x.object),
                         names         |-> <<name>>,
                         meaning       |-> <<<<name, x.meaning>>>>,
                         sound         |-> SoundStatement(x)])
        /\ outcome' = "ok"
        /\ UNCHANGED held

\* Mutant: a name is compared with the latest one only.
TakenLast(builder, name) == Last(builder.names) = name

Taken(builder, name) == name \in ToSet(builder.names)

With(name, x) ==
  /\ with # None
  /\ LET builder == with[1]
         refused == Taken(builder, name) \/ ~Renders(x.object)
     IN  \/ name \in Malformed /\ Throw("InvalidIdentifier") /\ UNCHANGED with
         \/ name \notin Malformed /\ refused /\ Throw("LogicError") /\ UNCHANGED with
         \/ /\ name \notin Malformed /\ ~refused
            /\ with' = Some([builder EXCEPT
                 !.ctes          = @ \o <<", ">> \o Cte(name, x.object),
                 !.ctesFormatted = @ \o <<", ", "\n">> \o CteFormatted(name, x.object),
                 !.names         = Append(@, name),
                 !.meaning       = Append(@, <<name, x.meaning>>),
                 !.sound         = @ /\ SoundStatement(x)])
            /\ outcome' = "ok"
            /\ UNCHANGED held

\* Main moves the CTE texts out in the argument list that renders the query.
\* When that throws, the compiler's order of evaluation decides which of the
\* texts were moved by then, and the client still holds the builder.
Main(x) ==
  /\ with # None
  /\ LET builder == with[1]
     IN  \/ /\ Renders(x.object)
            /\ Hold([class         |-> "WithQuery",
                     ctes          |-> builder.ctes,
                     main          |-> ToStringPlain(x.object),
                     ctesFormatted |-> builder.ctesFormatted,
                     mainFormatted |-> ToStringFormatted(x.object)],
                    <<"with", builder.meaning, x.meaning>>,
                    builder.sound /\ SoundStatement(x) /\ x.meaning[1] # "with")
            /\ with' = None
         \/ /\ ~Renders(x.object)
            /\ Throw("LogicError")
            /\ \E left \in {<<>>, builder.ctes}, leftFormatted \in {<<>>, builder.ctesFormatted} :
                 with' = Some([builder EXCEPT
                   !.ctes = left, !.ctesFormatted = leftFormatted, !.sound = FALSE])

Next ==
  /\ \/ TableNext /\ UNCHANGED with
     \/ \E x \in held :
          \/ \E name \in CteNames : WithStart(name, x) \/ With(name, x)
          \/ Main(x)
  /\ WithinBounds'

Spec == WithInit /\ [][Next]_vars
-----------------------------------------------------------------------------
\* Every value is of a class of the hierarchy, a join is qualified at most once
\* and not at all when it is natural, and a builder's names are those of the
\* CTEs it was given.
TypeOK ==
  /\ \A x \in held : x.object \in Objects /\ x.sound \in BOOLEAN
  /\ \A x \in held : x.object.class = "Join" =>
       Cardinality({c \in {"on", "using"} : x.object[c] # <<>>})
         <= IF x.object.natural THEN 0 ELSE 1
  /\ with # None =>
       /\ with[1].ctes \in Text /\ with[1].ctesFormatted \in Text
       /\ with[1].sound \in BOOLEAN
       /\ with[1].names = [k \in DOMAIN with[1].meaning |-> with[1].meaning[k][1]]
  /\ outcome \in {"ok", "LogicError", "InvalidArgument", "InvalidIdentifier"}

Sound == {x \in held : Renders(x.object) /\ x.sound}

\* virtual_table.hpp:16-23: ToStringFormatted is the text of ToString laid out
\* on several lines, also where formatted blocks are indented again inside
\* others.  The texts in hand hold no string literals, whose line breaks would
\* be no layout.
FormattedAgrees ==
  \A x \in Sound :
    Unlaid(ToStringFormatted(x.object)) = Unlaid(ToStringPlain(x.object))

\* with.hpp:52-54: no WITH clause defines a name twice, whatever was refused
\* on the way.
CteNamesDiffer ==
  with # None => IsInjective([k \in DOMAIN with[1].meaning |-> with[1].meaning[k][1]])
=============================================================================
