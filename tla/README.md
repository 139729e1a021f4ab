# IronQuery: a verification development in TLA+

IronQuery is a C++ library that builds PostgreSQL statements from method
calls. It starts no threads, keeps nothing on disk and talks to no server: a
*behaviour* here is the sequence of calls a client program makes on the values
it holds, the exceptions it catches included. Builders belong to one thread;
expressions are handles to shared nodes, and the client's threads use those of
one another. The modules model those values and calls, TLC explores every
sequence of calls over small vocabularies, and TLAPS proves the results that
should hold for every vocabulary, every number of threads and every length.

## The system

| Part | Source | State | Operations |
|---|---|---|---|
| Expression nodes | `impl/node.cpp`, `node.hpp` | an immutable tree, shared between parents and threads: precedence, parts, size; the use counts of its `shared_ptr`s | MakeLeaf, MakeNode, Render, RenderWithContext, copying and dropping of handles |
| Expr, Condition | `expr.cpp`, `condition.cpp` | a `shared_ptr` to a node | about forty methods that build a node over others |
| Validators | `impl/identifier.cpp` | none | ValidateIdentifier, ValidateOperatorName |
| Clause storage | `impl/render.hpp`, `render.cpp` | none of their own | SetOnce, EnsureNotSet, IsEmpty, JoinCsv, IndentBlock |
| SelectExpr | `select_expr.cpp` | `optional` members, one per clause | nine setters, ToString, ToStringFormatted |
| InsertInto | `insert_into.cpp` | texts and vectors, empty when unset | Columns, Values, Rows, Returning, OnConflict..., ToString |
| Update, DeleteFrom | `update.cpp`, `delete_from.cpp` | one text per clause | setters, ToString |
| Join, SetOp | `join.cpp`, `set_op.cpp` | operand texts; ON / USING text | On, Using, ToString |
| FROM items | `virtual_table.cpp`, `table*.cpp` | a text | ToStringBracketed, ToStringAsFromItem, As |
| WithBuilder, WithQuery | `with.cpp` | CTE text and names | With, Main, ToString |
| CaseBuilder | `case_builder.cpp` | finished pairs, one pending WHEN, ELSE | When, Then, Else, End |
| Terms | `column.cpp`, `order_by.cpp`, `placeholders.cpp`, ... | a text; an expression, a direction and a placement of nulls | As, Asc, Desc, ... |

How they interact: client code builds `Expr` and `Condition` values out of one
another; the nodes are shared and render lazily, each parent deciding when it
is rendered whether a child needs parentheses. Constants such as the
placeholders `_1`, `_2`, ... are shared by every thread of the client. A statement builder takes such
values, renders them on the spot (INSERT, UPDATE, DELETE) or keeps them until
`ToString` (SELECT), and a finished statement goes back in as a subquery, a
FROM item, a CTE or an operand of a join. Every setter consumes its builder
(`&&`-qualified, `return std::move(*this)`), which the client sees as one
builder it keeps using, or as two when it names the result apart.

What is hard here is what long call sequences, and sharing, can lead to:

- **Binding strength.** Whether a parenthesis may be left out depends on two
  levels of an expression at once, chosen in different methods; a wrong
  constant shows only under one particular nesting.
- **Cached sizes.** A node's size is computed once, bottom-up, and has to
  predict what a separate function later writes.
- **Laziness.** An expression renders long after it was built, through nodes
  that others were built upon meanwhile.
- **Sharing between threads.** A rendering walks the tree through plain
  references while other threads copy, use and drop handles of the same nodes;
  use counts alone keep it alive, and have to let it go in the end.
- **Exceptions half-way.** A setter that stores and then throws leaves the
  builder changed.
- **Order of calls.** Setters arrive in any order, some of them twice, with
  renderings between them.
- **Use after move.** A moved-from builder keeps part of its fields.
- **Empty values.** The empty text or vector stands for "not set".

What makes each part correct is listed, property by property, in the section
on the runs; `PROJECT.json` lists the hazards one by one, at the lines where
they bite, with the properties that would catch them.

## The modules

| Module | Models | Notes |
|---|---|---|
| `OperatorPrecedence` | `operator_precedence.hpp`, `NeedsParens` | the enum's own numbers |
| `ExprNodes` | `node.cpp`, the node-building methods of `expr.cpp` and `condition.cpp` | a heap of nodes; a `shared_ptr` is an index |
| `EagerTexts` | the promise of `node.hpp:26-32` | abstract specification |
| `SharedNodes` | `node.cpp` step by step, `placeholders.cpp`, the `shared_ptr`s | threads over `ExprNodes` |
| `ExprReading` | PostgreSQL's precedence rules (not in the repository) | a reference reader, left to right with a stack; the properties on parentheses |
| `ClauseText` | `impl/render`, the terms of `order_by.cpp` | joining, storing and indenting of clause texts |
| `InsertInto` | `insert_into.cpp` | with a history of what the setters accepted |
| `SetOnceBuilder` | the promise of `docs/SQL.md:148-154` | abstract specification |
| `StatementReading` | how a statement splits into clauses (not in the repository) | reads texts back for the refinements |
| `SelectExpr` | `select_expr.cpp` | refines `SetOnceBuilder` |
| `UpdateDelete` | `update.cpp`, `delete_from.cpp` | refines `SetOnceBuilder` |
| `TableExprs` | `virtual_table.cpp`, `table.cpp`, `join.cpp`, `set_op.cpp`, `From` and the select list of `select_expr.cpp`, the renderings of `WithQuery` | values that go into one another |
| `WithQueries` | `with.cpp` | composes `TableExprs` with a `WithBuilder` |
| `TableReading` | PostgreSQL's grammar of FROM items (not in the repository) | a reference reader, left to right with a stack; the properties on nesting |
| `CaseBuilder` | `case_builder.cpp` | with a history of what the builder was given |
| `CaseReading` | PostgreSQL's grammar of CASE (not in the repository) | a reference reader, left to right; the property on what `End` returns |
| `Lexemes` | `impl/identifier.cpp`, the number and text leaves, `Literal`, `Ident` and `As` of `expr.cpp`, `column.cpp`, the qualified columns of `table_with_columns.cpp` and `table_alias.cpp` | texts character by character |
| `LexemeReading` | PostgreSQL's lexer (not in the repository) | a reference lexer, the properties on leaves |
| `MCExpr`, `MCShared`, `MCInsert`, `MCSelect`, `MCUpdateDelete`, `MCTables`, `MCCase`, `MCLexemes` | | vocabularies for TLC |
| `TextLemmas` | | what recursive functions return; joining, laying out and reading back of clause texts |
| `NodeProofs` | | theorems about `ExprNodes` and `SharedNodes` |
| `ExprReadingProofs`, `InsertIntoProofs`, `SelectExprProofs`, `UpdateDeleteProofs`, `TableReadingProofs`, `CaseBuilderProofs` | | theorems about the module each is named for; `ExprReadingProofs` goes by the lemmas of `NodeProofs` on nodes |

### ExprNodes

`nodes` is every node built so far, oldest first. `conditions` are the indices
the client holds as `Condition`; any node may be held as `Expr`, because
`Condition` converts to it. `outcome` is how the last call ended. There is one
action per method (families of methods that differ in their operator only are
one action with the operator as parameter, `Operators` naming those the client
uses). `Build` is the constructor call every method ends in.

A text is a sequence of tokens and a token's length stands for the length of
the string it abstracts, so `size` counts tokens. `TotalSize` is the loop of
`MakeNode`, `PartText` is `AppendPart`: the two decide on parentheses
separately, as in the code, and `SizeExact` is the claim that they agree.

`NULL`, booleans and `COUNT(*)` are the leaves of `Word`. The texts of doubles,
string literals and quoted names, and `As`, are in `Lexemes`; `Malformed` stands
for the verdict of the validators, which is worked out there too. `Extract`
builds no node: it is `RenderWithContext` here and `StartRendering` in
`SharedNodes`.

### ExprReading

What PostgreSQL makes of a text, as far as the tree goes. The reader goes through
the tokens once, from left to right. Its state is a stack of what still waits,
operators for their last operand and brackets, calls and BETWEENs for what closes
them, and the operand just read, if any. An operator that comes behind an operand
first has all that binds tighter applied (`Applied`), an equal level included, as the
binary operators are left-associative; the levels are those of PostgreSQL's
table (`Level`, `PrefixLevel`), written apart from the enum that `node.cpp` uses. A
token where none of its kind may stand leaves a frame on the stack that nothing
closes, so `Read` gives no tree.

Three rules of the grammar are in no precedence table, and the reader has them too:

- A subscript or a dot stands behind a column, a field, a subscript or brackets
  only (`refers`, gram.y's `columnref` and `c_expr` with indirection): `f(a)[i]`,
  `CAST(a AS t)[i]` and `1[i]` are syntax errors.
- Behind a dot stands a name alone (`ReadField`).
- The lower bound of a BETWEEN is what gram.y calls a `b_expr`: outside of brackets
  it has no COLLATE, no NOT, no OR, no IS NULL and none of the other words of
  `NeverInBound` (`within` says that such a bound is what the reader is in).

It is more lenient than the server in four places, which the module's header lists;
the library writes no text for which one of them matters, save for the comment that
two minus signs open, and that is `NoCommentOpener`. Every single word that is no
constant stands for a column, the token of a one-word raw text or of a subquery
included.

`ParensSuffice` has the reader read two renderings of each expression, the code's
and `RenderBracketed`, where every operand is in brackets but for names next to a dot,
which the grammar does not take in brackets. Where an operand cannot be written at
all, or only in brackets that no precedence asks for, the table decides
nothing; `AllFitting` says of an expression that it has no such operand
(`Fitting`), in terms of its nodes and not of its text:

- a bare operand before a subscript or a dot is a column or a field
  (`IsReference`), and what is behind a dot is a name (`IsName`);
- the bare lower bound of a BETWEEN shows no COLLATE outside of brackets (`Collates`);
- a node whose true level is not the one it was built with, a negative integer or
  `NOT EXISTS` (`Grade`), is bare only where an operator of its true level may be.

The third excludes a little more than what is misread, such as `NOT EXISTS` as the
right operand of a comparison or of another NOT, and the first a raw text in
brackets of its own before a subscript. What the rules exclude and the code writes
all the same is in *Noted while reading*; `AutomaticParens` is the same property
without the hypothesis, and the run `ExprNotExists` refutes it.

The module also says what the properties ask of a client,
`HonestOperators` and `PlainNames` for the first and `CarefulClient` for the second
(*The proofs*). `NoCommentOpener` speaks of every client but one that negates a
negative integer, or what is selected from one, without brackets (`SignedTwice`).

### EagerTexts

What an expression promises, without a tree: `calls` is what the client asked
for, `texts` what each value said when it was built, and no step changes an
earlier text. The refinement mapping reads `calls` off the nodes and takes
`Render(nodes)`, the rendering *now*, for `texts`: that every step of `ExprNodes`
is one of `EagerTexts` says that a node rendered at any later time, through any
sharing, has the text of the moment it was built.

### SharedNodes

The client's threads over the same nodes. Building is that of `ExprNodes`, one
step: nothing of an unfinished node can be seen by anybody. Rendering and
destruction are the small steps of the code, so that steps of other threads
come between: `callStack[t]` are the calls of `AppendPart` the thread is in (the node,
the next part, whether a bracket is owed), `out[t]` the text so far, `releases[t]`
the references a destructor has yet to let go of, where 0 is a part that holds
none. `owners` are the use counts, and `Release` destroys a node with its last
reference and goes on with its parts. `handles` are the values each thread
holds, `Statics` being the holder of the namespace-scope constants, which are
built before any thread runs. A use count is one step, as `std::shared_ptr`
guarantees; that two threads never touch the *same* `Expr` object without
synchronisation is the client's duty and not modelled.

`nodes` keeps what was built also after it is gone, so that `NothingDangles` can
say of every reference that it names a node in `alive`, and `WritesItsText` what
a rendering should have written.

### InsertInto

The four fields are the four members. `accepted` is a history variable: what
each setter was given by the calls that returned. A setter that throws from
`EnsureSameArity` leaves its list in the field, as the code does, and the
client may go on. `Values(vals)` and `Rows(rs)` share `SetRows`, as both store
the rows and then check. The appending in `Rows` is one step: nothing in it
can throw half-way except allocation.

Moved-from INSERT builders are not modelled: all members are then empty, which
is the initial state less the table.

### SelectExpr

`clauses` holds the `optional` members by name: `None` or `Some(value)`. `Move`
is a client that names the result apart and goes on with the old builder: the
vectors are emptied and the conditions' handles nulled *inside* their
optionals, the integers keep their values, and `from_` is emptied. A rendering
of a null handle would dereference it; `MovedOut` marks it so that the
refinement catches any statement that held it. `OrderBy` takes the terms as
`order_by.cpp` has them, expression, direction and placement of nulls;
`RenderTerm` writes them and `ReadSortTerm` reads them back, so that the
refinement speaks of what the server will sort by.

A text is a sequence of `Tokens`. `Text` is what an argument renders to: not
empty, and without the keywords of a statement, commas and layout, which an
argument has inside brackets or quotes only, where they are part of one token.
A subquery given as a condition or select item comes in brackets
(`virtual_table.cpp:29`), an argument list as well.

`SetOnceBuilder` is the abstract builder: each clause unset or set once (or, in
`Lists`, added to by every call), `statement` the clauses of the last text. The
refinement mapping reads the rendered text back by its keywords
(`ReadStatement`), so the promise is about what the text says and not about the
fields.

### UpdateDelete

The two builders share a module because they share their code line by line;
`kind` is the class, `"source"` is UPDATE's FROM and DELETE's USING. All members
are texts, so a clause set to an empty list is a clause not set, in the
abstraction too (`Unset` is the empty text). `SourceUnaliased` is the throw out
of `ToStringAsFromItem`. After a move all texts are empty. `DeleteFrom` then
refuses to render, because its check looks at the table. `Update`'s check looks
at the SET clause: given assignments again it renders `UPDATE  SET ...` without
its table and without its WHERE. The abstraction calls an answer that names no
table `"garbled"` and allows it after a move only; it is what keeps an UPDATE
without its WHERE from being a statement.

### TableExprs, WithQueries, TableReading

`held` is the set of values the client holds. Each is the object as the code has it
(its class and texts) and two histories: its *meaning*, the tree of calls that made
it, and whether these calls were *sound* (below). An operation takes any values held,
in any roles, and an `&&`-qualified setter consumes its value. `ToStringPlain`,
`ToStringFormatted`, `ToStringBracketed` and `ToStringAsFromItem` dispatch on the
class as the virtual methods do. `with` is the one `WithBuilder` in hand. When `Main`
throws, its argument list may have moved out the one text, the other, both or none,
which is the compiler's choice; the client still holds the builder.

`TableReading` reads a text as PostgreSQL's grammar does and compares the tree with the
meaning. Like the reader of `ExprReading` it goes through the tokens once with a stack,
here of what is open: a join or set operation that waits for its operand, a FROM, a
bracket, the list of CTEs. What the last part of a text ends, innermost first, `Ended`
completes; so joins and set operations associate to the left, and an ON belongs to
the innermost join that has none. An alias behind an alias, like any other
token that may not stand where it does, leaves a frame on the stack that nothing closes.

The comparison is made for the values in `Sound`: they render, and their clients did
what the class hierarchy asks only in prose, if at all:

- a subquery, a set operation's operand, a CTE and a main query are statements
  (SELECT, a set operation, WITH). The C++ types admit a bare `Table` or a `Join`
  there, which renders to text no server takes; as a CTE, a bare `Table` is
  bracketed in `ToStringFormatted` and not in `ToString`;
- a value that has an alias is not given another (`t AS x AS y`);
- the main query of a WITH query is not a WITH query itself (*Noted while reading*);
- a `WithBuilder` is not used after a `Main` that threw. A retry renders `WITH `
  followed by the texts that are left.

`Words` are the tokens with no part in the grammar. Names that validate are one word,
and `Items`, `Conditions` and the columns of USING are such words: what an argument
has inside brackets or quotes is one token, as in `SelectExpr`.

A SELECT has its select list and FROM item here; the other clauses are in
`SelectExpr` and add nothing to nesting. `DeleteFrom`, which is a `VirtualTable`
too, would differ from a `SetOp` in its text only. Moved-from values are not
modelled here.

### CaseBuilder, CaseReading

The four variables are the four members. `given` is the history: what the calls
on this builder were given. `End` is const, the expression it returns may be an
argument of further calls (`exprs`), and the builder may go on. `Move` empties
the texts and keeps the flag, as the defaulted move constructor does: a
moved-from builder with the flag set takes `Then` and writes a WHEN without a
condition. The history is emptied with the texts, so this is within the
property: what a moved-from builder says is what it was given since.

`CaseReading` reads the text of `End` back, token by token. A word of a CASE belongs
to the innermost one that is open where it stands, so the reader's state is the part
at hand, the number of CASEs open in it, and what is finished before it. The
conditions and results that do not come out of `End` are closed texts
(`CaseAssumption`): every CASE in them is ended in them, and the words WHEN, THEN,
ELSE and END stand inside one. What an `Expr` has in quotes is one token here; raw
text with a stray END, or a function that is named CASE, is the client's affair.

### Lexemes, LexemeReading

Everywhere else a name, a literal or an operator is one token. Here they are the
characters the code sees: the validators decide on characters, `Literal` and
`Ident` double them, and the methods of `Expr` write with or without a space
next to them. The value in hand is its text, the precedence of its top-level
operator and its class; an action replaces it by a new leaf or puts it into a
method that writes beside it. `alias` is the member of the `TableWithColumns` in
hand. `meant` is the history: the lexemes the value was made of.

The characters stand for classes: `Letters` and `Digits` are those in use,
`"NUL"` is the zero byte and `"grave"` the backquote. `isalpha` and `isalnum` are
those of the C locale.

Numbers are in it with and without a sign: `FromDouble` keeps a numeral apart
from an integer by the `.0` it adds unless there is a point or an exponent.

`LexemeReading` splits a text by PostgreSQL's rules: a run of operator characters
ends where a comment starts, and gives up a trailing + or - unless one of
~ ! @ # % ^ & | ` ? is in it. `LexemesReadBack` compares operators character by
character, because the code's validator is wider than this rule
(*Disagreements*); what it claims of them is that they are read as their own
characters, with no comment opened and no neighbour joined. `Meaningless` exempts
two kinds of text: a minus sign next to that of a negative literal (*Noted while
reading*), and a column of a number, which is no expression at all.

## The runs

Every run is exhaustive for its vocabulary. Deadlock is checked except in the
Expr runs and in `SharedNodes`, where the client stops after `MaxNodes` nodes.

| Run | Checks | Bounds |
|---|---|---|
| `ExprParens` | `TypeOK`, `SizeExact`, `ParensSuffice`, `NoCommentOpener` | one operator of each level, `NOT EXISTS`, calls, lists and subqueries with up to two arguments, the integers -1 and 1, three nodes; six operators with four nodes |
| `SharedNodes` | `NothingDangles`, `WritesItsText`, `ImplementsEager`, `CallsEnd`, `NothingLeaks` | two threads; one placeholder and two more nodes, of `NOT EXISTS` and `\|\|`; renderings into a product |
| `InsertArity` | `TypeOK`, `RenderedArity`, `RejectedIsNeverRendered`, `ListsAreRendered`, `ArityErrorIsFinal` | lists of none, one and two; rows of mixed arity; every order |
| `Select` | `TypeOK`, `ClausesInGrammarOrder`, `FormattedAgrees`, `KeepsPromise` | lists of none, one and two terms; ORDER BY terms of both directions and the three placements of nulls; every subset of clauses, every order |
| `UpdateDelete` | `TypeOK`, `KeepsPromise` | two assignments, `MaxSetLength` 8 tokens; lists of none, one and two terms |
| `Tables` | `TypeOK`, `ReadsBack`, `CteNamesDiffer`, `FormattedAgrees` | one table, two join kinds (plain, NATURAL), one set operation; `MaxHeld` 4 values, the CTEs of the builder among them |
| `Case` | `TypeOK`, `EndReadsBack` | two conditions, one of them with a CASE inside, two results; `MaxPairs` 2; CASEs of up to `MaxLength` 6 tokens used inside others |
| `Lexemes` | `TypeOK`, `LexemesReadBack` | values of up to two characters out of both quotes and minus; two integers and five doubles, with and without sign, point and exponent; nine names, most of them near misses; operators of up to two characters out of + - / *; operators over values of up to `MaxLexemes` 3 lexemes |
| `ExprNotExists`, `InsertConflictTwice`, `JoinUnaliased`, `OperatorSplit` | one property each (`AutomaticParens`, `ConflictIsRendered`, `FromSubqueriesAliased`, `OperatorsAreWhole`), violated | see *Disagreements* |

`ExprParens` has a state constraint, `FewOperatorsWhenDeep`: a fourth node is
built only over nodes of six operators, one of each shape (prefix tight, prefix
loose, arithmetic, comparison, the two connectives); `OperatorWhenDeep` keeps
calls and leaves from being the fourth. `ExprParens`, `Tables` and `Lexemes` have
a view without `outcome`, which no action reads and no property of the run but
`TypeOK` mentions. `SharedNodes` has no view and no symmetry: liveness is checked
there.

- **`ParensSuffice`**: the text with few parentheses and the text with all of
  them are read as the same tree by the reference reader, which refuses neither,
  for expressions whose operands the grammar takes where they are put
  (`AllFitting`). Two operators nested
  either way round, on either side, already exercise every pair of levels
  (three nodes: a leaf, an inner and an outer operator); the fourth node adds a
  third level, where a loose operator could reach through a tight one that
  stands between. The raw expressions declare their true precedence.
- **`NoCommentOpener`**: no two minus signs are adjacent, with negative integers
  anywhere in an expression but as the bare operand of a unary minus, where they are
  (`-Expr(-1)`, *Noted while reading*).
- **`SizeExact`**: sizes predict lengths, over calls, lists and shared nodes.
- **`ImplementsEager`**: laziness shows nowhere; see `EagerTexts`.
- **`NothingDangles`**: handles, parts of living nodes, references still to be let
  go of and the plain references of renderings all name living nodes. Two threads
  and three nodes have a thread render a parent of a shared child while the other
  drops its handles of both, and a node used twice by its parent.
- **`WritesItsText`**: what a rendering has written at any moment is a prefix of the
  node's text, and all of it at the end, whatever the other thread did in between.
- **`CallsEnd`**, **`NothingLeaks`**: every rendering and destruction ends; a node
  no handle leads to, through the parts of others, is destroyed. A tree of three
  levels with one child used twice exercises the recursion of both.
- **`RenderedArity`**, **`RejectedIsNeverRendered`**, **`ListsAreRendered`**,
  **`ArityErrorIsFinal`**: what the partial failure of `Columns` and `Rows` may
  and may not lead to. One list of each length is enough for the check to
  compare equal and unequal ones; three rows would add no comparison that two
  do not make.
- **`KeepsPromise`**: every clause at most once, a second call throws and
  changes nothing, the statement says exactly what was set, no statement after
  a move. In `Select` one value per condition and count suffices, as the code
  never looks inside them and a repeated call is seen by its exception; in
  `UpdateDelete` two conditions tell a kept WHERE from a replaced one.
- **`FormattedAgrees`**, **`ClausesInGrammarOrder`**: the two separately written
  renderings agree up to layout, and both follow the grammar. In `Tables` the
  same for blocks indented inside blocks; no token holds a line break there
  (*Noted while reading*).
- **`ReadsBack`**: the text of a value reads as the tree of calls that made it.
  Four values are enough for a join in a join on either side, with and without
  qualifications and aliases, for a statement as FROM item of another, as
  select item, as operand and as CTE, and for a WITH query in each of these places.
- **`CteNamesDiffer`**: no name twice in one WITH clause, after any refusals; two
  names suffice, as the second call must be refused or be the other name.
- **`EndReadsBack`**: a CASE reads as the pairs given and the last ELSE. Two
  pairs show whether conditions and results stay together and in order; a CASE
  inside another, whether the words of one are taken for those of the other.

- **`LexemesReadBack`**: quoted values, quoted names, validated names and
  operators come out of the lexer as the lexemes that were meant, with operators
  before, behind and around them. Two characters show a quote at either end,
  doubled and alone; two-character operators every pair a comment opens with;
  three lexemes a prefix operator over a prefix operator over a leaf, and with
  the method then applied every pair of neighbours. One numeral of each
  spelling shows where the suffix of `FromDouble` goes.

**Fairness.** `SharedSpec` has `WF(Continue(t))` for every thread: a thread that is
inside a rendering or a destructor takes its next step in the end. No function of
this layer waits for another thread or takes a lock, so all it needs is the
scheduler of the operating system; `examples/userver/static_config.yaml:54-57`
gives the example server four threads that share namespace-scope constants. No
fairness is assumed of the steps that begin a call: no client is obliged to make
one. The other modules model one thread, where every method returns or throws
within the step that calls it, and state no liveness.

### Disagreements

Four runs show the code doing something else than a document or a comment of
the repository says; `PROJECT.json` quotes the lines.

- `ExprNotExists`: `NotExists(q).IsNull()` is read as NOT of (EXISTS ... IS NULL).
- `InsertConflictTwice`: a second ON CONFLICT setter silently replaces the first.
- `JoinUnaliased`: a subquery without an alias gets into FROM through a join.
- `OperatorSplit`: an operator name that ends in + or - is accepted with any
  other operator character in it, and `BinaryOp("/-", ...)` is read as a division by a
  negated operand: PostgreSQL asks for one of ~ ! @ # % ^ & | ` ? there.

Noted while reading, without a run:

- `-Expr(-1)` renders `--1`, which opens a comment: the literal -1 is a leaf that
  starts with a minus sign (`expr.cpp:27` and `expr.cpp:470`). The header rejects
  `--` in operator names only. `ExprParens` and `Lexemes` have such literals;
  `SignedTwice` and `Meaningless` exempt the case.
- `operator[]` and `Dot` bracket their left operand by precedence alone
  (`expr.cpp:212-218`, `190-195`), so a call, a cast or a constant stays bare:
  `COALESCE(a)[a]`, `CAST (a AS t)[a]`, `1[a]`, `COUNT(a).a` are syntax errors. The
  grammar takes `(COALESCE(a))[a]`.
- `Between` does the same with its lower bound (`expr.cpp:232-240`): `x BETWEEN a
  COLLATE c AND y` is a syntax error, `x BETWEEN (a COLLATE c) AND y` is not.
  `AllFitting` leaves out these two kinds of expression.
- `join.hpp:87-88` and `tests/test_join.cpp:216` say PostgreSQL brackets a join in FROM
  only where an alias follows. Its grammar has `( joined_table )` as a joined table of its
  own, without an alias, which is what a join written as operand of another one
  relies on; `TableReading` reads it so.
- PostgreSQL 16 takes a subquery in FROM without an alias; `docs/SQL.md:145` speaks of
  a throw at build time, whatever the server does, and that is what `JoinUnaliased`
  shows to be missing.
- A constant of another translation unit that uses `_1` may be initialised before
  the placeholders are (`placeholders.cpp:5`).
- Rendering and destruction recurse once per level (`node.cpp:36`), so a condition
  built up in a loop of many thousand calls may exhaust the stack.
- `IndentBlock` (`render.cpp:34`) indents after every line break of a block, also
  one inside a string literal, which changes the literal in `ToStringFormatted`.
- `Main` writes a WITH query given as main query without brackets (`with.cpp:43`), and
  `WITH ... WITH ...` is a syntax error, though `with.hpp:8-9` calls it "usable
  anywhere a VirtualTable is"; in brackets, or as a CTE, it is read.
- `Ident("")` renders `""`, which the server refuses.
- A dotted name passes as a table alias and as a CTE name, which the grammar
  does not take (`virtual_table.cpp:22`, `with.cpp:32`); reserved words pass as
  any name.
- `TableWithColumns::As` hides the `As` of its base, which is not virtual: which
  of the two runs depends on the static type.
- `SelectArgAll` is the text of several columns at `kSymbol`: an operator applied
  to it takes the last or the first column only. `Lexemes` has it; the lexer sees
  no difference.
- `PrefixOp`'s default precedence is `kUnaryPlus` (`expr.hpp:156`), while
  PostgreSQL binds prefix operators other than + and - like any other operator:
  `PrefixOp("~", a) + b` is read as `~ (a + b)`.
- An empty list counts as not set (`impl/render.hpp:32`): after `Columns({})` or
  `Returning({})` a second call is accepted.
- `JoinCsv` and `JoinCsvIndented` skip the separator while the text is empty, and
  the second has written its indentation by then: a list whose first term has no
  text (`SelectArgAll()` of a table without columns) differs by a comma.
- `CROSS JOIN` takes ON and USING, which the grammar does not;
  `tests/test_join.cpp:167` has it so.
- A WHEN without its Then is dropped by `End`, and a second `Else` replaces the
  first; `case_builder.hpp` says nothing of either.
- CTE names that differ in case only are accepted; the server folds them.
- `Condition::FromRaw` takes no precedence, so raw text with an OR is treated as
  an atom (`condition.cpp:14`).
- The comment at `node.hpp:18-19` speaks of "looser" children where the code
  also brackets equal ones.
- `README.md:44` says missing required clauses are not checked; `EnsureValid` and
  the checks in the other `ToString` methods check some.

## The proofs

| Theorem | Module | Says |
|---|---|---|
| `TypeCorrect` | `NodeProofs` | `Spec => []TypeOK`: no dangling handle, no cycle |
| `SizesExact` | `NodeProofs` | `Spec => []SizeExact` |
| `ParensAlwaysSuffice` | `ExprReadingProofs` | `HonestClient`: `Spec => []ParensSuffice`, which speaks of expressions that are `AllFitting` |
| `NoCommentEverOpens` | `ExprReadingProofs` | `CarefulClient`: `Spec => []NoCommentOpener`, where `SignedTwice` is empty |
| `RendersEagerly` | `NodeProofs` | `Spec => ImplementsEager` |
| `SharedRendersEagerly` | `NodeProofs` | `SharedSpec => ImplementsEager`: the same with any number of threads |
| `NothingInUseIsGone` | `NodeProofs` | `SharedSpec => []NothingDangles` |
| `RenderingsWriteTheirText` | `NodeProofs` | `SharedSpec => []WritesItsText` |
| `TypeCorrect` | `InsertIntoProofs` | `Spec => []TypeOK` |
| `RejectedNeverRendered` | `InsertIntoProofs` | `Spec => []RejectedIsNeverRendered` |
| `AcceptedListsRendered` | `InsertIntoProofs` | `Spec => []ListsAreRendered` |
| `ArityErrorFinal` | `InsertIntoProofs` | `Spec => ArityErrorIsFinal` |
| `ArityHolds` | `InsertIntoProofs` | `Spec => []RenderedArity` |
| `TypeCorrect` | `SelectExprProofs` | `Spec => []TypeOK` |
| `GrammarOrderKept` | `SelectExprProofs` | `Spec => []ClausesInGrammarOrder` |
| `FormattedIsTheStatement` | `SelectExprProofs` | `Spec => []FormattedAgrees` |
| `PromiseKept` | `SelectExprProofs` | `Spec => KeepsPromise`: SELECT implements `SetOnceBuilder` |
| `TypeCorrect` | `UpdateDeleteProofs` | `Spec => []TypeOK` |
| `PromiseKept` | `UpdateDeleteProofs` | `Spec => KeepsPromise`: so do UPDATE and DELETE |
| `TypeCorrect` | `TableReadingProofs` | `Spec => []TypeOK` |
| `TextsReadBack` | `TableReadingProofs` | `Spec => []ReadsBack` |
| `FormattedOnlyLaidOut` | `TableReadingProofs` | `Spec => []FormattedAgrees` |
| `CteNamesStayDifferent` | `TableReadingProofs` | `Spec => []CteNamesDiffer` |
| `TypeCorrect` | `CaseBuilderProofs` | `Spec => []TypeOK` |
| `CasesReadBack` | `CaseBuilderProofs` | `Spec => []EndReadsBack` |

They assume `ClientAssumption`, `SharingAssumption`, `InsertAssumption`,
`TermAssumption`, `SelectAssumption`, `UpdateDeleteAssumption`, `TableAssumption`,
`CteAssumption` and `CaseAssumption` only: the arguments are texts over an alphabet that holds the words
the code writes, and there are finitely many threads. For SELECT, UPDATE and DELETE
the texts are those of `Text` (*SelectExpr*), `TermAssumption`, which `ArityHolds`
alone uses, asks the same of column names and values, and `TableAssumption` and
`CteAssumption` say it of table expressions: names that validate and tables are one
word, other texts are of `PlainText`, and the kinds are those of `join.cpp` and
`set_op.cpp`. `CaseAssumption` asks of arguments to be closed (*CaseBuilder,
CaseReading*). Read back they could not be told from the statement
around them otherwise, and a text that an `Expr`, a FROM item or a literal of the
library renders to has its commas and keywords in brackets or quotes. Such a text
is one token here. What a client passes to `FromRaw` is its own affair. Nothing bounds
the number of nodes, threads, arguments, rows, terms, assignments, CTEs, levels of
nesting or calls; `MaxNodes`, `MaxArgs`, `MaxSetLength`, `MaxHeld`, `MaxPairs` and
`MaxLength` may be any numbers.

The two theorems of `ExprReadingProofs` also have hypotheses on the client, because an
expression takes raw text and a declared precedence on trust. They are those of the
documentation, and each is needed:

- `HonestOperators`: an operator the client names itself has the level it declares,
  and none of the words the library writes for something else. `IsOperatorChar`
  (`identifier.cpp:37-41`) accepts no letter, bracket, comma, dot or space, so it can
  be none of `OwnWords`; the level is what `expr.hpp` asks the caller to state.
- `PlainNames`: numbers, function names and subqueries are single operands. A name is
  what `ValidateIdentifier` accepts, a subquery comes in brackets
  (`virtual_table.cpp:29`). Numbers may be negative.
- `HonestClient` adds that a raw text reads, in every state of the reader that
  admits an operator of its declared level, as one tree (`ReadsWherever`); in the lower
  bound of a BETWEEN only if it has no COLLATE, and one that begins with NOT or a
  minus sign at the level of that (`Grade`). `NOT EXISTS` and negative integers
  are left to `AllFitting`.
- `CarefulClient`: a raw text, or a prefix operator the client names `-`, that begins
  with a minus sign declares the level of a prefix minus or looser, no raw text has two
  in a row, and digits and names are not minus signs. It says nothing of the
  sign of an integer.

TLC evaluates `HonestOperators`, `PlainNames` and `CarefulClient` for the vocabulary of
the run `ExprParens` (`Vocabulary` in `MCExpr`), and `SmallClientIsHonest` proves of
raw texts like those of that run, an atom and an operator between two, that they read
as `HonestClient` asks.

**SizesExact.** The inductive invariant is `TypeOK /\ SizesAreTotals(nodes)`:
every size is `TotalSize` of the node's parts *in the present heap*. A step
appends one node, and `TotalSizeLocal` says that a total depends on the earlier
nodes only, so the old totals stand. The invariant implies `SizeExact` by
least counterexample over the heap (`RenderedLength`): if all earlier nodes
render to texts of their sizes, each part of the next one does
(`BracketedLength` for parentheses), and `Flattened` adds the parts up.
`ChildrenFirst` is what makes the recursion of `Render` well-founded
(`RenderExists`).

**ParensAlwaysSuffice.** Nothing about whole texts is inductive, since an operand is read
with the stack of what stands before it. `Reads(text, tree, level, place)` says what a
text does there: from every state that waits for an operand and where an operator of
this level could stand in this place, anywhere or in the lower bound of a BETWEEN, it
leads to a state that no later token can tell from that of having read `tree` as one
operand. `Refers(text, tree)` says that this state lets a subscript or a dot follow, as
brackets, names, fields and subscripts do. Two texts are `Alike` when some tree is read
so from both. `Congruent` says of a node's parts that, whatever texts that are alike at
their true levels take the places of its children, the results are alike at the
node's own level, if the children are `Fitting`; it is shown once for each shape the
methods build: prefix, infix, postfix, BETWEEN, call, list, cast, subquery. Subscripts
and fields, whose results may be selected from again, have lemmas of their own
(`IndexRefersAlike`, `DotRefersAlike`). A COLLATE is followed through all of this
(`Outside`), because a text that shows one reads nowhere in a lower bound, and one that
does not reads in both places. `Faithful`, that every node in the heap is so
(`FaithfulNode`), is inductive with `TypeOK`, a new node being faithful by the method
that builds it. By least counterexample over the heap both renderings of each node
are then alike, and at the bottom of the stack alike texts have one tree, so none of the
two is refused.

**NoCommentEverOpens.** `Safe(text, level)`: the text is clean, and begins with a minus
sign only if its level is that of a prefix minus or looser, or it begins with a negative
integer. `Fits` says of a node's parts that a fragment begins with a minus sign in
front only, and that only the unary minus ends in one, with its one operand behind it.
There the precedence of the operand has it bracketed, which is `NeedsParens` against
the enum, or it is a negative integer, which is what `SignedTwice` leaves out
(`Twice`). `Fitted`, that every node fits, is inductive; that every text is safe
follows by least counterexample (`RenderedSafe`).

**RendersEagerly**, **SharedRendersEagerly.** From the same invariant, which a
step of any thread preserves (`SharedPreserves`): building is a step of `Next` and
everything else leaves the nodes alone. A call adds one node or none
(`StepsGrow`); the text of a node depends on the nodes before it only
(`RenderLocal`, by least counterexample), so the texts that are there stay what
they were, and the new node's is put together from them as `EagerTexts` puts it
together (`StepEager`, `PieceShown`).

**NothingInUseIsGone.** `NothingDangles` is not inductive: that a node outlives
its last use rests on the counts. `Ownership` adds that the use count of a living
node is the number of handles, of parts of *living* nodes and of references
waiting to be let go of that name it (`Counted`), and that a rendering goes from a
node the thread can name to a part of it, and on to a part of that (`Walks`). When
the last reference goes, the count says that no handle, part or other pending
reference is left (`ReleaseKeepsOwnership`); a rendering's nodes are then alive,
the outermost because a handle owns it and each further one because the one
before does (`WalkLive`), which is why the plain references of `node.cpp:61` need
no count of their own. `Occurrences...` and `Spots...` count the places.

**RenderingsWriteTheirText.** What a prefix needs in order to be kept is what the calls
that are still in progress will write. `Rests` cuts the text of a node at its parts
(`TailsExist`, `TailsFlatten`); a call owes the rest from its next part on and the
bracket it opened (`OwedText`); `Owe` adds up what the calls on the stack owe, the
innermost first. The inductive invariant `Rendering` says that what is written and
what is owed make the text of the outermost call's node (`OnTrack`). A fragment moves
one part from what is owed to what is written; a child moves its opening bracket,
and its text and closing bracket become what the new call owes; a call that
returns owes its bracket alone. No other thread's step matters, for a node built
later changes no text (`OwedLocal`, from `RenderLocal`). The theorem is about the
values of the nodes, which the model keeps; that they are still there to be read is
`NothingInUseIsGone`.

**RejectedNeverRendered** and **AcceptedListsRendered.** Neither property is
inductive. `IInv` adds that a list held but never accepted keeps `SameArity`
false (`RejectedBreaksArity`), that an accepted list is the one held
(`AcceptedIsHeld`), and that a rendered text is the one of the present fields
(`TextIsCurrent`). The first theorem then follows from the check repeated in
`CanRender`, the second from where each list stands in `Statement`.

**ArityHolds.** `RenderedArity` reads the text and counts. `HoldsLists(ws, n)` says that
every bracket opened in `ws` is closed in it, with `n` commas in between, and goes
through concatenation (`ListsConcat`), so it is shown of one list (`TupleHoldsList`,
from the number of commas `JoinCsv` writes, `JoinedCommas`), of all rows by least
counterexample over `FlattenSeq` (`TuplesHoldLists`) and of the statement up to its
last row (`ListsPartHolds`). `FieldsPlain`, inductive by itself, adds that an ON
CONFLICT clause begins with its keyword, which is where the reader stops
(`ListsRead`); that the number is the same for every list is `CanRender` again.

**TextsReadBack.** As with expressions, nothing about whole texts is inductive. A text
is an operand, `IsOperand(text, tree, places)`, if in every state that waits for a part, with one
of `places` on top of the stack, it leads to the state that has read `tree`, and
complete, `IsComplete`, if it leads to one of which `Ended` makes what it makes of that. A join,
a SELECT and a WITH query are only complete (an alias, an ON or a further operand
would bind to their last part), and what a bracket closes is an operand again
(`BracketReads`). There is one lemma for each construct: an alias, the list of USING,
a join, a set operation, a select item, a SELECT, the list of CTEs, a WITH query. A
join is qualified after it was made, so `Qualifies` speaks of its text from its
second operand on, for whatever ON or USING stands there in the end. `ReadsAs` says
of each class of object which of its texts are operands and which are complete, and
`CtesRead` of the builder's list that it leads to the place of the main query. The
inductive invariant `Inv` is these two, for sound values and builders, with what
the next three theorems need. It speaks of every stack there is, so TLC cannot
evaluate it; the property that follows, at the bottom of the stack, is what TLC checks.
What the prover cannot do is induction over the reader: `ReadOnConcat` and
`EndedUnfolds` go by least counterexample, and everything else follows from these two.

**FormattedOnlyLaidOut.** `IndentBlock` puts four spaces behind every line break, which
are layout, so a block and its indented form have the same text without layout
(`IndentUnlaid`). `LaysOut` keeps this of the two texts of a WITH query and
`TextsFollow` of those of a builder; the others are laid out when they are rendered
(`ObjectLaidOut`). It is proved for sound values, as the brackets of a bare `Table`
in a CTE are the one difference there is.

**TypeCorrect** for tables. `QualifiedOnce` says of every join object what `TypeOK` says
by counting clauses, and that a natural join has none.

**CteNamesStayDifferent.** The code compares a new name with `names`, the
property speaks of the CTEs that were accepted. `NamesFollow`, a part of `Inv`, joins
the two: as many CTEs as names, each of its name, no two names equal. `With` extends
both (`OneMore`), a refused call neither, and `Main` consumes the builder or, when it
throws, takes the texts and leaves the names.

**Statements read back.** Both `PromiseKept` rest on one argument about texts, in
`TextLemmas`. The lists are joined by a recursive function whose separator
depends on the text so far (`render.cpp:18`); `Gathered` says what such a function
returns, and `JoinCsvUnfolds` and `JoinCsvIndentedUnfolds` how the text grows with
one more term. The reader is taken by the equation it satisfies (`ReadsTerms`; that
it exists is `TermsAheadExists`). A list of terms in front of a text whose reading
stops at once is read as that list (`ReadsAll`). `Says(k, ws)` states of a text
that it holds the clauses of a rank above `k` and no others, that each reads as
what was given, that reading stops at its front and that its keywords are in
order; `SaysMore` puts the clause of the next lower rank in front. So `StatementSays`
goes from the last clause of the grammar to the first, after the statement, which
the code puts together from the front and with choices in it, has been written as
the concatenation of its clauses (`StatementStated` for SELECT, `StatementParts` for
UPDATE and DELETE).

**GrammarOrderKept**, **FormattedIsTheStatement.** The order is one conjunct of `Says`.
`LaysOut(s, t)` says that `s` without its layout is `t`, and goes through
concatenation and through the two ways to join a list (`LaidLists`), so
`StatementLaidOut` follows the formatted rendering part by part. Layout is no keyword,
so the formatted text is in order because the plain one is (`UnlaidInOrder`).

**PromiseKept** for SELECT. `TypeOK` allows a clause to hold what a move leaves in it, an
emptied vector or a null condition inside its optional. `HoldsValues` says that this is
so after a move only: while there is a FROM item, a clause that is set holds what its
setter took. The inductive invariant is `TypeOK`, `HoldsValues` and
`ClausesInGrammarOrder`. A rendering asks `EnsureValid` first, and `from_` is what
stops it after a move, so the text that is read back never held such a value.
ORDER BY terms are read from the back, the placement of nulls first
(`SortTermReadsBack`).

**PromiseKept** for UPDATE and DELETE. `TypeOK` is the claim that every member is the joined
text of its terms; `JoinedTexts` has it follow from the terms not being empty that
the test `set_.empty()` of `Update::Set` finds out whether an assignment came before.
The inductive invariant adds that the terms are of `Text` and that a DELETE has no
assignments. `StatementNamesTable` is what a move leaves: an UPDATE that renders with
SET right behind UPDATE, and no DELETE at all.

`TextLemmas` begins with what recursive functions return, because the provers cannot
instantiate an induction theorem with an operator; it goes by least counterexample.

**CasesReadBack.** An argument that came out of `End` has WHENs, THENs and ENDs of its
own, which must not be taken for those of the CASE around it. `IsPart` says of a text
that the reader takes it as a piece of whatever part is at hand, `IsInner` that it does
so where a CASE is open already. A closed text is a part (`ClosedIsPart`): at each of
its tokens the reader has as many CASEs open as the text itself, by least
counterexample. The pairs are inner texts, so the whole from CASE to END is a part
again (`CaseIsPart`), and the next level may use it. `PairsRead` says of `whens` that
behind a CASE it leads the reader to the state that has read the pairs in `given`;
`Then` adds one (`PairsReadMore`), and `CaseTextReads` ends the text. The inductive
invariant is `TypeOK`, `PairsRead`, that all arguments and expressions held are parts,
and that a text just returned reads back.

Only model-checked: `LexemesReadBack`, whose reference lexer is a RECURSIVE operator,
which the prover cannot take, and the type invariant of `LexemeReading`, which EXTENDS
it; and the liveness properties `CallsEnd` and `NothingLeaks`: liveness under fairness
is beyond this prover.

## Plan

What is left, in this order:

1. A `TableWithColumns` as a FROM item and in select lists: lists whose first term
   has no text.
2. `DeleteFrom` as the query of a CTE, and moved-from values in `TableExprs`.
3. Proofs: `LexemesReadBack`, with a lexer that goes from left to right with a state,
   as `CaseReading` does.

## Not modelled

The text of exception messages, `userver.hpp` (a conversion to a driver type), the
examples and the build files. The order of static initialisation across
translation units is the linker's; the threads of `SharedNodes` start after it.
The depth of recursion has no bound in the model. Allocation failure is not
modelled, and sizes are unbounded integers: a `size_t` sum wraps round only for a
text of 2^64 characters, which cannot be built.
