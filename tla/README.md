# A verification project for pgify

pgify is a C library (`pgify.c`, `pgify.h`) and a filter program (`main.c`)
that turn MySQL statements into PostgreSQL statements. A lexer and a parser
generated by ANTLR 3 from `mysql.g` make a tree of the input; `TreeWalkWorker`
rewrites the tree in place and queues in the `WalkerState` the statements that
have no place in the tree; `TreeWalkPrinter` prints the tree, weaves the white
space and the comments of the source back into it, and appends the queue.

`PROJECT.json` lists the components, the runs with their properties, the
mutations each property is tested against, the hazards with the properties that
watch them, the findings, the theorems, and for every definition the source
lines it models.

## Inventory

| part | state it keeps | operations | what is hard about it |
|---|---|---|---|
| program (`main.c`) | options, the file name, what was read | `decode_switches`, `read_stdin`, `main` | switches in any order and form, input in pieces of a buffer, silent fallback to stdin |
| option parser (`getopt.c`, `getopt1.c`) | `argv` itself, `optind`, `nextchar`, `first_nonopt`, `last_nonopt` | `getopt_long`, `_getopt_internal`, `exchange` | permutes its input in place between calls, with three indices that lag behind each other |
| lexer (`mysqlLexer.c`, made of `mysql.g`) | position, start of the token, folding of letters, token vector | `mTokens` and its rules | rules fail half way; texts are changed; the flag that folds letters is turned off inside a rule |
| parser (`mysql.g`) | tree | `start_rule` | one hidden token for each blank, line break and comment; tokens that span lines; rewriting rules that drop and invent nodes |
| walker and its handlers (`pgify.c` 658-1066) | the tree, `ws->schemaName` | `TreeWalkWorker`; `use_database_worker`, `lock_tables_worker`, `rewrite_server_variables`, `show_tables_rewrite`, `show_columns_rewrite`, `rewrite_if_function`, `rewrite_found_rows` | recursion over lists the handlers shorten; a text counts only on a leaf |
| table rewriting (`create_table_worker`, 199-655, 853-863) | children of the node, `ws->postbuf` | nine passes | passes delete by position from the list they search, and read what later passes delete |
| printer (40-45, 1069-1144) | `tokenIndex`, the output | `TreeWalkPrinter`, `advance`, `advance_all`, `print_postbuf` | one cursor into the tokens shared by all calls along a rewritten tree |
| session (48-188) | a `WalkerState`, the objects of each tree | `walkerstate_new/free`, `pgify`, `pgify_string`, `pgify_string_tree`, `pgifytree_free` | the state outlives the calls; trees are printed in any order; every allocation may fail |
| `unquote`, `get_lower_text` (246-268) | a compiled pattern, made once for all threads | two conversions | once-only initialisation across threads |
| `xmalloc.c`, `system.h`, the other generated files, the build | - | - | not called, generated, or without behaviour |

How they interact: a call runs on its caller's thread, and the only thing two
threads share is the pattern of `unquote`. `main` asks `getopt_long` for one
option after another, finds its input and calls `pgify_string`. `pgify` makes
lexer, token stream and parser, parses, and calls the walker with the root; the
walker calls one handler for each node whose type has one, after it has walked
the node's subtree; `create_table_worker` appends to the queue in the state and
`use_database_worker` sets the prefix that the next `CREATE INDEX` gets; the
client prints a tree with `pgify_string_tree` whenever it likes, which empties
the queue. The shared state is thus the command line (program, option parser),
the option bits (program, lexer), the token vector (lexer, printer), the tree
(parser, walker, printer) and the `WalkerState` (all calls made with it).

## Modules

| module | models | implements / uses |
|---|---|---|
| `Options` | how one option is read off the head of a command line: the second half of `_getopt_internal` | |
| `Getopt` | `getopt_long` with its state, one action per branch of the first half and per turn of `exchange` | `Options`; implements `Scan` |
| `Scan` | what getopt promises: elements dealt out in order to options and operands | abstract; `Options` |
| `Lexer` | the lexer rules, how they fail, and `nextToken` around them | |
| `Program` | `main.c`, and the second caller of getopt | extends `Getopt` and `Lexer`; its tokens are an input of `Printer` |
| `Printer` | the printer, one action per turn of a loop | implements `Weave` |
| `Weave` | what printing promises: two streams woven into one | abstract |
| `CreateTable` | the nine passes over one table definition | |
| `Session` | the calls on one `WalkerState`, their failures, and the database that reads the output | what `CreateTable` queues is data here |
| `Walker` | the recursion and all handlers but that of `T_CREATE_TABLE` | `CreateTable` is that handler |
| `Unquote` | the once-only pattern, on any number of threads | GLib's once as `unquote` uses it |
| `...Proofs` | proofs about the module they are named for | |
| `MC...` | small inputs for TLC | |

**Getopt.** `argv` is permuted in place, indices are those of the code (without
the program's name); the locals of `exchange` are `bottom`, `middle`, `top`, and
`getopt` says which part of a call runs. An element is a sequence of
characters. An option read is one of `Options!Read`: how many elements it used,
what is left of a group of letters, what is returned and the argument. The
names of `Scan`'s variables in the refinement are `Taken`, `Operands` and `Todo`.

**Lexer.** A character stands for its class: the letters E and Q, which open
special literals, A for the others, one digit, each punctuation mark of a rule.
All words are one type, the keywords too. A rule is one action, guarded by what
`mTokens` predicts it with; the loop of `mQUOTED_STRING` is one action a turn,
because its state (which quote ends the string) is what can go wrong. `Emit` and
`Fail` are the runtime: a token, or an exception, after which the input goes on
up to `Recovery` characters later. `folding` is the upper-case `LA` of the stream.

**Program.** A world is a caller, a command line, the environment, the files that
can be opened, what stdin has and what may fail. `Switch` and `ShowAndExit` are
`decode_switches`, `OpenFile` to `EndOfStdin` the choice and reading of the input,
`Pgify` to `PrintResult` the call of the library, of which only the lexer runs
here. An allocation may fail where "memory" is among what is broken: without a file
stream stdin is read; without a stream made of stdin `pgify` follows a null pointer
(`NullInput`); when lexer, token stream or parser cannot be made, the cleanup frees
locals that have no value yet, so that the program dies (`Killed`) or exits with 0
(`PgifyFails`). GLib ends the process where one of its own allocations fails; that
is left out. `Vector` is the token vector with the lines and columns the stream counts;
`Printing` instantiates `Printer` to say that it may be printed.

**Unquote.** `pc` says where each thread is. What GLib does under its lock is one
step; a waiting thread leaves the lock, and is woken by the thread that made the
pattern.

**Printer.** A token is its channel, line and column; a tree is its nodes in
the order of the walk, each with the token it was made from (0 if invented);
a text is the token or leaf it comes from. Positions are exact, because
`advance` decides everything on lines and columns. `pc` says which of the three
loops runs, `tokenIndex` and `at` are its cursors.

**CreateTable.** `children` is the child list of the node, `pass` the function
that runs, `pos` and `inner` its variables `pos`, `defpos` and the position in a
column. A step is one turn of a search loop, with everything the turn deletes,
renames and queues. A token is its type and a text that tells it from others;
a queued statement is the names in it, and the columns of an index, with the ASC
or DESC behind them, are known by their places in the key.

**Session.** An input is a sequence of statements that use a schema, create a
table or do something else. `Begin`, one `Walk...` action per statement and
`ReturnTree`, `ReturnString` or `FailLate` make up a call; `FailEarly` is a
call whose lexer, stream or parser cannot be made. `heap` has the objects of
each call, `output` the statements the database has seen. What a client may
expect of the order of the output depends on what it does with its trees:
`InTurn` is a client that prints each tree it is given once, before it calls
again. A call that fails gives it no tree, and it goes on with the next. Printed
in another order, the first print flushes the queue of all trees.

**Walker.** `stack` is the C stack of `TreeWalkWorker`: a frame has the node,
the loop variable and whether the child it is at has been walked. `kids` and
`text` are the tree as the handlers leave it; `handled` remembers the order of
the handlers. `source` is the tree as parsed: its nodes are numbered in the order
of the source and `last` is the last node below one, so that a subtree is an
interval of numbers. A handler is one action. A SQL template is one piece of text, what is put into it are the
others. The result of `unquote` and `get_lower_text` is the constant `Bare`.

Slips (a name with a suffix such as `PrintLeafSkipping`) stand next to the
definitions they are a wrong version of. No action uses them; they are there to
show that the properties tell right from wrong.

## What is checked

| run | inputs | what it shows |
|---|---|---|
| `printer_rewritten` | all sources of up to 4 tokens of five kinds (word, blank, line break, string and comment that span lines), with all trees of up to 3 leaves taken from them in any order, repeated, or invented | nothing lost, repeated or reordered; hidden tokens never late, and never early where tokens end on their line; unrewritten one-liners unchanged; the printer ends; it implements `Weave` |
| `tables` | one column and all sequences of up to 4 constraints of five kinds; two columns of every kind, up to two table options, up to one constraint | commas, queue and rest agree after every turn; no key, foreign key or table option is left, nor the AUTO_INCREMENT and ON UPDATE of a column; NOT NULL ends where it should; a named index has the columns of its key, sorted as they are there; the sequence starts where the option says; the passes end |
| `session_clients` | two calls over inputs of up to 2 statements with 2 schemas, up to 3 prints, every failure | each queued statement is printed once and in order; for a client that prints in turn, also past failed calls, after its table and with the prefix of its schema, but for what the failed call left in the state; lexer, token stream, parser and tree belong to a live tree |
| `walker_statements` | every form of SHOW, SELECT with IF in IF, LOCK, USE; up to three in a row | each node handled once, inner first; nothing else touched; SHOW asks for what was named; the prefix leads the path; the walk ends |
| `threads` | four threads that call `unquote` twice each | one pattern is made, no thread uses it before it is stored, every call returns |
| `program` | command lines of up to 4 elements of seven kinds, with and without POSIXLY_CORRECT; refused options and broken reads; all arrangements of 6 operands, flags, options with an argument and `--` for the second caller of getopt; all inputs of up to 2 of 23 characters and up to 5 more behind what opens a string, a q-string, a number, a comment or a quoted name, with the conversions on and off | options and input are what the command line says; getopt implements `Scan`; the tokens tile the input, begin folded, are read by PostgreSQL as far as they reach and no further, and suit the printer; the program ends |

Why the bounds are enough to see the interesting cases: the printer's decisions
compare one token with one leaf, so that a disagreement needs at most a leaf
before, a hidden token and a leaf after it, on up to three lines; the table
passes delete a node and the one before it, so that four constraints cover two
adjacent deletions at the front, in the middle and at the end; with two calls a
state has a past, and a second tree can be printed before the first; three
statements put one handler before and one after another, and an IF in the
condition and in both branches of an IF is deeper than anything a handler looks
at. Six elements let `exchange` run twice with blocks of different lengths on
either side, and take more than one turn; `BUF_SIZE` is 4 so that a text of two
characters and one of six fall into one and into several chunks. A lexer rule
looks two characters ahead and the string loop three, so that four or five
characters behind an opening reach every branch and every place the input can
end in. Of four threads one makes the pattern, and the others may be in front
of the lock, waiting and past it at the same time; a second call finds it made.

Other bounds: `MaxCalls` and `MaxPrints` cap `Session`, `Calls` the threads;
`Recovery` is {1, 2}, how many characters the ANTLR runtime skips behind an
error (the proofs allow any set of positive numbers). No other variable grows
without limit.

`CHECK_DEADLOCK FALSE`: the printer, the passes, the walk and the program stop
when they are done, a client or a thread when it has made its calls.

Fairness: `WF_vars(Next)` in `Printer`, `CreateTable`, `Walker` and `Program`.
Each is a function, or a program, that runs on one thread, waits for nothing but
the end of its input and is not interrupted: it goes on as long as it can. In
`Unquote` it is `WF_vars(Thread(t))` for every thread: the scheduler runs each
thread, and a thread that was woken gets the mutex, which nobody holds for
longer than a step. `Session` has no fairness, because a client may stop at any
time, and no liveness property.

### Findings

Runs that end in a counterexample; each states what a comment or a test of the
repository says.

* `printer_string` (pgify.c:1079): `advance` accepts a hidden token if its
  column is not larger, on whatever line. Blanks behind a string that spans
  lines are printed in front of it.
* `table_unnamed_key` (pgify.c:352): the first column of a key without name is
  taken for its name and is missing from the index.
* `table_qualified` (pgify.c:290): for `CREATE TABLE db.t` the queued statements
  are about a table `db`.
* `session_wild` (pgify.c:116): the cleanup of `pgify` frees variables that have
  no value yet when an early allocation failed.
* `walker_variable` (pgify.c:915): the search for the name of a server variable
  begins at an uninitialised position.
* `walker_case` (pgify.c:963): the CASE for an IF becomes the text of an inner
  node, which the printer passes over; `IF(a, b, c)` is printed as `a`.

Seen while modelling, and not stated as a property because nothing in the
repository says otherwise:

* tables: a column of type DOUBLE is never respelled, since
  `create_rewrite_datatypes` looks at direct children only; the second of two
  adjacent ON UPDATE and a second AUTO_INCREMENT stay in the column (the
  properties exclude such columns by `OptionsOnce`); so does a second NOT NULL
  of a column with a date of zeros, and a date of zeros in an ON UPDATE is gone
  before the pass that looks for it (excluded by `NullSaidOnce`); a foreign key is queued
  without a prefix (pgify.c:482), so that behind a later USE it is looked for in
  that schema.
* tables: of the options of a column no pass looks for those that only MySQL has
  besides these two (COMMENT, COLUMN_FORMAT, STORAGE, KEY; mysql.g:275-278), and
  they stay.
* session: when only the last allocation of `pgify` fails (pgify.c:99-103), the walk
  has been done and its tree is freed, but what it did to the state stays. Its
  queue is printed with the next tree (pgify.c:140), an INDEX or an ALTER TABLE
  whose CREATE TABLE is in no output; and the prefix has moved to the schema of its
  USE (pgify.c:885), while no `SET search_path` was printed, so that the indexes of
  later tables get a prefix the tables are not created under, up to the next USE.
  `QueueFollowsCreate` and `PrefixNamesItsSchema` hold of the rest: the first leaves
  out the statements of the failed call itself, the second the tables that `UseLost`
  describes. Nothing in the repository says what should hold of them.
* session: `pgify_string` leaks its output string when `pgify` fails (pgify.c:132;
  `ObjectsOwned` is about the other objects); `state->psr` dangles after
  `pgifytree_free` and is never read.
* walker: a table named like the keyword FOUND_ROWS is rewritten to a call of
  `ws->found_rows` before SHOW COLUMNS reads its name (`ShowAnswered` excepts it);
  `SHOW TABLES FROM db` compares the schema with an identifier where
  `SHOW COLUMNS` has a literal; `UNLOCK TABLES` is dropped by the grammar; a
  handler is never called for the root, which does no harm because the
  end-of-file token makes the root a nil node.
* lexer: behind two backslashes `mQUOTED_STRING` takes along the quote that ends
  the string (`'a\\'` runs on), which `ReadAsOneLiteral` excludes by
  `DoubledBackslash`; `'\'` is closed by its second quote only at the very end
  of the input; a quote doubled in a string makes two tokens, each with a prefix
  E; folding stays off when a q-string fails, but it fails only where the input
  ends.
* program: what the usage calls `[FILE]...` is not read, only `-f` is; a file
  that cannot be opened is not reported, and stdin is read instead; `-e` and
  `-c` turn their conversions off; when the library fails and the program survives
  it, the exit status is still 0; the stream made of stdin is used without a look at
  whether there is one; a zero byte in stdin ends the chunk it is in for `g_string_append`.

## What is proved

For every value of the constants, with TLAPS:

* `PrinterProofs`: `TypeOK`, `NothingLost`, `StreamsInOrder`, `TriviaNotLate`,
  `TriviaNotEarly`, `OneLinersUnchanged` are invariants, and `Spec => Weaves`.
  The inductive invariant is `IInv`. The properties alone are not inductive:
  that a comment is in time follows from where the token cursor is, so `IInv`
  says what lies behind the two cursors (`Behind`, `Complete`), that a printed
  leaf has left no hidden token before it unprinted (`CaughtUp`), and that, where
  tokens end on their line, the cursor has passed no hidden token behind a leaf
  still to come (`NotAhead`). The refinement follows from the same invariant:
  the guards of `Weave` are what `Complete` and `CaughtUp` say.
* `CreateTableProofs`: `TypeOK`, `ListWellFormed`, `RestUntouched`,
  `ConstraintsAccounted`, `ColumnOptionsAccounted`, `SequenceStart`,
  `NothingForeign`, `NamedIndexKept` and `NullabilityKept`, that is all the safety
  properties of the passes that hold. `Steps` says once what a turn of a pass can do: rewrite a
  column where it stands, or take out one child or two; the rest argues about
  those kinds of steps. Whether a pass may delete the comma in front of what it
  found depends on the commas being right (`Inv`), and that the types next to
  each other fit after a deletion is a fact about the three types involved
  (`Closing`). `WInv` adds the cursors, the queue and what the grammar gave. No
  node of the source is known by its place, since places shift; that nothing else
  is touched is `Origin`: there is an increasing map from the children to those of
  the source, and what it misses is a constraint, a comma or an option. The two
  accounts are counts: copies of a constraint in the tree and its entries in the
  queue are one together, and for a column `Balance` says that its options and
  their statements in the queue add up to what the source has. That the passes
  leave nothing of what they look for is `Swept` and `Stripped`: what the cursor of a pass is
  past is free of what the pass looks for. A deletion moves children to the left
  of the cursor's old place, and keeps that because each search begins in front of
  what it deletes. For `NamedIndexKept` the invariant is that each queued index
  says what a key of the source says (`KeysSaid`); that the first name of a key
  that has one is its name, and the other words its columns, is a fact about keys
  (`IsKey`). `NullInv` says what `NullabilityKept` only says of the end: as long as
  the date pass is not past a column, the column has the NOT NULL and the date of
  zeros of its source, so the pass decides as if it saw the source; behind the pass
  the column is as it should be, and nothing changes that any more. The CHECK made
  of an ENUM and the ON UPDATE taken out are where it could go wrong
  (`EnumNots`, `ColumnTurns`).
* `SessionProofs`: all the properties of `Session`. `ObjectsOwned` follows from
  `CallsOK` (only the last call can be walking) and `FutureEmpty` (nothing is
  owned by a call still to come, without which `Begin` could find the objects of
  its number already there). `QueueConserved` is a count over what was printed and
  what waits, one for each statement that a walk of a call that may have failed
  has passed; the lemmas about counting say how it goes over a concatenation.
  `QueueInOrder` follows from `QueueInv`: output and queue are ordered, and
  everything printed is before everything that waits. `QueueFollowsCreate` and
  `PrefixNamesItsSchema` are about what was printed, and not inductive: a prefix
  is chosen while the database has not seen anything of the tree yet. `TurnInv`
  therefore looks ahead to what the database will have seen when the last tree is
  printed (`Virtual`); a client that prints in turn has no other tree left to print
  (`NothingPending`). `ws->schemaName` is the schema at the end of `Virtual`
  (`Agrees`), unless a call failed behind a USE and no USE has come since (`Lost`).
  Each statement in the queue was left by a failed call or belongs to a CREATE of
  the last tree and has the schema at its place (`Waits`); of what was printed the
  two properties hold (`Follows`, `Prefixed`). A call that is made, that returns,
  or that fails, a step of the walk and a printing keep this, a lemma for each
  (`TurnCall` to `TurnPrints`). When a call fails, its tree drops out of `Virtual`, and
  what that takes from the invariant is what the exceptions say.
* `WalkerProofs`: all the safety properties of `Walker` that hold. The recursion is
  `WalkInv`: the calls that run are a path (`Path`) of nodes whose lists are still
  as parsed (`Lists`), because no handler was called for them; all that was
  handled lies behind the cursor of every call (`Behind`) and all that still has to
  be in front of one (`InFront`), from which `HandledBottomUp` follows when the
  stack is empty. It needs that the subtrees of the children fill the subtree of
  their parent (`Tiles`), which is a fact about the numbering. A handler is a step
  that passes a child (`Passes`), whatever it does below that child, so
  that the recursion is proved without looking into one. What the handlers do is
  `Rewrote(c)`: all of it is done to the children of `c`, or to `c`, which no other
  handler reaches but `FoundRows`, the only one whose node may be a child another
  one reads. `RewriteInv` collects what has been done below all that was handled:
  which children are left (`ListInv`), which texts may differ (`TextInv`), that a
  SHOW has its answer (`AnswerInv`). `OthersKept` is about the end, where everything
  has been handled: a leaf hangs on the root iff no node above it was taken out.
* `UnquoteProofs`: `OneForAll`, from `IInv`. That one pattern is made follows
  from one thread at most being at it (`OneMaker`) and from what the location
  says at each of its steps (`Progress`): between storing the location and
  leaving the list both are set, so neither alone tells that a pattern exists.
* `LexerProofs`: every rule keeps `LexerInv`: `CursorsOK`, `Tiled` and
  `FoldsAtTokens`. Tiling needs to know that a token begins where the last one
  ended (`pos = start` between tokens); folding, that `mQS_OTHER` cannot fail
  in front of the end of the input, because its loop takes every character.
  `StringsInv` says what the turns of `mQUOTED_STRING` have left behind in the
  string they are in: a quote only behind a backslash, and what the last turn
  took; and that a string token is a piece of the source made like that, with the
  prefix (`IsString`).
* `GetoptProofs`: every step keeps `GetoptInv` and is a step of `Scan` or none.
  `exchange` moves elements while the abstract sequences must stand still; what
  its turns leave alone is the command line as it will be when it is done,
  `Rotated(argv, bottom, middle, top)`, so the refinement mapping takes options
  and operands from that one (`Settled`). `GetoptInv` says for each place in a
  call how far `first_nonopt`, `last_nonopt` and `optind` may have come apart,
  since the first two catch up with the third only in the next call.
* `ProgramProofs`: from the last two, theorems of the program: `Tiled`,
  `FoldsAtTokens`, `TypeOK`, `Scans` (`Spec => Scans`: for every table of
  options and every command line), and `PrinterInput`: what the printer's
  theorems assume of the token vector is what the lexer leaves behind, because
  tokens that do not overlap have rising lines and, on one line, rising columns.
  And two that compare the program with a reading of its input by hand:
  `ReadAsOneLiteral`, from `StringsInv`: the places PostgreSQL's reading of such a
  text comes to are never behind a backslash, so that it is closed by its last
  quote only. `AsCommanded`, from `CommandInv` and `InputInv`. `CommandInv` says
  that the switches set so far, the option `getopt_long` told last and what the rest of
  the command line says are together what all of it says (`Reads`). The rest of the
  command line is `Scan`'s: the steps of the program are steps of `Scan`, so that
  `exchange` needs no second argument. `InputInv` follows the input into the
  buffer, in chunks of any size, and into the lexer.
  Both readings (`ClosesAt`, `Meaning`) are recursive functions over a text, from
  its end on. Induction is out of reach, so it is first shown that there is such a
  function at all (`FromTheEnd`), and what it gives is found with a least
  counterexample, which needs no more than that `<` on the numbers is well-founded.

Assumptions: `InputsAssumption` (the lexer emits tokens from left to right -
`PrinterInput` is that - and leaves come from visible tokens),
`TablesAssumption` (what the grammar makes of CREATE TABLE, with the columns of a
key in parentheses and no NOT without NULL; that the texts of two
constraints, which are tokens of a model, differ, and MySQL's rule that the names
of two columns do, are what the accounts tell them apart by), `SourcesAssumption`
(what the grammar makes of the other statements, and the numbering of nodes),
`BareAssumption` (`get_lower_text` returns a string), `SpelledAssumption` and
`WrittenAssumption` (a literal is a string, which the provers do not know),
`ScriptsAssumption`, `BoundsAssumption`, `CallsAssumption`, `CharactersAssumption` (the mark for the
end of the input is no character, some characters exist), `ZeroDatesAssumption`
(the two dates are not empty), `RecoveryAssumption` (an error skips something),
`FilesTableAssumption` (the letters and the long options of `decode_switches`: no
long one has an argument, and the first letter of its name tells which it is)
and `WorldsAssumption` (command lines, files and stdin are sequences of
characters; a file that opens is not empty; the stdin buffer has room for one
character). TLC evaluates each of them on the inputs of a run.

Only model-checked: the liveness properties (fairness and ENABLED are out of the
prover's reach, and the proofs about `Unquote` and `CreateTable` leave their
termination to TLC). Every safety property of a passing run is a theorem.

## What is not modelled, and why

* Recognition: what the grammar accepts. It is the job of the parser generator,
  and the parser it made is not in the repository; the shape of what it builds
  enters the models as the well-formedness of their inputs.
* The 530 keyword rules of the lexer, and the tables with which `mTokens` tells
  keywords from each other (mysqlLexer.c, some 70,000 of its 85,400 lines): they
  are one kind of word here, and differ in nothing but their letters.
* The words of the SQL templates, and what PostgreSQL makes of them. The
  database of `Session` knows tables, schemas and its search path only.
* Of getopt: option strings that begin with `-` or `:` or contain `W;` or `::`,
  `getopt_long_only`, and the messages; no caller in the repository gets there.
* `mysqlParser.h`, `mysqlLexer.h` (declarations), `xmalloc.c` (not called by the
  library), `system.h`, the build files.

Most of the lines of the sources that no definition stands for are the
generated ones just named.

## Plan

The most important behaviour came first, and is done: `Printer` and `Weave`;
`CreateTable`; `Session`; `Walker`; `Unquote`; `Getopt` and `Scan`; `Lexer`;
`Program`. What is left, in this order:

1. Proofs: the lemmas shared by several proof modules in one of their own.
2. `Grammar`: the rewriting rules of `mysql.g` that transform functions, LIMIT,
   INTERVAL and the like while the tree is built.
3. A composition of `Walker` and `Printer` over one tree: what is printed of a
   rewritten statement, with its comments.
