-------------------------------- MODULE Walker --------------------------------
(***************************************************************************)
(* TreeWalkWorker of pgify.c with the handlers it calls, all but that of   *)
(* T_CREATE_TABLE (CreateTable): one recursive walk over a tree of         *)
(* statements, which rewrites a child after its subtree, and deletes nodes *)
(* of the tree it walks over.                                              *)
(*                                                                         *)
(* What is abstracted: a type is named without its T_ or K_; a text is the *)
(* sequence of the pieces that are told apart, a template one piece and    *)
(* what is put into it others.  Nodes are numbered in the order of the     *)
(* source, 1 is the nil root, so that a subtree is the nodes from its root *)
(* to the last one in it.  Positions count from 1, and a search that fails *)
(* (-1 in the code) gives 0.                                               *)
(***************************************************************************)
EXTENDS Integers, Sequences, FiniteSets, SequencesExt, FiniteSetsExt

CONSTANTS
  Sources,   (* the parsed inputs                                          *)
  Bare       (* get_lower_text, and unquote: lower case and no quotes      *)

(* The types that have a handler, besides T_CREATE_TABLE.                  *)
Rewritten == {"USE_DATABASE", "LOCK_TABLE", "SERVER_VARIABLE", "SHOW_TABLES",
              "SHOW_COLUMNS", "FUNCTION_IF", "FOUND_ROWS"}

Node == [type : STRING, text : Seq(STRING), parent : Nat, last : Nat, kids : Seq(Nat)]

(* m stands below n.                                                       *)
Below(src, m, n) == n < m /\ m <= src[n].last

(* What the numbers of the nodes say of the tree.                          *)
InOrder(src, n) ==
  /\ src[n].last \in n .. Len(src)
  /\ n > 1 => src[n].parent \in 1 .. n - 1 /\ Below(src, n, src[n].parent)
  /\ \A m \in DOMAIN src :
       Below(src, m, n) => src[m].last <= src[n].last /\ n <= src[m].parent
  /\ Range(src[n].kids) = {m \in DOMAIN src : src[m].parent = n}
  /\ \A p, q \in DOMAIN src[n].kids : p < q => src[n].kids[p] < src[n].kids[q]

(* What the grammar makes of the statements that are rewritten.  The name  *)
(* in a FROM is any word that is no reserved one, FOUND_ROWS among them.   *)
Grammatical(src, n) ==
  LET type == src[n].type
      list == src[n].kids
      Is(p, t) == src[list[p]].type = t
      Count(t) == Cardinality({p \in DOMAIN list : Is(p, t)})
      ANameIn(p) == LET words == src[list[p]].text
                    IN  words # << >> /\ words[1] \in DOMAIN Bare
  IN  /\ type # "CREATE_TABLE"
      /\ type \in {"FOUND_ROWS", "EOF"} => list = << >>
      /\ type \in {"SHOW_TABLES", "SHOW_COLUMNS"} =>
           list # << >> /\ Is(1, "SHOW") /\ Count("FULL") <= 1
      /\ type = "SHOW_TABLES" => Count("TABLES") = 1 /\ Count("SHOW_FROM") <= 1
      /\ type = "SHOW_COLUMNS" => Count("TABLES") = 0 /\ Count("SHOW_FROM") \in {1, 2}
      /\ type = "SHOW_FROM" =>
           Len(list) = 1 /\ (Is(1, "ID") \/ Is(1, "FOUND_ROWS")) /\ ANameIn(1)
      /\ type = "USE_DATABASE" => Count("USE") = 1 /\ Count("ID") = 1
      /\ type = "SERVER_VARIABLE" => Len(list) = 1 /\ Is(1, "ID") /\ ANameIn(1)
      /\ type = "FUNCTION_IF" => Len(list) = 3 /\ \A p \in 1 .. 3 : Is(p, "CALL_PARAMETER")
      /\ type = "CALL_PARAMETER" => list # << >>

WellFormed(src) ==
  /\ src \in Seq(Node) /\ src # << >>
  /\ src[1].type = "nil" /\ src[1].parent = 0 /\ src[1].last = Len(src)
  /\ \A n \in DOMAIN src : InOrder(src, n) /\ Grammatical(src, n)

ASSUME SourcesAssumption == \A src \in Sources : WellFormed(src)

(* The pieces of text that the handlers write (the provers do not know a   *)
(* literal for a string); get_lower_text takes any text.                   *)
Written == {"SET_search_path", ",public", ".", "VERSION_SQL", "ws->found_rows", "AS", "CASE",
            "TABLES", "COLUMNS", "full", "normal", "current_schema()", "WHERE", ""}
ASSUME WrittenAssumption == Written \subseteq STRING
ASSUME BareAssumption == Bare \in [DOMAIN Bare -> STRING] /\ "ws->found_rows" \in DOMAIN Bare

VARIABLES
  source,      (* the tree as parsed, chosen once                          *)
  kids,        (* the children of each node                                *)
  text,        (* the text of each node                                    *)
  schemaName,  (* ws->schemaName                                           *)
  stack,       (* the calls of TreeWalkWorker that run                     *)
  handled      (* the nodes a handler was called for, in order             *)

vars == <<source, kids, text, schemaName, stack, handled>>

(* A call of TreeWalkWorker: its node, its loop variable, and whether the  *)
(* child it is at has been walked.                                         *)
Frame(n) == [node |-> n, c |-> 1, walked |-> FALSE]

Top   == stack[Len(stack)]
child == kids[Top.node][Top.c]
AtChild == stack # << >> /\ Top.c <= Len(kids[Top.node])
Done    == stack = << >>

(* look_ahead_index from the first child, deleteChild of what it finds.    *)
Find(list, type)    == SelectInSeq(list, LAMBDA m : source[m].type = type)
Has(list, type)     == Find(list, type) > 0
Without(list, type) == IF Has(list, type) THEN RemoveAt(list, Find(list, type)) ELSE list

-----------------------------------------------------------------------------
(* A slip: the loop begins in front of the first child.                    *)
InitBefore ==
  /\ source \in Sources
  /\ kids = [n \in DOMAIN source |-> source[n].kids]
  /\ text = [n \in DOMAIN source |-> source[n].text]
  /\ schemaName = << >>
  /\ stack = <<[Frame(1) EXCEPT !.c = 0, !.walked = TRUE]>>
  /\ handled = << >>

(* pgify calls TreeWalkWorker with the root.                               *)
Init ==
  /\ source \in Sources
  /\ kids = [n \in DOMAIN source |-> source[n].kids]
  /\ text = [n \in DOMAIN source |-> source[n].text]
  /\ schemaName = << >>
  /\ stack = <<Frame(1)>>
  /\ handled = << >>

(* A child that has children is walked first.                              *)
Descend ==
  /\ AtChild /\ ~Top.walked /\ kids[child] # << >>
  /\ stack' = Append([stack EXCEPT ![Len(stack)].walked = TRUE], Frame(child))
  /\ UNCHANGED <<source, kids, text, schemaName, handled>>

Return ==
  /\ ~Done /\ ~AtChild
  /\ stack' = Front(stack)
  /\ UNCHANGED <<source, kids, text, schemaName, handled>>

(* A slip: the handler is called instead of the walk.                      *)
WalkedBelowAlways == TRUE
WalkedBelow == Top.walked \/ kids[child] = << >>

NextChild ==
  stack' = [stack EXCEPT ![Len(stack)].c = @ + 1, ![Len(stack)].walked = FALSE]

(* What every handler has in common.                                       *)
Handle(type) ==
  /\ AtChild /\ WalkedBelow /\ source[child].type = type
  /\ handled' = Append(handled, child)
  /\ NextChild
  /\ UNCHANGED source

(* A slip: the increment is left out.                                      *)
PassChildStuck ==
  /\ AtChild /\ WalkedBelow /\ source[child].type \notin Rewritten
  /\ UNCHANGED vars
PassChild ==
  /\ AtChild /\ WalkedBelow /\ source[child].type \notin Rewritten
  /\ NextChild
  /\ UNCHANGED <<source, kids, text, schemaName, handled>>

-----------------------------------------------------------------------------
(* use_database_worker.  The slip: the prefix is made of the search path.  *)
UseDatabaseLate ==
  LET list == kids[child]
      use  == list[Find(list, "USE")]
      id   == list[Find(list, "ID")]
  IN  /\ Handle("USE_DATABASE")
      /\ text' = [text EXCEPT ![use] = <<"SET_search_path">>, ![id] = Append(@, ",public")]
      /\ schemaName' = Append(text[id], ",public") \o <<".">>
      /\ UNCHANGED kids
UseDatabase ==
  LET list == kids[child]
      use  == list[Find(list, "USE")]
      id   == list[Find(list, "ID")]
  IN  /\ Handle("USE_DATABASE")
      /\ text' = [text EXCEPT ![use] = <<"SET_search_path">>, ![id] = Append(@, ",public")]
      /\ schemaName' = Append(text[id], ".")
      /\ UNCHANGED kids

(* lock_tables_worker: nothing of the statement is left.                   *)
LockTables ==
  /\ Handle("LOCK_TABLE")
  /\ text' = [text EXCEPT ![child] = << >>]
  /\ kids' = [kids EXCEPT ![child] = << >>]
  /\ UNCHANGED schemaName

(* rewrite_server_variables.  look_ahead_down begins where an              *)
(* uninitialised variable says: at the one child there is, or behind it.   *)
IsVersion(name) == Bare[name[1]] \in {"version", "version_comment"}
ServerVariable ==
  \E pos \in {1, 2} :
    LET list  == kids[child]
        found == pos \in DOMAIN list
    IN  /\ Handle("SERVER_VARIABLE")
        /\ text' = IF found /\ IsVersion(text[list[pos]])
                   THEN [text EXCEPT ![list[pos]] = <<"VERSION_SQL">>] ELSE text
        /\ UNCHANGED <<kids, schemaName>>

(* The name in a FROM, its first child.                                    *)
Name(from) == Bare[text[kids[from][1]][1]]

(* The query that stands in for a SHOW, in the place of its first word.    *)
Tables(columns, schema, where)         == <<"TABLES", columns, schema, where>>
Columns(columns, table, schema, where) == <<"COLUMNS", columns, table, schema, where>>

(* show_tables_rewrite                                                     *)
ShowTables ==
  LET list    == kids[child]
      schema  == IF Has(list, "SHOW_FROM") THEN Name(list[Find(list, "SHOW_FROM")])
                 ELSE "current_schema()"
      where   == IF Has(list, "SHOW_LIKE") THEN "WHERE" ELSE ""
      columns == IF Has(list, "FULL") THEN "full" ELSE "normal"
  IN  /\ Handle("SHOW_TABLES")
      /\ text' = [text EXCEPT ![list[Find(list, "SHOW")]] = Tables(columns, schema, where)]
      /\ kids' = [kids EXCEPT ![child] =
                    Without(Without(Without(list, "SHOW_FROM"), "FULL"), "TABLES")]
      /\ UNCHANGED schemaName

(* show_columns_rewrite: the second search for a FROM finds another one    *)
(* because the first was deleted.  The slip: it was not.                   *)
ShowColumnsTwice ==
  LET list    == Without(kids[child], "FULL")
      table   == Name(list[Find(list, "SHOW_FROM")])
      schema  == IF Has(list, "SHOW_FROM") THEN table ELSE "current_schema()"
      columns == IF Has(kids[child], "FULL") THEN "full" ELSE "normal"
      where   == IF Has(list, "SHOW_LIKE") THEN "WHERE" ELSE ""
      show    == list[Find(list, "SHOW")]
  IN  /\ Handle("SHOW_COLUMNS")
      /\ text' = [text EXCEPT ![show] = Columns(columns, table, schema, where)]
      /\ kids' = [kids EXCEPT ![child] = Without(Without(list, "SHOW_FROM"), "SHOW_FROM")]
      /\ UNCHANGED schemaName
ShowColumns ==
  LET list    == Without(kids[child], "FULL")
      rest    == Without(list, "SHOW_FROM")
      table   == IF Has(list, "SHOW_FROM") THEN Name(list[Find(list, "SHOW_FROM")]) ELSE ""
      schema  == IF Has(rest, "SHOW_FROM") THEN Name(rest[Find(rest, "SHOW_FROM")])
                 ELSE "current_schema()"
      columns == IF Has(kids[child], "FULL") THEN "full" ELSE "normal"
      where   == IF Has(rest, "SHOW_LIKE") THEN "WHERE" ELSE ""
      show    == rest[Find(rest, "SHOW")]
  IN  /\ Handle("SHOW_COLUMNS")
      /\ text' = [text EXCEPT ![show] = Columns(columns, table, schema, where)]
      /\ kids' = [kids EXCEPT ![child] = Without(rest, "SHOW_FROM")]
      /\ UNCHANGED schemaName

(* rewrite_if_function: the CASE becomes the text of the first parameter,  *)
(* and the second child is deleted twice.  The slip: the second and the    *)
(* third are, by their old positions.                                      *)
Case(list) == <<"CASE">> \o text[list[1]] \o text[list[2]] \o text[list[3]]
FunctionIfSkipping ==
  LET list == kids[child]
  IN  /\ Handle("FUNCTION_IF")
      /\ text' = [text EXCEPT ![list[1]] = Case(list)]
      /\ kids' = [kids EXCEPT ![child] = RemoveAt(list, 2)]
      /\ UNCHANGED schemaName
FunctionIf ==
  LET list == kids[child]
  IN  /\ Handle("FUNCTION_IF")
      /\ text' = [text EXCEPT ![list[1]] = Case(list)]
      /\ kids' = [kids EXCEPT ![child] = RemoveAt(RemoveAt(list, 2), 2)]
      /\ UNCHANGED schemaName

(* rewrite_found_rows                                                      *)
FoundRows ==
  /\ Handle("FOUND_ROWS")
  /\ text' = [text EXCEPT ![child] = <<"ws->found_rows", "AS">>]
  /\ UNCHANGED <<kids, schemaName>>

Next ==
  \/ Descend \/ Return \/ PassChild
  \/ UseDatabase \/ LockTables \/ ServerVariable \/ ShowTables \/ ShowColumns
  \/ FunctionIf \/ FoundRows

Spec == Init /\ [][Next]_vars

(* One thread, no callback: a step that is possible is taken.              *)
FairSpec == Spec /\ WF_vars(Next)

-----------------------------------------------------------------------------
(* The calls that run stand below each other, children only get fewer and  *)
(* keep their order, and the loop variable of each call is in its list or  *)
(* one behind.                                                             *)
TypeOK ==
  /\ DOMAIN kids = DOMAIN source /\ DOMAIN text = DOMAIN source
  /\ \A n \in DOMAIN source :
       /\ text[n] \in Seq(STRING)
       /\ \A p, q \in DOMAIN kids[n] : p < q => kids[n][p] < kids[n][q]
       /\ \A p \in DOMAIN kids[n] : source[kids[n][p]].parent = n
  /\ \A i \in DOMAIN stack : stack[i].c \in 1 .. Len(kids[stack[i].node]) + 1
  /\ \A i \in 2 .. Len(stack) :
       stack[i - 1].walked /\ stack[i].node = kids[stack[i - 1].node][stack[i - 1].c]
  /\ handled \in Seq({n \in DOMAIN source : source[n].type \in Rewritten})

(* The handlers run from the inside out and from left to right, each node  *)
(* once, also those in an expression that is then thrown away: a handler   *)
(* never sees a subtree that is rewritten later, and none is missed because *)
(* children moved up (the recursion of TreeWalkWorker and its loop over a  *)
(* list that the handlers shorten).                                        *)
HandledBottomUp ==
  /\ \A i, j \in DOMAIN handled :
       i < j => IF Below(source, handled[i], handled[j]) THEN TRUE
                ELSE handled[i] < handled[j] /\ ~Below(source, handled[j], handled[i])
  /\ Done => Range(handled) = {n \in DOMAIN source : source[n].type \in Rewritten}

(* What the rewriting takes out: a lock with all below it, the words of a  *)
(* SHOW that its query stands in for, two expressions of an IF.            *)
TakenOut(m) ==
  LET n == source[m].parent
  IN  /\ n > 0
      /\ \/ source[n].type = "LOCK_TABLE"
         \/ /\ source[n].type \in {"SHOW_TABLES", "SHOW_COLUMNS"}
            /\ source[m].type \in {"FULL", "TABLES", "SHOW_FROM"}
         \/ source[n].type = "FUNCTION_IF" /\ m # source[n].kids[1]
Gone(m) == TakenOut(m) \/ \E n \in DOMAIN source : TakenOut(n) /\ Below(source, m, n)

(* What a handler may change the text of.                                  *)
Renamed(m) ==
  \/ source[m].type \in {"LOCK_TABLE", "FOUND_ROWS"}
  \/ /\ source[m].parent > 0
     /\ LET type == source[source[m].parent].type
        IN  \/ type = "USE_DATABASE"
            \/ type = "SERVER_VARIABLE" /\ IsVersion(source[m].text)
            \/ type \in {"SHOW_TABLES", "SHOW_COLUMNS"} /\ source[m].type = "SHOW"

(* What TreeWalkPrinter comes to: leaves that hang on the root.            *)
Attached(m) ==
  \A n \in 2 .. m : n = m \/ Below(source, m, n) => n \in Range(kids[source[n].parent])
Printed == {m \in 2 .. Len(source) :
              kids[m] = << >> /\ source[m].type # "EOF" /\ Attached(m)}

(* Nothing else is touched: when the walk is over, the leaves that were    *)
(* neither taken out nor renamed are printed as they were parsed, in       *)
(* particular the LIKE or WHERE of a SHOW, and of a lock one empty text.   *)
OthersKept ==
  Done =>
    /\ Printed = {m \in 2 .. Len(source) :
                    /\ source[m].kids = << >> \/ source[m].type = "LOCK_TABLE"
                    /\ source[m].type # "EOF" /\ ~Gone(m)}
    /\ \A m \in Printed :
         /\ ~Renamed(m) => text[m] = source[m].text
         /\ source[m].type = "LOCK_TABLE" => text[m] = << >>

(* A SHOW is answered for what was asked: the query has the columns, the   *)
(* table and the schema that the statement named, the table first if it    *)
(* named two, and it says WHERE where the statement said LIKE              *)
(* (show_tables_rewrite, show_columns_rewrite).  A table whose name is the *)
(* keyword FOUND_ROWS is excepted: rewrite_found_rows gets the name first. *)
Asked(n, type) == {m \in Range(source[n].kids) : source[m].type = type}
NameIn(from)   == source[source[from].kids[1]]
ShowAnswered ==
  Done =>
    \A n \in DOMAIN source :
      LET show    == source[n].kids[1]
          froms   == Asked(n, "SHOW_FROM")
          columns == IF Asked(n, "FULL") = {} THEN "normal" ELSE "full"
          where   == IF Asked(n, "SHOW_LIKE") = {} THEN "" ELSE "WHERE"
          Said(set) == IF set = {} THEN "current_schema()" ELSE Bare[NameIn(Min(set)).text[1]]
      IN  (\A from \in froms : NameIn(from).type # "FOUND_ROWS") =>
            /\ source[n].type = "SHOW_TABLES" => text[show] = Tables(columns, Said(froms), where)
            /\ source[n].type = "SHOW_COLUMNS" =>
                 text[show] = Columns(columns, Said(froms), Said(froms \ {Min(froms)}), where)

(* The prefix of the statements that are queued from here on is the schema *)
(* that the last USE puts in front of the search path                      *)
(* (use_database_worker reads the name before it appends to it).           *)
PrefixLeadsThePath ==
  \A i \in DOMAIN handled :
    source[handled[i]].type = "USE_DATABASE" =>
      \A id \in Asked(handled[i], "ID") :
        /\ text[id] = source[id].text \o <<",public">>
        /\ (\A j \in i + 1 .. Len(handled) : source[handled[j]].type # "USE_DATABASE") =>
             schemaName = source[id].text \o <<".">>

(* The walk ends, whatever it deletes on its way.                          *)
Terminates == <>Done

(* What does not hold: the version of the server is always asked from      *)
(* PostgreSQL (test/testvariable.sh);                                      *)
VersionRewritten ==
  Done => \A n \in DOMAIN source :
            LET name == source[n].kids[1]
            IN  source[n].type = "SERVER_VARIABLE" /\ IsVersion(source[name].text) =>
                  text[name] = <<"VERSION_SQL">>

(* and an IF is printed as the CASE that stands for it, with all its       *)
(* expressions (the comments in rewrite_if_function).                      *)
IfBecomesCase ==
  Done => \A n \in DOMAIN source :
            source[n].type = "FUNCTION_IF" /\ ~Gone(n) =>
              \E m \in Printed : Below(source, m, n) /\ text[m] # << >> /\ text[m][1] = "CASE"
=============================================================================
