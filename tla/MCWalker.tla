------------------------------ MODULE MCWalker ------------------------------
(***************************************************************************)
(* Small inputs for Walker: statements of every kind that a handler is     *)
(* for, alone, in pairs and nested.                                        *)
(***************************************************************************)
EXTENDS Walker, TLC

CONSTANTS
  Names,        (* the names in a FROM, as written                         *)
  Expressions,  (* "plain": without IF; "nested": IF in IF                 *)
  Length        (* bound: statements of an input that has more than one    *)

BareNames == "wp" :> "wp" @@ "'Blog'" :> "blog" @@ "Version" :> "version"
             @@ "hostname" :> "hostname" @@ "FOUND_ROWS" :> "found_rows"
             @@ "ws->found_rows" :> "ws->found_rows"

(* A tree is written down root first; a subtree is appended to it.         *)
Leaf(type, words) ==
  <<[type |-> type, text |-> words, parent |-> 0, last |-> 1, kids |-> << >>]>>
Under(root, subtree) ==
  LET by == Len(root)
      Moved(node) == [node EXCEPT !.parent = IF @ = 0 THEN 1 ELSE @ + by, !.last = @ + by,
                                  !.kids = [p \in DOMAIN @ |-> @[p] + by]]
  IN  [root EXCEPT ![1].last = by + Len(subtree), ![1].kids = Append(@, by + 1)]
      \o [m \in DOMAIN subtree |-> Moved(subtree[m])]
Tree(type, subtrees) == FoldLeft(Under, Leaf(type, <<type>>), subtrees)

ID(name)        == Leaf("ID", <<name>>)
Word(type)      == Leaf(type, <<type>>)
From(name)      == Tree("SHOW_FROM", <<IF name = "FOUND_ROWS" THEN Word(name) ELSE ID(name)>>)
Variable(name)  == Tree("SERVER_VARIABLE", <<ID(name)>>)
If(a, b, c)     == Tree("FUNCTION_IF", <<Tree("CALL_PARAMETER", <<a>>),
                        Tree("CALL_PARAMETER", <<b>>), Tree("CALL_PARAMETER", <<c>>)>>)
Select(e)       == Tree("SELECT_STATEMENT", <<Word("SELECT"), e, Word("SEMI")>>)

Plain == {ID("wp"), Variable("Version"), Variable("hostname"), Word("FOUND_ROWS")}
Ifs   == {If(a, b, c) : a, b, c \in {ID("wp"), Word("FOUND_ROWS"), Variable("hostname")}}
Nested == {If(i, i, Word("FOUND_ROWS")) : i \in Ifs}
          \union {If(Word("FOUND_ROWS"), ID("wp"), i) : i \in Ifs}
Expression == IF Expressions = "plain" THEN Plain ELSE Plain \union Ifs \union Nested

Where(e)  == Tree("WHERE", <<Word("WHERE"), e>>)
Like      == Tree("SHOW_LIKE", <<Word("LIKE"), Leaf("QUOTED_STRING", <<"'p%'">>)>>)
Filters   == {<< >>, <<Like>>} \union {<<Where(e)>> : e \in Plain}
Fulls     == {<< >>, <<Word("FULL")>>}
Froms     == {<<From(a)>> : a \in Names}
TwoFroms  == {<<From(a), From(b)>> : a, b \in Names}

Show(type, words, froms) ==
  {Tree(type, <<Word("SHOW")>> \o full \o words \o from \o filter \o <<Word("SEMI")>>) :
     full \in Fulls, from \in froms, filter \in Filters}

Statements ==
  {<<s>> : s \in {Select(e) : e \in Expression}
                 \union Show("SHOW_TABLES", <<Word("TABLES")>>, Froms \union {<< >>})
                 \union Show("SHOW_COLUMNS", << >>, Froms \union TwoFroms)
                 \union {Tree("LOCK_TABLE", <<Word("LOCK"), Word("TABLES"), ID("wp"), Word("WRITE")>>)}}
  \union {<<Leaf("TRANSFORM", <<"">>), Tree("USE_DATABASE", <<Word("USE"), ID(a), Word("SEMI")>>)>> :
            a \in Names \ {"FOUND_ROWS"}}

(* One statement of any form, or some of the forms one after the other.    *)
Some == {s \in Statements : Len(s) = 2} \union
        {<<s>> : s \in {Select(Variable("Version")),
                       Select(If(Variable("hostname"), Word("FOUND_ROWS"), ID("wp"))),
                       Tree("LOCK_TABLE", <<Word("LOCK"), Word("TABLES"), ID("wp"), Word("WRITE")>>),
                       Tree("SHOW_COLUMNS", <<Word("SHOW"), From("wp"), From("'Blog'"), Like>>)}}
Input(parts) == Tree("nil", FoldLeft(LAMBDA a, b : a \o b, << >>, parts) \o <<Word("EOF")>>)
Inputs == {Input(<<s>>) : s \in Statements}
          \union {Input(parts) : parts \in UNION {[1 .. k -> Some] : k \in 0 .. Length}}
=============================================================================
