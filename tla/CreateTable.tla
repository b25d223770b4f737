---------------------------- MODULE CreateTable ----------------------------
(***************************************************************************)
(* create_table_worker of pgify.c: nine passes over the children of a      *)
(* T_CREATE_TABLE node take out of a MySQL table definition what           *)
(* PostgreSQL has no place for, and queue in ws->postbuf the statements    *)
(* that make up for it.  The passes share one list of children, delete     *)
(* from it while they search it, and read what later passes delete; a step *)
(* of this module is one turn of a loop of one pass.                       *)
(*                                                                         *)
(* What is abstracted: a token is its type and a text that tells it from   *)
(* the others of its type, a queued statement the names it is made of, a   *)
(* foreign key the one text its tokens add up to.  Positions count from 1, *)
(* and a search that fails (-1 in the code) finds no position.             *)
(***************************************************************************)
EXTENDS Integers, Sequences, SequencesExt

CONSTANT Tables   (* what is rewritten: children, schema prefix and name   *)

VARIABLES
  table,      (* the table as parsed, chosen once                          *)
  children,   (* the children of the T_CREATE_TABLE node                   *)
  postbuf,    (* the statements this table queued                          *)
  pass,       (* the pass that runs, Len(Passes) + 1 at the end            *)
  pos,        (* where its search resumes: pos, or defpos over columns     *)
  inner       (* the same inside a column definition                       *)

vars == <<table, children, postbuf, pass, pos, inner>>

(* A slip: the options go before anything reads them.                      *)
PassesOptionsFirst == <<"options", "enum", "datatypes", "onupdate", "stupid_date", "index",
                        "auto_inc", "fulltext", "fkey">>

Passes == <<"enum", "datatypes", "onupdate", "stupid_date", "index",
            "auto_inc", "fulltext", "fkey", "options">>

(* What each pass looks for among the children; datatypes looks at all.    *)
LooksFor ==
  [enum |-> "COLUMN_DEF", onupdate |-> "COLUMN_DEF", stupid_date |-> "COLUMN_DEF",
   index |-> "INDEX", auto_inc |-> "COLUMN_DEF", fulltext |-> "FULLTEXT",
   fkey |-> "FKEY", options |-> "OPTIONS"]

Running(name) == pass <= Len(Passes) /\ Passes[pass] = name
Done          == pass > Len(Passes)

-----------------------------------------------------------------------------
(* A tree, three levels deep: the children, what they are made of, and the *)
(* expressions in that.                                                    *)
Token == [type : STRING, text : STRING, kids : {<< >>}]
Part  == [type : STRING, text : STRING, kids : Seq(Token)]
Node  == [type : STRING, text : STRING, kids : Seq(Part)]

(* look_ahead_index(tree, from, type) returns p.                           *)
Finds(tree, from, type, p) ==
  /\ p \in from .. Len(tree) /\ tree[p].type = type
  /\ \A q \in from .. p - 1 : tree[q].type # type

FindsNone(tree, from, type) == \A p \in from .. Len(tree) : tree[p].type # type

(* create_table_tablename: the first ID.                                   *)
TableName(tree) == tree[CHOOSE p \in DOMAIN tree : Finds(tree, 1, "ID", p)].text

(* Slips: the comma stays; the comma is deleted first, and what follows    *)
(* the constraint instead of it.                                           *)
DeleteAlone(tree, p) == RemoveAt(tree, p)
DeleteCommaFirst(tree, p) ==
  IF tree[p - 1].type = "COMMA" THEN RemoveAt(RemoveAt(tree, p - 1), p) ELSE RemoveAt(tree, p)

(* A constraint goes, and the comma in front of it.                        *)
DeleteWithComma(tree, p) ==
  LET rest == RemoveAt(tree, p)
  IN  IF rest[p - 1].type = "COMMA" THEN RemoveAt(rest, p - 1) ELSE rest

(* Names are known by their places, and so are the words behind them that  *)
(* say how a column is sorted.                                             *)
Names(kids) == {k \in DOMAIN kids : kids[k].type = "ID"}
Words(kids) == {k \in DOMAIN kids : kids[k].type \in {"ID", "ASC", "DESC"}}
NamesAt(kids, places) == [k \in places |-> kids[k].text]
Texts(kids) == NamesAt(kids, DOMAIN kids)

IsNotNull(kids, k) ==
  k < Len(kids) /\ kids[k].type = "NOT" /\ kids[k + 1].type = "NULL"

(* What the rule create_table_statement makes of a source: the table has a *)
(* name, a column a name and a type and no NOT without NULL, a key columns *)
(* in parentheses, each with ASC or DESC behind it at most, and in front   *)
(* of them a name at most, an ENUM its keyword and parentheses;            *)
(* constraints follow columns, commas stand between items, and options     *)
(* behind the list.                                                        *)
Item    == {"COLUMN_DEF", "PRIMARY", "INDEX", "FULLTEXT", "FKEY"}
Movable == {"INDEX", "FULLTEXT", "FKEY"}

(* Which child may follow which.                                           *)
Fits(left, right) ==
  /\ left = "COMMA" => right \notin {"RPAREN", "COMMA"}
  /\ right \in {"COMMA", "OPTIONS"} => left \notin {"LPAREN", "COMMA"}
  /\ right \in Item => left \in {"LPAREN", "COMMA"}
  /\ right \in Movable => left = "COMMA"

CommaSeparated(tree) ==
  /\ Len(tree) > 0 /\ tree[1].type = "CREATE" /\ tree[Len(tree)].type # "COMMA"
  /\ \A p \in 2 .. Len(tree) : Fits(tree[p - 1].type, tree[p].type)

IsColumn(kids) ==
  /\ Len(kids) >= 2 /\ kids[1].type = "ID"
  /\ kids[2].type \notin {"AUTO_INCREMENT", "ONUPDATE", "NOT"}
IsEnum(kids) ==
  /\ \E k \in DOMAIN kids : Finds(kids, 1, "ENUM", k) \/ Finds(kids, 1, "SET", k)
  /\ \E k \in DOMAIN kids : Finds(kids, 1, "RPAREN", k)

IsKey(kids) ==
  \E p \in DOMAIN kids :
    /\ Finds(kids, 1, "LPAREN", p)
    /\ p + 1 \in Names(kids)
    /\ \A k \in Words(kids) : k > p \/ (k = 1 /\ kids[k].type = "ID")

Parsed(node) ==
  /\ node.type = "COLUMN_DEF" => IsColumn(node.kids)
  /\ \A k \in DOMAIN node.kids :
        node.kids[k].type = "ENUM_DEF" => IsEnum(node.kids[k].kids)

(* A text tells a constraint from the others of its type; MySQL takes no   *)
(* table with two columns of one name.                                     *)
Apart(tree) ==
  \A c, d \in DOMAIN tree :
    c # d /\ tree[c].type = tree[d].type =>
      /\ tree[c].type \in {"INDEX", "FKEY"} => tree[c].text # tree[d].text
      /\ tree[c].type = "COLUMN_DEF" => tree[c].kids[1].text # tree[d].kids[1].text

WellFormed(t) ==
  /\ t.children \in Seq(Node)
  /\ t.name \in STRING /\ t.schemaName \in STRING
  /\ CommaSeparated(t.children) /\ Apart(t.children)
  /\ \E p \in DOMAIN t.children : Finds(t.children, 1, "ID", p)
  /\ \A c \in DOMAIN t.children :
        /\ Parsed(t.children[c])
        /\ t.children[c].type = "INDEX" => IsKey(t.children[c].kids)
        /\ t.children[c].type = "COLUMN_DEF" =>
             \A k \in DOMAIN t.children[c].kids :
                t.children[c].kids[k].type = "NOT" => IsNotNull(t.children[c].kids, k)
        /\ t.children[c].type \notin {"COLUMN_DEF", "OPTIONS"} =>
             \A k \in DOMAIN t.children[c].kids :
                t.children[c].kids[k].type \notin {"AUTO_INCREMENT", "ONUPDATE"}

ASSUME TablesAssumption == \A t \in Tables : WellFormed(t)

(* What create_rewrite_datatypes writes; the provers do not know a literal *)
(* for a string.                                                           *)
Spelled == "DOUBLE PRECISION"
ASSUME SpelledAssumption == Spelled \in STRING

-----------------------------------------------------------------------------
(* A queued statement: what it creates, under which schema prefix, for     *)
(* which table, for which column or constraint, and with which arguments.  *)
Statement(what, schema, of, args) ==
  [what |-> what, schema |-> schema, table |-> TableName(children), of |-> of, args |-> args]

(* create_table_index: the first ID of the key is its name, the others are *)
(* the columns, and ASC and DESC go where they stand among them; the type  *)
(* follows USING.  The slip: the name is a column, too.                    *)
First(kids) == CHOOSE k \in Names(kids) : \A q \in Names(kids) : k <= q
CreateIndexOfName(key) ==
  Statement("INDEX", table.schemaName, key.text,
    [name    |-> key.kids[First(key.kids)].text,
     columns |-> NamesAt(key.kids, Words(key.kids)),
     using   |-> {}])
CreateIndex(key) ==
  Statement("INDEX", table.schemaName, key.text,
    [name    |-> key.kids[First(key.kids)].text,
     columns |-> NamesAt(key.kids, Words(key.kids) \ {First(key.kids)}),
     using   |-> {key.kids[k + 1].text :
                    k \in {k \in DOMAIN key.kids : Finds(key.kids, 1, "USING", k)}}])

(* create_table_rewrite_auto_inc: the option AUTO_INCREMENT = number, "1"  *)
(* without one.  The search goes on while it finds an option that is not   *)
(* the first child.                                                        *)
IsAutoIncOption(node) ==
  /\ node.type = "OPTIONS" /\ Len(node.kids) >= 3
  /\ node.kids[1].type = "AUTO_INCREMENT" /\ node.kids[2].type = "EQ"
  /\ node.kids[3].type = "NUMBER"
AutoIncStart ==
  LET options == {p \in 2 .. Len(children) : IsAutoIncOption(children[p])}
  IN  IF options = {} THEN "1"
      ELSE children[CHOOSE p \in options : \A q \in options : p <= q].kids[3].text

(* create_table_rewrite_fkey gives its statement no schema prefix.         *)
AddForeignKey(fkey) == Statement("FKEY", "", fkey.text, Texts(fkey.kids))

CreateSequence(def) ==
  <<Statement("SEQUENCE", table.schemaName, def.kids[1].text, AutoIncStart),
    Statement("DEFAULT", table.schemaName, def.kids[1].text, << >>)>>

(* create_table_rewrite_onupdate: tfunction and ttrigger.                  *)
CreateTrigger(def, onupdate) ==
  LET expr == SelectSeq(onupdate.kids, LAMBDA kid : kid.type \notin {"ON", "UPDATE"})
  IN  <<Statement("FUNCTION", table.schemaName, def.kids[1].text, Texts(expr)),
        Statement("TRIGGER", table.schemaName, def.kids[1].text, << >>)>>

(* create_rewrite_enum: the keyword becomes "text CHECK ( column IN ", of  *)
(* which the column is kept here, and a copy of the closing parenthesis    *)
(* goes to the end.                                                        *)
CheckOf(enum, column) ==
  LET keyword == CHOOSE k \in DOMAIN enum.kids :
                   \/ Finds(enum.kids, 1, "ENUM", k)
                   \/ FindsNone(enum.kids, 1, "ENUM") /\ Finds(enum.kids, 1, "SET", k)
      rparen  == CHOOSE k \in DOMAIN enum.kids : Finds(enum.kids, 1, "RPAREN", k)
  IN  [enum EXCEPT !.kids =
         Append([@ EXCEPT ![keyword].text = column], @[rparen])]
RewriteEnums(def) ==
  [def EXCEPT !.kids =
     [k \in DOMAIN @ |-> IF @[k].type = "ENUM_DEF" THEN CheckOf(@[k], @[1].text) ELSE @[k]]]

(* create_rewrite_stupid_date: a column whose definition holds a date of   *)
(* zeros anywhere loses its first NOT NULL.  The slip: whether it does is  *)
(* not asked.                                                              *)
HoldsZeros(part) ==
  \/ part.type = "STUPID_DATE"
  \/ \E j \in DOMAIN part.kids : part.kids[j].type = "STUPID_DATE"
HasStupidDate(def) == \E k \in DOMAIN def.kids : HoldsZeros(def.kids[k])
LiftEveryNotNull(def) ==
  LET found == {k \in DOMAIN def.kids : IsNotNull(def.kids, k)}
      first == CHOOSE k \in found : \A q \in found : k <= q
  IN  IF found # {} THEN [def EXCEPT !.kids = RemoveAt(RemoveAt(@, first), first)] ELSE def
LiftNotNull(def) ==
  LET found == {k \in DOMAIN def.kids : IsNotNull(def.kids, k)}
      first == CHOOSE k \in found : \A q \in found : k <= q
  IN  IF HasStupidDate(def) /\ found # {}
      THEN [def EXCEPT !.kids = RemoveAt(RemoveAt(@, first), first)]
      ELSE def

-----------------------------------------------------------------------------
Init ==
  /\ table \in Tables
  /\ children = table.children
  /\ postbuf = << >>
  /\ pass = 1 /\ pos = 1 /\ inner = 1

(* A pass that finds nothing more to do returns, and the next one begins.  *)
NextPass == pass' = pass + 1 /\ pos' = 1 /\ inner' = 1

EndPass ==
  /\ ~Done /\ ~Running("datatypes")
  /\ FindsNone(children, pos, LooksFor[Passes[pass]])
  /\ NextPass
  /\ UNCHANGED <<table, children, postbuf>>

(* The next thing the pass looks for is at p.                              *)
Turn(name, p) == Running(name) /\ Finds(children, pos, LooksFor[name], p)

RewriteEnum ==
  \E d \in DOMAIN children :
    /\ Turn("enum", d)
    /\ children' = [children EXCEPT ![d] = RewriteEnums(@)]
    /\ pos' = d + 1
    /\ UNCHANGED <<table, postbuf, pass, inner>>

(* The loop reads the children of the table itself, and a column type is a *)
(* child of its column definition.                                         *)
RewriteDatatypes ==
  /\ Running("datatypes")
  /\ children' = [c \in DOMAIN children |->
       IF /\ children[c].type = "DOUBLE"
          /\ c < Len(children) /\ children[c + 1].type # "PRECISION"
       THEN [children[c] EXCEPT !.text = Spelled]
       ELSE children[c]]
  /\ NextPass
  /\ UNCHANGED <<table, postbuf>>

(* ON UPDATE becomes a trigger.  The search goes on behind the child that  *)
(* moved into the place of the one that was deleted.                       *)
RewriteOnUpdate ==
  \E d \in DOMAIN children : \E u \in DOMAIN children[d].kids :
    /\ Turn("onupdate", d)
    /\ Finds(children[d].kids, inner, "ONUPDATE", u)
    /\ postbuf' = postbuf \o CreateTrigger(children[d], children[d].kids[u])
    /\ children' = [children EXCEPT ![d].kids = RemoveAt(@, u)]
    /\ pos' = d /\ inner' = u + 1
    /\ UNCHANGED <<table, pass>>

EndColumnStuck ==
  \E d \in DOMAIN children :
    /\ Turn("onupdate", d)
    /\ FindsNone(children[d].kids, inner, "ONUPDATE")
    /\ pos' = d /\ inner' = 1
    /\ UNCHANGED <<table, children, postbuf, pass>>

EndColumn ==
  \E d \in DOMAIN children :
    /\ Turn("onupdate", d)
    /\ FindsNone(children[d].kids, inner, "ONUPDATE")
    /\ pos' = d + 1 /\ inner' = 1
    /\ UNCHANGED <<table, children, postbuf, pass>>

RewriteStupidDate ==
  \E d \in DOMAIN children :
    /\ Turn("stupid_date", d)
    /\ children' = [children EXCEPT ![d] = LiftNotNull(@)]
    /\ pos' = d + 1
    /\ UNCHANGED <<table, postbuf, pass, inner>>

(* The search starts over behind every index.                              *)
RewriteIndex ==
  \E p \in DOMAIN children :
    /\ Turn("index", p)
    /\ postbuf' = Append(postbuf, CreateIndex(children[p]))
    /\ children' = DeleteWithComma(children, p)
    /\ UNCHANGED <<table, pass, pos, inner>>

(* Slips: the column keeps AUTO_INCREMENT; its name goes instead.          *)
RewriteAutoIncOnly ==
  \E d \in DOMAIN children :
    /\ Turn("auto_inc", d)
    /\ postbuf' = IF FindsNone(children[d].kids, 1, "AUTO_INCREMENT") THEN postbuf
                  ELSE postbuf \o CreateSequence(children[d])
    /\ pos' = d + 1
    /\ UNCHANGED <<table, children, pass, inner>>
RewriteAutoIncFirst ==
  \E d \in DOMAIN children :
    /\ Turn("auto_inc", d)
    /\ postbuf' = postbuf \o CreateSequence(children[d])
    /\ children' = [children EXCEPT ![d].kids = RemoveAt(@, 1)]
    /\ pos' = d + 1
    /\ UNCHANGED <<table, pass, inner>>

(* A column with AUTO_INCREMENT (the first one, if it says so twice) gets  *)
(* a sequence; the start value is still among the options.                 *)
RewriteAutoInc ==
  \E d \in DOMAIN children :
    /\ Turn("auto_inc", d)
    /\ \/ /\ FindsNone(children[d].kids, 1, "AUTO_INCREMENT")
          /\ UNCHANGED <<children, postbuf>>
       \/ \E k \in DOMAIN children[d].kids :
            /\ Finds(children[d].kids, 1, "AUTO_INCREMENT", k)
            /\ postbuf' = postbuf \o CreateSequence(children[d])
            /\ children' = [children EXCEPT ![d].kids = RemoveAt(@, k)]
    /\ pos' = d + 1
    /\ UNCHANGED <<table, pass, inner>>

(* A slip: the search resumes behind the position of the deleted index.    *)
RemoveFulltextSkipping ==
  \E p \in DOMAIN children :
    /\ Turn("fulltext", p)
    /\ children' = IF p > 2 THEN DeleteWithComma(children, p) ELSE RemoveAt(children, p)
    /\ pos' = p + 1
    /\ UNCHANGED <<table, postbuf, pass, inner>>

(* The search resumes at the position of the index that was deleted; where *)
(* its comma went too, one child has moved in front of it.                 *)
RemoveFulltext ==
  \E p \in DOMAIN children :
    /\ Turn("fulltext", p)
    /\ children' = IF p > 2 THEN DeleteWithComma(children, p) ELSE RemoveAt(children, p)
    /\ pos' = p
    /\ UNCHANGED <<table, postbuf, pass, inner>>

RewriteForeignKey ==
  \E p \in DOMAIN children :
    /\ Turn("fkey", p)
    /\ postbuf' = Append(postbuf, AddForeignKey(children[p]))
    /\ children' = DeleteWithComma(children, p)
    /\ UNCHANGED <<table, pass, pos, inner>>

RemoveOptionSkipping ==
  \E p \in DOMAIN children :
    /\ Turn("options", p)
    /\ children' = RemoveAt(children, p)
    /\ pos' = p + 1
    /\ UNCHANGED <<table, postbuf, pass, inner>>

RemoveOption ==
  \E p \in DOMAIN children :
    /\ Turn("options", p)
    /\ children' = RemoveAt(children, p)
    /\ pos' = p
    /\ UNCHANGED <<table, postbuf, pass, inner>>

Next ==
  \/ RewriteEnum \/ RewriteDatatypes \/ RewriteOnUpdate \/ EndColumn
  \/ RewriteStupidDate \/ RewriteIndex \/ RewriteAutoInc
  \/ RemoveFulltext \/ RewriteForeignKey \/ RemoveOption
  \/ EndPass

Spec == Init /\ [][Next]_vars

(* create_table_worker runs on one thread and waits for nothing.           *)
FairSpec == Spec /\ WF_vars(Next)

-----------------------------------------------------------------------------
(* What PostgreSQL does not take in the parentheses of CREATE TABLE, or    *)
(* behind them.                                                            *)
Foreign == Movable \union {"OPTIONS"}

CountType(tree, type) == Cardinality({k \in DOMAIN tree : tree[k].type = type})
StatementsFor(what, of) ==
  {i \in DOMAIN postbuf : postbuf[i].what = what /\ postbuf[i].of = of}

(* The passes leave every column definition its name and its type.         *)
ChildrenOK ==
  /\ children \in Seq(Node)
  /\ \A c \in DOMAIN children : Parsed(children[c])

(* The cursors are positions, the tree is a tree.                          *)
TypeOK ==
  /\ WellFormed(table)
  /\ ChildrenOK
  /\ pass \in 1 .. Len(Passes) + 1
  /\ pos \in Nat \ {0} /\ inner \in Nat \ {0}
  /\ \A i \in DOMAIN postbuf :
        postbuf[i].what \in {"INDEX", "SEQUENCE", "DEFAULT", "FKEY", "FUNCTION", "TRIGGER"}

(* Three passes take constraints out of the list, each with the comma it   *)
(* finds in front: after every one of them the list still has a comma      *)
(* between two items and nowhere else (create_table_index,                 *)
(* create_table_fulltext_index, create_table_rewrite_fkey).                *)
ListWellFormed == CommaSeparated(children)

(* A key or a foreign key is in the table or in the queue, never in both,  *)
(* never in neither, and never queued twice (create_table_index,           *)
(* create_table_rewrite_fkey).                                             *)
ConstraintsAccounted ==
  \A c \in DOMAIN table.children :
    LET constraint == table.children[c]
    IN  constraint.type \in {"INDEX", "FKEY"} =>
          Cardinality({p \in DOMAIN children : children[p] = constraint})
          + Cardinality(StatementsFor(constraint.type, constraint.text)) = 1

(* So is every AUTO_INCREMENT and every ON UPDATE of a column, however     *)
(* often the column says it (create_table_rewrite_auto_inc,                *)
(* create_table_rewrite_onupdate).                                         *)
ColumnOptionsAccounted ==
  \A d, c \in DOMAIN table.children :
    LET before == table.children[d]
        now    == children[c]
    IN  /\ before.type = "COLUMN_DEF"
        /\ c \in DOMAIN children /\ now.type = "COLUMN_DEF"
        /\ now.kids[1] = before.kids[1]
        => \A o \in {<<"AUTO_INCREMENT", "SEQUENCE">>, <<"AUTO_INCREMENT", "DEFAULT">>,
                     <<"ONUPDATE", "FUNCTION">>, <<"ONUPDATE", "TRIGGER">>} :
             CountType(before.kids, o[1])
             = CountType(now.kids, o[1]) + Cardinality(StatementsFor(o[2], now.kids[1].text))

(* Nothing else goes, and nothing changes places: without the foreign      *)
(* parts and the commas, the children are those of the source (every pass  *)
(* deletes by position in a list that earlier deletions have shifted).     *)
Kept(tree) ==
  LET kept == {p \in DOMAIN tree : tree[p].type \notin Foreign \union {"COMMA"}}
  IN  {[place |-> Cardinality({q \in kept : q <= p}),
        type  |-> tree[p].type,
        text  |-> IF tree[p].type = "DOUBLE" THEN "" ELSE tree[p].text] : p \in kept}
RestUntouched == Kept(children) = Kept(table.children)

(* When the passes are through, no key, FULLTEXT key, foreign key or table *)
(* option is left, and of no column its AUTO_INCREMENT or its ON UPDATE,   *)
(* if no column says one of these twice: the inner loops stop at or step   *)
(* over a second one.  The other options of a column stay where they are,  *)
(* also those that only MySQL has (COMMENT, COLUMN_FORMAT, STORAGE, KEY).  *)
OptionsOnce(tree) ==
  \A d \in DOMAIN tree : \A o \in {"AUTO_INCREMENT", "ONUPDATE"} :
    CountType(tree[d].kids, o) <= 1
NothingForeign ==
  Done /\ OptionsOnce(table.children) =>
    \A p \in DOMAIN children :
      /\ children[p].type \notin Foreign
      /\ \A k \in DOMAIN children[p].kids :
           children[p].kids[k].type \notin {"AUTO_INCREMENT", "ONUPDATE"}

(* A sequence starts where the AUTO_INCREMENT option of the table says:    *)
(* the option is still there when the column is rewritten                  *)
(* (create_table_rewrite_auto_inc before create_table_remove_table_options).*)
StartInSource(start) ==
  \/ \E p \in DOMAIN table.children :
       /\ IsAutoIncOption(table.children[p]) /\ table.children[p].kids[3].text = start
       /\ \A q \in 1 .. p - 1 : ~IsAutoIncOption(table.children[q])
  \/ /\ \A p \in DOMAIN table.children : ~IsAutoIncOption(table.children[p])
     /\ start = "1"
SequenceStart ==
  \A i \in DOMAIN postbuf :
    postbuf[i].what = "SEQUENCE" => StartInSource(postbuf[i].args)

(* What a key says: its name stands in front of the parenthesis, its       *)
(* columns in it, with ASC or DESC behind them.                            *)
Named(key)   == key.kids[1].type = "ID"
Columns(key) ==
  LET lparen == CHOOSE k \in DOMAIN key.kids : Finds(key.kids, 1, "LPAREN", k)
  IN  NamesAt(key.kids, {k \in Words(key.kids) : k > lparen})
Keys == {c \in DOMAIN table.children : table.children[c].type = "INDEX"}

(* CREATE INDEX has the columns of the key, in their order and sorted as   *)
(* they are there, where the key has a name (create_table_index).          *)
NamedIndexKept ==
  \A i \in DOMAIN postbuf : \A c \in Keys :
    LET key == table.children[c]
    IN  /\ postbuf[i].what = "INDEX" /\ postbuf[i].of = key.text
        /\ Named(key)
        => /\ postbuf[i].args.name = key.kids[1].text
           /\ postbuf[i].args.columns = Columns(key)

(* A column may be null in the new table if it might be in the old one, or *)
(* holds a date of zeros, which becomes NULL; no other column loses its    *)
(* NOT NULL (create_rewrite_stupid_date).  Excepted are a second NOT NULL, *)
(* and a date in an ON UPDATE, which is gone before the pass looks for it. *)
NullSaidOnce(def) ==
  /\ CountType(def.kids, "NOT") <= 1
  /\ \A k \in DOMAIN def.kids : def.kids[k].type = "ONUPDATE" => ~HoldsZeros(def.kids[k])
Nullable(def) == \A k \in DOMAIN def.kids : ~IsNotNull(def.kids, k)
NullabilityKept ==
  Done =>
    \A d \in DOMAIN table.children : \A c \in DOMAIN children :
      /\ table.children[d].type = "COLUMN_DEF" /\ children[c].type = "COLUMN_DEF"
      /\ table.children[d].kids[1] = children[c].kids[1]
      /\ NullSaidOnce(table.children[d])
      => (Nullable(children[c]) <=> Nullable(table.children[d]) \/ HasStupidDate(table.children[d]))

(* Every pass comes to its end.                                            *)
Terminates == <>Done

(* What does not hold of every table: an index has all the columns of its  *)
(* key, and the statements name the table.                                 *)
IndexKept ==
  \A i \in DOMAIN postbuf : \A c \in Keys :
    postbuf[i].what = "INDEX" /\ postbuf[i].of = table.children[c].text
    => postbuf[i].args.columns = Columns(table.children[c])
StatementsNameTheTable ==
  \A i \in DOMAIN postbuf : postbuf[i].table = table.name
=============================================================================
