--------------------------- MODULE MCCreateTable ---------------------------
(***************************************************************************)
(* Small table definitions for CreateTable, with the children that the     *)
(* rule create_table_statement of the grammar gives them.                  *)
(***************************************************************************)
EXTENDS CreateTable

Leaf(type)       == [type |-> type, text |-> type, kids |-> << >>]
Tok(type, text)  == [type |-> type, text |-> text, kids |-> << >>]
Tree(type, text, kids) == [type |-> type, text |-> text, kids |-> kids]

NotNull == <<Leaf("NOT"), Leaf("NULL")>>
Default(value) == Tree("DEFAULT_DEF", "", <<Leaf("DEFAULT"), Leaf(value)>>)
OnUpdate == Tree("ONUPDATE", "", <<Leaf("ON"), Leaf("UPDATE"), Leaf("NOW")>>)
Enum(keyword) ==
  Tree("ENUM_DEF", "", <<Leaf(keyword), Leaf("LPAREN"), Leaf("STRING"), Leaf("RPAREN")>>)

ColumnKids(kind) ==
  CASE kind = "plain"  -> <<Leaf("TYPE"), Leaf("NULL")>>
    [] kind = "double" -> <<Leaf("DOUBLE")>> \o NotNull
    [] kind = "serial" -> <<Leaf("TYPE")>> \o NotNull \o <<Leaf("AUTO_INCREMENT")>>
    [] kind = "zero"   -> <<Leaf("TYPE")>> \o NotNull \o <<Default("STUPID_DATE")>>
    [] kind = "touch"  -> <<Leaf("TYPE")>> \o NotNull \o <<Default("NOW"), OnUpdate>>
    [] kind = "enum"   -> <<Enum("ENUM")>> \o NotNull
    [] kind = "set"    -> <<Enum("SET"), Default("STUPID_DATE")>>
    [] kind = "twice"  -> <<Leaf("TYPE"), OnUpdate, OnUpdate, Default("STUPID_DATE"),
                            Leaf("AUTO_INCREMENT"), Leaf("AUTO_INCREMENT")>> \o NotNull \o NotNull
Column(kind, name) == <<Tree("COLUMN_DEF", name, <<Tok("ID", name)>> \o ColumnKids(kind))>>

KeyBody(a, b) == <<Leaf("LPAREN"), Tok("ID", a), Leaf("COMMA"), Tok("ID", b), Leaf("RPAREN")>>
SortedBody(a, b) ==
  <<Leaf("LPAREN"), Tok("ID", a), Leaf("ASC"), Leaf("COMMA"), Tok("ID", b), Leaf("DESC"),
    Leaf("RPAREN")>>
Constraint(kind, name) ==
  CASE kind = "primary"  -> <<Leaf("PRIMARY"), Leaf("KEY")>> \o KeyBody("c1", "c2")
    [] kind = "key"      -> <<Tree("INDEX", name, <<Tok("ID", name)>> \o SortedBody("c1", "c2")
                                                  \o <<Leaf("USING"), Leaf("HASH")>>)>>
    [] kind = "unnamed"  -> <<Tree("INDEX", name, SortedBody("c1", "c2"))>>
    [] kind = "fulltext" -> <<Tree("FULLTEXT", name, KeyBody("c1", "c2"))>>
    [] kind = "foreign"  -> <<Tree("FKEY", name, <<Leaf("FOREIGN")>> \o KeyBody("c1", "c2"))>>

Option(kind) ==
  Tree("OPTIONS", kind,
       IF kind = "engine" THEN <<Leaf("ENGINE"), Leaf("EQ"), Leaf("MYISAM")>>
       ELSE <<Leaf("AUTO_INCREMENT"), Leaf("EQ"), Tok("NUMBER", kind)>>)

Flat(parts) == FoldLeft(LAMBDA all, part : all \o part, << >>, parts)
Separated(parts) ==
  Tail(Flat([i \in DOMAIN parts |-> <<Leaf("COMMA")>> \o parts[i]]))

Prefix(kind) ==
  <<Leaf("CREATE"), Leaf("TABLE")>>
    \o (IF kind = "qualified" THEN <<Tok("ID", "db"), Leaf("DOT")>> ELSE << >>)
    \o <<Tok("ID", "t"), Leaf("LPAREN")>>

ColumnNames     == <<"c1", "c2", "c3">>
ConstraintNames == <<"k1", "k2", "k3", "k4">>

(* CREATE TABLE ... ( items ) options SELECT ... CAST ( c AS DOUBLE )      *)
MakeTable(prefix, columns, constraints, options) ==
  [name       |-> "t",
   schemaName |-> "used.",
   children   |->
     Prefix(prefix)
     \o Separated([i \in DOMAIN columns |-> Column(columns[i], ColumnNames[i])]
                  \o [i \in DOMAIN constraints |-> Constraint(constraints[i], ConstraintNames[i])])
     \o <<Leaf("RPAREN")>>
     \o [i \in DOMAIN options |-> Option(options[i])]
     \o <<Leaf("SELECT"), Tok("ID", "c"), Leaf("COMMA"), Leaf("DOUBLE"), Leaf("RPAREN")>>]

TablesOf(prefixes, firsts, others, constraints, options) ==
  {MakeTable(prefix, <<first>> \o more, some, opts) :
     prefix \in prefixes, first \in firsts, more \in others, some \in constraints, opts \in options}

ConstraintKinds == {"primary", "key", "unnamed", "fulltext", "foreign"}

(* All orders of constraints behind one plain column, and all pairs of     *)
(* columns in front of what the passes over columns must leave alone.      *)
ConstraintTables ==
  TablesOf({"plain"}, {"plain"}, {<<>>}, SeqOf(ConstraintKinds, 4), SeqOf({"engine"}, 1))
ColumnTables ==
  TablesOf({"plain"}, {"double", "serial", "zero", "touch", "enum", "set", "twice"},
           SeqOf({"plain", "serial", "zero", "touch", "enum", "twice"}, 1),
           SeqOf({"key", "fulltext"}, 1), SeqOf({"engine", "7", "34"}, 2))
MCTables == ConstraintTables \union ColumnTables

(* Few tables, with and without the name of a schema in front.             *)
SomeTables ==
  TablesOf({"plain", "qualified"}, {"plain", "serial"}, {<<>>}, SeqOf(ConstraintKinds, 1),
           SeqOf({"engine"}, 1))
=============================================================================
