------------------------- MODULE CreateTableProofs -------------------------
(***************************************************************************)
(* Proofs about the passes of CreateTable.                                 *)
(***************************************************************************)
EXTENDS CreateTable, SequenceTheorems, FiniteSetTheorems, FunctionTheorems, WellFoundedInduction,
        TLAPS

(* A set of positions has a first one: the intervals that end in it are    *)
(* well-founded by inclusion.                                              *)
LEMMA FirstExists ==
  ASSUME NEW T \in SUBSET Nat, T # {}
  PROVE  \E x \in T : \A y \in T : x <= y
<1> DEFINE R == StrictSubsetOrdering(Nat)
           U == {1 .. x : x \in T}
<1>1. U \subseteq FiniteSubsetsOf(Nat) /\ U # {}
  <2>1. \A x \in T : 1 .. x \in FiniteSubsetsOf(Nat)
    BY FS_Interval DEF FiniteSubsetsOf
  <2> QED
    BY <2>1
<1>2. PICK u \in U : \A v \in U : ~ (<<v, u>> \in R)
  <2>1. IsWellFoundedOn(R, FiniteSubsetsOf(Nat))
    BY FS_StrictSubsetOrderingWellFounded
  <2> HIDE DEF R, U
  <2> QED
    BY <1>1, <2>1, WFMin
<1>3. PICK x \in T : u = 1 .. x
  OBVIOUS
<1>4. ASSUME NEW y \in T, y < x
      PROVE  FALSE
  <2>1. 1 .. y \subseteq 1 .. x /\ x \in 1 .. x /\ x \notin 1 .. y
    BY <1>4
  <2>2. <<1 .. y, 1 .. x>> \in R
    BY <2>1 DEF StrictSubsetOrdering
  <2> QED
    BY <1>2, <1>3, <2>2
<1> QED
  BY <1>4

(* A function on 1 .. n is a sequence.                                     *)
LEMMA FunctionIsSeq ==
  ASSUME NEW S, NEW n \in Nat, NEW f \in [1 .. n -> S]
  PROVE  f \in Seq(S) /\ Len(f) = n /\ DOMAIN f = 1 .. n
  OBVIOUS

(* RemoveAt takes one element out, and the ones behind it move up.         *)
LEMMA RemoveAtOne ==
  ASSUME NEW S, NEW s \in Seq(S), NEW i \in 1 .. Len(s)
  PROVE  /\ RemoveAt(s, i) \in Seq(S)
         /\ Len(RemoveAt(s, i)) = Len(s) - 1
         /\ \A k \in 1 .. Len(s) - 1 : RemoveAt(s, i)[k] = IF k < i THEN s[k] ELSE s[k + 1]
<1> DEFINE a == SubSeq(s, 1, i - 1)
           b == SubSeq(s, i + 1, Len(s))
<1>1. /\ a \in Seq(S) /\ Len(a) = i - 1
      /\ \A k \in 1 .. i - 1 : a[k] = s[k]
  BY SubSeqProperties
<1>2. /\ b \in Seq(S) /\ Len(b) = Len(s) - i
      /\ \A k \in 1 .. Len(s) - i : b[k] = s[i + k]
  BY SubSeqProperties
<1>3. RemoveAt(s, i) = a \o b
  BY DEF RemoveAt
<1> HIDE DEF a, b
<1>4. /\ a \o b \in Seq(S) /\ Len(a \o b) = Len(a) + Len(b)
      /\ \A k \in 1 .. Len(a) + Len(b) :
           (a \o b)[k] = IF k <= Len(a) THEN a[k] ELSE b[k - Len(a)]
  BY <1>1, <1>2, ConcatProperties
<1>5. Len(s) \in Nat /\ Len(a) + Len(b) = Len(s) - 1
  BY <1>1, <1>2
<1>6. ASSUME NEW k \in 1 .. Len(s) - 1
      PROVE  (a \o b)[k] = IF k < i THEN s[k] ELSE s[k + 1]
  <2>1. CASE k < i
    BY <1>1, <1>4, <1>5, <2>1
  <2>2. CASE ~(k < i)
    <3>1. k - (i - 1) \in 1 .. Len(s) - i /\ i + (k - (i - 1)) = k + 1
      BY <1>5, <2>2
    <3> QED
      BY <1>1, <1>2, <1>4, <1>5, <2>2, <3>1
  <2> QED
    BY <2>1, <2>2
<1> QED
  BY <1>3, <1>4, <1>5, <1>6

-----------------------------------------------------------------------------
(* What stands on both sides of a constraint and its comma, or of an       *)
(* option, fits together.                                                  *)
LEMMA Closing ==
  ASSUME NEW l, NEW c, NEW r, Fits(c, r)
  PROVE  /\ c \in Movable /\ Fits(l, "COMMA") => Fits(l, r) /\ l # "COMMA"
         /\ c = "OPTIONS" /\ Fits(l, c) => Fits(l, r) /\ l # "COMMA"
  BY DEF Fits, Movable, Item

(* What a pass does to the list when it takes out a constraint: the comma  *)
(* in front is there, and goes.                                            *)
LEMMA DeletedPair ==
  ASSUME NEW tree \in Seq(Node), CommaSeparated(tree),
         NEW p \in DOMAIN tree, tree[p].type \in Movable
  PROVE  LET new == DeleteWithComma(tree, p)
         IN  /\ p > 2 /\ tree[p - 1].type = "COMMA"
             /\ new \in Seq(Node) /\ Len(new) = Len(tree) - 2
             /\ \A k \in 1 .. Len(tree) - 2 : new[k] = IF k < p - 1 THEN tree[k] ELSE tree[k + 2]
<1> DEFINE rest == RemoveAt(tree, p)
           new  == RemoveAt(rest, p - 1)
<1>1. Len(tree) \in Nat /\ p \in 1 .. Len(tree) /\ DOMAIN tree = 1 .. Len(tree)
  OBVIOUS
<1>2. p > 1 /\ tree[p - 1].type = "COMMA" /\ p > 2
  <2>1. p > 1
    BY <1>1 DEF CommaSeparated, Movable
  <2>2. tree[p - 1].type = "COMMA"
    BY <1>1, <2>1 DEF CommaSeparated, Fits
  <2> QED
    BY <1>1, <2>1, <2>2 DEF CommaSeparated
<1>4. /\ rest \in Seq(Node) /\ Len(rest) = Len(tree) - 1
      /\ \A k \in 1 .. Len(tree) - 1 : rest[k] = IF k < p THEN tree[k] ELSE tree[k + 1]
  BY <1>1, RemoveAtOne
<1>5. rest[p - 1] = tree[p - 1] /\ p - 1 \in 1 .. Len(rest)
  BY <1>1, <1>2, <1>4
<1>6. DeleteWithComma(tree, p) = RemoveAt(rest, p - 1)
  BY <1>2, <1>5 DEF DeleteWithComma
<1> HIDE DEF rest
<1>7. /\ new \in Seq(Node) /\ Len(new) = Len(rest) - 1
      /\ \A k \in 1 .. Len(rest) - 1 : new[k] = IF k < p - 1 THEN rest[k] ELSE rest[k + 1]
  BY <1>4, <1>5, RemoveAtOne
<1> HIDE DEF new
<1>8. Len(new) = Len(tree) - 2
  BY <1>1, <1>4, <1>7
<1>9. \A k \in 1 .. Len(tree) - 2 : new[k] = IF k < p - 1 THEN tree[k] ELSE tree[k + 2]
  BY <1>1, <1>2, <1>4, <1>7
<1>10. DeleteWithComma(tree, p) = new
  BY <1>6 DEF new
<1> QED
  BY <1>2, <1>7, <1>8, <1>9, <1>10

(* Taking out a constraint leaves a comma between two items and nowhere    *)
(* else: what stood around the pair was no comma.                          *)
LEMMA DeleteKeepsCommas ==
  ASSUME NEW tree \in Seq(Node), CommaSeparated(tree),
         NEW p \in DOMAIN tree, tree[p].type \in Movable
  PROVE  CommaSeparated(DeleteWithComma(tree, p))
<1> DEFINE new == DeleteWithComma(tree, p)
           n   == Len(tree)
<1>1. /\ p > 2 /\ tree[p - 1].type = "COMMA" /\ n \in Nat /\ p \in 1 .. n
      /\ Len(new) = n - 2
      /\ \A k \in 1 .. n - 2 : new[k] = IF k < p - 1 THEN tree[k] ELSE tree[k + 2]
  BY DeletedPair
<1> HIDE DEF new
<1>2. /\ n > 0 /\ tree[1].type = "CREATE" /\ tree[n].type # "COMMA"
      /\ \A k \in 2 .. n : Fits(tree[k - 1].type, tree[k].type)
  BY DEF CommaSeparated
<1>3. Fits(tree[p - 2].type, "COMMA")
  <2>1. p - 1 \in 2 .. n /\ (p - 1) - 1 = p - 2
    BY <1>1
  <2>2. Fits(tree[(p - 1) - 1].type, tree[p - 1].type)
    BY <1>2, <2>1
  <2> QED
    BY <1>1, <2>1, <2>2
<1>4. tree[p - 2].type # "COMMA"
  BY <1>3 DEF Fits
<1>5. new[1] = tree[1] /\ Len(new) > 0
  BY <1>1
<1>6. new[Len(new)].type # "COMMA"
  <2>1. CASE p = n
    BY <1>1, <1>4, <1>5, <2>1
  <2>2. CASE p < n
    <3>1. new[n - 2] = tree[n]
      BY <1>1, <2>2
    <3> QED
      BY <1>1, <1>2, <3>1
  <2> QED
    BY <1>1, <2>1, <2>2
<1>7. ASSUME NEW k \in 2 .. Len(new)
      PROVE  Fits(new[k - 1].type, new[k].type)
  <2>1. CASE k < p - 1
    <3>1. new[k] = tree[k] /\ new[k - 1] = tree[k - 1] /\ k \in 2 .. n
      BY <1>1, <2>1
    <3> QED
      BY <1>2, <3>1
  <2>2. CASE k = p - 1
    <3>1. new[k] = tree[p + 1] /\ new[k - 1] = tree[p - 2] /\ p + 1 \in 2 .. n
      BY <1>1, <2>2
    <3>2. Fits(tree[p].type, tree[p + 1].type)
      <4>1. (p + 1) - 1 = p
        BY <1>1
      <4>2. Fits(tree[(p + 1) - 1].type, tree[p + 1].type)
        BY <1>2, <3>1
      <4> QED
        BY <4>1, <4>2
    <3> QED
      BY <1>3, <3>1, <3>2, Closing
  <2>3. CASE k > p - 1
    <3>1. new[k] = tree[k + 2] /\ new[k - 1] = tree[k + 1] /\ k + 2 \in 2 .. n
          /\ (k + 2) - 1 = k + 1
      BY <1>1, <2>3
    <3> QED
      BY <1>2, <3>1
  <2> QED
    BY <1>1, <2>1, <2>2, <2>3
<1> QED
  BY <1>2, <1>5, <1>6, <1>7 DEF CommaSeparated, new

(* An option goes alone: it is not next to a comma.                        *)
LEMMA RemoveKeepsCommas ==
  ASSUME NEW tree \in Seq(Node), CommaSeparated(tree),
         NEW p \in DOMAIN tree, tree[p].type = "OPTIONS"
  PROVE  CommaSeparated(RemoveAt(tree, p))
<1> DEFINE new == RemoveAt(tree, p)
           n   == Len(tree)
<1>1. /\ n \in Nat /\ p \in 1 .. n /\ Len(new) = n - 1
      /\ \A k \in 1 .. n - 1 : new[k] = IF k < p THEN tree[k] ELSE tree[k + 1]
  <2>1. Len(tree) \in Nat /\ p \in 1 .. Len(tree)
    OBVIOUS
  <2> QED
    BY <2>1, RemoveAtOne
<1> HIDE DEF new
<1>2. /\ n > 0 /\ tree[1].type = "CREATE" /\ tree[n].type # "COMMA"
      /\ \A k \in 2 .. n : Fits(tree[k - 1].type, tree[k].type)
  BY DEF CommaSeparated
<1>3. p > 1 /\ p \in 2 .. n
  BY <1>1, <1>2
<1>4. Fits(tree[p - 1].type, "OPTIONS") /\ tree[p - 1].type # "COMMA"
  BY <1>2, <1>3 DEF Fits
<1>5. new[1] = tree[1] /\ Len(new) > 0
  BY <1>1, <1>3
<1>6. new[Len(new)].type # "COMMA"
  <2>1. CASE p = n
    BY <1>1, <1>4, <1>5, <2>1
  <2>2. CASE p < n
    <3>1. new[n - 1] = tree[n]
      BY <1>1, <2>2
    <3> QED
      BY <1>1, <1>2, <3>1
  <2> QED
    BY <1>1, <2>1, <2>2
<1>7. ASSUME NEW k \in 2 .. Len(new)
      PROVE  Fits(new[k - 1].type, new[k].type)
  <2>1. CASE k < p
    <3>1. new[k] = tree[k] /\ new[k - 1] = tree[k - 1] /\ k \in 2 .. n
      BY <1>1, <2>1
    <3> QED
      BY <1>2, <3>1
  <2>2. CASE k = p
    <3>1. new[k] = tree[p + 1] /\ new[k - 1] = tree[p - 1] /\ p + 1 \in 2 .. n
      BY <1>1, <1>3, <2>2
    <3>2. Fits("OPTIONS", tree[p + 1].type)
      <4>1. (p + 1) - 1 = p
        BY <1>1
      <4>2. Fits(tree[(p + 1) - 1].type, tree[p + 1].type)
        BY <1>2, <3>1
      <4> QED
        BY <4>1, <4>2
    <3> QED
      BY <1>4, <3>1, <3>2, Closing
  <2>3. CASE k > p
    <3>1. new[k] = tree[k + 1] /\ new[k - 1] = tree[k] /\ k + 1 \in 2 .. n
          /\ (k + 1) - 1 = k
      BY <1>1, <2>3
    <3> QED
      BY <1>2, <3>1
  <2> QED
    BY <1>1, <2>1, <2>2, <2>3
<1> QED
  BY <1>2, <1>5, <1>6, <1>7 DEF CommaSeparated, new

(* The commas do not depend on what the children are made of.              *)
LEMMA SameTypesSameCommas ==
  ASSUME NEW tree \in Seq(Node), NEW new \in Seq(Node), CommaSeparated(tree),
         Len(new) = Len(tree), \A k \in 1 .. Len(tree) : new[k].type = tree[k].type
  PROVE  CommaSeparated(new)
<1>1. Len(tree) \in Nat /\ Len(tree) > 0
  BY DEF CommaSeparated
<1>2. ASSUME NEW k \in 2 .. Len(tree)
      PROVE  Fits(new[k - 1].type, new[k].type)
  <2>1. k - 1 \in 1 .. Len(tree) /\ k \in 1 .. Len(tree)
    BY <1>1
  <2> QED
    BY <2>1 DEF CommaSeparated
<1> QED
  BY <1>1, <1>2 DEF CommaSeparated

-----------------------------------------------------------------------------
(* What the children are made of survives a deletion among them, as each   *)
(* of them was there before.                                               *)
LEMMA FewerChildren ==
  ASSUME NEW new \in Seq(Node), ChildrenOK,
         \A k \in DOMAIN new : \E j \in DOMAIN children : new[k] = children[j]
  PROVE  \A k \in DOMAIN new : Parsed(new[k])
  BY DEF ChildrenOK

(* A part goes that is neither the name nor the type of a column.          *)
LEMMA FewerParts ==
  ASSUME NEW node \in Node, Parsed(node), NEW k \in DOMAIN node.kids,
         node.type = "COLUMN_DEF" => k > 2
  PROVE  LET new == [node EXCEPT !.kids = RemoveAt(@, k)]
         IN  new \in Node /\ Parsed(new) /\ new.type = node.type
<1> DEFINE new == [node EXCEPT !.kids = RemoveAt(@, k)]
<1>1. node.kids \in Seq(Part) /\ Len(node.kids) \in Nat /\ k \in 1 .. Len(node.kids)
      /\ DOMAIN node.kids = 1 .. Len(node.kids)
  BY DEF Node
<1>2. /\ RemoveAt(node.kids, k) \in Seq(Part)
      /\ Len(RemoveAt(node.kids, k)) = Len(node.kids) - 1
      /\ \A j \in 1 .. Len(node.kids) - 1 :
           RemoveAt(node.kids, k)[j] = IF j < k THEN node.kids[j] ELSE node.kids[j + 1]
  BY <1>1, RemoveAtOne
<1>3. new \in Node /\ new.type = node.type /\ new.kids = RemoveAt(node.kids, k)
  BY <1>2 DEF Node
<1> HIDE DEF new
<1>4. new.type = "COLUMN_DEF" => IsColumn(new.kids)
  <2> SUFFICES ASSUME new.type = "COLUMN_DEF" PROVE IsColumn(new.kids)
    OBVIOUS
  <2>1. IsColumn(node.kids) /\ k > 2
    BY <1>3 DEF Parsed
  <2>2. Len(new.kids) >= 2 /\ new.kids[1] = node.kids[1] /\ new.kids[2] = node.kids[2]
    BY <1>1, <1>2, <1>3, <2>1
  <2> QED
    BY <2>1, <2>2 DEF IsColumn
<1>5. ASSUME NEW j \in DOMAIN new.kids, new.kids[j].type = "ENUM_DEF"
      PROVE  IsEnum(new.kids[j].kids)
  <2>1. j \in 1 .. Len(node.kids) - 1
    BY <1>1, <1>2, <1>3
  <2>2. PICK i \in DOMAIN node.kids : new.kids[j] = node.kids[i]
    <3>1. new.kids[j] = IF j < k THEN node.kids[j] ELSE node.kids[j + 1]
      BY <1>2, <1>3, <2>1
    <3>2. j \in DOMAIN node.kids /\ j + 1 \in DOMAIN node.kids
      BY <1>1, <2>1
    <3> QED
      BY <3>1, <3>2
  <2> QED
    BY <1>5, <2>2 DEF Parsed
<1> QED
  BY <1>3, <1>4, <1>5 DEF Parsed, new

(* NOT NULL is never the name nor the type.                                *)
LEMMA LiftedParts ==
  ASSUME NEW node \in Node, Parsed(node), node.type = "COLUMN_DEF"
  PROVE  LiftNotNull(node) \in Node /\ Parsed(LiftNotNull(node))
         /\ LiftNotNull(node).type = node.type
<1> DEFINE found == {k \in DOMAIN node.kids : IsNotNull(node.kids, k)}
           first == CHOOSE k \in found : \A q \in found : k <= q
           once  == [node EXCEPT !.kids = RemoveAt(@, first)]
           twice == [once EXCEPT !.kids = RemoveAt(@, first)]
<1>1. CASE ~ (HasStupidDate(node) /\ found # {})
  BY <1>1 DEF LiftNotNull
<1>2. CASE HasStupidDate(node) /\ found # {}
  <2>1. node.kids \in Seq(Part) /\ Len(node.kids) \in Nat /\ DOMAIN node.kids = 1 .. Len(node.kids)
    BY DEF Node
  <2>2. first \in found
    <3>1. found \in SUBSET Nat
      BY <2>1
    <3>2. \E k \in found : \A q \in found : k <= q
      BY <1>2, <3>1, FirstExists
    <3> QED
      BY <3>2
  <2> HIDE DEF first
  <2>3. first \in 1 .. Len(node.kids) /\ first < Len(node.kids)
        /\ node.kids[first].type = "NOT" /\ node.kids[first + 1].type = "NULL"
    BY <2>1, <2>2 DEF IsNotNull
  <2>4. first > 2
    BY <2>1, <2>3 DEF Parsed, IsColumn
  <2>5. once \in Node /\ Parsed(once) /\ once.type = node.type
    BY <2>1, <2>3, <2>4, FewerParts
  <2>6. once.kids = RemoveAt(node.kids, first)
    BY DEF Node
  <2>7. Len(once.kids) = Len(node.kids) - 1 /\ once.kids \in Seq(Part)
    BY <2>1, <2>3, <2>6, RemoveAtOne
  <2>8. first \in DOMAIN once.kids
    BY <2>1, <2>3, <2>7
  <2> HIDE DEF once
  <2>9. twice \in Node /\ Parsed(twice) /\ twice.type = node.type
    BY <2>4, <2>5, <2>8, FewerParts
  <2>10. twice = [node EXCEPT !.kids = RemoveAt(RemoveAt(@, first), first)]
    BY <2>6 DEF once, Node
  <2>11. LiftNotNull(node) = [node EXCEPT !.kids = RemoveAt(RemoveAt(@, first), first)]
    BY <1>2 DEF LiftNotNull, first
  <2> QED
    BY <2>9, <2>10, <2>11
<1> QED
  BY <1>1, <1>2

(* CHECK has the keyword and the parenthesis of the ENUM it was.           *)
LEMMA CheckOfParts ==
  ASSUME NEW enum \in Part, NEW column \in STRING, IsEnum(enum.kids)
  PROVE  CheckOf(enum, column) \in Part /\ CheckOf(enum, column).type = enum.type
         /\ IsEnum(CheckOf(enum, column).kids)
         /\ Len(CheckOf(enum, column).kids) = Len(enum.kids) + 1
         /\ CheckOf(enum, column).kids[Len(enum.kids) + 1].type = "RPAREN"
         /\ \A j \in 1 .. Len(enum.kids) : CheckOf(enum, column).kids[j].type = enum.kids[j].type
<1> DEFINE keyword == CHOOSE k \in DOMAIN enum.kids :
                        \/ Finds(enum.kids, 1, "ENUM", k)
                        \/ FindsNone(enum.kids, 1, "ENUM") /\ Finds(enum.kids, 1, "SET", k)
           rparen  == CHOOSE k \in DOMAIN enum.kids : Finds(enum.kids, 1, "RPAREN", k)
           said    == [enum.kids EXCEPT ![keyword].text = column]
           kids    == Append(said, enum.kids[rparen])
<1>1. CheckOf(enum, column) = [enum EXCEPT !.kids = kids]
  BY DEF CheckOf
<1>2. enum.kids \in Seq(Token) /\ Len(enum.kids) \in Nat /\ DOMAIN enum.kids = 1 .. Len(enum.kids)
  BY DEF Part
<1>3. rparen \in DOMAIN enum.kids /\ enum.kids[rparen].type = "RPAREN"
  BY DEF IsEnum, Finds
<1> HIDE DEF keyword, rparen
<1>4. /\ said \in Seq(Token) /\ Len(said) = Len(enum.kids)
      /\ \A j \in 1 .. Len(enum.kids) : said[j].type = enum.kids[j].type
  <2>1. \A j \in 1 .. Len(enum.kids) :
          said[j] = IF j = keyword THEN [enum.kids[j] EXCEPT !.text = column] ELSE enum.kids[j]
    BY <1>2
  <2> HIDE DEF said
  <2>4. \A t \in Token : [t EXCEPT !.text = column] \in Token
          /\ [t EXCEPT !.text = column].type = t.type
    BY DEF Token
  <2>2. ASSUME NEW j \in 1 .. Len(enum.kids)
        PROVE  said[j] \in Token /\ said[j].type = enum.kids[j].type
    <3>1. enum.kids[j] \in Token
      BY <1>2
    <3> QED
      BY <2>1, <2>4, <3>1
  <2>3. said \in [1 .. Len(enum.kids) -> Token]
    BY <1>2, <2>2 DEF said
  <2> QED
    BY <1>2, <2>2, <2>3, FunctionIsSeq
<1> HIDE DEF said
<1>5. /\ kids \in Seq(Token) /\ Len(kids) = Len(enum.kids) + 1
      /\ kids[Len(enum.kids) + 1].type = "RPAREN"
      /\ \A j \in 1 .. Len(enum.kids) : kids[j].type = enum.kids[j].type
  <2>1. enum.kids[rparen] \in Token
    BY <1>2, <1>3
  <2>2. /\ kids \in Seq(Token) /\ Len(kids) = Len(said) + 1
        /\ kids[Len(said) + 1] = enum.kids[rparen]
        /\ \A j \in 1 .. Len(said) : kids[j] = said[j]
    BY <1>4, <2>1, AppendProperties
  <2> HIDE DEF kids
  <2> QED
    BY <1>3, <1>4, <2>2
<1> HIDE DEF kids
<1>6. CheckOf(enum, column) \in Part /\ CheckOf(enum, column).type = enum.type
      /\ CheckOf(enum, column).kids = kids
  BY <1>1, <1>5 DEF Part
<1>7. ASSUME NEW type, NEW j \in DOMAIN enum.kids, Finds(enum.kids, 1, type, j)
      PROVE  j \in DOMAIN kids /\ Finds(kids, 1, type, j)
  <2>1. j \in 1 .. Len(enum.kids) /\ Len(kids) \in Nat /\ DOMAIN kids = 1 .. Len(kids)
    BY <1>2, <1>5
  <2>2. kids[j].type = type
    BY <1>5, <1>7, <2>1 DEF Finds
  <2>3. \A q \in 1 .. j - 1 : kids[q].type # type
    <3>1. \A q \in 1 .. j - 1 : q \in 1 .. Len(enum.kids)
      BY <1>2, <2>1
    <3> QED
      BY <1>5, <1>7, <3>1 DEF Finds
  <2> QED
    BY <1>2, <1>5, <2>1, <2>2, <2>3 DEF Finds
<1>8. IsEnum(kids)
  BY <1>7 DEF IsEnum
<1> QED
  BY <1>5, <1>6, <1>8

LEMMA CheckOfEnum ==
  ASSUME NEW enum \in Part, NEW column \in STRING, IsEnum(enum.kids)
  PROVE  CheckOf(enum, column) \in Part /\ CheckOf(enum, column).type = enum.type
         /\ IsEnum(CheckOf(enum, column).kids)
  BY CheckOfParts

(* create_rewrite_enum leaves names, types and keywords.                   *)
LEMMA EnumParts ==
  ASSUME NEW node \in Node, Parsed(node), node.type = "COLUMN_DEF"
  PROVE  RewriteEnums(node) \in Node /\ Parsed(RewriteEnums(node))
         /\ RewriteEnums(node).type = node.type
<1> DEFINE n    == Len(node.kids)
           kids == [k \in DOMAIN node.kids |->
                     IF node.kids[k].type = "ENUM_DEF" THEN CheckOf(node.kids[k], node.kids[1].text)
                     ELSE node.kids[k]]
<1>1. RewriteEnums(node) = [node EXCEPT !.kids = kids]
  BY DEF RewriteEnums
<1>2. node.kids \in Seq(Part) /\ n \in Nat /\ DOMAIN node.kids = 1 .. n
  BY DEF Node
<1>3. IsColumn(node.kids) /\ n >= 2 /\ node.kids[1].text \in STRING
  <2>1. IsColumn(node.kids)
    BY DEF Parsed
  <2>2. n >= 2
    BY <2>1 DEF IsColumn
  <2>3. 1 \in 1 .. n
    BY <1>2, <2>2
  <2>4. node.kids[1] \in Part
    BY <1>2, <2>3
  <2> QED
    BY <2>1, <2>2, <2>4 DEF Part
<1>4. ASSUME NEW k \in 1 .. n
      PROVE  /\ kids[k] \in Part /\ kids[k].type = node.kids[k].type
             /\ kids[k].type = "ENUM_DEF" => IsEnum(kids[k].kids)
  <2>1. node.kids[k] \in Part /\ k \in DOMAIN node.kids
    BY <1>2
  <2>2. CASE node.kids[k].type = "ENUM_DEF"
    <3>1. IsEnum(node.kids[k].kids)
      BY <2>1, <2>2 DEF Parsed
    <3>2. kids[k] = CheckOf(node.kids[k], node.kids[1].text)
      BY <2>1, <2>2
    <3> HIDE DEF kids
    <3> QED
      BY <1>3, <2>1, <2>2, <3>1, <3>2, CheckOfEnum
  <2>3. CASE node.kids[k].type # "ENUM_DEF"
    BY <2>1, <2>3
  <2> QED
    BY <2>2, <2>3
<1>5. kids \in Seq(Part) /\ Len(kids) = n /\ DOMAIN kids = 1 .. n
  <2>1. DOMAIN kids = 1 .. n /\ kids = [k \in 1 .. n |-> kids[k]]
    BY <1>2
  <2> HIDE DEF kids
  <2>2. kids \in [1 .. n -> Part]
    BY <1>4, <2>1
  <2> QED
    BY <1>2, <2>2, FunctionIsSeq
<1> HIDE DEF kids
<1>6. RewriteEnums(node) \in Node /\ RewriteEnums(node).type = node.type
      /\ RewriteEnums(node).kids = kids
  BY <1>1, <1>5 DEF Node
<1>7. IsColumn(kids)
  BY <1>2, <1>3, <1>4, <1>5 DEF IsColumn
<1> QED
  BY <1>4, <1>5, <1>6, <1>7 DEF Parsed

-----------------------------------------------------------------------------
(* ChildrenOK and ListWellFormed are inductive together: a pass either     *)
(* rewrites children where they stand,                                     *)
LEMMA RewriteInPlace ==
  ASSUME ChildrenOK, ListWellFormed, NEW d \in DOMAIN children, NEW node \in Node,
         Parsed(node), node.type = children[d].type,
         children' = [children EXCEPT ![d] = node]
  PROVE  ChildrenOK' /\ ListWellFormed'
<1>1. children \in Seq(Node) /\ d \in 1 .. Len(children) /\ DOMAIN children = 1 .. Len(children)
  BY DEF ChildrenOK
<1>2. /\ children' \in Seq(Node) /\ Len(children') = Len(children)
      /\ \A j \in 1 .. Len(children) : children'[j] = IF j = d THEN node ELSE children[j]
  BY <1>1, ExceptSeq
<1>3. DOMAIN children' = 1 .. Len(children)
  BY <1>2
<1>4. \A j \in DOMAIN children' : Parsed(children'[j])
  BY <1>1, <1>2, <1>3 DEF ChildrenOK
<1>5. \A j \in 1 .. Len(children) : children'[j].type = children[j].type
  BY <1>1, <1>2
<1>6. CommaSeparated(children')
  BY <1>1, <1>2, <1>5, SameTypesSameCommas DEF ListWellFormed
<1> QED
  BY <1>2, <1>4, <1>6 DEF ChildrenOK, ListWellFormed

(* or takes a constraint out with its comma,                               *)
LEMMA TakeOut ==
  ASSUME ChildrenOK, ListWellFormed, NEW p \in DOMAIN children,
         children[p].type \in Movable, children' = DeleteWithComma(children, p)
  PROVE  ChildrenOK' /\ ListWellFormed'
<1> DEFINE new == DeleteWithComma(children, p)
<1>1. children \in Seq(Node) /\ CommaSeparated(children) /\ DOMAIN children = 1 .. Len(children)
      /\ Len(children) \in Nat /\ p \in 1 .. Len(children)
  BY DEF ChildrenOK, ListWellFormed
<1>2. /\ new \in Seq(Node) /\ Len(new) = Len(children) - 2
      /\ \A k \in 1 .. Len(children) - 2 :
           new[k] = IF k < p - 1 THEN children[k] ELSE children[k + 2]
  BY <1>1, DeletedPair
<1>4. CommaSeparated(new)
  BY <1>1, DeleteKeepsCommas
<1>5. children' = new
  OBVIOUS
<1> HIDE DEF new
<1>3. ASSUME NEW k \in DOMAIN new
      PROVE  \E j \in DOMAIN children : new[k] = children[j]
  <2>1. k \in 1 .. Len(children) - 2
    BY <1>1, <1>2
  <2>2. k \in DOMAIN children /\ k + 2 \in DOMAIN children
    BY <1>1, <2>1
  <2>3. new[k] = IF k < p - 1 THEN children[k] ELSE children[k + 2]
    BY <1>2, <2>1
  <2> QED
    BY <2>2, <2>3
<1>6. \A k \in DOMAIN new : Parsed(new[k])
  BY <1>2, <1>3, FewerChildren
<1> QED
  BY <1>2, <1>4, <1>5, <1>6 DEF ChildrenOK, ListWellFormed

(* or an option alone.                                                     *)
LEMMA DropOption ==
  ASSUME ChildrenOK, ListWellFormed, NEW p \in DOMAIN children,
         children[p].type = "OPTIONS", children' = RemoveAt(children, p)
  PROVE  ChildrenOK' /\ ListWellFormed'
<1> DEFINE new == RemoveAt(children, p)
<1>1. children \in Seq(Node) /\ CommaSeparated(children) /\ DOMAIN children = 1 .. Len(children)
      /\ Len(children) \in Nat /\ p \in 1 .. Len(children)
  BY DEF ChildrenOK, ListWellFormed
<1>2. /\ new \in Seq(Node) /\ Len(new) = Len(children) - 1
      /\ \A k \in 1 .. Len(children) - 1 :
           new[k] = IF k < p THEN children[k] ELSE children[k + 1]
  BY <1>1, RemoveAtOne
<1>4. CommaSeparated(new)
  BY <1>1, RemoveKeepsCommas
<1>5. children' = new
  OBVIOUS
<1> HIDE DEF new
<1>3. ASSUME NEW k \in DOMAIN new
      PROVE  \E j \in DOMAIN children : new[k] = children[j]
  <2>1. k \in 1 .. Len(children) - 1
    BY <1>1, <1>2
  <2>2. k \in DOMAIN children /\ k + 1 \in DOMAIN children
    BY <1>1, <2>1
  <2>3. new[k] = IF k < p THEN children[k] ELSE children[k + 1]
    BY <1>2, <2>1
  <2> QED
    BY <2>2, <2>3
<1>6. \A k \in DOMAIN new : Parsed(new[k])
  BY <1>2, <1>3, FewerChildren
<1> QED
  BY <1>2, <1>4, <1>5, <1>6 DEF ChildrenOK, ListWellFormed

(* DOUBLE is spelled out where it stands.                                  *)
LEMMA SpellOut ==
  ASSUME ChildrenOK, ListWellFormed, RewriteDatatypes
  PROVE  ChildrenOK' /\ ListWellFormed'
<1> DEFINE Out(c) ==
             IF /\ children[c].type = "DOUBLE"
                /\ c < Len(children) /\ children[c + 1].type # "PRECISION"
             THEN [children[c] EXCEPT !.text = Spelled]
             ELSE children[c]
           n   == Len(children)
           new == [c \in DOMAIN children |-> Out(c)]
<1>1. children \in Seq(Node) /\ n \in Nat /\ DOMAIN children = 1 .. n /\ CommaSeparated(children)
  BY DEF ChildrenOK, ListWellFormed
<1>2. children' = new
  BY DEF RewriteDatatypes
<1>3. ASSUME NEW c \in 1 .. n
      PROVE  /\ Out(c) \in Node /\ Out(c).type = children[c].type
             /\ Out(c).kids = children[c].kids
  <2>1. children[c] \in Node
    BY <1>1
  <2>2. ASSUME NEW node \in Node, NEW text \in STRING
        PROVE  /\ [node EXCEPT !.text = text] \in Node
               /\ [node EXCEPT !.text = text].type = node.type
               /\ [node EXCEPT !.text = text].kids = node.kids
    BY DEF Node
  <2>3. Out(c) = children[c] \/ Out(c) = [children[c] EXCEPT !.text = Spelled]
    OBVIOUS
  <2>4. CASE Out(c) = [children[c] EXCEPT !.text = Spelled]
    BY <2>1, <2>2, <2>4, SpelledAssumption
  <2> HIDE DEF Out
  <2>5. CASE Out(c) = children[c]
    BY <2>1, <2>5
  <2> QED
    BY <2>3, <2>4, <2>5
<1>4. \A c \in 1 .. n : new[c] = Out(c)
  BY <1>1
<1>5. new \in [1 .. n -> Node]
  <2>1. \A c \in 1 .. n : Out(c) \in Node
    BY <1>3
  <2> HIDE DEF Out
  <2> QED
    BY <1>1, <2>1
<1> HIDE DEF Out, new
<1>6. new \in Seq(Node) /\ Len(new) = n /\ DOMAIN new = 1 .. n
  BY <1>1, <1>5, FunctionIsSeq
<1>7. \A c \in 1 .. n : new[c].type = children[c].type /\ new[c].kids = children[c].kids
  BY <1>3, <1>4
<1>8. ASSUME NEW c \in DOMAIN new
      PROVE  Parsed(new[c])
  <2>1. c \in DOMAIN children /\ c \in 1 .. n
    BY <1>1, <1>6
  <2>2. Parsed(children[c])
    BY <2>1 DEF ChildrenOK
  <2> QED
    BY <1>7, <2>1, <2>2 DEF Parsed
<1>9. CommaSeparated(new)
  BY <1>1, <1>6, <1>7, SameTypesSameCommas
<1> QED
  BY <1>2, <1>6, <1>8, <1>9 DEF ChildrenOK, ListWellFormed

(* What a pass looks for is what it finds.                                 *)
LEMMA TurnType ==
  ASSUME NEW name \in DOMAIN LooksFor, NEW p, Turn(name, p)
  PROVE  children[p].type = LooksFor[name]
  BY DEF Turn, Finds

LEMMA ChildIsNode ==
  ASSUME ChildrenOK, NEW d \in DOMAIN children
  PROVE  /\ children[d] \in Node /\ Parsed(children[d])
         /\ children[d].kids \in Seq(Part)
         /\ DOMAIN children[d].kids = 1 .. Len(children[d].kids)
<1>1. children[d] \in Node /\ Parsed(children[d])
  BY DEF ChildrenOK
<1>2. children[d].kids \in Seq(Part)
  BY <1>1 DEF Node
<1> QED
  BY <1>1, <1>2

Inv == ChildrenOK /\ ListWellFormed

(* Every table that the parser makes satisfies the invariant.              *)
LEMMA InitInv == Init => Inv
<1> SUFFICES ASSUME Init PROVE Inv
  OBVIOUS
<1>1. WellFormed(table) /\ children = table.children
  BY TablesAssumption DEF Init
<1> QED
  BY <1>1 DEF WellFormed, Inv, ChildrenOK, ListWellFormed

(* Every step of every pass keeps it.                                      *)
LEMMA NextInv == Inv /\ [Next]_vars => Inv'
<1> SUFFICES ASSUME ChildrenOK, ListWellFormed, [Next]_vars PROVE Inv'
  BY DEF Inv
<1>1. CASE RewriteEnum
  <2>1. PICK d \in DOMAIN children :
          Turn("enum", d) /\ children' = [children EXCEPT ![d] = RewriteEnums(@)]
    BY <1>1 DEF RewriteEnum
  <2>2. children[d].type = "COLUMN_DEF"
    BY <2>1, TurnType DEF LooksFor
  <2>3. RewriteEnums(children[d]) \in Node /\ Parsed(RewriteEnums(children[d]))
        /\ RewriteEnums(children[d]).type = children[d].type
    BY <2>2, ChildIsNode, EnumParts
  <2>4. children' = [children EXCEPT ![d] = RewriteEnums(children[d])]
    BY <2>1
  <2> QED
    BY <2>3, <2>4, RewriteInPlace DEF Inv
<1>2. CASE RewriteDatatypes
  BY <1>2, SpellOut DEF Inv
<1>3. CASE RewriteOnUpdate
  <2>1. PICK d \in DOMAIN children : \E u \in DOMAIN children[d].kids :
          /\ Turn("onupdate", d)
          /\ Finds(children[d].kids, inner, "ONUPDATE", u)
          /\ children' = [children EXCEPT ![d].kids = RemoveAt(@, u)]
    BY <1>3 DEF RewriteOnUpdate
  <2>2. PICK u \in DOMAIN children[d].kids :
          /\ Turn("onupdate", d)
          /\ Finds(children[d].kids, inner, "ONUPDATE", u)
          /\ children' = [children EXCEPT ![d].kids = RemoveAt(@, u)]
    BY <2>1
  <2>3. children[d].type = "COLUMN_DEF" /\ children[d].kids[u].type = "ONUPDATE"
    BY <2>2, TurnType DEF LooksFor, Finds
  <2>4. u > 2
    BY <2>3, ChildIsNode DEF Parsed, IsColumn
  <2> DEFINE node == [children[d] EXCEPT !.kids = RemoveAt(@, u)]
  <2>5. node \in Node /\ Parsed(node) /\ node.type = children[d].type
    BY <2>4, ChildIsNode, FewerParts
  <2>6. children' = [children EXCEPT ![d] = node]
    BY <2>2
  <2> HIDE DEF node
  <2> QED
    BY <2>5, <2>6, RewriteInPlace DEF Inv
<1>4. CASE EndColumn
  BY <1>4 DEF EndColumn, Inv, ChildrenOK, ListWellFormed
<1>5. CASE RewriteStupidDate
  <2>1. PICK d \in DOMAIN children :
          Turn("stupid_date", d) /\ children' = [children EXCEPT ![d] = LiftNotNull(@)]
    BY <1>5 DEF RewriteStupidDate
  <2>2. children[d].type = "COLUMN_DEF"
    BY <2>1, TurnType DEF LooksFor
  <2>3. LiftNotNull(children[d]) \in Node /\ Parsed(LiftNotNull(children[d]))
        /\ LiftNotNull(children[d]).type = children[d].type
    BY <2>2, ChildIsNode, LiftedParts
  <2>4. children' = [children EXCEPT ![d] = LiftNotNull(children[d])]
    BY <2>1
  <2> QED
    BY <2>3, <2>4, RewriteInPlace DEF Inv
<1>6. CASE RewriteIndex
  <2>1. PICK p \in DOMAIN children :
          Turn("index", p) /\ children' = DeleteWithComma(children, p)
    BY <1>6 DEF RewriteIndex
  <2>2. children[p].type \in Movable
    BY <2>1, TurnType DEF LooksFor, Movable
  <2> QED
    BY <2>1, <2>2, TakeOut DEF Inv
<1>7. CASE RewriteAutoInc
  <2>1. PICK d \in DOMAIN children :
          /\ Turn("auto_inc", d)
          /\ \/ children' = children
             \/ \E k \in DOMAIN children[d].kids :
                  /\ Finds(children[d].kids, 1, "AUTO_INCREMENT", k)
                  /\ children' = [children EXCEPT ![d].kids = RemoveAt(@, k)]
    BY <1>7 DEF RewriteAutoInc
  <2>2. CASE children' = children
    BY <2>2 DEF Inv, ChildrenOK, ListWellFormed
  <2>3. ASSUME NEW k \in DOMAIN children[d].kids,
               Finds(children[d].kids, 1, "AUTO_INCREMENT", k),
               children' = [children EXCEPT ![d].kids = RemoveAt(@, k)]
        PROVE  Inv'
    <3>1. children[d].type = "COLUMN_DEF" /\ children[d].kids[k].type = "AUTO_INCREMENT"
      BY <2>1, <2>3, TurnType DEF LooksFor, Finds
    <3>2. k > 2
      BY <3>1, ChildIsNode DEF Parsed, IsColumn
    <3> DEFINE node == [children[d] EXCEPT !.kids = RemoveAt(@, k)]
    <3>3. node \in Node /\ Parsed(node) /\ node.type = children[d].type
      BY <3>2, ChildIsNode, FewerParts
    <3>4. children' = [children EXCEPT ![d] = node]
      BY <2>3
    <3> HIDE DEF node
    <3> QED
      BY <3>3, <3>4, RewriteInPlace DEF Inv
  <2> QED
    BY <2>1, <2>2, <2>3
<1>8. CASE RemoveFulltext
  <2>1. PICK p \in DOMAIN children :
          /\ Turn("fulltext", p)
          /\ children' = IF p > 2 THEN DeleteWithComma(children, p) ELSE RemoveAt(children, p)
    BY <1>8 DEF RemoveFulltext
  <2>2. children[p].type \in Movable
    BY <2>1, TurnType DEF LooksFor, Movable
  <2>3. p > 2
    BY <2>2, DeletedPair DEF ChildrenOK, ListWellFormed
  <2> QED
    BY <2>1, <2>2, <2>3, TakeOut DEF Inv
<1>9. CASE RewriteForeignKey
  <2>1. PICK p \in DOMAIN children :
          Turn("fkey", p) /\ children' = DeleteWithComma(children, p)
    BY <1>9 DEF RewriteForeignKey
  <2>2. children[p].type \in Movable
    BY <2>1, TurnType DEF LooksFor, Movable
  <2> QED
    BY <2>1, <2>2, TakeOut DEF Inv
<1>10. CASE RemoveOption
  <2>1. PICK p \in DOMAIN children :
          Turn("options", p) /\ children' = RemoveAt(children, p)
    BY <1>10 DEF RemoveOption
  <2>2. children[p].type = "OPTIONS"
    BY <2>1, TurnType DEF LooksFor
  <2> QED
    BY <2>1, <2>2, DropOption DEF Inv
<1>11. CASE EndPass
  BY <1>11 DEF EndPass, Inv, ChildrenOK, ListWellFormed
<1>12. CASE UNCHANGED vars
  BY <1>12 DEF vars, Inv, ChildrenOK, ListWellFormed
<1> QED
  BY <1>1, <1>2, <1>3, <1>4, <1>5, <1>6, <1>7, <1>8, <1>9, <1>10, <1>11, <1>12 DEF Next

(* However many constraints the passes take out, between the pieces of a   *)
(* column that are left and in whatever order keys, FULLTEXT indexes and   *)
(* foreign keys stood: the list keeps a comma between two items and        *)
(* nowhere else (create_table_index, create_table_fulltext_index,          *)
(* create_table_rewrite_fkey).                                             *)
THEOREM ListStaysWellFormed == Spec => []ListWellFormed
<1>1. Inv => ListWellFormed
  BY DEF Inv
<1> QED
  BY <1>1, InitInv, NextInv, PTL DEF Spec

(* The deletions inside a column never reach its name or its type, and the *)
(* CHECK made of an ENUM can be read as the ENUM was: the passes that run  *)
(* later find what they read (create_table_rewrite_auto_inc and            *)
(* create_table_rewrite_onupdate take the first child for the name).       *)
THEOREM ColumnsStayParsed == Spec => []ChildrenOK
<1>1. Inv => ChildrenOK
  BY DEF Inv
<1> QED
  BY <1>1, InitInv, NextInv, PTL DEF Spec
-----------------------------------------------------------------------------
(* Counting the parts of a type.                                           *)
LEMMA SameSize ==
  ASSUME NEW S, NEW T, IsFiniteSet(S), NEW f \in [S -> T],
         \A x, y \in S : f[x] = f[y] => x = y, \A t \in T : \E x \in S : f[x] = t
  PROVE  IsFiniteSet(T) /\ Cardinality(T) = Cardinality(S)
<1>1. f \in Bijection(S, T)
  BY Fun_IsBij
<1> QED
  BY <1>1, FS_Bijection DEF ExistsBijection

(* Counting the options of a type in a column.                             *)
LEMMA CountIsNat ==
  ASSUME NEW S, NEW s \in Seq(S), NEW o
  PROVE  /\ CountType(s, o) \in Nat /\ IsFiniteSet({k \in DOMAIN s : s[k].type = o})
         /\ CountType(s, o) = 0 <=> FindsNone(s, 1, o)
<1>1. Len(s) \in Nat /\ DOMAIN s = 1 .. Len(s)
  OBVIOUS
<1>2. IsFiniteSet(1 .. Len(s)) /\ {k \in DOMAIN s : s[k].type = o} \subseteq 1 .. Len(s)
  BY <1>1, FS_Interval
<1>3. IsFiniteSet({k \in DOMAIN s : s[k].type = o})
  BY <1>2, FS_Subset
<1>4. CountType(s, o) = 0 <=> {k \in DOMAIN s : s[k].type = o} = {}
  BY <1>3, FS_EmptySet DEF CountType
<1> QED
  BY <1>1, <1>3, <1>4, FS_CardinalityType DEF CountType, FindsNone

LEMMA CountSame ==
  ASSUME NEW S, NEW s \in Seq(S), NEW T, NEW t \in Seq(T), NEW o,
         Len(s) = Len(t), \A k \in 1 .. Len(s) : s[k].type = o <=> t[k].type = o
  PROVE  CountType(s, o) = CountType(t, o)
<1>1. DOMAIN s = 1 .. Len(s) /\ DOMAIN t = 1 .. Len(t)
  OBVIOUS
<1>2. {k \in DOMAIN s : s[k].type = o} = {k \in DOMAIN t : t[k].type = o}
  BY <1>1
<1> QED
  BY <1>2 DEF CountType

LEMMA CountRemoved ==
  ASSUME NEW S, NEW s \in Seq(S), NEW i \in 1 .. Len(s), NEW o
  PROVE  CountType(RemoveAt(s, i), o) = CountType(s, o) - (IF s[i].type = o THEN 1 ELSE 0)
<1> DEFINE t   == RemoveAt(s, i)
           Old == {k \in 1 .. Len(s) : s[k].type = o}
           New == {k \in 1 .. Len(t) : t[k].type = o}
           f   == [k \in New |-> IF k < i THEN k ELSE k + 1]
<1>1. /\ Len(s) \in Nat /\ i \in Int /\ t \in Seq(S) /\ Len(t) = Len(s) - 1
      /\ \A k \in 1 .. Len(s) - 1 : t[k] = IF k < i THEN s[k] ELSE s[k + 1]
  BY RemoveAtOne
<1>2. CountType(s, o) = Cardinality(Old) /\ CountType(t, o) = Cardinality(New)
      /\ IsFiniteSet(Old) /\ IsFiniteSet(New) /\ Cardinality(Old) \in Nat
  <2>1. DOMAIN s = 1 .. Len(s) /\ DOMAIN t = 1 .. Len(t)
    BY <1>1
  <2> QED
    BY <1>1, <2>1, CountIsNat DEF CountType
<1> HIDE DEF t
<1>3. \A k \in New : f[k] \in Old \ {i} /\ f[k] = IF k < i THEN k ELSE k + 1
  BY <1>1
<1>6. f \in [New -> Old \ {i}]
  <2> HIDE DEF New, Old
  <2> QED
    BY <1>3
<1> HIDE DEF f
<1>4. \A k, j \in New : f[k] = f[j] => k = j
  BY <1>1, <1>3
<1>5. \A j \in Old \ {i} : \E k \in New : f[k] = j
  <2> TAKE j \in Old \ {i}
  <2>1. CASE j < i
    <3>1. j \in New
      BY <1>1, <2>1
    <3> QED
      BY <1>3, <2>1, <3>1
  <2>2. CASE j > i
    <3>1. j - 1 \in New /\ (j - 1) + 1 = j /\ ~(j - 1 < i)
      BY <1>1, <2>2
    <3> QED
      BY <1>3, <3>1
  <2> QED
    BY <1>1, <2>1, <2>2
<1> HIDE DEF New, Old
<1>7. IsFiniteSet(Old \ {i}) /\ Cardinality(Old \ {i}) = Cardinality(New)
  BY <1>2, <1>4, <1>5, <1>6, SameSize
<1>8. CASE s[i].type = o
  <2>1. i \in Old
    BY <1>8 DEF Old
  <2>2. Cardinality(Old \ {i}) = Cardinality(Old) - 1
    BY <1>2, <2>1, FS_RemoveElement
  <2> QED
    BY <1>2, <1>7, <1>8, <2>2 DEF t
<1>9. CASE s[i].type # o
  <2>1. Old \ {i} = Old
    BY <1>9 DEF Old
  <2>2. CountType(t, o) = CountType(s, o) /\ CountType(s, o) \in Nat
    BY <1>2, <1>7, <2>1
  <2>3. CountType(s, o) - 0 = CountType(s, o)
    BY <2>2
  <2> QED
    BY <1>9, <2>2, <2>3 DEF t
<1> QED
  BY <1>8, <1>9

-----------------------------------------------------------------------------
(* What becomes of a child: its text changes if it is DOUBLE, its parts if *)
(* it is a column, and a column keeps its name.                            *)
Same(a, b) ==
  /\ b.type = a.type
  /\ a.type # "DOUBLE" => b.text = a.text
  /\ a.type # "COLUMN_DEF" => b.kids = a.kids
  /\ a.type = "COLUMN_DEF" => b.kids[1] = a.kids[1]
Options == {"AUTO_INCREMENT", "ONUPDATE"}

(* Same(a, b): b is what the passes may have made of a.                    *)
LEMMA SameRefl == \A a : Same(a, a)
  BY DEF Same
LEMMA SameTrans == \A a, b, c : Same(a, b) /\ Same(b, c) => Same(a, c)
  BY DEF Same
LEMMA SameConstraint ==
  \A a, b \in Node : Same(a, b) /\ a.type \notin {"COLUMN_DEF", "DOUBLE"} => a = b
<1> SUFFICES ASSUME NEW a \in Node, NEW b \in Node, Same(a, b),
      a.type \notin {"COLUMN_DEF", "DOUBLE"}
             PROVE  a = b
  OBVIOUS
<1>1. /\ a = [type |-> a.type, text |-> a.text, kids |-> a.kids]
      /\ b = [type |-> b.type, text |-> b.text, kids |-> b.kids]
  BY DEF Node
<1>2. a.type = b.type /\ a.text = b.text /\ a.kids = b.kids
  BY DEF Same
<1> QED
  BY <1>1, <1>2

(* A column without a part of another type than its name.                  *)
LEMMA FewerSame ==
  ASSUME NEW node \in Node, Parsed(node), node.type = "COLUMN_DEF",
         NEW k \in DOMAIN node.kids, k > 2
  PROVE  LET new == [node EXCEPT !.kids = RemoveAt(@, k)]
         IN  /\ new \in Node /\ Parsed(new) /\ Same(node, new)
             /\ \A o : CountType(new.kids, o)
                         = CountType(node.kids, o) - (IF node.kids[k].type = o THEN 1 ELSE 0)
<1> DEFINE new == [node EXCEPT !.kids = RemoveAt(@, k)]
<1>1. new \in Node /\ Parsed(new) /\ new.type = node.type
  BY FewerParts
<1>2. node.kids \in Seq(Part) /\ Len(node.kids) \in Nat /\ k \in 1 .. Len(node.kids)
  BY DEF Node
<1>3. new.kids = RemoveAt(node.kids, k) /\ new.text = node.text
  BY DEF Node
<1>4. RemoveAt(node.kids, k)[1] = node.kids[1]
  <2>1. \A j \in 1 .. Len(node.kids) - 1 :
          RemoveAt(node.kids, k)[j] = IF j < k THEN node.kids[j] ELSE node.kids[j + 1]
    BY <1>2, RemoveAtOne
  <2>2. 1 \in 1 .. Len(node.kids) - 1 /\ 1 < k
    BY <1>2
  <2> QED
    BY <2>1, <2>2
<1>5. \A o : CountType(RemoveAt(node.kids, k), o)
               = CountType(node.kids, o) - (IF node.kids[k].type = o THEN 1 ELSE 0)
  BY <1>2, CountRemoved
<1> HIDE DEF new
<1> QED
  BY <1>1, <1>3, <1>4, <1>5 DEF Same, new

LEMMA LiftedSame ==
  ASSUME NEW node \in Node, Parsed(node), node.type = "COLUMN_DEF"
  PROVE  /\ Same(node, LiftNotNull(node))
         /\ \A o \in Options : CountType(LiftNotNull(node).kids, o) = CountType(node.kids, o)
<1> DEFINE found == {k \in DOMAIN node.kids : IsNotNull(node.kids, k)}
           first == CHOOSE k \in found : \A q \in found : k <= q
           once  == [node EXCEPT !.kids = RemoveAt(@, first)]
           twice == [once EXCEPT !.kids = RemoveAt(@, first)]
<1>1. CASE ~ (HasStupidDate(node) /\ found # {})
  <2>1. LiftNotNull(node) = node
    BY <1>1 DEF LiftNotNull
  <2> QED
    BY <2>1, SameRefl
<1>2. CASE HasStupidDate(node) /\ found # {}
  <2>1. node.kids \in Seq(Part) /\ Len(node.kids) \in Nat /\ DOMAIN node.kids = 1 .. Len(node.kids)
    BY DEF Node
  <2>2. first \in found
    <3>1. found \in SUBSET Nat
      BY <2>1
    <3>2. \E k \in found : \A q \in found : k <= q
      BY <1>2, <3>1, FirstExists
    <3> QED
      BY <3>2
  <2> HIDE DEF first
  <2>3. first \in 1 .. Len(node.kids) /\ first < Len(node.kids)
        /\ node.kids[first].type = "NOT" /\ node.kids[first + 1].type = "NULL"
    BY <2>1, <2>2 DEF IsNotNull
  <2>4. first > 2
    BY <2>1, <2>3 DEF Parsed, IsColumn
  <2>5. /\ once \in Node /\ Parsed(once) /\ Same(node, once)
        /\ \A o : CountType(once.kids, o)
                    = CountType(node.kids, o) - (IF node.kids[first].type = o THEN 1 ELSE 0)
    BY <2>1, <2>3, <2>4, FewerSame
  <2>6. once.kids = RemoveAt(node.kids, first)
    BY DEF Node
  <2>7. /\ Len(once.kids) = Len(node.kids) - 1 /\ once.kids \in Seq(Part)
        /\ once.kids[first].type = "NULL"
    <3>1. /\ RemoveAt(node.kids, first) \in Seq(Part)
          /\ Len(RemoveAt(node.kids, first)) = Len(node.kids) - 1
          /\ \A j \in 1 .. Len(node.kids) - 1 :
               RemoveAt(node.kids, first)[j] = IF j < first THEN node.kids[j] ELSE node.kids[j + 1]
      BY <2>1, <2>3, RemoveAtOne
    <3>2. first \in 1 .. Len(node.kids) - 1 /\ ~(first < first)
      BY <2>1, <2>3
    <3> QED
      BY <2>3, <2>6, <3>1, <3>2
  <2>8. first \in DOMAIN once.kids /\ once.type = "COLUMN_DEF"
    BY <2>1, <2>3, <2>5, <2>7 DEF Same
  <2> HIDE DEF once
  <2>9. /\ Same(once, twice)
        /\ \A o : CountType(twice.kids, o)
                    = CountType(once.kids, o) - (IF once.kids[first].type = o THEN 1 ELSE 0)
    BY <2>4, <2>5, <2>8, FewerSame
  <2>10. twice = [node EXCEPT !.kids = RemoveAt(RemoveAt(@, first), first)]
    BY <2>6 DEF once, Node
  <2>11. LiftNotNull(node) = [node EXCEPT !.kids = RemoveAt(RemoveAt(@, first), first)]
    BY <1>2 DEF LiftNotNull, first
  <2> HIDE DEF twice
  <2>12. \A o \in Options : CountType(twice.kids, o) = CountType(node.kids, o)
    <3> TAKE o \in Options
    <3>1. o # "NOT" /\ o # "NULL"
      BY DEF Options
    <3>2. CountType(node.kids, o) \in Nat
      BY <2>1, CountIsNat
    <3>3. CountType(once.kids, o) = CountType(node.kids, o) - 0
      BY <2>3, <2>5, <3>1
    <3>4. CountType(twice.kids, o) = CountType(once.kids, o) - 0
      BY <2>7, <2>9, <3>1
    <3> QED
      BY <3>2, <3>3, <3>4
  <2>13. Same(node, twice)
    BY <2>5, <2>9, SameTrans
  <2> QED
    BY <2>10, <2>11, <2>12, <2>13
<1> QED
  BY <1>1, <1>2

(* Each rewriting of a column leaves it the same column.                   *)
LEMMA EnumSame ==
  ASSUME NEW node \in Node, Parsed(node), node.type = "COLUMN_DEF"
  PROVE  /\ Same(node, RewriteEnums(node))
         /\ \A o \in Options : CountType(RewriteEnums(node).kids, o) = CountType(node.kids, o)
<1> DEFINE new  == RewriteEnums(node)
           kids == [k \in DOMAIN node.kids |->
                     IF node.kids[k].type = "ENUM_DEF" THEN CheckOf(node.kids[k], node.kids[1].text)
                     ELSE node.kids[k]]
<1>1. new = [node EXCEPT !.kids = kids]
  BY DEF RewriteEnums
<1>2. /\ node.kids \in Seq(Part) /\ Len(node.kids) \in Nat /\ DOMAIN node.kids = 1 .. Len(node.kids)
      /\ node = [type |-> node.type, text |-> node.text, kids |-> node.kids]
  BY DEF Node
<1>3. new.kids = kids /\ new.text = node.text
  BY <1>1, <1>2
<1>4. Len(node.kids) >= 2 /\ node.kids[1].type = "ID"
  BY DEF Parsed, IsColumn
<1>5. new \in Node /\ new.type = node.type
  BY EnumParts
<1>6. kids[1] = node.kids[1]
  BY <1>2, <1>4
<1>7. ASSUME NEW k \in 1 .. Len(node.kids)
      PROVE  kids[k].type = node.kids[k].type
  <2>1. CASE node.kids[k].type # "ENUM_DEF"
    BY <1>2, <2>1
  <2>2. CASE node.kids[k].type = "ENUM_DEF"
    <3>1. node.kids[k] \in Part /\ node.kids[1] \in Part
      BY <1>2, <1>4
    <3>2. IsEnum(node.kids[k].kids) /\ node.kids[1].text \in STRING
      BY <1>2, <2>2, <3>1 DEF Parsed, Part
    <3>3. CheckOf(node.kids[k], node.kids[1].text).type = node.kids[k].type
      BY <3>1, <3>2, CheckOfEnum
    <3>4. kids[k] = CheckOf(node.kids[k], node.kids[1].text)
      BY <1>2, <2>2
    <3> HIDE DEF kids
    <3> QED
      BY <3>3, <3>4
  <2> QED
    BY <2>1, <2>2
<1>8. Len(kids) = Len(node.kids) /\ kids \in Seq(Part)
  <2>1. kids \in Seq(Part)
    BY <1>3, <1>5 DEF Node
  <2>2. DOMAIN kids = 1 .. Len(node.kids)
    BY <1>2
  <2> HIDE DEF kids
  <2> QED
    BY <1>2, <2>1, <2>2
<1> HIDE DEF kids, new
<1>9. \A o \in Options : CountType(kids, o) = CountType(node.kids, o)
  BY <1>2, <1>7, <1>8, CountSame
<1> QED
  BY <1>3, <1>4, <1>5, <1>6, <1>9 DEF Same, new

-----------------------------------------------------------------------------
(* The steps, by what they do to the children and to the queue.  Four      *)
(* passes work on columns, four take children out.                         *)
Cursor ==
  /\ pass \in 1 .. 10 /\ pos \in Nat \ {0} /\ inner \in Nat \ {0}
  /\ pass \in {2, 5, 8, 10} => pos = 1
  /\ pass # 3 => inner = 1

(* The queue grows at its end.                                             *)
Whats == {"INDEX", "SEQUENCE", "DEFAULT", "FKEY", "FUNCTION", "TRIGGER"}
QueueOK ==
  /\ postbuf \in Seq(Range(postbuf))
  /\ \A i \in DOMAIN postbuf : postbuf[i].what \in Whats

(* Column d is rewritten where it stands; it loses one part of type o, if  *)
(* o is one.                                                               *)
InPlace(d) ==
  /\ d \in 1 .. Len(children) /\ Finds(children, pos, "COLUMN_DEF", d)
  /\ Len(children') = Len(children)
  /\ \A j \in 1 .. Len(children) : j # d => children'[j] = children[j]
  /\ Same(children[d], children'[d])
  /\ pass' = pass /\ table' = table
ColumnStep(d, o) ==
  /\ InPlace(d)
  /\ \A x \in Options : CountType(children'[d].kids, x)
                          = CountType(children[d].kids, x) - (IF x = o THEN 1 ELSE 0)

GoesOn(d) ==
  /\ ColumnStep(d, "NONE") /\ postbuf' = postbuf
  /\ pass \in {1, 3, 4, 6} /\ pos' = d + 1 /\ inner' = 1
  /\ pass = 3 => FindsNone(children[d].kids, inner, "ONUPDATE")
  /\ pass = 6 => CountType(children[d].kids, "AUTO_INCREMENT") = 0

Triggers(d, u) ==
  /\ ColumnStep(d, "ONUPDATE")
  /\ postbuf' = postbuf \o CreateTrigger(children[d], children[d].kids[u])
  /\ pass = 3 /\ pos' = d /\ inner' = u + 1 /\ u \in Nat

Sequences(d) ==
  /\ ColumnStep(d, "AUTO_INCREMENT") /\ postbuf' = postbuf \o CreateSequence(children[d])
  /\ pass = 6 /\ pos' = d + 1 /\ inner' = 1

(* The n children that end at p go.                                        *)
TakesOut(p, n) ==
  /\ p \in 1 .. Len(children) /\ n \in {1, 2} /\ n < p /\ p >= pos
  /\ \A q \in pos .. p - 1 : children[q].type # children[p].type
  /\ n = 2 => children[p - 1].type = "COMMA"
  /\ Len(children') = Len(children) - n
  /\ \A k \in 1 .. Len(children) - n : children'[k] = children[IF k <= p - n THEN k ELSE k + n]
  /\ pass' = pass /\ table' = table /\ inner' = 1

MovesKey(p) ==
  /\ TakesOut(p, 2) /\ pass = 5 /\ pos' = pos /\ children[p].type = "INDEX"
  /\ postbuf' = postbuf \o <<CreateIndex(children[p])>>
DropsFulltext(p) ==
  /\ TakesOut(p, 2) /\ pass = 7 /\ pos' = p /\ children[p].type = "FULLTEXT" /\ postbuf' = postbuf
MovesForeignKey(p) ==
  /\ TakesOut(p, 2) /\ pass = 8 /\ pos' = pos /\ children[p].type = "FKEY"
  /\ postbuf' = postbuf \o <<AddForeignKey(children[p])>>
DropsOption(p) ==
  /\ TakesOut(p, 1) /\ pass = 9 /\ pos' = p /\ children[p].type = "OPTIONS" /\ postbuf' = postbuf

SpellsOut ==
  /\ pass = 2 /\ pass' = 3 /\ pos' = 1 /\ inner' = 1
  /\ Len(children') = Len(children)
  /\ \A i \in 1 .. Len(children) : Same(children[i], children'[i])
       /\ children'[i].kids = children[i].kids
  /\ postbuf' = postbuf /\ table' = table

EndsPass ==
  /\ pass \in 1 .. 9 /\ pass # 2 /\ pass' = pass + 1 /\ pos' = 1 /\ inner' = 1
  /\ FindsNone(children, pos, LooksFor[Passes[pass]])
  /\ UNCHANGED <<table, children, postbuf>>

LEMMA PassNumbers ==
  ASSUME pass \in 1 .. 10
  PROVE  /\ Len(Passes) = 9 /\ (Done <=> pass = 10)
         /\ Running("enum") => pass = 1       /\ LooksFor["enum"] = "COLUMN_DEF"
         /\ Running("datatypes") <=> pass = 2
         /\ Running("onupdate") => pass = 3   /\ LooksFor["onupdate"] = "COLUMN_DEF"
         /\ Running("stupid_date") => pass = 4 /\ LooksFor["stupid_date"] = "COLUMN_DEF"
         /\ Running("index") => pass = 5      /\ LooksFor["index"] = "INDEX"
         /\ Running("auto_inc") => pass = 6   /\ LooksFor["auto_inc"] = "COLUMN_DEF"
         /\ Running("fulltext") => pass = 7   /\ LooksFor["fulltext"] = "FULLTEXT"
         /\ Running("fkey") => pass = 8       /\ LooksFor["fkey"] = "FKEY"
         /\ Running("options") => pass = 9    /\ LooksFor["options"] = "OPTIONS"
  BY DEF Passes, Done, Running, LooksFor

(* What a pass puts in the place of a column is the same column.           *)
LEMMA ColumnRewritten ==
  ASSUME Inv, NEW d \in DOMAIN children, Finds(children, pos, "COLUMN_DEF", d),
         NEW node, Same(children[d], node),
         children' = [children EXCEPT ![d] = node], pass' = pass, table' = table
  PROVE  InPlace(d) /\ children'[d] = node
<1>1. children \in Seq(Node) /\ DOMAIN children = 1 .. Len(children) /\ Len(children) \in Nat
  BY DEF Inv, ChildrenOK
<1>2. /\ Len(children') = Len(children) /\ children'[d] = node
      /\ \A j \in 1 .. Len(children) : j # d => children'[j] = children[j]
  BY <1>1
<1> QED
  BY <1>1, <1>2 DEF InPlace

(* What took_out found is of the type it looks for.                        *)
LEMMA TookOut ==
  ASSUME Inv, Cursor, NEW p \in DOMAIN children, NEW name \in {"index", "fulltext", "fkey"},
         Turn(name, p), children' = DeleteWithComma(children, p), pass' = pass, table' = table,
         inner' = inner, pass # 3
  PROVE  TakesOut(p, 2) /\ children[p].type = LooksFor[name]
<1>1. children \in Seq(Node) /\ DOMAIN children = 1 .. Len(children) /\ Len(children) \in Nat
      /\ CommaSeparated(children)
  BY DEF Inv, ChildrenOK, ListWellFormed
<1>2. children[p].type = LooksFor[name] /\ p >= pos
        /\ \A q \in pos .. p - 1 : children[q].type # LooksFor[name]
  BY DEF Turn, Finds
<1>3. children[p].type \in Movable
  BY <1>2 DEF LooksFor, Movable
<1>4. /\ p > 2 /\ children[p - 1].type = "COMMA" /\ Len(children') = Len(children) - 2
      /\ \A k \in 1 .. Len(children) - 2 :
           children'[k] = IF k < p - 1 THEN children[k] ELSE children[k + 2]
  <2> DEFINE tree == children
             new  == DeleteWithComma(tree, p)
  <2>1. tree \in Seq(Node) /\ CommaSeparated(tree) /\ p \in DOMAIN tree /\ tree[p].type \in Movable
    BY <1>1, <1>3
  <2> HIDE DEF tree
  <2>2. /\ p > 2 /\ tree[p - 1].type = "COMMA" /\ Len(new) = Len(tree) - 2
        /\ \A k \in 1 .. Len(tree) - 2 : new[k] = IF k < p - 1 THEN tree[k] ELSE tree[k + 2]
    BY <2>1, DeletedPair
  <2> QED
    BY <2>2 DEF tree
<1>5. \A k \in 1 .. Len(children) - 2 : children'[k] = children[IF k <= p - 2 THEN k ELSE k + 2]
  BY <1>1, <1>4
<1> QED
  BY <1>1, <1>2, <1>4, <1>5 DEF TakesOut, Cursor

(* Every step is of one of nine kinds; the proofs below go by them.        *)
LEMMA Steps ==
  ASSUME Inv, Cursor, QueueOK, [Next]_vars
  PROVE  \/ \E d \in 1 .. Len(children) : GoesOn(d) \/ Sequences(d) \/ \E u \in Nat : Triggers(d, u)
         \/ \E p \in 1 .. Len(children) : \/ MovesKey(p) \/ DropsFulltext(p)
                                          \/ MovesForeignKey(p) \/ DropsOption(p)
         \/ SpellsOut \/ EndsPass
         \/ UNCHANGED vars
<1>1. children \in Seq(Node) /\ DOMAIN children = 1 .. Len(children) /\ Len(children) \in Nat
      /\ CommaSeparated(children)
  BY DEF Inv, ChildrenOK, ListWellFormed
<1>2. ASSUME NEW d \in DOMAIN children
      PROVE  /\ children[d] \in Node /\ Parsed(children[d]) /\ children[d].kids \in Seq(Part)
             /\ DOMAIN children[d].kids = 1 .. Len(children[d].kids)
  BY ChildIsNode DEF Inv
<1>4. pass \in 1 .. 10
  BY DEF Cursor
<1>5. ASSUME NEW d \in DOMAIN children,
               NEW name \in {"enum", "onupdate", "stupid_date", "auto_inc"},
             Turn(name, d)
      PROVE  /\ Finds(children, pos, "COLUMN_DEF", d)
             /\ children[d].type = "COLUMN_DEF" /\ children[d].kids \in Seq(Part)
             /\ \A k \in DOMAIN children[d].kids :
                  children[d].kids[k].type \in Options \union {"NOT"} => k > 2
  <2>0. Finds(children, pos, "COLUMN_DEF", d)
    BY <1>5 DEF Turn, LooksFor
  <2>1. children[d].type = "COLUMN_DEF"
    BY <2>0 DEF Finds
  <2>2. IsColumn(children[d].kids)
    BY <1>2, <2>1 DEF Parsed
  <2> QED
    BY <1>2, <2>0, <2>1, <2>2 DEF IsColumn, Options
<1>6. CASE RewriteEnum
  <2>1. PICK d \in DOMAIN children : /\ Turn("enum", d) /\ pos' = d + 1
                                     /\ children'
                                           = [children EXCEPT ![d] = RewriteEnums(children[d])]
                                     /\ UNCHANGED <<table, postbuf, pass, inner>>
    BY <1>6 DEF RewriteEnum
  <2> DEFINE node == RewriteEnums(children[d])
  <2>2. children[d].type = "COLUMN_DEF" /\ Finds(children, pos, "COLUMN_DEF", d)
    BY <1>5, <2>1
  <2>3. /\ Same(children[d], node)
        /\ \A x \in Options : CountType(node.kids, x) = CountType(children[d].kids, x)
    BY <1>2, <2>2, EnumSame
  <2>4 \A x \in Options : CountType(children[d].kids, x) \in Nat /\ x # "NONE"
    <3>1. \A x : CountType(children[d].kids, x) \in Nat
      BY <1>2, CountIsNat
    <3>2. \A x \in Options : x # "NONE"
      BY DEF Options
    <3> QED
      BY <3>1, <3>2
  <2> HIDE DEF node
  <2>5. \A x \in Options : CountType(node.kids, x)
                              = CountType(children[d].kids, x) - (IF x = "NONE" THEN 1 ELSE 0)
    BY <2>3, <2>4
  <2>6. children' = [children EXCEPT ![d] = node]
    BY <2>1 DEF node
  <2>10. InPlace(d) /\ children'[d] = node
    BY <2>1, <2>2, <2>3, <2>6, ColumnRewritten
  <2>7. ColumnStep(d, "NONE")
    BY <2>5, <2>10 DEF ColumnStep
  <2>8. pass = 1 /\ inner = 1
    BY <1>4, <2>1, PassNumbers DEF Turn, Cursor
  <2>9. GoesOn(d)
    BY <2>1, <2>7, <2>8 DEF GoesOn
  <2> QED
    BY <1>1, <2>9
<1>7. CASE RewriteStupidDate
  <2>1. PICK d \in DOMAIN children : /\ Turn("stupid_date", d) /\ pos' = d + 1
                                     /\ children'
                                           = [children EXCEPT ![d] = LiftNotNull(children[d])]
                                     /\ UNCHANGED <<table, postbuf, pass, inner>>
    BY <1>7 DEF RewriteStupidDate
  <2> DEFINE node == LiftNotNull(children[d])
  <2>2. children[d].type = "COLUMN_DEF" /\ Finds(children, pos, "COLUMN_DEF", d)
    BY <1>5, <2>1
  <2>3. /\ Same(children[d], node)
        /\ \A x \in Options : CountType(node.kids, x) = CountType(children[d].kids, x)
    BY <1>2, <2>2, LiftedSame
  <2>4 \A x \in Options : CountType(children[d].kids, x) \in Nat /\ x # "NONE"
    <3>1. \A x : CountType(children[d].kids, x) \in Nat
      BY <1>2, CountIsNat
    <3>2. \A x \in Options : x # "NONE"
      BY DEF Options
    <3> QED
      BY <3>1, <3>2
  <2> HIDE DEF node
  <2>5. \A x \in Options : CountType(node.kids, x)
                              = CountType(children[d].kids, x) - (IF x = "NONE" THEN 1 ELSE 0)
    BY <2>3, <2>4
  <2>6. children' = [children EXCEPT ![d] = node]
    BY <2>1 DEF node
  <2>10. InPlace(d) /\ children'[d] = node
    BY <2>1, <2>2, <2>3, <2>6, ColumnRewritten
  <2>7. ColumnStep(d, "NONE")
    BY <2>5, <2>10 DEF ColumnStep
  <2>8. pass = 4 /\ inner = 1
    BY <1>4, <2>1, PassNumbers DEF Turn, Cursor
  <2>9. GoesOn(d)
    BY <2>1, <2>7, <2>8 DEF GoesOn
  <2> QED
    BY <1>1, <2>9
(* A turn that leaves its column alone.                                    *)
<1>8. ASSUME NEW d \in DOMAIN children, NEW name \in {"onupdate", "auto_inc"}, Turn(name, d),
             UNCHANGED <<table, children, postbuf, pass>>
      PROVE  ColumnStep(d, "NONE")
  <2>1 \A x \in Options : CountType(children[d].kids, x) \in Nat /\ x # "NONE"
    <3>1. \A x : CountType(children[d].kids, x) \in Nat
      BY <1>2, CountIsNat
    <3>2. \A x \in Options : x # "NONE"
      BY DEF Options
    <3> QED
      BY <3>1, <3>2
  <2>2. \A x \in Options : CountType(children[d].kids, x)
                              = CountType(children[d].kids, x) - (IF x = "NONE" THEN 1 ELSE 0)
    BY <2>1
  <2>3. children' = [children EXCEPT ![d] = children[d]]
    BY <1>1, <1>8
  <2>4. Same(children[d], children[d])
    BY SameRefl
  <2>5. Finds(children, pos, "COLUMN_DEF", d)
    BY <1>5, <1>8
  <2>6. InPlace(d) /\ children'[d] = children[d]
    BY <1>8, <2>3, <2>4, <2>5, ColumnRewritten
  <2> QED
    BY <2>2, <2>6 DEF ColumnStep
(* A turn that takes an option out of its column.                          *)
<1>9. ASSUME NEW d \in DOMAIN children, NEW name \in {"onupdate", "auto_inc"}, Turn(name, d),
             NEW k \in DOMAIN children[d].kids, NEW o \in Options, children[d].kids[k].type = o,
             children' = [children EXCEPT ![d].kids = RemoveAt(@, k)],
             UNCHANGED <<table, pass>>
      PROVE  ColumnStep(d, o)
  <2> DEFINE node == [children[d] EXCEPT !.kids = RemoveAt(@, k)]
  <2>1. children[d].type = "COLUMN_DEF" /\ k > 2
    BY <1>5, <1>9
  <2>2. /\ Same(children[d], node)
        /\ \A x : CountType(node.kids, x)
                    = CountType(children[d].kids, x) - (IF children[d].kids[k].type = x
                      THEN 1 ELSE 0)
    BY <1>2, <2>1, FewerSame
  <2>3. children' = [children EXCEPT ![d] = node]
    BY <1>9
  <2> HIDE DEF node
  <2>4. \A x \in Options : CountType(node.kids, x)
                              = CountType(children[d].kids, x) - (IF x = o THEN 1 ELSE 0)
    BY <1>9, <2>2
  <2>5. Finds(children, pos, "COLUMN_DEF", d)
    BY <1>5, <1>9
  <2>6. InPlace(d) /\ children'[d] = node
    BY <1>9, <2>2, <2>3, <2>5, ColumnRewritten
  <2> QED
    BY <2>4, <2>6 DEF ColumnStep
<1>10. CASE EndColumn
  <2>1. PICK d \in DOMAIN children : /\ Turn("onupdate", d) /\ pos' = d + 1 /\ inner' = 1
                                     /\ FindsNone(children[d].kids, inner, "ONUPDATE")
                                     /\ UNCHANGED <<table, children, postbuf, pass>>
    BY <1>10 DEF EndColumn
  <2>2. pass = 3
    BY <1>4, <2>1, PassNumbers DEF Turn
  <2>3. ColumnStep(d, "NONE")
    BY <1>8, <2>1
  <2>4. GoesOn(d)
    BY <2>1, <2>2, <2>3 DEF GoesOn
  <2> QED
    BY <1>1, <2>4
<1>11. CASE RewriteOnUpdate
  <2>1. PICK d \in DOMAIN children : \E u \in DOMAIN children[d].kids :
          /\ Turn("onupdate", d) /\ Finds(children[d].kids, inner, "ONUPDATE", u)
          /\ postbuf' = postbuf \o CreateTrigger(children[d], children[d].kids[u])
          /\ children' = [children EXCEPT ![d].kids = RemoveAt(@, u)]
          /\ pos' = d /\ inner' = u + 1 /\ UNCHANGED <<table, pass>>
    BY <1>11 DEF RewriteOnUpdate
  <2>2. PICK u \in DOMAIN children[d].kids :
          /\ Turn("onupdate", d) /\ Finds(children[d].kids, inner, "ONUPDATE", u)
          /\ postbuf' = postbuf \o CreateTrigger(children[d], children[d].kids[u])
          /\ children' = [children EXCEPT ![d].kids = RemoveAt(@, u)]
          /\ pos' = d /\ inner' = u + 1 /\ UNCHANGED <<table, pass>>
    BY <2>1
  <2>3. children[d].kids[u].type = "ONUPDATE" /\ "ONUPDATE" \in Options /\ u \in Nat
    BY <1>2, <2>2 DEF Finds, Options
  <2>4. pass = 3
    BY <1>4, <2>2, PassNumbers DEF Turn
  <2>5. ColumnStep(d, "ONUPDATE")
    BY <1>9, <2>2, <2>3
  <2>6. Triggers(d, u)
    BY <2>2, <2>3, <2>4, <2>5 DEF Triggers
  <2> QED
    BY <1>1, <2>3, <2>6
<1>12. CASE RewriteAutoInc
  <2>1. PICK d \in DOMAIN children :
          /\ Turn("auto_inc", d) /\ pos' = d + 1 /\ UNCHANGED <<table, pass, inner>>
          /\ \/ FindsNone(children[d].kids, 1, "AUTO_INCREMENT") /\ UNCHANGED <<children, postbuf>>
             \/ \E k \in DOMAIN children[d].kids :
                  /\ Finds(children[d].kids, 1, "AUTO_INCREMENT", k)
                  /\ postbuf' = postbuf \o CreateSequence(children[d])
                  /\ children' = [children EXCEPT ![d].kids = RemoveAt(@, k)]
    BY <1>12 DEF RewriteAutoInc
  <2>2. pass = 6 /\ inner' = 1
    BY <1>4, <2>1, PassNumbers DEF Turn, Cursor
  <2>3. CASE FindsNone(children[d].kids, 1, "AUTO_INCREMENT") /\ UNCHANGED <<children, postbuf>>
    <3>1. CountType(children[d].kids, "AUTO_INCREMENT") = 0
      BY <1>2, <2>3, CountIsNat
    <3>2. ColumnStep(d, "NONE")
      BY <1>8, <2>1, <2>3
    <3>3. GoesOn(d)
      BY <2>1, <2>2, <2>3, <3>1, <3>2 DEF GoesOn
    <3> QED
      BY <1>1, <3>3
  <2>4. ASSUME NEW k \in DOMAIN children[d].kids,
               Finds(children[d].kids, 1, "AUTO_INCREMENT", k),
               postbuf' = postbuf \o CreateSequence(children[d]),
               children' = [children EXCEPT ![d].kids = RemoveAt(@, k)]
        PROVE  Sequences(d)
    <3>1. children[d].kids[k].type = "AUTO_INCREMENT" /\ "AUTO_INCREMENT" \in Options
      BY <2>4 DEF Finds, Options
    <3>2. ColumnStep(d, "AUTO_INCREMENT")
      BY <1>9, <2>1, <2>4, <3>1
    <3> QED
      BY <2>1, <2>2, <2>4, <3>2 DEF Sequences
  <2> QED
    BY <1>1, <2>1, <2>3, <2>4
<1>13. CASE RewriteIndex
  <2>1. PICK p \in DOMAIN children : /\ Turn("index", p) /\ children' = DeleteWithComma(children, p)
                                     /\ postbuf' = Append(postbuf, CreateIndex(children[p]))
                                     /\ UNCHANGED <<table, pass, pos, inner>>
    BY <1>13 DEF RewriteIndex
  <2>2. pass = 5
    BY <1>4, <2>1, PassNumbers DEF Turn
  <2>3. TakesOut(p, 2) /\ children[p].type = LooksFor["index"]
    BY <2>1, <2>2, TookOut
  <2>4. postbuf' = postbuf \o <<CreateIndex(children[p])>>
    <3>1. PICK S : postbuf \in Seq(S)
      BY DEF QueueOK
    <3> QED
      BY <2>1, <3>1
  <2>5. children[p].type = "INDEX"
    BY <2>3 DEF LooksFor
  <2>6. MovesKey(p)
    BY <2>1, <2>2, <2>3, <2>4, <2>5 DEF MovesKey
  <2> QED
    BY <1>1, <2>6
<1>14. CASE RemoveFulltext
  <2>1. PICK p \in DOMAIN children :
          /\ Turn("fulltext", p) /\ pos' = p /\ UNCHANGED <<table, postbuf, pass, inner>>
          /\ children' = IF p > 2 THEN DeleteWithComma(children, p) ELSE RemoveAt(children, p)
    BY <1>14 DEF RemoveFulltext
  <2>2. pass = 7
    BY <1>4, <2>1, PassNumbers DEF Turn
  <2>3. children[p].type \in Movable
    BY <2>1 DEF Turn, Finds, LooksFor, Movable
  <2>4. p > 2
    BY <1>1, <2>3, DeletedPair
  <2>5. TakesOut(p, 2) /\ children[p].type = LooksFor["fulltext"]
    BY <2>1, <2>2, <2>4, TookOut
  <2>6. children[p].type = "FULLTEXT"
    BY <2>5 DEF LooksFor
  <2>7. pos' = p /\ postbuf' = postbuf
    BY <2>1
  <2>8. DropsFulltext(p)
    BY ONLY <2>2, <2>5, <2>6, <2>7 DEF DropsFulltext
  <2> QED
    BY <1>1, <2>8
<1>15. CASE RewriteForeignKey
  <2>1. PICK p \in DOMAIN children : /\ Turn("fkey", p) /\ children' = DeleteWithComma(children, p)
                                     /\ postbuf' = Append(postbuf, AddForeignKey(children[p]))
                                     /\ UNCHANGED <<table, pass, pos, inner>>
    BY <1>15 DEF RewriteForeignKey
  <2>2. pass = 8
    BY <1>4, <2>1, PassNumbers DEF Turn
  <2>3. TakesOut(p, 2) /\ children[p].type = LooksFor["fkey"]
    BY <2>1, <2>2, TookOut
  <2>4. postbuf' = postbuf \o <<AddForeignKey(children[p])>>
    <3>1. PICK S : postbuf \in Seq(S)
      BY DEF QueueOK
    <3> QED
      BY <2>1, <3>1
  <2>5. children[p].type = "FKEY"
    BY <2>3 DEF LooksFor
  <2>6. MovesForeignKey(p)
    BY <2>1, <2>2, <2>3, <2>4, <2>5 DEF MovesForeignKey
  <2> QED
    BY <1>1, <2>6
<1>16. CASE RemoveOption
  <2>1. PICK p \in DOMAIN children : /\ Turn("options", p) /\ children' = RemoveAt(children, p)
          /\ pos' = p
                                     /\ UNCHANGED <<table, postbuf, pass, inner>>
    BY <1>16 DEF RemoveOption
  <2>2. pass = 9 /\ inner = 1
    BY <1>4, <2>1, PassNumbers DEF Turn, Cursor
  <2>3. /\ children[p].type = "OPTIONS" /\ p >= pos
        /\ \A q \in pos .. p - 1 : children[q].type # "OPTIONS"
    BY <2>1 DEF Turn, Finds, LooksFor
  <2>4. p > 1
    BY <1>1, <2>3 DEF CommaSeparated
  <2>5. /\ Len(children') = Len(children) - 1
        /\ \A k \in 1 .. Len(children) - 1 :
             children'[k] = IF k < p THEN children[k] ELSE children[k + 1]
    BY <1>1, <2>1, RemoveAtOne
  <2>6. \A k \in 1 .. Len(children) - 1 : children'[k] = children[IF k <= p - 1 THEN k ELSE k + 1]
    BY <1>1, <2>5
  <2>7. TakesOut(p, 1)
    BY <1>1, <2>1, <2>2, <2>3, <2>4, <2>5, <2>6 DEF TakesOut
  <2>8. DropsOption(p)
    BY <2>1, <2>2, <2>3, <2>7 DEF DropsOption
  <2> QED
    BY <1>1, <2>8
<1>17. CASE RewriteDatatypes
  <2>1. /\ Running("datatypes") /\ pass' = pass + 1 /\ pos' = 1 /\ inner' = 1
        /\ UNCHANGED <<table, postbuf>>
        /\ children' = [c \in 1 .. Len(children) |->
             IF /\ children[c].type = "DOUBLE"
                /\ c < Len(children) /\ children[c + 1].type # "PRECISION"
             THEN [children[c] EXCEPT !.text = Spelled]
             ELSE children[c]]
    BY <1>1, <1>17 DEF RewriteDatatypes, NextPass
  <2>2. pass = 2
    BY <1>4, <2>1, PassNumbers
  <2>3. Len(children') = Len(children)
    BY <1>1, <2>1
  <2>4. ASSUME NEW i \in 1 .. Len(children)
        PROVE  Same(children[i], children'[i]) /\ children'[i].kids = children[i].kids
    <3>1. children[i] \in Node
      BY <1>1
    <3>2. \/ children'[i] = children[i]
          \/ children[i].type = "DOUBLE" /\ children'[i] = [children[i] EXCEPT !.text = Spelled]
      BY <2>1
    <3>3. /\ [children[i] EXCEPT !.text = Spelled].type = children[i].type
          /\ [children[i] EXCEPT !.text = Spelled].kids = children[i].kids
      BY <3>1 DEF Node
    <3> QED
      BY <3>2, <3>3 DEF Same
  <2> QED
    BY <2>1, <2>2, <2>3, <2>4 DEF SpellsOut
<1>18. CASE EndPass
  <2>1. pass \in 1 .. 9 /\ pass # 2
    BY <1>4, <1>18, PassNumbers DEF EndPass
  <2> QED
    BY <1>18, <2>1 DEF EndPass, NextPass, EndsPass
<1> QED
  BY <1>6, <1>7, <1>10, <1>11, <1>12, <1>13, <1>14, <1>15, <1>16, <1>17, <1>18 DEF Next

-----------------------------------------------------------------------------
LEMMA OwnRange ==
  ASSUME NEW S, NEW s \in Seq(S)
  PROVE  s \in Seq(Range(s))
<1>1. Len(s) \in Nat /\ DOMAIN s = 1 .. Len(s) /\ s = [i \in 1 .. Len(s) |-> s[i]]
  OBVIOUS
<1> DEFINE R == {s[i] : i \in DOMAIN s}
<1>2. \A i \in 1 .. Len(s) : s[i] \in R
  BY <1>1
<1> HIDE DEF R
<1>3. [i \in 1 .. Len(s) |-> s[i]] \in Seq(R)
  BY <1>1, <1>2
<1>4. s \in Seq(R)
  BY <1>1, <1>3
<1> QED
  BY <1>4 DEF R, Range

(* Elements of a concatenation are elements of one of its parts.           *)
LEMMA Concatenated ==
  ASSUME NEW S, NEW a \in Seq(S), NEW T, NEW b \in Seq(T)
  PROVE  /\ Len(a) \in Nat /\ Len(b) \in Nat /\ Len(a \o b) = Len(a) + Len(b)
         /\ DOMAIN a = 1 .. Len(a) /\ DOMAIN (a \o b) = 1 .. Len(a) + Len(b)
         /\ a \o b \in Seq(S \union T)
         /\ \A i \in 1 .. Len(a) : (a \o b)[i] = a[i]
         /\ \A i \in 1 .. Len(b) : (a \o b)[Len(a) + i] = b[i]
<1> DEFINE U == S \union T
<1>1. a \in Seq(U) /\ b \in Seq(U) /\ Len(a) \in Nat /\ Len(b) \in Nat /\ DOMAIN a = 1 .. Len(a)
  OBVIOUS
<1> HIDE DEF U
<1>2. /\ a \o b \in Seq(U) /\ Len(a \o b) = Len(a) + Len(b)
      /\ \A i \in 1 .. Len(a) + Len(b) :
           (a \o b)[i] = IF i <= Len(a) THEN a[i] ELSE b[i - Len(a)]
  BY <1>1, ConcatProperties
<1>3. DOMAIN (a \o b) = 1 .. Len(a) + Len(b)
  BY <1>1, <1>2
<1>4. ASSUME NEW i \in 1 .. Len(b)
      PROVE  (a \o b)[Len(a) + i] = b[i]
  <2>1. /\ Len(a) + i \in 1 .. Len(a) + Len(b) /\ ~(Len(a) + i <= Len(a))
        /\ (Len(a) + i) - Len(a) = i
    BY <1>1
  <2> QED
    BY <1>2, <2>1
<1> QED
  BY <1>1, <1>2, <1>3, <1>4 DEF U
LEMMA Singles == \A s : <<s>> \in Seq({s}) /\ Len(<<s>>) = 1 /\ <<s>>[1] = s
  OBVIOUS
LEMMA Pairs ==
  \A s, t : <<s, t>> \in Seq({s, t}) /\ Len(<<s, t>>) = 2 /\ <<s, t>>[1] = s /\ <<s, t>>[2] = t
  OBVIOUS

Queued(n) ==
  /\ Len(postbuf') = Len(postbuf) + n /\ Len(postbuf) \in Nat
  /\ DOMAIN postbuf = 1 .. Len(postbuf) /\ DOMAIN postbuf' = 1 .. Len(postbuf) + n
  /\ \A i \in 1 .. Len(postbuf) : postbuf'[i] = postbuf[i]

LEMMA Appended ==
  ASSUME NEW S, NEW a \in Seq(S), NEW T, NEW news \in Seq(T), NEW b, b = a \o news,
         \A i \in DOMAIN a : a[i].what \in Whats, \A i \in 1 .. Len(news) : news[i].what \in Whats
  PROVE  /\ b \in Seq(Range(b)) /\ \A i \in DOMAIN b : b[i].what \in Whats
         /\ Len(b) = Len(a) + Len(news) /\ Len(a) \in Nat /\ DOMAIN a = 1 .. Len(a)
         /\ DOMAIN b = 1 .. Len(a) + Len(news)
         /\ \A i \in 1 .. Len(a) : b[i] = a[i]
         /\ \A i \in 1 .. Len(news) : b[Len(a) + i] = news[i]
<1>1. /\ b \in Seq(S \union T)
      /\ Len(b) = Len(a) + Len(news) /\ Len(a) \in Nat /\ Len(news) \in Nat
           /\ DOMAIN a = 1 .. Len(a)
      /\ DOMAIN b = 1 .. Len(a) + Len(news)
      /\ \A i \in 1 .. Len(a) : b[i] = a[i]
      /\ \A i \in 1 .. Len(news) : b[Len(a) + i] = news[i]
  BY Concatenated
<1>2. b \in Seq(Range(b))
  BY <1>1, OwnRange
<1>3. ASSUME NEW i \in DOMAIN b
      PROVE  b[i].what \in Whats
  <2>1. CASE i <= Len(a)
    <3>1. i \in DOMAIN a /\ b[i] = a[i]
      BY <1>1, <2>1
    <3> QED
      BY <3>1
  <2>2. CASE ~(i <= Len(a))
    <3>1. i - Len(a) \in 1 .. Len(news) /\ Len(a) + (i - Len(a)) = i
      BY <1>1, <2>2
    <3>2. b[i] = news[i - Len(a)]
      BY <1>1, <3>1
    <3> QED
      BY <3>1, <3>2
  <2> QED
    BY <2>1, <2>2
<1> QED
  BY <1>1, <1>2, <1>3

(* What each kind of step queues.                                          *)
QueuesOne(what, of) ==
  Queued(1) /\ postbuf'[Len(postbuf) + 1].what = what /\ postbuf'[Len(postbuf) + 1].of = of
QueuesTwo(what, other, of) ==
  /\ Queued(2)
  /\ postbuf'[Len(postbuf) + 1].what = what  /\ postbuf'[Len(postbuf) + 1].of = of
  /\ postbuf'[Len(postbuf) + 2].what = other /\ postbuf'[Len(postbuf) + 2].of = of

(* One queued statement behind the others keeps the queue typed.           *)
LEMMA OneQueued ==
  ASSUME QueueOK, NEW s, postbuf' = postbuf \o <<s>>, s.what \in Whats
  PROVE  QueueOK' /\ Queued(1) /\ postbuf'[Len(postbuf) + 1] = s
<1> DEFINE news == <<s>>
<1>1. news \in Seq({s}) /\ Len(news) = 1 /\ news[1] = s
  BY Singles
<1>2. postbuf' = postbuf \o news
  OBVIOUS
<1> HIDE DEF news
<1>3. \A i \in 1 .. Len(news) : news[i].what \in Whats
  BY <1>1
<1>4. /\ postbuf \in Seq(Range(postbuf))
      /\ \A i \in DOMAIN postbuf : postbuf[i].what \in Whats
  BY DEF QueueOK
<1>5. /\ postbuf' \in Seq(Range(postbuf'))
      /\ \A i \in DOMAIN postbuf' : postbuf'[i].what \in Whats
      /\ Len(postbuf') = Len(postbuf) + Len(news) /\ Len(postbuf) \in Nat
      /\ DOMAIN postbuf = 1 .. Len(postbuf) /\ DOMAIN postbuf' = 1 .. Len(postbuf) + Len(news)
      /\ \A i \in 1 .. Len(postbuf) : postbuf'[i] = postbuf[i]
      /\ \A i \in 1 .. Len(news) : postbuf'[Len(postbuf) + i] = news[i]
  <2> DEFINE S == Range(postbuf)
             a == postbuf
             b == postbuf'
  <2>1. a \in Seq(S) /\ (\A i \in DOMAIN a : a[i].what \in Whats) /\ b = a \o news
    BY <1>2, <1>4
  <2>2. PICK T : news \in Seq(T)
    BY <1>1
  <2> HIDE DEF S, a, b
  <2>3. b \in Seq(Range(b))
    BY <1>3, <2>1, <2>2, Appended
  <2>4. \A i \in DOMAIN b : b[i].what \in Whats
    BY <1>3, <2>1, <2>2, Appended
  <2>5. Len(b) = Len(a) + Len(news)
    BY <1>3, <2>1, <2>2, Appended
  <2>6. Len(a) \in Nat /\ DOMAIN a = 1 .. Len(a)
    BY <1>3, <2>1, <2>2, Appended
  <2>7. DOMAIN b = 1 .. Len(a) + Len(news)
    BY <1>3, <2>1, <2>2, Appended
  <2>8. \A i \in 1 .. Len(a) : b[i] = a[i]
    BY <1>3, <2>1, <2>2, Appended
  <2>9. \A i \in 1 .. Len(news) : b[Len(a) + i] = news[i]
    BY <1>3, <2>1, <2>2, Appended
  <2> QED
    BY <2>3, <2>4, <2>5, <2>6, <2>7, <2>8, <2>9 DEF a, b
<1> QED
  BY <1>1, <1>5 DEF QueueOK, Queued

LEMMA TwoQueued ==
  ASSUME QueueOK, NEW s, NEW t, postbuf' = postbuf \o <<s, t>>, s.what \in Whats, t.what \in Whats
  PROVE  QueueOK' /\ Queued(2) /\ postbuf'[Len(postbuf) + 1] = s /\ postbuf'[Len(postbuf) + 2] = t
<1> DEFINE news == <<s, t>>
<1>1. news \in Seq({s, t}) /\ Len(news) = 2 /\ news[1] = s /\ news[2] = t
  BY Pairs
<1>2. postbuf' = postbuf \o news
  OBVIOUS
<1> HIDE DEF news
<1>3. \A i \in 1 .. Len(news) : news[i].what \in Whats
  BY <1>1
<1>4. /\ postbuf \in Seq(Range(postbuf))
      /\ \A i \in DOMAIN postbuf : postbuf[i].what \in Whats
  BY DEF QueueOK
<1>5. /\ postbuf' \in Seq(Range(postbuf'))
      /\ \A i \in DOMAIN postbuf' : postbuf'[i].what \in Whats
      /\ Len(postbuf') = Len(postbuf) + Len(news) /\ Len(postbuf) \in Nat
      /\ DOMAIN postbuf = 1 .. Len(postbuf) /\ DOMAIN postbuf' = 1 .. Len(postbuf) + Len(news)
      /\ \A i \in 1 .. Len(postbuf) : postbuf'[i] = postbuf[i]
      /\ \A i \in 1 .. Len(news) : postbuf'[Len(postbuf) + i] = news[i]
  <2> DEFINE S == Range(postbuf)
             a == postbuf
             b == postbuf'
  <2>1. a \in Seq(S) /\ (\A i \in DOMAIN a : a[i].what \in Whats) /\ b = a \o news
    BY <1>2, <1>4
  <2>2. PICK T : news \in Seq(T)
    BY <1>1
  <2> HIDE DEF S, a, b
  <2>3. b \in Seq(Range(b))
    BY <1>3, <2>1, <2>2, Appended
  <2>4. \A i \in DOMAIN b : b[i].what \in Whats
    BY <1>3, <2>1, <2>2, Appended
  <2>5. Len(b) = Len(a) + Len(news)
    BY <1>3, <2>1, <2>2, Appended
  <2>6. Len(a) \in Nat /\ DOMAIN a = 1 .. Len(a)
    BY <1>3, <2>1, <2>2, Appended
  <2>7. DOMAIN b = 1 .. Len(a) + Len(news)
    BY <1>3, <2>1, <2>2, Appended
  <2>8. \A i \in 1 .. Len(a) : b[i] = a[i]
    BY <1>3, <2>1, <2>2, Appended
  <2>9. \A i \in 1 .. Len(news) : b[Len(a) + i] = news[i]
    BY <1>3, <2>1, <2>2, Appended
  <2> QED
    BY <2>3, <2>4, <2>5, <2>6, <2>7, <2>8, <2>9 DEF a, b
<1> QED
  BY <1>1, <1>5 DEF QueueOK, Queued

(* What each of the passes that queue something appends.                   *)
LEMMA KeyQueued ==
  ASSUME QueueOK, NEW p, MovesKey(p)
  PROVE  QueueOK' /\ QueuesOne("INDEX", children[p].text)
<1> DEFINE s == CreateIndex(children[p])
<1>1. s.what = "INDEX" /\ s.of = children[p].text
  BY DEF CreateIndex, Statement
<1>2. postbuf' = postbuf \o <<s>>
  BY DEF MovesKey
<1> HIDE DEF s
<1>3. s.what \in Whats
  BY <1>1 DEF Whats
<1>4. QueueOK' /\ Queued(1) /\ postbuf'[Len(postbuf) + 1] = s
  BY <1>2, <1>3, OneQueued
<1> QED
  BY <1>1, <1>4 DEF QueuesOne

LEMMA ForeignKeyQueued ==
  ASSUME QueueOK, NEW p, MovesForeignKey(p)
  PROVE  QueueOK' /\ QueuesOne("FKEY", children[p].text)
<1> DEFINE s == AddForeignKey(children[p])
<1>1. s.what = "FKEY" /\ s.of = children[p].text
  BY DEF AddForeignKey, Statement
<1>2. postbuf' = postbuf \o <<s>>
  BY DEF MovesForeignKey
<1> HIDE DEF s
<1>3. s.what \in Whats
  BY <1>1 DEF Whats
<1>4. QueueOK' /\ Queued(1) /\ postbuf'[Len(postbuf) + 1] = s
  BY <1>2, <1>3, OneQueued
<1> QED
  BY <1>1, <1>4 DEF QueuesOne

LEMMA TriggerQueued ==
  ASSUME QueueOK, NEW d, NEW u, Triggers(d, u)
  PROVE  QueueOK' /\ QueuesTwo("FUNCTION", "TRIGGER", children[d].kids[1].text)
<1> DEFINE news == CreateTrigger(children[d], children[d].kids[u])
           s == news[1]
           t == news[2]
<1>1. s.what = "FUNCTION" /\ t.what = "TRIGGER"
      /\ s.of = children[d].kids[1].text /\ t.of = children[d].kids[1].text
      /\ news = <<s, t>>
  BY DEF CreateTrigger, Statement
<1>2. postbuf' = postbuf \o news
  BY DEF Triggers
<1> HIDE DEF s, t, news
<1>3. /\ s.what \in Whats
      /\ t.what \in Whats
  BY <1>1 DEF Whats
<1>4. QueueOK' /\ Queued(2) /\ postbuf'[Len(postbuf) + 1] = s /\ postbuf'[Len(postbuf) + 2] = t
  BY <1>1, <1>2, <1>3, TwoQueued
<1> QED
  BY <1>1, <1>4 DEF QueuesTwo

LEMMA SequenceQueued ==
  ASSUME QueueOK, NEW d, Sequences(d)
  PROVE  /\ QueueOK' /\ QueuesTwo("SEQUENCE", "DEFAULT", children[d].kids[1].text)
         /\ postbuf'[Len(postbuf) + 1].args = AutoIncStart
<1> DEFINE news == CreateSequence(children[d])
           s == news[1]
           t == news[2]
<1>1. s.what = "SEQUENCE" /\ t.what = "DEFAULT" /\ s.args = AutoIncStart
      /\ s.of = children[d].kids[1].text /\ t.of = children[d].kids[1].text
      /\ news = <<s, t>>
  BY DEF CreateSequence, Statement
<1>2. postbuf' = postbuf \o news
  BY DEF Sequences
<1> HIDE DEF s, t, news
<1>3. /\ s.what \in Whats
      /\ t.what \in Whats
  BY <1>1 DEF Whats
<1>4. QueueOK' /\ Queued(2) /\ postbuf'[Len(postbuf) + 1] = s /\ postbuf'[Len(postbuf) + 2] = t
  BY <1>1, <1>2, <1>3, TwoQueued
<1> QED
  BY <1>1, <1>4 DEF QueuesTwo

-----------------------------------------------------------------------------
(* The cursors and the queue, in every reachable state.                    *)
WInv == Inv /\ Cursor /\ QueueOK /\ WellFormed(table)

LEMMA TheTable == WellFormed(table) =>
  /\ table.children \in Seq(Node) /\ Len(table.children) \in Nat
  /\ DOMAIN table.children = 1 .. Len(table.children)
  /\ CommaSeparated(table.children)
  BY DEF WellFormed

LEMMA TheChildren == Inv =>
  /\ children \in Seq(Node) /\ Len(children) \in Nat /\ DOMAIN children = 1 .. Len(children)
  /\ \A i \in 1 .. Len(children) : children[i] \in Node /\ Parsed(children[i])
  BY DEF Inv, ChildrenOK

(* The cursor, the queue and the table start out as they should,           *)
LEMMA StartWInv == Init => WInv
<1> SUFFICES ASSUME Init PROVE WInv
  OBVIOUS
<1>1. Inv
  BY InitInv
<1>2. table \in Tables /\ postbuf = << >> /\ pass = 1 /\ pos = 1 /\ inner = 1
  BY DEF Init
<1>3. WellFormed(table)
  BY <1>2, TablesAssumption
<1>4. QueueOK
  BY <1>2 DEF QueueOK
<1>5. Cursor
  BY <1>2 DEF Cursor
<1> QED
  BY <1>1, <1>3, <1>4, <1>5 DEF WInv

(* and stay so in every step.                                              *)
LEMMA CursorMoves == WInv /\ [Next]_vars => Cursor' /\ QueueOK' /\ table' = table
<1> SUFFICES ASSUME WInv, [Next]_vars PROVE Cursor' /\ QueueOK' /\ table' = table
  OBVIOUS
<1>1. /\ pass \in 1 .. 10 /\ pos \in Nat \ {0} /\ inner \in Nat \ {0}
      /\ pass \in {2, 5, 8, 10} => pos = 1
      /\ pass # 3 => inner = 1
      /\ Inv /\ Cursor /\ QueueOK
  BY DEF WInv, Cursor
<1>2. ASSUME UNCHANGED postbuf PROVE QueueOK'
  BY <1>1, <1>2 DEF QueueOK
<1>3. ASSUME NEW d \in 1 .. Len(children), GoesOn(d)
      PROVE  Cursor' /\ QueueOK' /\ table' = table
  <2>1. /\ pass' = pass /\ table' = table /\ pos' = d + 1 /\ inner' = 1 /\ pass \in {1, 3, 4, 6}
        /\ postbuf' = postbuf
    BY <1>3 DEF GoesOn, ColumnStep, InPlace
  <2> QED
    BY <1>1, <1>2, <2>1 DEF Cursor
<1>4. ASSUME NEW d \in 1 .. Len(children), Sequences(d)
      PROVE  Cursor' /\ QueueOK' /\ table' = table
  <2>1. pass' = pass /\ table' = table /\ pos' = d + 1 /\ inner' = 1 /\ pass = 6
    BY <1>4 DEF Sequences, ColumnStep, InPlace
  <2>2. QueueOK'
    BY <1>1, <1>4, SequenceQueued
  <2> QED
    BY <1>1, <2>1, <2>2 DEF Cursor
<1>5. ASSUME NEW d \in 1 .. Len(children), NEW u \in Nat, Triggers(d, u)
      PROVE  Cursor' /\ QueueOK' /\ table' = table
  <2>1. pass' = pass /\ table' = table /\ pos' = d /\ inner' = u + 1 /\ pass = 3
    BY <1>5 DEF Triggers, ColumnStep, InPlace
  <2> QED
    BY <1>1, <1>5, <2>1, TriggerQueued DEF Cursor
<1>6. ASSUME NEW p \in 1 .. Len(children), MovesKey(p)
      PROVE  Cursor' /\ QueueOK' /\ table' = table
  <2>1. pass' = pass /\ table' = table /\ pos' = pos /\ inner' = 1 /\ pass = 5
    BY <1>6 DEF MovesKey, TakesOut
  <2> QED
    BY <1>1, <1>6, <2>1, KeyQueued DEF Cursor
<1>7. ASSUME NEW p \in 1 .. Len(children), MovesForeignKey(p)
      PROVE  Cursor' /\ QueueOK' /\ table' = table
  <2>1. pass' = pass /\ table' = table /\ pos' = pos /\ inner' = 1 /\ pass = 8
    BY <1>7 DEF MovesForeignKey, TakesOut
  <2> QED
    BY <1>1, <1>7, <2>1, ForeignKeyQueued DEF Cursor
<1>8. ASSUME NEW p \in 1 .. Len(children), DropsFulltext(p) \/ DropsOption(p)
      PROVE  Cursor' /\ QueueOK' /\ table' = table
  <2>1. pass' = pass /\ table' = table /\ pos' = p /\ inner' = 1 /\ pass \in {7, 9}
          /\ postbuf' = postbuf
    BY <1>8 DEF DropsFulltext, DropsOption, TakesOut
  <2> QED
    BY <1>1, <1>2, <2>1 DEF Cursor
<1>9. CASE SpellsOut \/ EndsPass
  <2>1. /\ pass \in 1 .. 9 /\ pass' = pass + 1 /\ table' = table /\ pos' = 1 /\ inner' = 1
        /\ postbuf' = postbuf
    BY <1>9 DEF SpellsOut, EndsPass
  <2> QED
    BY <1>1, <1>2, <2>1 DEF Cursor
<1>10. CASE UNCHANGED vars
  BY <1>1, <1>2, <1>10 DEF vars, Cursor
<1> QED
  BY <1>1, <1>3, <1>4, <1>5, <1>6, <1>7, <1>8, <1>9, <1>10, Steps

LEMMA NextWInv == WInv /\ [Next]_vars => WInv'
<1> SUFFICES ASSUME WInv, [Next]_vars PROVE WInv'
  OBVIOUS
<1>1. Inv'
  BY NextInv DEF WInv
<1>2. Cursor' /\ QueueOK' /\ table' = table
  BY CursorMoves
<1>3. WellFormed(table)'
  BY <1>2 DEF WInv
<1> QED
  BY <1>1, <1>2, <1>3 DEF WInv

(* The cursors stay positions, the queue holds nothing but the statements  *)
(* this rewriting knows, the source is never written to (create_table).    *)
THEOREM CreateTableTypes == Spec => []TypeOK
<1>1. WInv => TypeOK
  <2> SUFFICES ASSUME WInv PROVE TypeOK
    OBVIOUS
  <2>1. Len(Passes) = 9
    BY DEF Passes
  <2>2. pass \in 1 .. Len(Passes) + 1
    BY <2>1 DEF WInv, Cursor
  <2> QED
    BY <2>2 DEF WInv, Inv, Cursor, QueueOK, TypeOK, Whats
<1> QED
  BY <1>1, StartWInv, NextWInv, PTL DEF Spec

-----------------------------------------------------------------------------
(* Every child is a child of the source, in its order; what no child comes *)
(* from any more was a constraint, a comma or an option.                   *)
Source(e) ==
  /\ e \in [1 .. Len(children) -> 1 .. Len(table.children)]
  /\ \A i, j \in 1 .. Len(children) : i < j => e[i] < e[j]
  /\ \A i \in 1 .. Len(children) : Same(table.children[e[i]], children[i])
  /\ \A c \in 1 .. Len(table.children) :
       \/ \E i \in 1 .. Len(children) : e[i] = c
       \/ table.children[c].type \in Movable \union {"COMMA"}
       \/ table.children[c].type = "OPTIONS" /\ pass >= 9
Origin == \E e : Source(e)

Rewrites ==
  /\ Len(children') = Len(children) /\ table' = table /\ pass' \in {pass, pass + 1}
  /\ \A i \in 1 .. Len(children) : Same(children[i], children'[i])
Goes(p, n) ==
  /\ TakesOut(p, n)
  /\ \/ children[p].type \in Movable
     \/ children[p].type = "OPTIONS" /\ pass = 9
Shortens == \E p \in 1 .. Len(children), n \in {1, 2} : Goes(p, n)

(* A step either rewrites nodes in place or takes nodes out.               *)
LEMMA InPlaceRewrites ==
  ASSUME WInv, NEW d \in 1 .. Len(children), InPlace(d)
  PROVE  Rewrites
  BY SameRefl DEF InPlace, Rewrites, WInv, Cursor

LEMMA StillRewrites ==
  ASSUME WInv, SpellsOut \/ EndsPass \/ UNCHANGED vars
  PROVE  Rewrites /\ postbuf' = postbuf
  BY SameRefl DEF SpellsOut, EndsPass, vars, Rewrites, WInv, Cursor

LEMMA ConstraintGoes ==
  ASSUME NEW p, MovesKey(p) \/ DropsFulltext(p) \/ MovesForeignKey(p)
  PROVE  Goes(p, 2)
<1>1. TakesOut(p, 2) /\ children[p].type \in Movable
  BY DEF MovesKey, DropsFulltext, MovesForeignKey, Movable
<1> QED
  BY <1>1 DEF Goes

LEMMA OptionGoes ==
  ASSUME NEW p, DropsOption(p)
  PROVE  Goes(p, 1)
<1>1. TakesOut(p, 1) /\ children[p].type = "OPTIONS" /\ pass = 9
  BY DEF DropsOption
<1> QED
  BY <1>1 DEF Goes

LEMMA Shapes == WInv /\ [Next]_vars => Rewrites \/ Shortens
<1> SUFFICES ASSUME WInv, [Next]_vars PROVE Rewrites \/ Shortens
  OBVIOUS
<1>1. Inv /\ Cursor /\ QueueOK
  BY DEF WInv
<1>2. ASSUME NEW d \in 1 .. Len(children), InPlace(d) PROVE Rewrites
  BY <1>2, InPlaceRewrites
<1>3. ASSUME NEW p \in 1 .. Len(children), MovesKey(p) \/ DropsFulltext(p) \/ MovesForeignKey(p)
      PROVE  Shortens
  BY <1>3, ConstraintGoes DEF Shortens
<1>4. ASSUME NEW p \in 1 .. Len(children), DropsOption(p)
      PROVE  Shortens
  BY <1>4, OptionGoes DEF Shortens
<1>5. SpellsOut \/ EndsPass \/ UNCHANGED vars => Rewrites
  BY StillRewrites
<1> QED
  BY <1>1, <1>2, <1>3, <1>4, <1>5, Steps DEF GoesOn, Sequences, Triggers, ColumnStep

-----------------------------------------------------------------------------
(* At first every child is its own origin.                                 *)
LEMMA StartOrigin == Init => Origin
<1> SUFFICES ASSUME Init PROVE Origin
  OBVIOUS
<1>1. WellFormed(table) /\ children = table.children
  BY StartWInv DEF WInv, Init
<1> DEFINE e == [i \in 1 .. Len(children) |-> i]
<1>2. Source(e)
  BY <1>1, TheTable, SameRefl DEF Source
<1> QED
  BY <1>2 DEF Origin

(* Rewriting in place does not change where a child comes from,            *)
LEMMA RewritesOrigin ==
  ASSUME WInv, Rewrites, NEW e, Source(e)
  PROVE  Source(e)'
<1>1. Len(children') = Len(children) /\ table' = table /\ pass' \in {pass, pass + 1}
        /\ pass \in 1 .. 10
      /\ Len(children) \in Nat
  BY TheChildren DEF Rewrites, WInv, Cursor
<1>2. \A i \in 1 .. Len(children) : Same(table.children[e[i]], children'[i])
  BY SameTrans DEF Source, Rewrites
<1>3. pass >= 9 => pass' >= 9
  BY <1>1 DEF WInv, Cursor
<1> QED
  BY <1>1, <1>2, <1>3 DEF Source

(* and taking a node out composes the map with a gap.                      *)
LEMMA ShortensOrigin ==
  ASSUME WInv, NEW p \in 1 .. Len(children), NEW n \in {1, 2}, Goes(p, n), NEW e, Source(e)
  PROVE  \E g : /\ g = [i \in 1 .. Len(children) - n |-> e[IF i <= p - n THEN i ELSE i + n]]
                /\ Source(g)'
<1> DEFINE at(i) == IF i <= p - n THEN i ELSE i + n
<1>0. PICK g : g = [i \in 1 .. Len(children) - n |-> e[at(i)]]
  OBVIOUS
<1>1. /\ Len(children) \in Nat /\ p \in 1 .. Len(children) /\ n \in Nat /\ n < p
      /\ Len(children') = Len(children) - n /\ table' = table /\ pass' = pass
      /\ \A i \in 1 .. Len(children) - n : children'[i] = children[at(i)]
      /\ n = 2 => children[p - 1].type = "COMMA"
  BY TheChildren DEF WInv, Goes, TakesOut
<1>2. /\ \A i \in 1 .. Len(children) - n : at(i) \in 1 .. Len(children)
      /\ \A i, j \in 1 .. Len(children) - n : i < j => at(i) < at(j)
  <2>1. PICK L \in Nat : L = Len(children)
    BY <1>1
  <2>2. p \in 1 .. L /\ n \in {1, 2} /\ n < p
    BY <1>1, <2>1
  <2>3. \A i \in 1 .. L - n : at(i) \in 1 .. L
    BY ONLY L \in Nat, <2>2 DEF at
  <2>4. \A i, j \in 1 .. L - n : i < j => at(i) < at(j)
    BY ONLY L \in Nat, <2>2 DEF at
  <2> QED
    BY <2>1, <2>3, <2>4
<1>3. ASSUME NEW i \in 1 .. Len(children), \A j \in 1 .. Len(children) - n : at(j) # i
      PROVE  i = p \/ (n = 2 /\ i = p - 1)
  <2>1. CASE i <= p - n
    <3>1. i \in 1 .. Len(children) - n /\ at(i) = i
      BY <1>1, <2>1
    <3> QED
      BY <1>3, <3>1
  <2>2. CASE i > p
    <3>1. i - n \in 1 .. Len(children) - n /\ ~(i - n <= p - n) /\ (i - n) + n = i
      BY <1>1, <2>2
    <3>2. at(i - n) = i
      BY <3>1
    <3> QED
      BY <1>3, <3>1, <3>2
  <2> QED
    BY <1>1, <2>1, <2>2
<1>4. /\ e \in [1 .. Len(children) -> 1 .. Len(table.children)]
      /\ \A i, j \in 1 .. Len(children) : i < j => e[i] < e[j]
      /\ \A i \in 1 .. Len(children) : Same(table.children[e[i]], children[i])
  BY DEF Source
<1>5. \A i \in 1 .. Len(children) - n : g[i] = e[at(i)]
  BY <1>0
<1> HIDE DEF at
<1>6. g \in [1 .. Len(children') -> 1 .. Len(table.children)]
  BY <1>0, <1>1, <1>2, <1>4
<1>7. \A i, j \in 1 .. Len(children') : i < j => g[i] < g[j]
  BY <1>1, <1>2, <1>4, <1>5
<1>8. \A i \in 1 .. Len(children') : Same(table.children[g[i]], children'[i])
  BY <1>1, <1>2, <1>4, <1>5
<1>9. ASSUME NEW c \in 1 .. Len(table.children)
      PROVE  \/ \E i \in 1 .. Len(children') : g[i] = c
             \/ table.children[c].type \in Movable \union {"COMMA"}
             \/ table.children[c].type = "OPTIONS" /\ pass' >= 9
  <2>1. CASE \E i \in 1 .. Len(children) : e[i] = c
    <3>1. PICK i \in 1 .. Len(children) : e[i] = c
      BY <2>1
    <3>2. CASE \E j \in 1 .. Len(children) - n : at(j) = i
      BY <1>1, <1>5, <3>1, <3>2
    <3>3. CASE i = p \/ (n = 2 /\ i = p - 1)
      <4>1. table.children[c].type = children[i].type
        BY <1>4, <3>1 DEF Same
      <4>2. children[p].type \in Movable \/ (children[p].type = "OPTIONS" /\ pass = 9)
        BY DEF Goes
      <4> QED
        BY <1>1, <3>3, <4>1, <4>2
    <3> QED
      BY <1>3, <3>2, <3>3
  <2>2. CASE ~ \E i \in 1 .. Len(children) : e[i] = c
    BY <1>1, <2>2 DEF Source
  <2> QED
    BY <2>1, <2>2
<1>10. Source(g)'
  BY <1>1, <1>6, <1>7, <1>8, <1>9 DEF Source
<1> QED
  BY <1>0, <1>10 DEF at

LEMMA NextOrigin == WInv /\ Origin /\ [Next]_vars => Origin'
<1> SUFFICES ASSUME WInv, Origin, [Next]_vars PROVE Origin'
  OBVIOUS
<1>1. PICK e : Source(e)
  BY DEF Origin
<1>2. CASE Rewrites
  BY <1>1, <1>2, RewritesOrigin DEF Origin
<1>3. CASE Shortens
  <2>1. PICK p \in 1 .. Len(children), n \in {1, 2} : Goes(p, n)
    BY <1>3 DEF Shortens
  <2> QED
    BY <1>1, <2>1, ShortensOrigin DEF Origin
<1> QED
  BY <1>2, <1>3, Shapes

-----------------------------------------------------------------------------
KeptAt(tree) == {p \in DOMAIN tree : tree[p].type \notin Foreign \union {"COMMA"}}
PlaceIn(tree, p) == Cardinality({q \in KeptAt(tree) : q <= p})
Entry(tree, p) ==
  [place |-> PlaceIn(tree, p), type |-> tree[p].type,
   text |-> IF tree[p].type = "DOUBLE" THEN "" ELSE tree[p].text]

(* What has to be kept of a tree, entry by entry.                          *)
LEMMA KeptEntries == \A tree : Kept(tree) = {Entry(tree, p) : p \in KeptAt(tree)}
  BY DEF Kept, KeptAt, Entry, PlaceIn

LEMMA OriginOrder ==
  ASSUME WInv, NEW e, Source(e)
  PROVE  /\ e \in [1 .. Len(children) -> 1 .. Len(table.children)]
         /\ \A i, j \in 1 .. Len(children) : (i <= j <=> e[i] <= e[j]) /\ (e[i] = e[j] => i = j)
         /\ Len(children) \in Nat /\ Len(table.children) \in Nat
         /\ DOMAIN children = 1 .. Len(children) /\ DOMAIN table.children = 1 .. Len(table.children)
<1>1. /\ e \in [1 .. Len(children) -> 1 .. Len(table.children)]
      /\ \A i, j \in 1 .. Len(children) : i < j => e[i] < e[j]
  BY DEF Source
<1>2. /\ Len(children) \in Nat /\ Len(table.children) \in Nat
      /\ DOMAIN children = 1 .. Len(children) /\ DOMAIN table.children = 1 .. Len(table.children)
  BY TheChildren, TheTable DEF WInv
<1>3. ASSUME NEW i \in 1 .. Len(children), NEW j \in 1 .. Len(children)
      PROVE  (i <= j <=> e[i] <= e[j]) /\ (e[i] = e[j] => i = j)
  <2>1. e[i] \in Nat /\ e[j] \in Nat
    BY <1>1, <1>2
  <2>2. i < j \/ i = j \/ j < i
    BY <1>2
  <2> QED
    BY <1>1, <1>2, <2>1, <2>2
<1> QED
  BY <1>1, <1>2, <1>3

(* An increasing map onto the kept nodes gives the kept nodes their places.*)
LEMMA OriginKept ==
  ASSUME WInv, NEW e, Source(e)
  PROVE  /\ \A p \in KeptAt(children) :
              e[p] \in KeptAt(table.children) /\ Entry(children, p) = Entry(table.children, e[p])
         /\ \A c \in KeptAt(table.children) : \E p \in KeptAt(children) : e[p] = c
<1>1. /\ e \in [1 .. Len(children) -> 1 .. Len(table.children)]
      /\ \A i, j \in 1 .. Len(children) : (i <= j <=> e[i] <= e[j]) /\ (e[i] = e[j] => i = j)
      /\ Len(children) \in Nat /\ Len(table.children) \in Nat
      /\ DOMAIN children = 1 .. Len(children) /\ DOMAIN table.children = 1 .. Len(table.children)
  BY OriginOrder
<1>2. \A i \in 1 .. Len(children) :
        /\ table.children[e[i]].type = children[i].type
        /\ children[i].type # "DOUBLE" => table.children[e[i]].text = children[i].text
  BY DEF Source, Same
<1>3. /\ KeptAt(children) \subseteq 1 .. Len(children)
      /\ KeptAt(table.children) \subseteq 1 .. Len(table.children)
      /\ \A i \in 1 .. Len(children) :
           i \in KeptAt(children) <=> children[i].type \notin Foreign \union {"COMMA"}
      /\ \A i \in 1 .. Len(table.children) :
           i \in KeptAt(table.children) <=> table.children[i].type \notin Foreign \union {"COMMA"}
  BY <1>1 DEF KeptAt
<1>4. \A p \in KeptAt(children) : e[p] \in KeptAt(table.children)
  <2> TAKE p \in KeptAt(children)
  <2>1. p \in 1 .. Len(children) /\ e[p] \in 1 .. Len(table.children)
    BY <1>1, <1>3
  <2> QED
    BY <1>2, <1>3, <2>1
<1>5. \A c \in KeptAt(table.children) : \E p \in KeptAt(children) : e[p] = c
  <2> TAKE c \in KeptAt(table.children)
  <2>1. c \in 1 .. Len(table.children) /\ table.children[c].type \notin Foreign \union {"COMMA"}
    BY <1>3
  <2>2. table.children[c].type \notin Movable \union {"COMMA"} /\ table.children[c].type # "OPTIONS"
    BY <2>1 DEF Foreign
  <2>3. PICK i \in 1 .. Len(children) : e[i] = c
    BY <2>1, <2>2 DEF Source
  <2>4. i \in KeptAt(children)
    BY <1>2, <1>3, <2>1, <2>3
  <2> QED
    BY <2>3, <2>4
<1>6. ASSUME NEW p \in KeptAt(children)
      PROVE  Entry(children, p) = Entry(table.children, e[p])
  <2> DEFINE S == {q \in KeptAt(children) : q <= p}
             T == {q \in KeptAt(table.children) : q <= e[p]}
             f == [q \in S |-> e[q]]
  <2>1. IsFiniteSet(S)
    <3>1. S \subseteq 1 .. Len(children) /\ IsFiniteSet(1 .. Len(children))
      BY <1>1, <1>3, FS_Interval
    <3> QED
      BY <3>1, FS_Subset
  <2>2. f \in [S -> T]
    BY <1>1, <1>3, <1>4
  <2>3. \A x, y \in S : f[x] = f[y] => x = y
    BY <1>1, <1>3
  <2>4. \A t \in T : \E x \in S : f[x] = t
    BY <1>1, <1>3, <1>5
  <2> HIDE DEF f, S, T
  <2>5. Cardinality(T) = Cardinality(S)
    BY <2>1, <2>2, <2>3, <2>4, SameSize
  <2>6. PlaceIn(children, p) = PlaceIn(table.children, e[p])
    BY <2>5 DEF PlaceIn, S, T
  <2>7. /\ table.children[e[p]].type = children[p].type
        /\ children[p].type # "DOUBLE" => table.children[e[p]].text = children[p].text
    BY <1>2, <1>3
  <2> QED
    BY <2>6, <2>7 DEF Entry
<1> QED
  BY <1>4, <1>5, <1>6

(* However far the deletions shift what is behind them: without the        *)
(* constraints, the options and the commas the children are those of the   *)
(* source, in its order (create_table_index, create_table_fulltext_index,  *)
(* create_table_rewrite_fkey and create_table_remove_table_options delete  *)
(* by position).                                                           *)
THEOREM RestStaysUntouched == Spec => []RestUntouched
<1>1. WInv /\ Origin => RestUntouched
  <2> SUFFICES ASSUME WInv, Origin PROVE Kept(children) = Kept(table.children)
    BY DEF RestUntouched
  <2>1. PICK e : Source(e)
    BY DEF Origin
  <2>2. /\ \A p \in KeptAt(children) :
             e[p] \in KeptAt(table.children) /\ Entry(children, p) = Entry(table.children, e[p])
        /\ \A c \in KeptAt(table.children) : \E p \in KeptAt(children) : e[p] = c
    BY <2>1, OriginKept
  <2>3. {Entry(children, p) : p \in KeptAt(children)}
          = {Entry(table.children, c) : c \in KeptAt(table.children)}
    BY <2>2
  <2> QED
    BY <2>3, KeptEntries
<1>2. Init => WInv /\ Origin
  BY StartWInv, StartOrigin
<1>3. WInv /\ Origin /\ [Next]_vars => (WInv /\ Origin)'
  BY NextWInv, NextOrigin
<1> QED
  BY <1>1, <1>2, <1>3, PTL DEF Spec

-----------------------------------------------------------------------------
(* What a step queues.                                                     *)
LEMMA News == WInv /\ [Next]_vars =>
  \/ postbuf' = postbuf
  \/ \E d \in 1 .. Len(children) :
       \/ /\ Sequences(d) /\ QueuesTwo("SEQUENCE", "DEFAULT", children[d].kids[1].text)
          /\ postbuf'[Len(postbuf) + 1].args = AutoIncStart
       \/ \E u \in Nat :
            Triggers(d, u) /\ QueuesTwo("FUNCTION", "TRIGGER", children[d].kids[1].text)
       \/ MovesKey(d) /\ QueuesOne("INDEX", children[d].text)
       \/ MovesForeignKey(d) /\ QueuesOne("FKEY", children[d].text)
<1> SUFFICES ASSUME WInv, [Next]_vars, postbuf' # postbuf
             PROVE  \E d \in 1 .. Len(children) :
       \/ /\ Sequences(d) /\ QueuesTwo("SEQUENCE", "DEFAULT", children[d].kids[1].text)
          /\ postbuf'[Len(postbuf) + 1].args = AutoIncStart
       \/ \E u \in Nat :
            Triggers(d, u) /\ QueuesTwo("FUNCTION", "TRIGGER", children[d].kids[1].text)
       \/ MovesKey(d) /\ QueuesOne("INDEX", children[d].text)
       \/ MovesForeignKey(d) /\ QueuesOne("FKEY", children[d].text)
  OBVIOUS
<1>1. Inv /\ Cursor /\ QueueOK
  BY DEF WInv
<1>2. ASSUME NEW d \in 1 .. Len(children), Sequences(d)
      PROVE  QueuesTwo("SEQUENCE", "DEFAULT", children[d].kids[1].text)
             /\ postbuf'[Len(postbuf) + 1].args = AutoIncStart
  BY <1>1, <1>2, SequenceQueued
<1>3. ASSUME NEW d \in 1 .. Len(children), NEW u \in Nat, Triggers(d, u)
      PROVE  QueuesTwo("FUNCTION", "TRIGGER", children[d].kids[1].text)
  BY <1>1, <1>3, TriggerQueued
<1>4. ASSUME NEW d \in 1 .. Len(children), MovesKey(d)
      PROVE  QueuesOne("INDEX", children[d].text)
  BY <1>1, <1>4, KeyQueued
<1>5. ASSUME NEW d \in 1 .. Len(children), MovesForeignKey(d)
      PROVE  QueuesOne("FKEY", children[d].text)
  BY <1>1, <1>5, ForeignKeyQueued
<1>6. \A d : GoesOn(d) \/ DropsFulltext(d) \/ DropsOption(d) => postbuf' = postbuf
  BY DEF GoesOn, DropsFulltext, DropsOption
<1>7. SpellsOut \/ EndsPass \/ UNCHANGED vars => postbuf' = postbuf
  BY DEF SpellsOut, EndsPass, vars
<1>8. \/ \E d \in 1 .. Len(children) : Sequences(d) \/ \E u \in Nat : Triggers(d, u)
      \/ \E d \in 1 .. Len(children) : MovesKey(d) \/ MovesForeignKey(d)
  BY <1>1, <1>6, <1>7, Steps
<1> QED
  BY <1>2, <1>3, <1>4, <1>5, <1>8

-----------------------------------------------------------------------------
(* Before the options go, the first AUTO_INCREMENT option of the list is   *)
(* the first one of the source.                                            *)
LEMMA StartRead ==
  ASSUME WInv, Origin, pass < 9
  PROVE  StartInSource(AutoIncStart)
<1> DEFINE options == {p \in 2 .. Len(children) : IsAutoIncOption(children[p])}
           first   == CHOOSE p \in options : \A q \in options : p <= q
<1>1. PICK e : Source(e)
  BY DEF Origin
<1>2. /\ e \in [1 .. Len(children) -> 1 .. Len(table.children)]
      /\ \A i, j \in 1 .. Len(children) : (i <= j <=> e[i] <= e[j]) /\ (e[i] = e[j] => i = j)
      /\ Len(children) \in Nat /\ Len(table.children) \in Nat
      /\ DOMAIN children = 1 .. Len(children) /\ DOMAIN table.children = 1 .. Len(table.children)
  BY <1>1, OriginOrder
<1>3. ASSUME NEW c \in 1 .. Len(table.children), IsAutoIncOption(table.children[c])
      PROVE  \E i \in options : e[i] = c
  <2>1. table.children[c].type = "OPTIONS"
    BY <1>3 DEF IsAutoIncOption
  <2>2. table.children[c].type \notin Movable \union {"COMMA"} /\ ~(pass >= 9)
    BY <2>1 DEF Movable, WInv, Cursor
  <2>3. PICK i \in 1 .. Len(children) : e[i] = c
    BY <1>1, <2>2 DEF Source
  <2>4. children[i].type = table.children[c].type /\ children[i].kids = table.children[c].kids
    BY <1>1, <2>1, <2>3 DEF Source, Same
  <2>5. IsAutoIncOption(children[i])
    BY <1>3, <2>4 DEF IsAutoIncOption
  <2>6. i # 1
    BY <2>1, <2>4 DEF WInv, Inv, ListWellFormed, CommaSeparated
  <2> QED
    BY <1>2, <2>3, <2>5, <2>6
<1>4. ASSUME NEW i \in options
      PROVE  /\ i \in 1 .. Len(children) /\ e[i] \in 1 .. Len(table.children)
             /\ IsAutoIncOption(table.children[e[i]])
             /\ table.children[e[i]].kids = children[i].kids
  <2>1. i \in 1 .. Len(children) /\ IsAutoIncOption(children[i]) /\ children[i].type = "OPTIONS"
    BY <1>2 DEF IsAutoIncOption
  <2>2. children[i].type = table.children[e[i]].type /\ children[i].kids = table.children[e[i]].kids
    BY <1>1, <2>1 DEF Source, Same
  <2> QED
    BY <1>2, <2>1, <2>2 DEF IsAutoIncOption
<1>5. AutoIncStart = IF options = {} THEN "1" ELSE children[first].kids[3].text
  BY DEF AutoIncStart
<1>6. CASE options = {}
  BY <1>2, <1>3, <1>5, <1>6 DEF StartInSource
<1>7. CASE options # {}
  <2>1. first \in options /\ \A q \in options : first <= q
    <3>1. options \in SUBSET Nat
      BY <1>2
    <3>2. \E p \in options : \A q \in options : p <= q
      BY <1>7, <3>1, FirstExists
    <3> QED
      BY <3>2
  <2>2. AutoIncStart = children[first].kids[3].text
    BY <1>5, <1>7
  <2> HIDE DEF first, options
  <2>3. /\ first \in 1 .. Len(children) /\ e[first] \in 1 .. Len(table.children)
        /\ IsAutoIncOption(table.children[e[first]])
        /\ table.children[e[first]].kids = children[first].kids
    BY <1>4, <2>1
  <2>4. ASSUME NEW c \in 1 .. e[first] - 1
        PROVE  ~ IsAutoIncOption(table.children[c])
    <3>1. c \in 1 .. Len(table.children) /\ c < e[first]
      BY <1>2, <2>3
    <3> SUFFICES ASSUME IsAutoIncOption(table.children[c]) PROVE FALSE
      OBVIOUS
    <3>2. PICK i \in options : e[i] = c
      BY <1>3, <3>1
    <3>3. first <= i /\ i \in 1 .. Len(children)
      BY <1>4, <2>1, <3>2
    <3>4. e[first] <= e[i]
      BY <1>2, <2>3, <3>3
    <3> QED
      BY <1>2, <2>3, <3>1, <3>2, <3>4
  <2> QED
    BY <1>2, <2>2, <2>3, <2>4 DEF StartInSource
<1> QED
  BY <1>6, <1>7

(* The start of the sequence is queued where the table options say.        *)
LEMMA NextStart == WInv /\ Origin /\ SequenceStart /\ [Next]_vars => SequenceStart'
<1> SUFFICES ASSUME WInv, Origin, SequenceStart, [Next]_vars
             PROVE  \A i \in DOMAIN postbuf' :
                      postbuf'[i].what = "SEQUENCE" => StartInSource(postbuf'[i].args)
  BY CursorMoves DEF SequenceStart, StartInSource
<1> SUFFICES ASSUME NEW i \in DOMAIN postbuf', postbuf'[i].what = "SEQUENCE"
             PROVE  StartInSource(postbuf'[i].args)
  OBVIOUS
<1>3. ASSUME NEW n \in {1, 2}, Queued(n), i <= Len(postbuf)
      PROVE  StartInSource(postbuf'[i].args)
  BY <1>3 DEF Queued, SequenceStart
<1>4. CASE postbuf' = postbuf
  BY <1>4 DEF SequenceStart
<1>5. ASSUME NEW d \in 1 .. Len(children), Sequences(d),
             QueuesTwo("SEQUENCE", "DEFAULT", children[d].kids[1].text),
             postbuf'[Len(postbuf) + 1].args = AutoIncStart
      PROVE  StartInSource(postbuf'[i].args)
  <2>1. pass < 9
    BY <1>5 DEF Sequences
  <2>2. StartInSource(AutoIncStart)
    BY <2>1, StartRead
  <2>3. Queued(2) /\ (i <= Len(postbuf) \/ i = Len(postbuf) + 1 \/ i = Len(postbuf) + 2)
    BY <1>5 DEF QueuesTwo, Queued
  <2> QED
    BY <1>3, <1>5, <2>2, <2>3 DEF QueuesTwo
<1>6. ASSUME NEW x, QueuesTwo("FUNCTION", "TRIGGER", x)
      PROVE  StartInSource(postbuf'[i].args)
  <2>1. Queued(2) /\ (i <= Len(postbuf) \/ i = Len(postbuf) + 1 \/ i = Len(postbuf) + 2)
    BY <1>6 DEF QueuesTwo, Queued
  <2> QED
    BY <1>3, <1>6, <2>1 DEF QueuesTwo
<1>7. ASSUME NEW x, QueuesOne("INDEX", x) \/ QueuesOne("FKEY", x)
      PROVE  StartInSource(postbuf'[i].args)
  <2>1. Queued(1) /\ (i <= Len(postbuf) \/ i = Len(postbuf) + 1)
    BY <1>7 DEF QueuesOne, Queued
  <2> QED
    BY <1>3, <1>7, <2>1 DEF QueuesOne
<1>8. postbuf' = postbuf \/ StartInSource(postbuf'[i].args)
  BY <1>5, <1>6, <1>7, News
<1> QED
  BY <1>4, <1>8

(* The start of a sequence is the one the table was given, whatever the    *)
(* passes took out before: the options are among the children until the    *)
(* last pass, and in their order (create_table_rewrite_auto_inc runs       *)
(* before create_table_remove_table_options).                              *)
THEOREM SequencesStartInSource == Spec => []SequenceStart
<1>1. Init => WInv /\ Origin /\ SequenceStart
  <2>1. Init => SequenceStart
    BY DEF Init, SequenceStart
  <2> QED
    BY <2>1, StartWInv, StartOrigin
<1>2. WInv /\ Origin /\ SequenceStart /\ [Next]_vars => (WInv /\ Origin /\ SequenceStart)'
  BY NextWInv, NextOrigin, NextStart
<1> QED
  BY <1>1, <1>2, PTL DEF Spec

-----------------------------------------------------------------------------
(* How many statements of a queue create what of what.                     *)
Entered(queue, what, of) ==
  Cardinality({i \in DOMAIN queue : queue[i].what = what /\ queue[i].of = of})
(* How many children of a list are the node x.                             *)
Copies(tree, x) == Cardinality({p \in DOMAIN tree : tree[p] = x})

(* Counting the entries of the queue.                                      *)
LEMMA FiniteDomain ==
  ASSUME NEW n \in Nat, NEW T, T \subseteq 1 .. n
  PROVE  IsFiniteSet(T) /\ Cardinality(T) \in Nat
<1>1. IsFiniteSet(1 .. n)
  BY FS_Interval
<1>2. IsFiniteSet(T)
  BY <1>1, FS_Subset
<1> QED
  BY <1>2, FS_CardinalityType

LEMMA OneMore ==
  ASSUME NEW n \in Nat, NEW T, T \subseteq 1 .. n, NEW i, i \notin T
  PROVE  Cardinality(T \union {i}) = Cardinality(T) + 1 /\ Cardinality(T) \in Nat
<1>1. IsFiniteSet(T) /\ Cardinality(T) \in Nat
  BY FiniteDomain
<1> QED
  BY <1>1, FS_AddElement

LEMMA EnteredOne ==
  ASSUME NEW what, NEW of, QueuesOne(what, of), NEW w, NEW o
  PROVE  /\ Entered(postbuf, w, o) \in Nat
         /\ Entered(postbuf', w, o) = IF w = what /\ o = of THEN Entered(postbuf, w, o) + 1
                                      ELSE Entered(postbuf, w, o)
<1> DEFINE n   == Len(postbuf)
           Old == {i \in 1 .. n : postbuf[i].what = w /\ postbuf[i].of = o}
           New == {i \in 1 .. n + 1 : postbuf'[i].what = w /\ postbuf'[i].of = o}
<1>1. /\ n \in Nat /\ DOMAIN postbuf = 1 .. n /\ DOMAIN postbuf' = 1 .. n + 1
      /\ \A i \in 1 .. n : postbuf'[i] = postbuf[i]
      /\ postbuf'[n + 1].what = what /\ postbuf'[n + 1].of = of
  BY DEF QueuesOne, Queued
<1>2. Entered(postbuf, w, o) = Cardinality(Old) /\ Entered(postbuf', w, o) = Cardinality(New)
  BY <1>1 DEF Entered
<1>3. n + 1 \notin Old /\ Old \subseteq 1 .. n /\ 1 .. n + 1 = (1 .. n) \union {n + 1}
  BY <1>1
<1>4. New = IF w = what /\ o = of THEN Old \union {n + 1} ELSE Old
  BY <1>1, <1>3
<1> HIDE DEF Old, New
<1>5. Cardinality(Old \union {n + 1}) = Cardinality(Old) + 1 /\ Cardinality(Old) \in Nat
  BY <1>1, <1>3, OneMore
<1> QED
  BY <1>2, <1>4, <1>5

LEMMA EnteredTwo ==
  ASSUME NEW what, NEW other, NEW of, QueuesTwo(what, other, of), what # other, NEW w, NEW o
  PROVE  /\ Entered(postbuf, w, o) \in Nat
         /\ Entered(postbuf', w, o) = IF w \in {what, other} /\ o = of
                                       THEN Entered(postbuf, w, o) + 1
                                      ELSE Entered(postbuf, w, o)
<1> DEFINE n   == Len(postbuf)
           Old == {i \in 1 .. n : postbuf[i].what = w /\ postbuf[i].of = o}
           New == {i \in 1 .. n + 2 : postbuf'[i].what = w /\ postbuf'[i].of = o}
<1>1. /\ n \in Nat /\ DOMAIN postbuf = 1 .. n /\ DOMAIN postbuf' = 1 .. n + 2
      /\ \A i \in 1 .. n : postbuf'[i] = postbuf[i]
      /\ postbuf'[n + 1].what = what /\ postbuf'[n + 1].of = of
      /\ postbuf'[n + 2].what = other /\ postbuf'[n + 2].of = of
  BY DEF QueuesTwo, Queued
<1>2. Entered(postbuf, w, o) = Cardinality(Old) /\ Entered(postbuf', w, o) = Cardinality(New)
  BY <1>1 DEF Entered
<1>3. n + 1 \notin Old /\ n + 2 \notin Old /\ Old \subseteq 1 .. n
      /\ 1 .. n + 2 = (1 .. n) \union {n + 1, n + 2}
  BY <1>1
<1>4. New = IF w = what /\ o = of THEN Old \union {n + 1}
            ELSE IF w = other /\ o = of THEN Old \union {n + 2} ELSE Old
  <2>1. \A i : i \in New <=> \/ i \in Old
                             \/ i = n + 1 /\ w = what /\ o = of
                             \/ i = n + 2 /\ w = other /\ o = of
    BY <1>1, <1>3
  <2> HIDE DEF Old, New
  <2> QED
    BY <2>1
<1> HIDE DEF Old, New
<1>5. Cardinality(Old \union {n + 1}) = Cardinality(Old) + 1 /\ Cardinality(Old) \in Nat
  BY <1>1, <1>3, OneMore
<1>6. Cardinality(Old \union {n + 2}) = Cardinality(Old) + 1
  BY <1>1, <1>3, OneMore
<1> QED
  BY <1>2, <1>4, <1>5, <1>6

-----------------------------------------------------------------------------
(* Of a constraint, one child goes when it is the one taken out.           *)
LEMMA CopiesTaken ==
  ASSUME WInv, Inv', NEW p \in 1 .. Len(children), NEW n \in {1, 2}, Goes(p, n),
         NEW x, x.type \in {"INDEX", "FKEY"}
  PROVE  /\ Copies(children, x) \in Nat
         /\ Copies(children', x) = IF children[p] = x THEN Copies(children, x) - 1
                                   ELSE Copies(children, x)
<1> DEFINE N     == Len(children)
           at(k) == IF k <= p - n THEN k ELSE k + n
           Old   == {k \in 1 .. N : children[k] = x}
           New   == {k \in 1 .. N - n : children'[k] = x}
           f     == [k \in New |-> at(k)]
<1>1. N \in Nat /\ DOMAIN children = 1 .. N /\ DOMAIN children' = 1 .. Len(children')
  BY TheChildren DEF WInv, Inv, ChildrenOK
<1>2. /\ n \in Nat /\ n < p /\ Len(children') = N - n
      /\ \A k \in 1 .. N - n : children'[k] = children[at(k)]
      /\ n = 2 => children[p - 1].type = "COMMA"
  BY DEF Goes, TakesOut
<1>3. Copies(children, x) = Cardinality(Old) /\ Copies(children', x) = Cardinality(New)
  BY <1>1, <1>2 DEF Copies
<1>4. IsFiniteSet(Old) /\ Cardinality(Old) \in Nat /\ IsFiniteSet(New)
  <2>1. Old \subseteq 1 .. N /\ New \subseteq 1 .. N
    BY <1>1, <1>2
  <2> HIDE DEF Old, New
  <2> QED
    BY <1>1, <2>1, FiniteDomain
<1>5. f \in [New -> Old \ {p}] /\ \A k, j \in New : f[k] = f[j] => k = j
  BY <1>1, <1>2
<1>6. ASSUME NEW j \in Old \ {p}
      PROVE  \E k \in New : f[k] = j
  <2>1. CASE j <= p - n
    <3>1. j \in New /\ at(j) = j
      BY <1>1, <1>2, <2>1
    <3> QED
      BY <3>1
  <2>2. CASE j > p
    <3>1. j - n \in 1 .. N - n /\ ~(j - n <= p - n) /\ (j - n) + n = j
      BY <1>1, <1>2, <2>2
    <3>2. j - n \in New /\ at(j - n) = j
      BY <1>2, <3>1
    <3> QED
      BY <3>2
  <2>3. j = p - 1 => n = 1
    BY <1>2
  <2>4. j <= p - n \/ j > p
    BY <1>1, <2>3
  <2> QED
    BY <2>1, <2>2, <2>4
<1> HIDE DEF New, Old, f
<1>7. Cardinality(Old \ {p}) = Cardinality(New)
  BY <1>4, <1>5, <1>6, SameSize
<1>8. p \in Old <=> children[p] = x
  BY <1>1 DEF Old
<1>9. p \in Old => Cardinality(Old \ {p}) = Cardinality(Old) - 1
  BY <1>4, FS_RemoveElement
<1>10. p \notin Old => Old \ {p} = Old
  OBVIOUS
<1> QED
  BY <1>3, <1>4, <1>7, <1>8, <1>9, <1>10

LEMMA CopiesRewritten ==
  ASSUME WInv, Inv', Rewrites, NEW x \in Node, x.type \in {"INDEX", "FKEY"}
  PROVE  Copies(children', x) = Copies(children, x)
<1>1. /\ children \in Seq(Node) /\ Len(children) \in Nat /\ DOMAIN children = 1 .. Len(children)
      /\ children' \in Seq(Node) /\ DOMAIN children' = 1 .. Len(children')
      /\ Len(children') = Len(children)
  BY TheChildren DEF WInv, Inv, ChildrenOK, Rewrites
<1>2. ASSUME NEW i \in 1 .. Len(children)
      PROVE  children'[i] = x <=> children[i] = x
  <2>1. children[i] \in Node /\ children'[i] \in Node /\ Same(children[i], children'[i])
    BY <1>1 DEF Rewrites
  <2>2. children'[i].type = children[i].type
    BY <2>1 DEF Same
  <2>3. children[i].type \in {"INDEX", "FKEY"} => children'[i] = children[i]
    BY <2>1, SameConstraint
  <2> QED
    BY <2>2, <2>3
<1>3. {i \in DOMAIN children' : children'[i] = x} = {i \in DOMAIN children : children[i] = x}
  BY <1>1, <1>2
<1> QED
  BY <1>3 DEF Copies

-----------------------------------------------------------------------------
(* What is no longer in the tree is in the queue, and the reverse.         *)
LEMMA Accounts ==
  ConstraintsAccounted <=>
    \A c \in DOMAIN table.children :
      table.children[c].type \in {"INDEX", "FKEY"} =>
        Copies(children, table.children[c])
        + Entered(postbuf, table.children[c].type, table.children[c].text) = 1
  BY DEF ConstraintsAccounted, StatementsFor, Copies, Entered

(* Before the first pass everything is in the tree.                        *)
LEMMA StartAccounted == Init => ConstraintsAccounted
<1> SUFFICES ASSUME Init, NEW c \in DOMAIN table.children,
                    table.children[c].type \in {"INDEX", "FKEY"}
             PROVE  Copies(children, table.children[c])
                    + Entered(postbuf, table.children[c].type, table.children[c].text) = 1
  BY Accounts
<1>1. children = table.children /\ postbuf = << >> /\ WellFormed(table)
  BY StartWInv DEF Init, WInv
<1>2. {p \in DOMAIN children : children[p] = table.children[c]} = {c}
  BY <1>1 DEF WellFormed, Apart
<1>3. Copies(children, table.children[c]) = 1
  BY <1>2, FS_Singleton DEF Copies
<1>4. Entered(postbuf, table.children[c].type, table.children[c].text) = 0
  BY <1>1, FS_EmptySet DEF Entered
<1> QED
  BY <1>3, <1>4

(* A constraint that goes is the child c of the source, or differs from it *)
(* in what a statement says.                                               *)
LEMMA WhichGoes ==
  ASSUME WInv, Origin, NEW p \in 1 .. Len(children), children[p].type \in {"INDEX", "FKEY"},
         NEW c \in DOMAIN table.children,
         table.children[c].type = children[p].type, table.children[c].text = children[p].text
  PROVE  children[p] = table.children[c]
<1>1. PICK e : Source(e)
  BY DEF Origin
<1>2. e[p] \in DOMAIN table.children /\ Same(table.children[e[p]], children[p])
  BY <1>1, OriginOrder DEF Source
<1>3. table.children[e[p]] \in Node /\ children[p] \in Node
  BY <1>2, TheTable, TheChildren DEF WInv
<1>4. table.children[e[p]].type = children[p].type
  BY <1>2 DEF Same
<1>5. table.children[e[p]] = children[p]
  BY <1>2, <1>3, <1>4, SameConstraint
<1>6. e[p] = c
  BY <1>2, <1>5 DEF WInv, WellFormed, Apart
<1> QED
  BY <1>5, <1>6

LEMMA NextAccounted == WInv /\ Origin /\ ConstraintsAccounted /\ [Next]_vars
  => ConstraintsAccounted'
<1> SUFFICES ASSUME WInv, Origin, ConstraintsAccounted, [Next]_vars PROVE ConstraintsAccounted'
  OBVIOUS
<1>1. table' = table /\ Inv'
  BY CursorMoves, NextInv DEF WInv
<1> SUFFICES ASSUME NEW c \in DOMAIN table.children, table.children[c].type \in {"INDEX", "FKEY"}
             PROVE  Copies(children', table.children[c])
                    + Entered(postbuf', table.children[c].type, table.children[c].text) = 1
  BY <1>1 DEF ConstraintsAccounted, StatementsFor, Copies, Entered
<1>2. PICK x : x = table.children[c]
  OBVIOUS
<1>3. /\ x \in Node /\ x.type \in {"INDEX", "FKEY"}
      /\ Copies(children, x) + Entered(postbuf, x.type, x.text) = 1
  BY <1>2, TheTable, Accounts DEF WInv
<1>4. ASSUME NEW d \in 1 .. Len(children), NEW w \in {"INDEX", "FKEY"}, Goes(d, 2),
             children[d].type = w, QueuesOne(w, children[d].text)
      PROVE  Copies(children', x) + Entered(postbuf', x.type, x.text) = 1
  <2>1. /\ Copies(children, x) \in Nat
        /\ Copies(children', x) = IF children[d] = x THEN Copies(children, x) - 1
                                  ELSE Copies(children, x)
    BY <1>1, <1>3, <1>4, CopiesTaken
  <2>2. /\ Entered(postbuf, x.type, x.text) \in Nat
        /\ Entered(postbuf', x.type, x.text)
             = IF x.type = w /\ x.text = children[d].text THEN Entered(postbuf, x.type, x.text) + 1
               ELSE Entered(postbuf, x.type, x.text)
    BY <1>4, EnteredOne
  <2>3. children[d] = x <=> x.type = w /\ x.text = children[d].text
    BY <1>2, <1>4, WhichGoes
  <2> QED
    BY <1>3, <2>1, <2>2, <2>3
<1>5. ASSUME NEW p \in 1 .. Len(children), NEW n \in {1, 2}, Goes(p, n),
             children[p].type \notin {"INDEX", "FKEY"}, postbuf' = postbuf
      PROVE  Copies(children', x) + Entered(postbuf', x.type, x.text) = 1
  <2>1. Copies(children', x) = Copies(children, x)
    BY <1>1, <1>3, <1>5, CopiesTaken
  <2> QED
    BY <1>3, <1>5, <2>1
<1>6. ASSUME Rewrites, Entered(postbuf', x.type, x.text) = Entered(postbuf, x.type, x.text)
      PROVE  Copies(children', x) + Entered(postbuf', x.type, x.text) = 1
  BY <1>1, <1>3, <1>6, CopiesRewritten
<1>7. Inv /\ Cursor /\ QueueOK
  BY DEF WInv
<1>8. ASSUME NEW d \in 1 .. Len(children), GoesOn(d)
      PROVE  Copies(children', x) + Entered(postbuf', x.type, x.text) = 1
  <2>1. InPlace(d) /\ postbuf' = postbuf
    BY <1>8 DEF GoesOn, ColumnStep
  <2>2. Rewrites
    BY <2>1, InPlaceRewrites
  <2> QED
    BY <1>6, <2>1, <2>2
<1>9. ASSUME NEW d \in 1 .. Len(children), Sequences(d)
      PROVE  Copies(children', x) + Entered(postbuf', x.type, x.text) = 1
  <2>1. InPlace(d)
    BY <1>9 DEF Sequences, ColumnStep
  <2>2. Rewrites
    BY <2>1, InPlaceRewrites
  <2>3. QueuesTwo("SEQUENCE", "DEFAULT", children[d].kids[1].text)
    BY <1>7, <1>9, SequenceQueued
  <2>4. Entered(postbuf', x.type, x.text) = Entered(postbuf, x.type, x.text)
    BY <1>3, <2>3, EnteredTwo
  <2> QED
    BY <1>6, <2>2, <2>4
<1>10. ASSUME NEW d \in 1 .. Len(children), NEW u \in Nat, Triggers(d, u)
      PROVE  Copies(children', x) + Entered(postbuf', x.type, x.text) = 1
  <2>1. InPlace(d)
    BY <1>10 DEF Triggers, ColumnStep
  <2>2. Rewrites
    BY <2>1, InPlaceRewrites
  <2>3. QueuesTwo("FUNCTION", "TRIGGER", children[d].kids[1].text)
    BY <1>7, <1>10, TriggerQueued
  <2>4. Entered(postbuf', x.type, x.text) = Entered(postbuf, x.type, x.text)
    BY <1>3, <2>3, EnteredTwo
  <2> QED
    BY <1>6, <2>2, <2>4
<1>11. ASSUME NEW p \in 1 .. Len(children), MovesKey(p)
       PROVE  Copies(children', x) + Entered(postbuf', x.type, x.text) = 1
  <2>1. Goes(p, 2) /\ children[p].type = "INDEX" /\ QueuesOne("INDEX", children[p].text)
    BY <1>7, <1>11, ConstraintGoes, KeyQueued DEF MovesKey
  <2> QED
    BY <1>4, <2>1
<1>12. ASSUME NEW p \in 1 .. Len(children), MovesForeignKey(p)
       PROVE  Copies(children', x) + Entered(postbuf', x.type, x.text) = 1
  <2>1. Goes(p, 2) /\ children[p].type = "FKEY" /\ QueuesOne("FKEY", children[p].text)
    BY <1>7, <1>12, ConstraintGoes, ForeignKeyQueued DEF MovesForeignKey
  <2> QED
    BY <1>4, <2>1
<1>13. ASSUME NEW p \in 1 .. Len(children), DropsFulltext(p)
       PROVE  Copies(children', x) + Entered(postbuf', x.type, x.text) = 1
  <2>1. Goes(p, 2) /\ children[p].type \notin {"INDEX", "FKEY"} /\ postbuf' = postbuf
    BY <1>13, ConstraintGoes DEF DropsFulltext
  <2> QED
    BY <1>5, <2>1
<1>14. ASSUME NEW p \in 1 .. Len(children), DropsOption(p)
       PROVE  Copies(children', x) + Entered(postbuf', x.type, x.text) = 1
  <2>1. Goes(p, 1) /\ children[p].type \notin {"INDEX", "FKEY"} /\ postbuf' = postbuf
    BY <1>14, OptionGoes DEF DropsOption
  <2> QED
    BY <1>5, <2>1
<1>15. ASSUME SpellsOut \/ EndsPass \/ UNCHANGED vars
       PROVE  Copies(children', x) + Entered(postbuf', x.type, x.text) = 1
  BY <1>6, <1>15, StillRewrites
<1>16. Copies(children', x) + Entered(postbuf', x.type, x.text) = 1
  BY <1>7, <1>8, <1>9, <1>10, <1>11, <1>12, <1>13, <1>14, <1>15, Steps
<1> QED
  BY <1>2, <1>16

(* A key or a foreign key is in the table or in the queue, and once:       *)
(* whichever constraint a pass takes out, the statement says which one it  *)
(* was, and no later pass finds it again or queues another in its name     *)
(* (create_table_index, create_table_rewrite_fkey).                        *)
THEOREM ConstraintsStayAccounted == Spec => []ConstraintsAccounted
<1>1. Init => WInv /\ Origin /\ ConstraintsAccounted
  BY StartWInv, StartOrigin, StartAccounted
<1>2. WInv /\ Origin /\ ConstraintsAccounted /\ [Next]_vars
        => (WInv /\ Origin /\ ConstraintsAccounted)'
  BY NextWInv, NextOrigin, NextAccounted
<1> QED
  BY <1>1, <1>2, PTL DEF Spec

-----------------------------------------------------------------------------
(* What column b of the source says is what column n still says and what   *)
(* the queue q says of it.                                                 *)
Balanced(q, b, n) ==
  /\ CountType(b.kids, "AUTO_INCREMENT")
       = CountType(n.kids, "AUTO_INCREMENT") + Entered(q, "SEQUENCE", n.kids[1].text)
  /\ CountType(b.kids, "AUTO_INCREMENT")
       = CountType(n.kids, "AUTO_INCREMENT") + Entered(q, "DEFAULT", n.kids[1].text)
  /\ CountType(b.kids, "ONUPDATE")
       = CountType(n.kids, "ONUPDATE") + Entered(q, "FUNCTION", n.kids[1].text)
  /\ CountType(b.kids, "ONUPDATE")
       = CountType(n.kids, "ONUPDATE") + Entered(q, "TRIGGER", n.kids[1].text)
Column(b, n) == b.type = "COLUMN_DEF" /\ n.type = "COLUMN_DEF" /\ n.kids[1] = b.kids[1]
Balance ==
  \A d \in DOMAIN table.children, c \in DOMAIN children :
    Column(table.children[d], children[c]) => Balanced(postbuf, table.children[d], children[c])

(* A child that says what another said.                                    *)
Like(n, m) ==
  /\ n.type = m.type
  /\ m.type = "COLUMN_DEF" =>
       n.kids[1] = m.kids[1] /\ \A x \in Options : CountType(n.kids, x) = CountType(m.kids, x)

(* Like(n, m): n and m have the same name and the same counts.             *)
LEMMA LikeRefl == \A n : Like(n, n)
  BY DEF Like
LEMMA LikeBalanced ==
  ASSUME NEW b, NEW n, NEW m, Like(n, m), Column(b, n), NEW q, Balanced(q, b, m)
  PROVE  Balanced(q, b, n)
  BY DEF Like, Column, Balanced, Options
LEMMA LikeColumn == \A b, n, m : Like(n, m) /\ Column(b, n) => Column(b, m)
  BY DEF Like, Column

ColumnWhats == {"SEQUENCE", "DEFAULT", "FUNCTION", "TRIGGER"}
LEMMA StillBalanced ==
  ASSUME Balance, table' = table,
         \A c \in DOMAIN children' : \E j \in DOMAIN children : Like(children'[c], children[j]),
         \A w \in ColumnWhats : \A of : Entered(postbuf', w, of) = Entered(postbuf, w, of)
  PROVE  Balance'
<1> SUFFICES ASSUME NEW d \in DOMAIN table.children, NEW c \in DOMAIN children',
                    Column(table.children[d], children'[c])
             PROVE  Balanced(postbuf', table.children[d], children'[c])
  BY DEF Balance
<1>1. PICK j \in DOMAIN children : Like(children'[c], children[j])
  OBVIOUS
<1>2. Column(table.children[d], children[j])
  BY <1>1, LikeColumn
<1>3. Balanced(postbuf, table.children[d], children[j])
  BY <1>2 DEF Balance
<1>4. Balanced(postbuf, table.children[d], children'[c])
  BY <1>1, <1>3, LikeBalanced
<1> QED
  BY <1>4 DEF Balanced, ColumnWhats

(* Two columns of a table never have one name.                             *)
LEMMA NamesApart ==
  ASSUME WInv, Origin, NEW i \in 1 .. Len(children), NEW j \in 1 .. Len(children), i # j,
         children[i].type = "COLUMN_DEF", children[j].type = "COLUMN_DEF"
  PROVE  children[i].kids[1].text # children[j].kids[1].text
<1>1. PICK e : Source(e)
  BY DEF Origin
<1>2. /\ e[i] \in DOMAIN table.children /\ e[j] \in DOMAIN table.children /\ e[i] # e[j]
      /\ Same(table.children[e[i]], children[i]) /\ Same(table.children[e[j]], children[j])
  BY <1>1, OriginOrder DEF Source
<1>3. table.children[e[i]].type = "COLUMN_DEF" /\ table.children[e[j]].type = "COLUMN_DEF"
  BY <1>2 DEF Same
<1>4. /\ children[i].kids[1] = table.children[e[i]].kids[1]
      /\ children[j].kids[1] = table.children[e[j]].kids[1]
  BY <1>2, <1>3 DEF Same
<1>5. table.children[e[i]].kids[1].text # table.children[e[j]].kids[1].text
  BY <1>2, <1>3 DEF WInv, WellFormed, Apart
<1> QED
  BY <1>4, <1>5

(* Before the first pass every option is in its column.                    *)
LEMMA StartBalance == Init => Balance
<1> SUFFICES ASSUME Init, NEW d \in DOMAIN table.children, NEW c \in DOMAIN children,
                    Column(table.children[d], children[c])
             PROVE  Balanced(postbuf, table.children[d], children[c])
  BY DEF Balance
<1>1. children = table.children /\ postbuf = << >> /\ WellFormed(table)
  BY StartWInv DEF Init, WInv
<1>2. d = c
  BY <1>1 DEF Column, WellFormed, Apart
<1>3. \A w, of : Entered(postbuf, w, of) = 0
  BY <1>1, FS_EmptySet DEF Entered
<1>4. children[c].kids \in Seq(Part)
  <2>1. children[c] \in Node
    BY <1>1, TheTable
  <2> QED
    BY <2>1 DEF Node
<1>5. \A x : CountType(children[c].kids, x) \in Nat
  BY <1>4, CountIsNat
<1> QED
  BY <1>1, <1>2, <1>3, <1>5 DEF Balanced

(* A column gives up an option for two statements.                         *)
LEMMA MovedBalance ==
  ASSUME WInv, Inv', Origin, Balance, NEW d \in 1 .. Len(children), NEW o, NEW w, NEW v,
         \/ o = "AUTO_INCREMENT" /\ w = "SEQUENCE" /\ v = "DEFAULT"
         \/ o = "ONUPDATE" /\ w = "FUNCTION" /\ v = "TRIGGER",
         ColumnStep(d, o), QueuesTwo(w, v, children[d].kids[1].text)
  PROVE  Balance'
<1>1. /\ InPlace(d) /\ table' = table /\ Len(children') = Len(children)
      /\ DOMAIN children = 1 .. Len(children) /\ DOMAIN children' = 1 .. Len(children')
      /\ \A j \in 1 .. Len(children) : j # d => children'[j] = children[j]
      /\ Same(children[d], children'[d]) /\ children[d].type = "COLUMN_DEF"
  BY TheChildren DEF ColumnStep, InPlace, WInv, Inv, ChildrenOK, Finds
<1>2. children[d].kids \in Seq(Part)
  BY TheChildren DEF WInv, Node
<1>3. /\ \A x \in Options : CountType(children'[d].kids, x)
                              = CountType(children[d].kids, x) - (IF x = o THEN 1 ELSE 0)
      /\ \A x : CountType(children[d].kids, x) \in Nat
  BY <1>2, CountIsNat DEF ColumnStep
<1>4. \A r, of : /\ Entered(postbuf, r, of) \in Nat
                 /\ Entered(postbuf', r, of)
                      = IF r \in {w, v} /\ of = children[d].kids[1].text
                        THEN Entered(postbuf, r, of) + 1 ELSE Entered(postbuf, r, of)
  <2>1. w # v
    OBVIOUS
  <2> QED
    BY <2>1, EnteredTwo
<1> SUFFICES ASSUME NEW b \in DOMAIN table.children, NEW c \in DOMAIN children',
                    Column(table.children[b], children'[c])
             PROVE  Balanced(postbuf', table.children[b], children'[c])
  BY <1>1 DEF Balance
<1>5. CASE c # d
  <2>1. children'[c] = children[c] /\ c \in 1 .. Len(children) /\ children[c].type = "COLUMN_DEF"
    BY <1>1, <1>5 DEF Column
  <2>2. children[c].kids[1].text # children[d].kids[1].text
    BY <1>1, <1>5, <2>1, NamesApart
  <2>3. Balanced(postbuf, table.children[b], children[c])
    BY <1>1, <2>1 DEF Balance
  <2>4. \A r : Entered(postbuf', r, children[c].kids[1].text)
                 = Entered(postbuf, r, children[c].kids[1].text)
    BY <1>4, <2>2
  <2> QED
    BY <2>1, <2>3, <2>4 DEF Balanced
<1>6. CASE c = d
  <2>1. children'[d].kids[1] = children[d].kids[1]
    BY <1>1 DEF Same
  <2>2. Column(table.children[b], children[d])
    BY <1>1, <1>6, <2>1 DEF Column
  <2>3. Balanced(postbuf, table.children[b], children[d])
    BY <1>1, <2>2 DEF Balance
  <2> DEFINE name == children[d].kids[1].text
             was(x) == CountType(children[d].kids, x)
             now(x) == CountType(children'[d].kids, x)
             src(x) == CountType(table.children[b].kids, x)
  <2>4. /\ src("AUTO_INCREMENT") = was("AUTO_INCREMENT") + Entered(postbuf, "SEQUENCE", name)
        /\ src("AUTO_INCREMENT") = was("AUTO_INCREMENT") + Entered(postbuf, "DEFAULT", name)
        /\ src("ONUPDATE") = was("ONUPDATE") + Entered(postbuf, "FUNCTION", name)
        /\ src("ONUPDATE") = was("ONUPDATE") + Entered(postbuf, "TRIGGER", name)
    BY <2>3 DEF Balanced
  <2>5. /\ now("AUTO_INCREMENT") = was("AUTO_INCREMENT") - (IF "AUTO_INCREMENT" = o THEN 1 ELSE 0)
        /\ now("ONUPDATE") = was("ONUPDATE") - (IF "ONUPDATE" = o THEN 1 ELSE 0)
        /\ was("AUTO_INCREMENT") \in Nat /\ was("ONUPDATE") \in Nat
    BY <1>3 DEF Options
  <2>6. \A r : /\ Entered(postbuf, r, name) \in Nat
               /\ Entered(postbuf', r, name) = IF r \in {w, v} THEN Entered(postbuf, r, name) + 1
                                               ELSE Entered(postbuf, r, name)
    BY <1>4
  <2> HIDE DEF name, was, now, src
  <2>7. /\ src("AUTO_INCREMENT") = now("AUTO_INCREMENT") + Entered(postbuf', "SEQUENCE", name)
        /\ src("AUTO_INCREMENT") = now("AUTO_INCREMENT") + Entered(postbuf', "DEFAULT", name)
        /\ src("ONUPDATE") = now("ONUPDATE") + Entered(postbuf', "FUNCTION", name)
        /\ src("ONUPDATE") = now("ONUPDATE") + Entered(postbuf', "TRIGGER", name)
    <3>1. CASE o = "AUTO_INCREMENT" /\ w = "SEQUENCE" /\ v = "DEFAULT"
      <4>1. /\ now("AUTO_INCREMENT") = was("AUTO_INCREMENT") - 1
                 /\ now("ONUPDATE") = was("ONUPDATE")
        BY <2>5, <3>1
      <4>2. /\ Entered(postbuf', "SEQUENCE", name) = Entered(postbuf, "SEQUENCE", name) + 1
            /\ Entered(postbuf', "DEFAULT", name) = Entered(postbuf, "DEFAULT", name) + 1
            /\ Entered(postbuf', "FUNCTION", name) = Entered(postbuf, "FUNCTION", name)
            /\ Entered(postbuf', "TRIGGER", name) = Entered(postbuf, "TRIGGER", name)
            /\ Entered(postbuf, "SEQUENCE", name) \in Nat
                 /\ Entered(postbuf, "DEFAULT", name) \in Nat
        BY <2>6, <3>1
      <4> QED
        BY <2>4, <2>5, <4>1, <4>2
    <3>2. CASE o = "ONUPDATE" /\ w = "FUNCTION" /\ v = "TRIGGER"
      <4>1. /\ now("AUTO_INCREMENT") = was("AUTO_INCREMENT")
                 /\ now("ONUPDATE") = was("ONUPDATE") - 1
        BY <2>5, <3>2
      <4>2. /\ Entered(postbuf', "SEQUENCE", name) = Entered(postbuf, "SEQUENCE", name)
            /\ Entered(postbuf', "DEFAULT", name) = Entered(postbuf, "DEFAULT", name)
            /\ Entered(postbuf', "FUNCTION", name) = Entered(postbuf, "FUNCTION", name) + 1
            /\ Entered(postbuf', "TRIGGER", name) = Entered(postbuf, "TRIGGER", name) + 1
            /\ Entered(postbuf, "FUNCTION", name) \in Nat
                 /\ Entered(postbuf, "TRIGGER", name) \in Nat
        BY <2>6, <3>2
      <4> QED
        BY <2>4, <2>5, <4>1, <4>2
    <3> QED
      BY <3>1, <3>2
  <2> QED
    BY <1>6, <2>1, <2>7 DEF Balanced, name, now, src
<1> QED
  BY <1>5, <1>6

(* An option leaves its column when its statements are queued.             *)
LEMMA NextBalance == WInv /\ Origin /\ Balance /\ [Next]_vars => Balance'
<1> SUFFICES ASSUME WInv, Origin, Balance, [Next]_vars PROVE Balance'
  OBVIOUS
<1>1. /\ Inv /\ Cursor /\ QueueOK /\ table' = table /\ Inv'
      /\ Len(children) \in Nat /\ DOMAIN children = 1 .. Len(children)
      /\ DOMAIN children' = 1 .. Len(children')
  BY CursorMoves, NextInv, TheChildren DEF WInv, Inv, ChildrenOK
<1>2. postbuf' = postbuf
        => \A w \in ColumnWhats : \A of : Entered(postbuf', w, of) = Entered(postbuf, w, of)
  OBVIOUS
<1>3. ASSUME NEW p \in 1 .. Len(children), NEW n \in {1, 2}, Goes(p, n),
             \A w \in ColumnWhats : \A of : Entered(postbuf', w, of) = Entered(postbuf, w, of)
      PROVE  Balance'
  <2>1. \A c \in DOMAIN children' : \E j \in DOMAIN children : children'[c] = children[j]
    BY <1>1, <1>3 DEF Goes, TakesOut
  <2> QED
    BY <1>1, <1>3, <2>1, LikeRefl, StillBalanced
<1>4. ASSUME NEW d \in 1 .. Len(children), GoesOn(d)
      PROVE  Balance'
  <2>1. /\ postbuf' = postbuf /\ Len(children') = Len(children)
        /\ \A j \in 1 .. Len(children) : j # d => children'[j] = children[j]
        /\ Same(children[d], children'[d])
        /\ \A x \in Options : CountType(children'[d].kids, x)
                               = CountType(children[d].kids, x) - (IF x = "NONE" THEN 1 ELSE 0)
    BY <1>4 DEF GoesOn, ColumnStep, InPlace
  <2>2. \A x \in Options : CountType(children'[d].kids, x) = CountType(children[d].kids, x)
    <3>1. children[d].kids \in Seq(Part)
      BY <1>1, TheChildren DEF Node
    <3>2. \A x : CountType(children[d].kids, x) \in Nat
      BY <3>1, CountIsNat
    <3>3. \A x \in Options : x # "NONE"
      BY DEF Options
    <3> QED
      BY <2>1, <3>2, <3>3
  <2>3. Like(children'[d], children[d])
    BY <2>1, <2>2 DEF Like, Same
  <2>4. \A c \in DOMAIN children' : \E j \in DOMAIN children : Like(children'[c], children[j])
    BY <1>1, <2>1, <2>3, LikeRefl
  <2> QED
    BY <1>1, <1>2, <2>1, <2>4, StillBalanced
<1>5. ASSUME NEW d \in 1 .. Len(children), Sequences(d)
      PROVE  Balance'
  <2>1. ColumnStep(d, "AUTO_INCREMENT")
    BY <1>5 DEF Sequences
  <2>2. QueuesTwo("SEQUENCE", "DEFAULT", children[d].kids[1].text)
    BY <1>1, <1>5, SequenceQueued
  <2> QED
    BY <1>1, <2>1, <2>2, MovedBalance
<1>6. ASSUME NEW d \in 1 .. Len(children), NEW u \in Nat, Triggers(d, u)
      PROVE  Balance'
  <2>1. ColumnStep(d, "ONUPDATE")
    BY <1>6 DEF Triggers
  <2>2. QueuesTwo("FUNCTION", "TRIGGER", children[d].kids[1].text)
    BY <1>1, <1>6, TriggerQueued
  <2> QED
    BY <1>1, <2>1, <2>2, MovedBalance
<1>7. ASSUME NEW p \in 1 .. Len(children), MovesKey(p)
      PROVE  Balance'
  <2>1. Goes(p, 2) /\ QueuesOne("INDEX", children[p].text)
    BY <1>1, <1>7, ConstraintGoes, KeyQueued
  <2>2. \A w \in ColumnWhats : \A of : Entered(postbuf', w, of) = Entered(postbuf, w, of)
    BY <2>1, EnteredOne DEF ColumnWhats
  <2> QED
    BY <1>3, <2>1, <2>2
<1>8. ASSUME NEW p \in 1 .. Len(children), MovesForeignKey(p)
      PROVE  Balance'
  <2>1. Goes(p, 2) /\ QueuesOne("FKEY", children[p].text)
    BY <1>1, <1>8, ConstraintGoes, ForeignKeyQueued
  <2>2. \A w \in ColumnWhats : \A of : Entered(postbuf', w, of) = Entered(postbuf, w, of)
    BY <2>1, EnteredOne DEF ColumnWhats
  <2> QED
    BY <1>3, <2>1, <2>2
<1>9. ASSUME NEW p \in 1 .. Len(children), DropsFulltext(p)
      PROVE  Balance'
  <2>1. Goes(p, 2) /\ postbuf' = postbuf
    BY <1>9, ConstraintGoes DEF DropsFulltext
  <2> QED
    BY <1>2, <1>3, <2>1
<1>10. ASSUME NEW p \in 1 .. Len(children), DropsOption(p)
       PROVE  Balance'
  <2>1. Goes(p, 1) /\ postbuf' = postbuf
    BY <1>10, OptionGoes DEF DropsOption
  <2> QED
    BY <1>2, <1>3, <2>1
<1>11. CASE SpellsOut
  <2>1. /\ postbuf' = postbuf /\ Len(children') = Len(children)
        /\ \A i \in 1 .. Len(children) :
             Same(children[i], children'[i]) /\ children'[i].kids = children[i].kids
    BY <1>11 DEF SpellsOut
  <2>2. \A c \in DOMAIN children' : \E j \in DOMAIN children : Like(children'[c], children[j])
    BY <1>1, <2>1 DEF Like, Same
  <2> QED
    BY <1>1, <1>2, <2>1, <2>2, StillBalanced
<1>12. CASE EndsPass \/ UNCHANGED vars
  <2>1. postbuf' = postbuf /\ children' = children
    BY <1>12 DEF EndsPass, vars
  <2>2. \A c \in DOMAIN children' : \E j \in DOMAIN children : Like(children'[c], children[j])
    BY <2>1, LikeRefl
  <2> QED
    BY <1>1, <1>2, <2>1, <2>2, StillBalanced
<1> QED
  BY <1>1, <1>4, <1>5, <1>6, <1>7, <1>8, <1>9, <1>10, <1>11, <1>12, Steps

(* Every AUTO_INCREMENT and every ON UPDATE of a column, however often it  *)
(* says one, is in the column or in the queue, with both its statements:   *)
(* no turn of a pass takes one out that it does not make up for, and none  *)
(* speaks for another column (create_table_rewrite_auto_inc,               *)
(* create_table_rewrite_onupdate).                                         *)
THEOREM ColumnOptionsStayAccounted == Spec => []ColumnOptionsAccounted
<1>1. Balance => ColumnOptionsAccounted
  <2> SUFFICES ASSUME Balance,
                      NEW d \in DOMAIN table.children, NEW c \in DOMAIN children,
                      Column(table.children[d], children[c])
               PROVE  \A o \in {<<"AUTO_INCREMENT", "SEQUENCE">>, <<"AUTO_INCREMENT", "DEFAULT">>,
                                 <<"ONUPDATE", "FUNCTION">>, <<"ONUPDATE", "TRIGGER">>} :
                        CountType(table.children[d].kids, o[1])
                        = CountType(children[c].kids, o[1])
                          + Cardinality(StatementsFor(o[2], children[c].kids[1].text))
    BY DEF ColumnOptionsAccounted, Column
  <2>1. Balanced(postbuf, table.children[d], children[c])
    BY DEF Balance
  <2>2. \A w, of : Cardinality(StatementsFor(w, of)) = Entered(postbuf, w, of)
    BY DEF StatementsFor, Entered
  <2> QED
    BY <2>1, <2>2 DEF Balanced
<1>2. Init => WInv /\ Origin /\ Balance
  BY StartWInv, StartOrigin, StartBalance
<1>3. WInv /\ Origin /\ Balance /\ [Next]_vars => (WInv /\ Origin /\ Balance)'
  BY NextWInv, NextOrigin, NextBalance
<1> QED
  BY <1>1, <1>2, <1>3, PTL DEF Spec

-----------------------------------------------------------------------------
(* The pass n is through with child c.                                     *)
Past(n, c) == pass > n \/ (pass = n /\ c < pos)

(* What a pass is through with is free of what it looks for.               *)
Swept ==
  \A c \in 1 .. Len(children) :
    /\ Past(5, c) => children[c].type # "INDEX"
    /\ Past(7, c) => children[c].type # "FULLTEXT"
    /\ Past(8, c) => children[c].type # "FKEY"
    /\ Past(9, c) => children[c].type # "OPTIONS"

Positions ==
  /\ pass \in 1 .. 10 /\ pos \in Nat \ {0} /\ Len(children) \in Nat
  /\ pass \in {2, 5, 8, 10} => pos = 1

LEMMA CursorPositions == WInv => Positions
  BY TheChildren DEF WInv, Cursor, Positions

(* What is behind the cursor has been looked at.                           *)
LEMMA KeptSwept ==
  ASSUME WInv, Swept, Rewrites, pass' = pass, pos' = pos \/ pass \in {1, 3, 4, 6}
  PROVE  Swept'
<1>1. Positions
  BY CursorPositions
<1>2. Len(children') = Len(children)
        /\ \A i \in 1 .. Len(children) : children'[i].type = children[i].type
  BY DEF Rewrites, Same
<1>3. ASSUME NEW n \in {5, 7, 8, 9}, NEW c \in 1 .. Len(children), Past(n, c)'
      PROVE  Past(n, c)
  BY <1>1, <1>3 DEF Past, Positions
<1> QED
  BY <1>2, <1>3 DEF Swept

(* Where nodes are taken out, the cursor goes back with them.              *)
LEMMA ShorterSwept ==
  ASSUME WInv, Swept, NEW p \in 1 .. Len(children), NEW n \in {1, 2}, TakesOut(p, n),
         \/ pass = 5 /\ pos' = pos
         \/ pass = 8 /\ pos' = pos
         \/ pass = 7 /\ pos' = p /\ n = 2 /\ children[p].type = "FULLTEXT"
         \/ pass = 9 /\ pos' = p /\ n = 1 /\ children[p].type = "OPTIONS"
  PROVE  Swept'
<1> DEFINE at(c) == IF c <= p - n THEN c ELSE c + n
<1>1. Positions /\ CommaSeparated(children)
  BY CursorPositions DEF WInv, Inv, ListWellFormed
<1>2. /\ p \in 1 .. Len(children) /\ n \in {1, 2} /\ n < p /\ p >= pos /\ pass' = pass
      /\ \A q \in pos .. p - 1 : children[q].type # children[p].type
      /\ Len(children') = Len(children) - n
      /\ \A c \in 1 .. Len(children) - n : children'[c] = children[at(c)]
  BY DEF TakesOut
<1>3. \A c \in 1 .. Len(children) - n : at(c) \in 1 .. Len(children)
  <2>1. Len(children) \in Nat
    BY <1>1 DEF Positions
  <2> QED
    BY <1>2, <2>1
<1> SUFFICES ASSUME NEW c \in 1 .. Len(children) - n
             PROVE  /\ Past(5, c)' => children[at(c)].type # "INDEX"
                    /\ Past(7, c)' => children[at(c)].type # "FULLTEXT"
                    /\ Past(8, c)' => children[at(c)].type # "FKEY"
                    /\ Past(9, c)' => children[at(c)].type # "OPTIONS"
  BY <1>2 DEF Swept
<1> DEFINE a == at(c)
<1>4. /\ a \in 1 .. Len(children) /\ a = IF c <= p - n THEN c ELSE c + n
      /\ Past(5, a) => children[a].type # "INDEX"
      /\ Past(7, a) => children[a].type # "FULLTEXT"
      /\ Past(8, a) => children[a].type # "FKEY"
      /\ Past(9, a) => children[a].type # "OPTIONS"
  BY <1>3 DEF Swept
<1> HIDE DEF a
<1>5. CASE pass = 5 \/ pass = 8
  <2>1. \A m \in {5, 7, 8, 9} : Past(m, c)' => Past(m, a)
    BY <1>1, <1>2, <1>5 DEF Past, Positions
  <2> QED
    BY <1>4, <2>1 DEF a
<1>6. CASE pass = 7 /\ pos' = p /\ n = 2 /\ children[p].type = "FULLTEXT"
  <2>1. \A m \in {5, 8, 9} : Past(m, c)' => Past(m, a)
    BY <1>1, <1>2, <1>6 DEF Past, Positions
  <2>2. ASSUME Past(7, c)'
        PROVE  children[a].type # "FULLTEXT"
    <3>1. c < p
      BY <1>2, <1>6, <2>2 DEF Past
    <3>2. CASE c <= p - 2
      <4>1. a = c
        BY <1>4, <1>6, <3>2
      <4>2. a < pos \/ a \in pos .. p - 1
        BY <1>1, <1>4, <3>1, <4>1 DEF Positions
      <4> QED
        BY <1>2, <1>4, <1>6, <4>2 DEF Past
    <3>3. CASE c = p - 1
      <4>1. a = p + 1 /\ p + 1 \in 2 .. Len(children) /\ (p + 1) - 1 = p
        BY <1>1, <1>2, <1>4, <1>6, <3>3 DEF Positions
      <4>2. Fits(children[(p + 1) - 1].type, children[p + 1].type)
        BY <1>1, <4>1 DEF CommaSeparated
      <4>3. Fits("FULLTEXT", children[a].type)
        BY <1>6, <4>1, <4>2
      <4> QED
        BY <4>3 DEF Fits, Movable
    <3> QED
      BY <1>1, <1>2, <3>1, <3>2, <3>3 DEF Positions
  <2> QED
    BY <1>4, <2>1, <2>2 DEF a
<1>7. CASE pass = 9 /\ pos' = p /\ n = 1 /\ children[p].type = "OPTIONS"
  <2>1. \A m \in {5, 7, 8} : Past(m, c)' => Past(m, a)
    BY <1>1, <1>2, <1>7 DEF Past, Positions
  <2>2. ASSUME Past(9, c)'
        PROVE  children[a].type # "OPTIONS"
    <3>1. c < p
      BY <1>2, <1>7, <2>2 DEF Past
    <3>2. a = c
      BY <1>1, <1>4, <1>7, <3>1 DEF Positions
    <3>3. a < pos \/ a \in pos .. p - 1
      BY <1>1, <1>4, <3>1, <3>2 DEF Positions
    <3> QED
      BY <1>2, <1>4, <1>7, <3>3 DEF Past
  <2> QED
    BY <1>4, <2>1, <2>2 DEF a
<1> QED
  BY <1>5, <1>6, <1>7

(* When a pass ends, the cursor has passed the whole list.                 *)
LEMMA EndsSwept ==
  ASSUME WInv, Swept, EndsPass
  PROVE  Swept'
<1>1. Positions /\ children' = children /\ pass' = pass + 1 /\ pos' = 1 /\ pass \in 1 .. 9
      /\ FindsNone(children, pos, LooksFor[Passes[pass]])
  BY CursorPositions DEF EndsPass
<1>2. /\ pass = 5 => LooksFor[Passes[pass]] = "INDEX"
      /\ pass = 7 => LooksFor[Passes[pass]] = "FULLTEXT"
      /\ pass = 8 => LooksFor[Passes[pass]] = "FKEY"
      /\ pass = 9 => LooksFor[Passes[pass]] = "OPTIONS"
  BY DEF LooksFor, Passes
<1>3. ASSUME NEW n \in {5, 7, 8, 9}, NEW c \in 1 .. Len(children), Past(n, c)'
      PROVE  Past(n, c) \/ (pass = n /\ c \in pos .. Len(children))
  BY <1>1, <1>3 DEF Past, Positions
<1>4. \A c \in pos .. Len(children) : children[c].type # LooksFor[Passes[pass]]
  BY <1>1 DEF FindsNone
<1> QED
  BY <1>1, <1>2, <1>3, <1>4 DEF Swept

LEMMA NextSwept == WInv /\ Swept /\ [Next]_vars => Swept'
<1> SUFFICES ASSUME WInv, Swept, [Next]_vars PROVE Swept'
  OBVIOUS
<1>1. Inv /\ Cursor /\ QueueOK
  BY DEF WInv
<1>2. ASSUME NEW d \in 1 .. Len(children),
        GoesOn(d) \/ Sequences(d) \/ \E u \in Nat : Triggers(d, u)
      PROVE  Swept'
  <2>1. InPlace(d) /\ pass \in {1, 3, 4, 6}
    BY <1>2 DEF GoesOn, Sequences, Triggers, ColumnStep
  <2>2. Rewrites /\ pass' = pass
    BY <2>1, InPlaceRewrites DEF InPlace
  <2> QED
    BY <2>1, <2>2, KeptSwept
<1>3. ASSUME NEW p \in 1 .. Len(children), MovesKey(p) \/ MovesForeignKey(p)
      PROVE  Swept'
  BY <1>3, ShorterSwept DEF MovesKey, MovesForeignKey
<1>4. ASSUME NEW p \in 1 .. Len(children), DropsFulltext(p)
      PROVE  Swept'
  BY <1>4, ShorterSwept DEF DropsFulltext
<1>5. ASSUME NEW p \in 1 .. Len(children), DropsOption(p)
      PROVE  Swept'
  BY <1>5, ShorterSwept DEF DropsOption
<1>6. CASE SpellsOut
  <2>1. Rewrites /\ pass = 2 /\ pass' = 3
    BY <1>6, StillRewrites DEF SpellsOut
  <2>2. \A n \in {5, 7, 8, 9}, c \in 1 .. Len(children') : ~ Past(n, c)'
    BY <2>1 DEF Past
  <2> QED
    BY <2>2 DEF Swept
<1>7. CASE EndsPass
  BY <1>7, EndsSwept
<1>8. CASE UNCHANGED vars
  BY <1>8 DEF vars, Swept, Past
<1> QED
  BY <1>1, <1>2, <1>3, <1>4, <1>5, <1>6, <1>7, <1>8, Steps

-----------------------------------------------------------------------------
(* Where no column says an option twice, one turn rids a column of it.     *)
Once(m)     == m.type = "COLUMN_DEF" => \A o \in Options : CountType(m.kids, o) <= 1
Clean(m, o) == m.type = "COLUMN_DEF" => CountType(m.kids, o) = 0
Stripped ==
  /\ \A c \in 1 .. Len(children) :
        /\ Once(children[c])
        /\ Past(3, c) => Clean(children[c], "ONUPDATE")
        /\ Past(6, c) => Clean(children[c], "AUTO_INCREMENT")
  /\ inner > 1 =>
        /\ pos \in 1 .. Len(children) /\ children[pos].type = "COLUMN_DEF"
        /\ CountType(children[pos].kids, "ONUPDATE") = 0

(* A child that says no more than another said.                            *)
Lesser(n, m) ==
  /\ n.type = m.type
  /\ m.type = "COLUMN_DEF" =>
       \A x \in Options : /\ CountType(n.kids, x) \in Nat /\ CountType(m.kids, x) \in Nat
                          /\ CountType(n.kids, x) <= CountType(m.kids, x)

(* A column that has lost options is no less clean.                        *)
LEMMA LesserClean ==
  ASSUME NEW n, NEW m, Lesser(n, m)
  PROVE  /\ Once(m) => Once(n)
         /\ \A o \in Options : Clean(m, o) => Clean(n, o)
<1>1. ASSUME Once(m) PROVE Once(n)
  <2> SUFFICES ASSUME n.type = "COLUMN_DEF", NEW o \in Options PROVE CountType(n.kids, o) <= 1
    BY DEF Once
  <2>1. /\ CountType(n.kids, o) \in Nat /\ CountType(m.kids, o) \in Nat
        /\ CountType(n.kids, o) <= CountType(m.kids, o) /\ CountType(m.kids, o) <= 1
    BY <1>1 DEF Lesser, Once
  <2> QED
    BY <2>1
<1>2. ASSUME NEW o \in Options, Clean(m, o) PROVE Clean(n, o)
  <2> SUFFICES ASSUME n.type = "COLUMN_DEF" PROVE CountType(n.kids, o) = 0
    BY DEF Clean
  <2>1. /\ CountType(n.kids, o) \in Nat /\ CountType(m.kids, o) = 0
        /\ CountType(n.kids, o) <= CountType(m.kids, o)
    BY <1>2 DEF Lesser, Clean
  <2> QED
    BY <2>1
<1> QED
  BY <1>1, <1>2

LEMMA Counts ==
  ASSUME Inv, NEW c \in 1 .. Len(children), NEW x
  PROVE  /\ CountType(children[c].kids, x) \in Nat
         /\ CountType(children[c].kids, x) = 0 <=> FindsNone(children[c].kids, 1, x)
<1>1. children[c].kids \in Seq(Part)
  BY TheChildren DEF Node
<1> QED
  BY <1>1, CountIsNat

LEMMA LesserRefl == Inv => \A c \in 1 .. Len(children) : Lesser(children[c], children[c])
<1> SUFFICES ASSUME Inv, NEW c \in 1 .. Len(children) PROVE Lesser(children[c], children[c])
  OBVIOUS
<1>1. \A x : CountType(children[c].kids, x) \in Nat
  BY Counts
<1> QED
  BY <1>1 DEF Lesser

(* A turn over a column leaves the others alone.                           *)
LEMMA StepStrips ==
  ASSUME WInv, Inv', Stripped, NEW d \in 1 .. Len(children), NEW o, ColumnStep(d, o)
  PROVE  /\ Len(children') = Len(children) /\ Len(children) \in Nat /\ pass' = pass
         /\ Finds(children, pos, "COLUMN_DEF", d)
         /\ children'[d].type = "COLUMN_DEF" /\ children[d].type = "COLUMN_DEF"
         /\ \A c \in 1 .. Len(children) :
              /\ children'[c].type = children[c].type
              /\ Once(children'[c])
              /\ Past(3, c) => Clean(children'[c], "ONUPDATE")
              /\ Past(6, c) => Clean(children'[c], "AUTO_INCREMENT")
         /\ \A x \in Options :
              /\ CountType(children'[d].kids, x) \in Nat /\ CountType(children[d].kids, x) \in Nat
              /\ CountType(children[d].kids, x) <= 1
              /\ CountType(children'[d].kids, x)
                   = CountType(children[d].kids, x) - (IF x = o THEN 1 ELSE 0)
<1>1. /\ Len(children') = Len(children) /\ Len(children) \in Nat /\ pass' = pass /\ Inv
      /\ Finds(children, pos, "COLUMN_DEF", d) /\ children[d].type = "COLUMN_DEF"
      /\ Same(children[d], children'[d])
      /\ \A j \in 1 .. Len(children) : j # d => children'[j] = children[j]
      /\ \A x \in Options : CountType(children'[d].kids, x)
                              = CountType(children[d].kids, x) - (IF x = o THEN 1 ELSE 0)
  BY TheChildren DEF ColumnStep, InPlace, WInv, Finds
<1>2. \A x : CountType(children[d].kids, x) \in Nat
  BY <1>1, Counts
<1>3. \A x : CountType(children'[d].kids, x) \in Nat
  <2>1. children' \in Seq(Node) /\ d \in DOMAIN children'
    BY <1>1 DEF Inv, ChildrenOK
  <2>2. children'[d] \in Node
    BY <2>1
  <2>3. children'[d].kids \in Seq(Part)
    BY <2>2 DEF Node
  <2> QED
    BY <2>3, CountIsNat
<1>4. children'[d].type = "COLUMN_DEF"
  BY <1>1 DEF Same
<1>5. \A c \in 1 .. Len(children) : Lesser(children'[c], children[c])
  <2> TAKE c \in 1 .. Len(children)
  <2>1. CASE c = d
    <3>1. \A x \in Options : CountType(children'[d].kids, x) <= CountType(children[d].kids, x)
      BY <1>1, <1>2, <1>3
    <3> QED
      BY <1>1, <1>2, <1>3, <1>4, <2>1, <3>1 DEF Lesser
  <2>2. CASE c # d
    BY <1>1, <2>2, LesserRefl
  <2> QED
    BY <2>1, <2>2
<1>6. ASSUME NEW c \in 1 .. Len(children)
      PROVE  /\ children'[c].type = children[c].type
             /\ Once(children'[c])
             /\ Past(3, c) => Clean(children'[c], "ONUPDATE")
             /\ Past(6, c) => Clean(children'[c], "AUTO_INCREMENT")
  <2>1. /\ Once(children[c])
        /\ Past(3, c) => Clean(children[c], "ONUPDATE")
        /\ Past(6, c) => Clean(children[c], "AUTO_INCREMENT")
    BY DEF Stripped
  <2>2. Lesser(children'[c], children[c])
    BY <1>5
  <2>3. \A x \in Options : Clean(children[c], x) => Clean(children'[c], x)
    BY <2>2, LesserClean
  <2>4. "ONUPDATE" \in Options /\ "AUTO_INCREMENT" \in Options
    BY DEF Options
  <2>5. Once(children'[c])
    BY <2>1, <2>2, LesserClean
  <2> QED
    BY <2>1, <2>2, <2>3, <2>4, <2>5 DEF Lesser
<1>7. \A x \in Options : CountType(children[d].kids, x) <= 1
  <2>1. Once(children[d])
    BY DEF Stripped
  <2> QED
    BY <1>1, <2>1 DEF Once
<1> QED
  BY <1>1, <1>2, <1>3, <1>4, <1>6, <1>7

(* A turn that is through with column d, which says o no more.             *)
LEMMA TurnOver ==
  ASSUME WInv, Inv', Stripped, NEW d \in 1 .. Len(children), NEW o, ColumnStep(d, o),
         pos' = d + 1, inner' = 1, pass \in {1, 3, 4, 6},
         pass = 3 => CountType(children'[d].kids, "ONUPDATE") = 0,
         pass = 6 => CountType(children'[d].kids, "AUTO_INCREMENT") = 0
  PROVE  Stripped'
<1>1. /\ Len(children') = Len(children) /\ Len(children) \in Nat /\ pass' = pass
      /\ Finds(children, pos, "COLUMN_DEF", d) /\ Positions
      /\ \A c \in 1 .. Len(children) :
           /\ children'[c].type = children[c].type
           /\ Once(children'[c])
           /\ Past(3, c) => Clean(children'[c], "ONUPDATE")
           /\ Past(6, c) => Clean(children'[c], "AUTO_INCREMENT")
  BY StepStrips, CursorPositions
<1>2. ASSUME NEW n \in {3, 6}, NEW c \in 1 .. Len(children), Past(n, c)'
      PROVE  Past(n, c) \/ (pass = n /\ (c = d \/ children'[c].type # "COLUMN_DEF"))
  <2>1. CASE pass > n \/ c < pos
    BY <1>1, <1>2, <2>1 DEF Past, Positions
  <2>2. CASE pass = n /\ c >= pos
    <3>1. c < d + 1
      BY <1>1, <1>2, <2>2 DEF Past
    <3>2. c = d \/ c \in pos .. d - 1
      BY <1>1, <2>2, <3>1 DEF Positions
    <3> QED
      BY <1>1, <2>2, <3>2 DEF Finds
  <2> QED
    BY <1>1, <1>2, <2>1, <2>2 DEF Past, Positions
<1>3. ASSUME NEW c \in 1 .. Len(children)
      PROVE  /\ Past(3, c)' => Clean(children'[c], "ONUPDATE")
             /\ Past(6, c)' => Clean(children'[c], "AUTO_INCREMENT")
  <2>1. Past(3, c)' => Past(3, c) \/ (pass = 3 /\ (c = d \/ children'[c].type # "COLUMN_DEF"))
    BY <1>2
  <2>2. Past(6, c)' => Past(6, c) \/ (pass = 6 /\ (c = d \/ children'[c].type # "COLUMN_DEF"))
    BY <1>2
  <2> QED
    BY <1>1, <2>1, <2>2 DEF Clean
<1>4. ~(inner' > 1)
  OBVIOUS
<1> QED
  BY <1>1, <1>3, <1>4 DEF Stripped

-----------------------------------------------------------------------------
(* Each kind of step keeps the columns behind the cursor stripped.         *)
LEMMA GoesOnStrips ==
  ASSUME WInv, Inv', Stripped, NEW d \in 1 .. Len(children), GoesOn(d)
  PROVE  Stripped'
<1>1. /\ ColumnStep(d, "NONE") /\ pos' = d + 1 /\ inner' = 1 /\ pass \in {1, 3, 4, 6}
      /\ pass = 3 => FindsNone(children[d].kids, inner, "ONUPDATE")
      /\ pass = 6 => CountType(children[d].kids, "AUTO_INCREMENT") = 0
  BY DEF GoesOn
<1>2. /\ Finds(children, pos, "COLUMN_DEF", d) /\ Inv
      /\ \A x \in Options :
           /\ CountType(children[d].kids, x) \in Nat
           /\ CountType(children'[d].kids, x)
                = CountType(children[d].kids, x) - (IF x = "NONE" THEN 1 ELSE 0)
  BY <1>1, StepStrips DEF WInv
<1>3. \A x \in Options : CountType(children'[d].kids, x) = CountType(children[d].kids, x)
  <2>1. \A x \in Options : x # "NONE"
    BY DEF Options
  <2> QED
    BY <1>2, <2>1
<1>4. ASSUME pass = 3 PROVE CountType(children[d].kids, "ONUPDATE") = 0
  <2>1. CASE inner > 1
    <3>1. pos \in 1 .. Len(children) /\ children[pos].type = "COLUMN_DEF"
          /\ CountType(children[pos].kids, "ONUPDATE") = 0
      BY <2>1 DEF Stripped
    <3>2. pos = d
      BY <1>2, <3>1 DEF Finds
    <3> QED
      BY <3>1, <3>2
  <2>2. CASE ~(inner > 1)
    <3>1. inner = 1
      BY <2>2 DEF WInv, Cursor
    <3>2. FindsNone(children[d].kids, 1, "ONUPDATE")
      BY <1>1, <1>4, <3>1
    <3> QED
      BY <1>2, <3>2, Counts
  <2> QED
    BY <2>1, <2>2
<1>5. /\ pass = 3 => CountType(children'[d].kids, "ONUPDATE") = 0
      /\ pass = 6 => CountType(children'[d].kids, "AUTO_INCREMENT") = 0
  BY <1>1, <1>3, <1>4 DEF Options
<1> QED
  BY <1>1, <1>5, TurnOver

LEMMA SequencesStrips ==
  ASSUME WInv, Inv', Stripped, NEW d \in 1 .. Len(children), Sequences(d)
  PROVE  Stripped'
<1>1. ColumnStep(d, "AUTO_INCREMENT") /\ pos' = d + 1 /\ inner' = 1 /\ pass = 6
  BY DEF Sequences
<1>2. \A x \in Options :
        /\ CountType(children'[d].kids, x) \in Nat /\ CountType(children[d].kids, x) \in Nat
        /\ CountType(children[d].kids, x) <= 1
        /\ CountType(children'[d].kids, x)
             = CountType(children[d].kids, x) - (IF x = "AUTO_INCREMENT" THEN 1 ELSE 0)
  BY <1>1, StepStrips
<1>3. CountType(children'[d].kids, "AUTO_INCREMENT") = 0
  BY <1>2 DEF Options
<1> QED
  BY <1>1, <1>3, TurnOver

(* ON UPDATE goes, and the search stays in its column.                     *)
LEMMA TriggersStrips ==
  ASSUME WInv, Inv', Stripped, NEW d \in 1 .. Len(children), NEW u \in Nat, Triggers(d, u)
  PROVE  Stripped'
<1>1. ColumnStep(d, "ONUPDATE") /\ pos' = d /\ inner' = u + 1 /\ pass = 3
  BY DEF Triggers
<1>2. /\ Len(children') = Len(children) /\ Len(children) \in Nat /\ pass' = pass
      /\ Finds(children, pos, "COLUMN_DEF", d) /\ Positions /\ children'[d].type = "COLUMN_DEF"
      /\ \A c \in 1 .. Len(children) :
           /\ children'[c].type = children[c].type
           /\ Once(children'[c])
           /\ Past(3, c) => Clean(children'[c], "ONUPDATE")
           /\ Past(6, c) => Clean(children'[c], "AUTO_INCREMENT")
  BY <1>1, StepStrips, CursorPositions
<1>3. \A x \in Options :
        /\ CountType(children'[d].kids, x) \in Nat /\ CountType(children[d].kids, x) \in Nat
        /\ CountType(children[d].kids, x) <= 1
        /\ CountType(children'[d].kids, x)
             = CountType(children[d].kids, x) - (IF x = "ONUPDATE" THEN 1 ELSE 0)
  BY <1>1, StepStrips
<1>4. CountType(children'[d].kids, "ONUPDATE") = 0
  BY <1>3 DEF Options
<1>5. ASSUME NEW c \in 1 .. Len(children)
      PROVE  /\ Past(3, c)' => Clean(children'[c], "ONUPDATE")
             /\ Past(6, c)' => Clean(children'[c], "AUTO_INCREMENT")
  <2>1. ~ Past(6, c)'
    BY <1>1, <1>2 DEF Past
  <2>2. ASSUME Past(3, c)' PROVE Past(3, c) \/ children'[c].type # "COLUMN_DEF"
    <3>1. c < d
      BY <1>1, <1>2, <2>2 DEF Past
    <3>2. CASE c < pos
      BY <1>1, <3>2 DEF Past
    <3>3. CASE c >= pos
      <4>1. c \in pos .. d - 1
        BY <1>2, <3>1, <3>3 DEF Positions
      <4> QED
        BY <1>2, <4>1 DEF Finds
    <3> QED
      BY <1>2, <3>2, <3>3 DEF Positions
  <2> QED
    BY <1>2, <2>1, <2>2 DEF Clean
<1> QED
  BY <1>1, <1>2, <1>4, <1>5 DEF Stripped

LEMMA ShorterStrips ==
  ASSUME WInv, Stripped, NEW p \in 1 .. Len(children), NEW n \in {1, 2}, TakesOut(p, n),
         pass \in {5, 7, 8, 9}
  PROVE  Stripped'
<1> DEFINE at(c) == IF c <= p - n THEN c ELSE c + n
<1>1. Positions
  BY CursorPositions
<1>2. /\ pass' = pass /\ inner' = 1 /\ Len(children') = Len(children) - n /\ n < p
      /\ \A c \in 1 .. Len(children) - n : children'[c] = children[at(c)]
  BY DEF TakesOut
<1>3. \A c \in 1 .. Len(children) - n : at(c) \in 1 .. Len(children)
  <2>1. Len(children) \in Nat
    BY <1>1 DEF Positions
  <2> QED
    BY <1>2, <2>1
<1> HIDE DEF at
<1>4. ASSUME NEW c \in 1 .. Len(children) - n
      PROVE  /\ Once(children'[c])
             /\ Past(3, c)' => Clean(children'[c], "ONUPDATE")
             /\ Past(6, c)' => Clean(children'[c], "AUTO_INCREMENT")
  <2>1. PICK a \in 1 .. Len(children) : children'[c] = children[a]
    BY <1>2, <1>3
  <2>2. /\ Once(children[a])
        /\ Past(3, a) => Clean(children[a], "ONUPDATE")
        /\ Past(6, a) => Clean(children[a], "AUTO_INCREMENT")
    BY DEF Stripped
  <2>3. (Past(3, c)' => Past(3, a)) /\ (Past(6, c)' => Past(6, a))
    BY <1>2 DEF Past
  <2> QED
    BY <2>1, <2>2, <2>3
<1>5. ~(inner' > 1)
  BY <1>2
<1> QED
  BY <1>2, <1>4, <1>5 DEF Stripped

LEMMA SpellsStrips ==
  ASSUME WInv, Inv', Stripped, SpellsOut
  PROVE  Stripped'
<1>1. /\ pass' = 3 /\ pos' = 1 /\ inner' = 1 /\ Len(children') = Len(children) /\ Inv
      /\ \A c \in 1 .. Len(children) :
           children'[c].type = children[c].type /\ children'[c].kids = children[c].kids
  BY DEF SpellsOut, Same, WInv
<1>2. \A c \in 1 .. Len(children) : Once(children'[c])
  BY <1>1 DEF Stripped, Once
<1>3. \A c \in 1 .. Len(children) : ~ Past(3, c)' /\ ~ Past(6, c)'
  BY <1>1 DEF Past
<1> QED
  BY <1>1, <1>2, <1>3 DEF Stripped

LEMMA EndsStrips ==
  ASSUME WInv, Stripped, EndsPass
  PROVE  Stripped'
<1>1. Positions /\ children' = children /\ pass' = pass + 1 /\ pos' = 1 /\ pass \in 1 .. 9
      /\ inner' = 1 /\ FindsNone(children, pos, LooksFor[Passes[pass]])
  BY CursorPositions DEF EndsPass
<1>2. /\ pass = 3 => LooksFor[Passes[pass]] = "COLUMN_DEF"
      /\ pass = 6 => LooksFor[Passes[pass]] = "COLUMN_DEF"
  BY DEF LooksFor, Passes
<1>3. ASSUME NEW n \in {3, 6}, NEW c \in 1 .. Len(children), Past(n, c)'
      PROVE  Past(n, c) \/ (pass = n /\ c \in pos .. Len(children))
  BY <1>1, <1>3 DEF Past, Positions
<1>4. \A c \in pos .. Len(children) : children[c].type # LooksFor[Passes[pass]]
  BY <1>1 DEF FindsNone
<1>5. ASSUME NEW c \in 1 .. Len(children)
      PROVE  /\ Past(3, c)' => Clean(children[c], "ONUPDATE")
             /\ Past(6, c)' => Clean(children[c], "AUTO_INCREMENT")
  <2>1. Past(3, c)' => Past(3, c) \/ (pass = 3 /\ c \in pos .. Len(children))
    BY <1>3
  <2>2. Past(6, c)' => Past(6, c) \/ (pass = 6 /\ c \in pos .. Len(children))
    BY <1>3
  <2> QED
    BY <1>2, <1>4, <2>1, <2>2 DEF Clean, Stripped
<1>6. ~(inner' > 1)
  BY <1>1
<1> QED
  BY <1>1, <1>5, <1>6 DEF Stripped

LEMMA NextStripped == WInv /\ Stripped /\ [Next]_vars => Stripped'
<1> SUFFICES ASSUME WInv, Stripped, [Next]_vars PROVE Stripped'
  OBVIOUS
<1>1. Inv /\ Cursor /\ QueueOK /\ Inv'
  BY NextInv DEF WInv
<1>2. ASSUME NEW d \in 1 .. Len(children),
        GoesOn(d) \/ Sequences(d) \/ \E u \in Nat : Triggers(d, u)
      PROVE  Stripped'
  BY <1>1, <1>2, GoesOnStrips, SequencesStrips, TriggersStrips
<1>3. ASSUME NEW p \in 1 .. Len(children),
             MovesKey(p) \/ MovesForeignKey(p) \/ DropsFulltext(p)
      PROVE  Stripped'
  <2>1. TakesOut(p, 2) /\ pass \in {5, 7, 8, 9}
    BY <1>3 DEF MovesKey, MovesForeignKey, DropsFulltext
  <2> QED
    BY <2>1, ShorterStrips
<1>4. ASSUME NEW p \in 1 .. Len(children), DropsOption(p)
      PROVE  Stripped'
  <2>1. TakesOut(p, 1) /\ pass \in {5, 7, 8, 9}
    BY <1>4 DEF DropsOption
  <2> QED
    BY <2>1, ShorterStrips
<1>5. CASE SpellsOut
  BY <1>1, <1>5, SpellsStrips
<1>6. CASE EndsPass
  BY <1>6, EndsStrips
<1>7. CASE UNCHANGED vars
  BY <1>7 DEF vars, Stripped, Past
<1> QED
  BY <1>1, <1>2, <1>3, <1>4, <1>5, <1>6, <1>7, Steps

Ridding == WInv /\ Origin /\ Swept /\ (OptionsOnce(table.children) => Stripped)

(* At first nothing has been promised,                                     *)
LEMMA StartRidding == Init => Ridding
<1> SUFFICES ASSUME Init PROVE Ridding
  OBVIOUS
<1>1. WInv /\ Origin /\ children = table.children /\ pass = 1 /\ pos = 1 /\ inner = 1
  BY StartWInv, StartOrigin DEF Init
<1>2. Swept
  BY <1>1 DEF Swept, Past
<1>3. OptionsOnce(table.children) => Stripped
  <2> SUFFICES ASSUME OptionsOnce(table.children) PROVE Stripped
    OBVIOUS
  <2>1. \A c \in 1 .. Len(children) : Once(children[c])
    BY <1>1, TheTable DEF WInv, OptionsOnce, Once, Options
  <2>2. \A c \in 1 .. Len(children) : ~ Past(3, c) /\ ~ Past(6, c)
    BY <1>1 DEF Past
  <2> QED
    BY <1>1, <2>1, <2>2 DEF Stripped
<1> QED
  BY <1>1, <1>2, <1>3 DEF Ridding

(* and every pass keeps what the passes before it got rid of.              *)
LEMMA NextRidding == Ridding /\ [Next]_vars => Ridding'
<1> SUFFICES ASSUME Ridding, [Next]_vars PROVE Ridding'
  OBVIOUS
<1>1. WInv' /\ Origin' /\ Swept'
  BY NextWInv, NextOrigin, NextSwept DEF Ridding
<1>2. table' = table
  BY CursorMoves DEF Ridding
<1>3. OptionsOnce(table.children)' => OptionsOnce(table.children)
  BY <1>2 DEF OptionsOnce
<1>4. OptionsOnce(table.children) => Stripped'
  BY NextStripped DEF Ridding
<1> QED
  BY <1>1, <1>3, <1>4 DEF Ridding

(* What the passes came for is gone when they end: every index, FULLTEXT   *)
(* index, foreign key and option of the table, though each of the four     *)
(* passes searches a list its own deletions shift; and, in a table where   *)
(* no column says one twice, every AUTO_INCREMENT and every ON UPDATE.     *)
THEOREM NothingForeignIsLeft == Spec => []NothingForeign
<1>1. Ridding => NothingForeign
  <2> SUFFICES ASSUME Ridding, Done, OptionsOnce(table.children), NEW p \in DOMAIN children
               PROVE  /\ children[p].type \notin Foreign
                      /\ \A k \in DOMAIN children[p].kids :
                           children[p].kids[k].type \notin {"AUTO_INCREMENT", "ONUPDATE"}
    BY DEF NothingForeign
  <2>1. WInv /\ Inv /\ Swept /\ Stripped /\ pass \in 1 .. 10 /\ p \in 1 .. Len(children)
    BY TheChildren DEF Ridding, WInv, Cursor
  <2>2. pass = 10
    BY <2>1, PassNumbers
  <2>3. \A n \in {3, 5, 6, 7, 8, 9} : Past(n, p)
    BY <2>2 DEF Past
  <2>4. /\ children[p].type # "INDEX" /\ children[p].type # "FULLTEXT"
        /\ children[p].type # "FKEY" /\ children[p].type # "OPTIONS"
    BY <2>1, <2>3 DEF Swept
  <2>5. CASE children[p].type = "COLUMN_DEF"
    <3>1. \A o \in Options : CountType(children[p].kids, o) = 0
      BY <2>1, <2>3, <2>5 DEF Stripped, Clean, Options
    <3>2. \A o \in Options : FindsNone(children[p].kids, 1, o)
      BY <2>1, <3>1, Counts
    <3>3. children[p] \in Node
      BY <2>1, TheChildren
    <3>4. DOMAIN children[p].kids = 1 .. Len(children[p].kids)
      BY <3>3 DEF Node
    <3> QED
      BY <2>4, <3>2, <3>4 DEF FindsNone, Options, Foreign, Movable
  <2>6. CASE children[p].type # "COLUMN_DEF"
    <3>1. PICK e : Source(e)
      BY DEF Ridding, Origin
    <3>2. e[p] \in DOMAIN table.children /\ Same(table.children[e[p]], children[p])
      BY <2>1, <3>1, OriginOrder DEF Source
    <3>3. table.children[e[p]].type \notin {"COLUMN_DEF", "OPTIONS"}
          /\ children[p].kids = table.children[e[p]].kids
      BY <2>4, <2>6, <3>2 DEF Same
    <3>4. \A k \in DOMAIN table.children[e[p]].kids :
            table.children[e[p]].kids[k].type \notin {"AUTO_INCREMENT", "ONUPDATE"}
      BY <2>1, <3>2, <3>3 DEF WInv, WellFormed
    <3> QED
      BY <2>4, <3>3, <3>4 DEF Foreign, Movable
  <2> QED
    BY <2>5, <2>6
<1> QED
  BY <1>1, StartRidding, NextRidding, PTL DEF Spec

-----------------------------------------------------------------------------
(* What a queued CREATE INDEX says is what a key of the source says.       *)
SaidOf(key) ==
  [name    |-> key.kids[First(key.kids)].text,
   columns |-> NamesAt(key.kids, Words(key.kids) \ {First(key.kids)}),
   using   |-> {key.kids[k + 1].text :
                  k \in {k \in DOMAIN key.kids : Finds(key.kids, 1, "USING", k)}}]
SaysKey(s) ==
  \E c \in DOMAIN table.children :
    LET key == table.children[c]
    IN  key.type = "INDEX" /\ s.of = key.text /\ s.args = SaidOf(key)
KeysSaid == \A i \in DOMAIN postbuf : postbuf[i].what = "INDEX" => SaysKey(postbuf[i])

LEMMA IndexSays ==
  \A key : /\ CreateIndex(key).what = "INDEX" /\ CreateIndex(key).of = key.text
           /\ CreateIndex(key).args = SaidOf(key)
  BY DEF CreateIndex, Statement, SaidOf

(* A key that moves into the queue is one of the source, and unchanged.    *)
LEMMA KeyOfSource ==
  ASSUME WInv, Origin, NEW p \in 1 .. Len(children), children[p].type = "INDEX"
  PROVE  SaysKey(CreateIndex(children[p]))
<1>1. PICK e : Source(e)
  BY DEF Origin
<1>2. e[p] \in DOMAIN table.children /\ Same(table.children[e[p]], children[p])
  BY <1>1, OriginOrder DEF Source
<1>3. table.children[e[p]] \in Node /\ children[p] \in Node /\ table.children[e[p]].type = "INDEX"
  BY <1>2, TheTable, TheChildren DEF WInv, Same
<1>4. children[p] = table.children[e[p]]
  BY <1>2, <1>3, SameConstraint
<1> QED
  BY <1>2, <1>3, <1>4, IndexSays DEF SaysKey

LEMMA NextKeysSaid == WInv /\ Origin /\ KeysSaid /\ [Next]_vars => KeysSaid'
<1> SUFFICES ASSUME WInv, Origin, KeysSaid, [Next]_vars,
                    NEW i \in DOMAIN postbuf', postbuf'[i].what = "INDEX"
             PROVE  SaysKey(postbuf'[i])
  BY CursorMoves DEF KeysSaid, SaysKey
<1>1. ASSUME NEW n \in {1, 2}, Queued(n), i <= Len(postbuf)
      PROVE  SaysKey(postbuf'[i])
  BY <1>1 DEF Queued, KeysSaid
<1>2. CASE postbuf' = postbuf
  BY <1>2 DEF KeysSaid
<1>3. ASSUME NEW p \in 1 .. Len(children), MovesKey(p)
      PROVE  SaysKey(postbuf'[i])
  <2> DEFINE s == CreateIndex(children[p])
  <2>1. QueueOK /\ s.what \in Whats /\ postbuf' = postbuf \o <<s>> /\ SaysKey(s)
    BY <1>3, IndexSays, KeyOfSource DEF WInv, MovesKey, Whats
  <2> HIDE DEF s
  <2>2. Queued(1) /\ postbuf'[Len(postbuf) + 1] = s
    BY <2>1, OneQueued
  <2>3. i <= Len(postbuf) \/ i = Len(postbuf) + 1
    BY <2>2 DEF Queued
  <2> QED
    BY <1>1, <2>1, <2>2, <2>3
<1>4. ASSUME NEW w, NEW v, NEW x, QueuesTwo(w, v, x), w # "INDEX", v # "INDEX"
      PROVE  SaysKey(postbuf'[i])
  <2>1. Queued(2) /\ (i <= Len(postbuf) \/ i = Len(postbuf) + 1 \/ i = Len(postbuf) + 2)
    BY <1>4 DEF QueuesTwo, Queued
  <2> QED
    BY <1>1, <1>4, <2>1 DEF QueuesTwo
<1>5. ASSUME NEW x, QueuesOne("FKEY", x)
      PROVE  SaysKey(postbuf'[i])
  <2>1. Queued(1) /\ (i <= Len(postbuf) \/ i = Len(postbuf) + 1)
    BY <1>5 DEF QueuesOne, Queued
  <2> QED
    BY <1>1, <1>5, <2>1 DEF QueuesOne
<1>6. \A x : /\ QueuesTwo("SEQUENCE", "DEFAULT", x) => SaysKey(postbuf'[i])
             /\ QueuesTwo("FUNCTION", "TRIGGER", x) => SaysKey(postbuf'[i])
  BY <1>4
<1> QED
  BY <1>2, <1>3, <1>5, <1>6, News

(* The first name of a key with a name is its name, the other words are    *)
(* its columns and how they are sorted.                                    *)
LEMMA NamedKey ==
  ASSUME NEW key \in Node, IsKey(key.kids), Named(key)
  PROVE  /\ SaidOf(key).name = key.kids[1].text
         /\ SaidOf(key).columns = Columns(key)
<1> DEFINE lparen == CHOOSE k \in DOMAIN key.kids : Finds(key.kids, 1, "LPAREN", k)
<1>1. key.kids \in Seq(Part) /\ DOMAIN key.kids = 1 .. Len(key.kids) /\ Len(key.kids) \in Nat
  BY DEF Node
<1>2. PICK p \in DOMAIN key.kids :
        /\ Finds(key.kids, 1, "LPAREN", p)
        /\ p + 1 \in Names(key.kids)
        /\ \A k \in Words(key.kids) : k > p \/ (k = 1 /\ key.kids[k].type = "ID")
  BY DEF IsKey
<1>3. lparen \in DOMAIN key.kids /\ Finds(key.kids, 1, "LPAREN", lparen)
  BY <1>2
<1> HIDE DEF lparen
<1>4. lparen = p
  BY <1>1, <1>2, <1>3 DEF Finds
<1>5. /\ 1 \in Names(key.kids) /\ p \in Nat /\ p > 1
      /\ \A k \in Names(key.kids) : k \in Nat /\ k >= 1
      /\ \A k \in Words(key.kids) : k \in Nat
      /\ 1 \in Words(key.kids)
  <2>1. 1 \in DOMAIN key.kids
    BY <1>1, <1>2
  <2> QED
    BY <1>1, <1>2, <2>1 DEF Names, Words, Named, Finds
<1>6. First(key.kids) = 1
  <2>1. 1 \in Names(key.kids) /\ \A q \in Names(key.kids) : 1 <= q
    BY <1>5
  <2>2. \A k \in Names(key.kids) : (\A q \in Names(key.kids) : k <= q) => k = 1
    BY <1>5, <2>1
  <2> QED
    BY <2>1, <2>2 DEF First
<1>7. Words(key.kids) \ {1} = {k \in Words(key.kids) : k > p}
  BY <1>2, <1>5
<1>8. Columns(key) = NamesAt(key.kids, {k \in Words(key.kids) : k > p})
  BY <1>4 DEF Columns, lparen
<1> QED
  BY <1>6, <1>7, <1>8 DEF SaidOf

(* A key with a name keeps it, and all its columns as they are sorted,     *)
(* although the loop tells the name from the columns by counting; no turn  *)
(* queues a key that another one has changed or mixed up                   *)
(* (create_table_index).                                                   *)
THEOREM NamedIndexesAreKept == Spec => []NamedIndexKept
<1>1. WInv /\ KeysSaid => NamedIndexKept
  <2> SUFFICES ASSUME WInv, KeysSaid, NEW i \in DOMAIN postbuf, NEW c \in Keys,
                      postbuf[i].what = "INDEX", postbuf[i].of = table.children[c].text,
                      Named(table.children[c])
               PROVE  /\ postbuf[i].args.name = table.children[c].kids[1].text
                      /\ postbuf[i].args.columns = Columns(table.children[c])
    BY DEF NamedIndexKept
  <2>1. PICK d \in DOMAIN table.children :
          /\ table.children[d].type = "INDEX" /\ postbuf[i].of = table.children[d].text
          /\ postbuf[i].args = SaidOf(table.children[d])
    BY DEF KeysSaid, SaysKey
  <2>2. c \in DOMAIN table.children /\ table.children[c].type = "INDEX" /\ WellFormed(table)
    BY DEF Keys, WInv
  <2>3. c = d
    BY <2>1, <2>2 DEF WellFormed, Apart
  <2>4. table.children[c] \in Node /\ IsKey(table.children[c].kids)
    BY <2>2, TheTable DEF WellFormed
  <2> QED
    BY <2>1, <2>3, <2>4, NamedKey
<1>2. Init => WInv /\ Origin /\ KeysSaid
  <2>1. Init => KeysSaid
    BY DEF Init, KeysSaid
  <2> QED
    BY <2>1, StartWInv, StartOrigin
<1>3. WInv /\ Origin /\ KeysSaid /\ [Next]_vars => (WInv /\ Origin /\ KeysSaid)'
  BY NextWInv, NextOrigin, NextKeysSaid
<1> QED
  BY <1>1, <1>2, <1>3, PTL DEF Spec

-----------------------------------------------------------------------------
(* NOT NULL: what a column says of it, and whether it holds a date.  Both  *)
(* stay until the pass that asks for the date is past the column.          *)
Whole(m)   == \A k \in DOMAIN m.kids : m.kids[k].type = "NOT" => IsNotNull(m.kids, k)
Undated(m) == \A k \in DOMAIN m.kids : m.kids[k].type = "ONUPDATE" => ~HoldsZeros(m.kids[k])
Nots(m)    == CountType(m.kids, "NOT")

(* n is what a turn made of column m; no turn but one has lifted a NOT NULL. *)
KeepsNots(m, n)  == Nots(n) = Nots(m) /\ (Whole(m) => Whole(n)) /\ (Undated(m) => Undated(n))
KeepsDates(m, n) == Undated(m) => (HasStupidDate(n) <=> HasStupidDate(m))
Follows(m, n) ==
  /\ n.type = m.type
  /\ m.type = "COLUMN_DEF" => n.kids[1] = m.kids[1] /\ KeepsNots(m, n)

NullAt(past, b, n) ==
  /\ Whole(n) /\ Undated(n)
  /\ ~past => Nots(n) = Nots(b) /\ (HasStupidDate(n) <=> HasStupidDate(b))
  /\ past  => Nots(n) = IF HasStupidDate(b) THEN 0 ELSE Nots(b)
NullInv ==
  \A d \in DOMAIN table.children, c \in DOMAIN children :
    Column(table.children[d], children[c]) /\ NullSaidOnce(table.children[d])
      => NullAt(Past(4, c), table.children[d], children[c])

(* A column without a part that is neither NOT nor NULL.                   *)
LEMMA PartOut ==
  ASSUME NEW m \in Node, NEW k \in 1 .. Len(m.kids), NEW n, n.kids = RemoveAt(m.kids, k),
         m.kids[k].type \notin {"NOT", "NULL"}
  PROVE  /\ KeepsNots(m, n)
         /\ m.kids[k].type = "ONUPDATE" => KeepsDates(m, n)
<1> DEFINE L == Len(m.kids)
<1>1. m.kids \in Seq(Part) /\ L \in Nat /\ DOMAIN m.kids = 1 .. L
  BY DEF Node
<1>2. /\ n.kids \in Seq(Part) /\ Len(n.kids) = L - 1 /\ DOMAIN n.kids = 1 .. L - 1
      /\ \A j \in 1 .. L - 1 : n.kids[j] = IF j < k THEN m.kids[j] ELSE m.kids[j + 1]
  <2> DEFINE t == RemoveAt(m.kids, k)
  <2>1. /\ t \in Seq(Part) /\ Len(t) = L - 1
        /\ \A j \in 1 .. L - 1 : t[j] = IF j < k THEN m.kids[j] ELSE m.kids[j + 1]
    BY <1>1, RemoveAtOne
  <2>2. n.kids = t
    OBVIOUS
  <2> HIDE DEF t, L
  <2>3. DOMAIN t = 1 .. Len(t)
    BY <2>1
  <2> QED
    BY <2>1, <2>2, <2>3
<1>3. Nots(n) = Nots(m)
  <2>1. CountType(RemoveAt(m.kids, k), "NOT") = CountType(m.kids, "NOT") - 0
    BY <1>1, CountRemoved
  <2>2. CountType(m.kids, "NOT") \in Nat
    BY <1>1, CountIsNat
  <2> QED
    BY <2>1, <2>2 DEF Nots
<1> HIDE DEF L
<1>4. ASSUME NEW j \in 1 .. L - 1
      PROVE  n.kids[j] = m.kids[IF j < k THEN j ELSE j + 1]
             /\ (IF j < k THEN j ELSE j + 1) \in 1 .. L
  BY <1>1, <1>2
<1>5. ASSUME Whole(m), NEW j \in 1 .. L - 1, n.kids[j].type = "NOT"
      PROVE  j < L - 1 /\ n.kids[j + 1].type = "NULL"
  <2>1. CASE j < k
    <3>1. m.kids[j].type = "NOT" /\ j \in 1 .. L
      BY <1>1, <1>2, <1>5, <2>1
    <3>2. j < L /\ m.kids[j + 1].type = "NULL"
      BY <1>1, <1>5, <3>1 DEF Whole, IsNotNull, L
    <3>3. j + 1 # k
      BY <3>2
    <3>4. j + 1 < k /\ j + 1 \in 1 .. L - 1 /\ j < L - 1
      BY <1>1, <2>1, <3>3 DEF L
    <3> QED
      BY <1>2, <3>2, <3>4
  <2>2. CASE ~(j < k)
    <3>1. m.kids[j + 1].type = "NOT" /\ j + 1 \in 1 .. L
      BY <1>1, <1>2, <1>5, <2>2
    <3>2. j + 1 < L /\ m.kids[(j + 1) + 1].type = "NULL"
      BY <1>1, <1>5, <3>1 DEF Whole, IsNotNull, L
    <3>3. j + 1 \in 1 .. L - 1 /\ ~(j + 1 < k) /\ j < L - 1
      BY <1>1, <2>2, <3>2 DEF L
    <3> QED
      BY <1>2, <3>2, <3>3
  <2> QED
    BY <2>1, <2>2
<1>6. Whole(m) => Whole(n)
  BY <1>2, <1>5 DEF Whole, IsNotNull
<1>7. Undated(m) => Undated(n)
  BY <1>1, <1>2, <1>4 DEF Undated
<1>8. ASSUME m.kids[k].type = "ONUPDATE", Undated(m)
      PROVE  HasStupidDate(n) <=> HasStupidDate(m)
  <2>1. ASSUME NEW j \in 1 .. L, HoldsZeros(m.kids[j])
        PROVE  \E i \in 1 .. L - 1 : HoldsZeros(n.kids[i])
    <3>1. j # k
      BY <1>1, <1>8, <2>1 DEF Undated, L
    <3>2. CASE j < k
      <4>1. j \in 1 .. L - 1 /\ n.kids[j] = m.kids[j]
        BY <1>1, <1>2, <3>2 DEF L
      <4> QED
        BY <2>1, <4>1
    <3>3. CASE j > k
      <4>1. j - 1 \in 1 .. L - 1 /\ ~(j - 1 < k) /\ (j - 1) + 1 = j
        BY <1>1, <3>3 DEF L
      <4>2. n.kids[j - 1] = m.kids[j]
        BY <1>2, <4>1
      <4> QED
        BY <2>1, <4>1, <4>2
    <3> QED
      BY <3>1, <3>2, <3>3 DEF L
  <2> QED
    BY <1>1, <1>2, <1>4, <2>1 DEF HasStupidDate
<1> QED
  BY <1>3, <1>6, <1>7, <1>8 DEF KeepsNots, KeepsDates

(* A column whose NOT NULL goes says it nowhere, where it said it once.    *)
LEMMA LiftedNots ==
  ASSUME NEW m \in Node, Whole(m), Undated(m), Nots(m) <= 1
  PROVE  LET n == LiftNotNull(m)
         IN  /\ Whole(n) /\ Undated(n)
             /\ Nots(n) = IF HasStupidDate(m) THEN 0 ELSE Nots(m)
<1> DEFINE found == {k \in DOMAIN m.kids : IsNotNull(m.kids, k)}
           first == CHOOSE k \in found : \A q \in found : k <= q
           once  == RemoveAt(m.kids, first)
           kids  == RemoveAt(once, first)
           L     == Len(m.kids)
           n     == LiftNotNull(m)
<1>1. m.kids \in Seq(Part) /\ L \in Nat /\ DOMAIN m.kids = 1 .. L /\ Nots(m) \in Nat
  <2>1. m.kids \in Seq(Part)
    BY DEF Node
  <2>2. Nots(m) \in Nat
    BY <2>1, CountIsNat DEF Nots
  <2>3. L \in Nat /\ DOMAIN m.kids = 1 .. L
    BY <2>1
  <2> QED
    BY <2>1, <2>2, <2>3
<1>2. Nots(m) = 0 <=> \A k \in 1 .. L : m.kids[k].type # "NOT"
  BY <1>1, CountIsNat DEF Nots, FindsNone
<1>3. found = {k \in 1 .. L : m.kids[k].type = "NOT"}
  BY <1>1 DEF Whole, IsNotNull
<1>4. CASE ~HasStupidDate(m)
  <2>1. n = m
    BY <1>4 DEF LiftNotNull
  <2> QED
    BY <1>4, <2>1
<1>5. CASE HasStupidDate(m) /\ found = {}
  <2>1. n = m
    BY <1>5 DEF LiftNotNull
  <2>2. Nots(m) = 0
    BY <1>2, <1>3, <1>5
  <2> QED
    BY <1>5, <2>1, <2>2
<1>6. CASE HasStupidDate(m) /\ found # {}
  <2>1. first \in found
    <3>1. found \in SUBSET Nat
      BY <1>1
    <3>2. \E k \in found : \A q \in found : k <= q
      BY <1>6, <3>1, FirstExists
    <3> QED
      BY <3>2
  <2>2. n = [m EXCEPT !.kids = kids]
    BY <1>6 DEF LiftNotNull
  <2>3. n.kids = kids
    BY <2>2 DEF Node
  <2> HIDE DEF first, n
  <2>4. /\ first \in 1 .. L /\ first < L /\ first \in Nat
        /\ m.kids[first].type = "NOT" /\ m.kids[first + 1].type = "NULL"
    BY <1>1, <2>1 DEF IsNotNull
  <2>5. /\ once \in Seq(Part) /\ Len(once) = L - 1
        /\ \A j \in 1 .. L - 1 : once[j] = IF j < first THEN m.kids[j] ELSE m.kids[j + 1]
    BY <1>1, <2>4, RemoveAtOne
  <2> HIDE DEF once
  <2>6. /\ kids \in Seq(Part) /\ Len(kids) = L - 2
        /\ \A j \in 1 .. L - 2 : kids[j] = IF j < first THEN once[j] ELSE once[j + 1]
    <3>1. first \in 1 .. Len(once)
      BY <1>1, <2>4, <2>5
    <3>2. /\ kids \in Seq(Part) /\ Len(kids) = Len(once) - 1
          /\ \A j \in 1 .. Len(once) - 1 : kids[j] = IF j < first THEN once[j] ELSE once[j + 1]
      BY <2>5, <3>1, RemoveAtOne
    <3> QED
      BY <1>1, <2>5, <3>2
  <2>7. DOMAIN kids = 1 .. L - 2
    BY <1>1, <2>6
  <2> HIDE DEF kids, found, L
  <2>8. \A j \in 1 .. L - 2 : /\ kids[j] = IF j < first THEN m.kids[j] ELSE m.kids[j + 2]
                              /\ (IF j < first THEN j ELSE j + 2) \in 1 .. L
    <3> TAKE j \in 1 .. L - 2
    <3>1. j \in 1 .. L - 1 /\ j + 1 \in 1 .. L - 1 /\ (j + 1) + 1 = j + 2
      BY <1>1
    <3>2. CASE j < first
      BY <1>1, <2>5, <2>6, <3>1, <3>2
    <3>3. CASE ~(j < first)
      <4>1. ~(j + 1 < first)
        BY <1>1, <2>4, <3>3
      <4> QED
        BY <1>1, <2>5, <2>6, <3>1, <3>3, <4>1
    <3> QED
      BY <3>2, <3>3
  <2>9. \A k \in 1 .. L : m.kids[k].type = "NOT" => k = first
    <3> SUFFICES ASSUME NEW k \in 1 .. L, m.kids[k].type = "NOT", k # first
                 PROVE  FALSE
      OBVIOUS
    <3>1. CountType(once, "NOT") = CountType(m.kids, "NOT") - 1
      BY <1>1, <2>4, CountRemoved DEF once, L
    <3>2. CountType(once, "NOT") = 0
      <4>1. CountType(once, "NOT") \in Nat
        BY <2>5, CountIsNat
      <4>2. CountType(m.kids, "NOT") \in Nat /\ CountType(m.kids, "NOT") <= 1
        BY <1>1 DEF Nots
      <4> QED
        BY <3>1, <4>1, <4>2
    <3>3. \A j \in 1 .. L - 1 : once[j].type # "NOT"
      BY <2>5, <3>2, CountIsNat DEF FindsNone
    <3>4. CASE k < first
      <4>1. k \in 1 .. L - 1 /\ once[k] = m.kids[k]
        BY <1>1, <2>4, <2>5, <3>4
      <4> QED
        BY <3>3, <4>1
    <3>5. CASE k > first
      <4>1. k - 1 \in 1 .. L - 1 /\ ~(k - 1 < first) /\ (k - 1) + 1 = k
        BY <1>1, <2>4, <3>5
      <4>2. once[k - 1] = m.kids[k]
        BY <2>5, <4>1
      <4> QED
        BY <3>3, <4>1, <4>2
    <3> QED
      BY <1>1, <2>4, <3>4, <3>5
  <2>10. \A j \in 1 .. L - 2 : kids[j].type # "NOT"
    <3> TAKE j \in 1 .. L - 2
    <3>1. CASE j < first
      <4>1. kids[j] = m.kids[j] /\ j \in 1 .. L /\ j # first
        BY <2>4, <2>8, <3>1
      <4> QED
        BY <2>9, <4>1
    <3>2. CASE ~(j < first)
      <4>1. kids[j] = m.kids[j + 2] /\ j + 2 \in 1 .. L
        BY <2>8, <3>2
      <4>2. j + 2 # first
        BY <1>1, <2>4, <3>2
      <4> QED
        BY <2>9, <4>1, <4>2
    <3> QED
      BY <3>1, <3>2
  <2>11. Whole(n)
    BY <2>3, <2>7, <2>10 DEF Whole
  <2>12. Undated(n)
    BY <1>1, <2>3, <2>7, <2>8 DEF Undated, L
  <2>13. Nots(n) = 0
    <3>1. FindsNone(kids, 1, "NOT")
      BY <2>6, <2>10 DEF FindsNone
    <3> QED
      BY <2>3, <2>6, <3>1, CountIsNat DEF Nots
  <2> QED
    BY <1>6, <2>11, <2>12, <2>13 DEF n
<1> QED
  BY <1>4, <1>5, <1>6

(* The CHECK made of an ENUM holds what the ENUM held.                     *)
LEMMA EnumNots ==
  ASSUME NEW m \in Node, Parsed(m), m.type = "COLUMN_DEF"
  PROVE  KeepsNots(m, RewriteEnums(m)) /\ KeepsDates(m, RewriteEnums(m))
<1> DEFINE L    == Len(m.kids)
           kids == [k \in DOMAIN m.kids |->
                     IF m.kids[k].type = "ENUM_DEF" THEN CheckOf(m.kids[k], m.kids[1].text)
                     ELSE m.kids[k]]
           n    == RewriteEnums(m)
<1>1. m.kids \in Seq(Part) /\ L \in Nat /\ DOMAIN m.kids = 1 .. L /\ L >= 2
  BY DEF Node, Parsed, IsColumn
<1>2. n.kids = kids
  BY DEF RewriteEnums, Node
<1>3. n.kids \in Seq(Part)
  <2>1. n \in Node
    BY EnumParts
  <2> QED
    BY <2>1 DEF Node
<1>4. DOMAIN kids = 1 .. L
  BY <1>1
<1>5. ASSUME NEW k \in 1 .. L
      PROVE  kids[k].type = m.kids[k].type /\ (HoldsZeros(kids[k]) <=> HoldsZeros(m.kids[k]))
  <2>1. CASE m.kids[k].type # "ENUM_DEF"
    BY <1>1, <2>1
  <2>2. CASE m.kids[k].type = "ENUM_DEF"
    <3>1. m.kids[k] \in Part /\ m.kids[1] \in Part
      BY <1>1
    <3>2. IsEnum(m.kids[k].kids) /\ m.kids[1].text \in STRING
      BY <1>1, <2>2, <3>1 DEF Parsed, Part
    <3>3. kids[k] = CheckOf(m.kids[k], m.kids[1].text)
      BY <1>1, <2>2
    <3> DEFINE enum  == m.kids[k]
               name  == m.kids[1].text
               check == CheckOf(enum, name)
               E     == Len(enum.kids)
    <3>4. enum.kids \in Seq(Token) /\ E \in Nat /\ DOMAIN enum.kids = 1 .. E
      BY <3>1 DEF Part
    <3>9. enum \in Part /\ name \in STRING /\ IsEnum(enum.kids)
      BY <3>1, <3>2
    <3> HIDE DEF kids, enum, name
    <3>5. check \in Part /\ check.type = enum.type
      BY <3>9, CheckOfParts
    <3>6. /\ Len(check.kids) = E + 1 /\ check.kids[E + 1].type = "RPAREN"
          /\ \A j \in 1 .. E : check.kids[j].type = enum.kids[j].type
      BY <3>9, CheckOfParts
    <3>7. DOMAIN check.kids = 1 .. E + 1
      BY <3>5, <3>6 DEF Part
    <3> HIDE DEF check, E
    <3>8. HoldsZeros(check) <=> HoldsZeros(enum)
      <4>1. ASSUME NEW j \in 1 .. E + 1, check.kids[j].type = "STUPID_DATE"
            PROVE  j \in 1 .. E
        BY <3>4, <3>6, <4>1
      <4>2. 1 .. E \subseteq 1 .. E + 1
        BY <3>4
      <4>3. (\E j \in 1 .. E + 1 : check.kids[j].type = "STUPID_DATE")
              <=> \E j \in 1 .. E : enum.kids[j].type = "STUPID_DATE"
        BY <3>6, <4>1, <4>2
      <4> QED
        BY <3>4, <3>5, <3>7, <4>3 DEF HoldsZeros
    <3> QED
      BY <3>3, <3>5, <3>8 DEF enum, name, check
  <2> QED
    BY <2>1, <2>2
<1> HIDE DEF kids, n, L
<1>6. Len(n.kids) = L
  <2>1. Len(n.kids) \in Nat /\ DOMAIN n.kids = 1 .. Len(n.kids)
    BY <1>3
  <2> QED
    BY <1>1, <1>2, <1>4, <2>1
<1>7. Nots(n) = Nots(m)
  BY <1>1, <1>2, <1>3, <1>5, <1>6, CountSame DEF Nots, L
<1>8. Whole(m) => Whole(n)
  <2> SUFFICES ASSUME Whole(m), NEW k \in 1 .. L, n.kids[k].type = "NOT"
               PROVE  k < L /\ n.kids[k + 1].type = "NULL"
    BY <1>2, <1>4, <1>6 DEF Whole, IsNotNull
  <2>1. k < L /\ m.kids[k + 1].type = "NULL"
    BY <1>1, <1>2, <1>5 DEF Whole, IsNotNull, L
  <2>2. k + 1 \in 1 .. L
    BY <1>1, <2>1
  <2> QED
    BY <1>2, <1>5, <2>1, <2>2
<1>9. (Undated(m) => Undated(n)) /\ (HasStupidDate(n) <=> HasStupidDate(m))
  BY <1>1, <1>2, <1>4, <1>5 DEF Undated, HasStupidDate
<1> QED
  BY <1>7, <1>8, <1>9 DEF KeepsNots, KeepsDates, n

(* The steps, by the column they change.                                   *)
Replaced(d, node) ==
  /\ Finds(children, pos, "COLUMN_DEF", d)
  /\ children' = [children EXCEPT ![d] = node] /\ table' = table /\ pass' = pass
LosesPart(d, k) == Replaced(d, [children[d] EXCEPT !.kids = RemoveAt(@, k)])
LEMMA ColumnTurns ==
  ASSUME WInv, [Next]_vars
  PROVE  \/ \E d \in DOMAIN children :
              \/ pass = 1 /\ Replaced(d, RewriteEnums(children[d]))
              \/ pass = 4 /\ pos' = d + 1 /\ Replaced(d, LiftNotNull(children[d]))
              \/ \E k \in DOMAIN children[d].kids :
                   \/ pass = 3 /\ children[d].kids[k].type = "ONUPDATE" /\ LosesPart(d, k)
                   \/ pass = 6 /\ children[d].kids[k].type = "AUTO_INCREMENT" /\ LosesPart(d, k)
         \/ pass \in {3, 6} /\ UNCHANGED <<table, children, pass>>
         \/ pass >= 5 /\ \E p \in 1 .. Len(children), n \in {1, 2} : TakesOut(p, n)
         \/ SpellsOut \/ EndsPass \/ UNCHANGED vars
<1>1. Inv /\ Cursor /\ QueueOK /\ pass \in 1 .. 10
  BY DEF WInv, Cursor
<1>2. ASSUME NEW d \in DOMAIN children,
             NEW name \in {"enum", "onupdate", "stupid_date", "auto_inc"}, Turn(name, d)
      PROVE  Finds(children, pos, "COLUMN_DEF", d)
  BY <1>2 DEF Turn, LooksFor
<1>3. ASSUME NEW d \in DOMAIN children, NEW name, Turn(name, d)
      PROVE  /\ name = "enum" => pass = 1
             /\ name = "onupdate" => pass = 3
             /\ name = "stupid_date" => pass = 4
             /\ name = "auto_inc" => pass = 6
             /\ name \in {"index", "fulltext", "fkey", "options"} => pass >= 5 /\ pass # 6
  BY <1>1, <1>3, PassNumbers DEF Turn
<1>4. CASE RewriteEnum
  <2>1. PICK d \in DOMAIN children : /\ Turn("enum", d) /\ UNCHANGED <<table, pass>>
                                     /\ children'
                                           = [children EXCEPT ![d] = RewriteEnums(children[d])]
    BY <1>4 DEF RewriteEnum
  <2> QED
    BY <1>2, <1>3, <2>1 DEF Replaced
<1>5. CASE RewriteStupidDate
  <2>1. PICK d \in DOMAIN children : /\ Turn("stupid_date", d) /\ UNCHANGED <<table, pass>>
                                     /\ pos' = d + 1
                                     /\ children'
                                           = [children EXCEPT ![d] = LiftNotNull(children[d])]
    BY <1>5 DEF RewriteStupidDate
  <2> QED
    BY <1>2, <1>3, <2>1 DEF Replaced
<1>6. CASE RewriteOnUpdate
  <2>1. PICK d \in DOMAIN children : \E u \in DOMAIN children[d].kids :
          /\ Turn("onupdate", d) /\ Finds(children[d].kids, inner, "ONUPDATE", u)
          /\ children' = [children EXCEPT ![d].kids = RemoveAt(@, u)] /\ UNCHANGED <<table, pass>>
    BY <1>6 DEF RewriteOnUpdate
  <2>2. PICK u \in DOMAIN children[d].kids :
          /\ Turn("onupdate", d) /\ Finds(children[d].kids, inner, "ONUPDATE", u)
          /\ children' = [children EXCEPT ![d].kids = RemoveAt(@, u)] /\ UNCHANGED <<table, pass>>
    BY <2>1
  <2>3. children[d].kids[u].type = "ONUPDATE" /\ pass = 3
    BY <1>3, <2>2 DEF Finds
  <2>4. LosesPart(d, u)
    BY <1>2, <2>2 DEF Replaced, LosesPart
  <2> QED
    BY <2>3, <2>4
<1>7. CASE RewriteAutoInc
  <2>1. PICK d \in DOMAIN children :
          /\ Turn("auto_inc", d) /\ UNCHANGED <<table, pass>>
          /\ \/ children' = children
             \/ \E k \in DOMAIN children[d].kids :
                  /\ Finds(children[d].kids, 1, "AUTO_INCREMENT", k)
                  /\ children' = [children EXCEPT ![d].kids = RemoveAt(@, k)]
    BY <1>7 DEF RewriteAutoInc
  <2>2. pass = 6
    BY <1>3, <2>1
  <2>3. CASE children' = children
    BY <2>1, <2>2, <2>3
  <2>4. ASSUME NEW k \in DOMAIN children[d].kids, Finds(children[d].kids, 1, "AUTO_INCREMENT", k),
               children' = [children EXCEPT ![d].kids = RemoveAt(@, k)]
        PROVE  children[d].kids[k].type = "AUTO_INCREMENT" /\ LosesPart(d, k)
    <3>1. children[d].kids[k].type = "AUTO_INCREMENT"
      BY <2>4 DEF Finds
    <3>2. LosesPart(d, k)
      BY <1>2, <2>1, <2>4 DEF Replaced, LosesPart
    <3> QED
      BY <3>1, <3>2
  <2> QED
    BY <2>1, <2>2, <2>3, <2>4
<1>8. CASE EndColumn
  <2>1. PICK d \in DOMAIN children : Turn("onupdate", d) /\ UNCHANGED <<table, children, pass>>
    BY <1>8 DEF EndColumn
  <2> QED
    BY <1>3, <2>1
<1>9. ASSUME NEW p \in 1 .. Len(children),
             MovesKey(p) \/ DropsFulltext(p) \/ MovesForeignKey(p) \/ DropsOption(p)
      PROVE  pass >= 5 /\ \E n \in {1, 2} : TakesOut(p, n)
  BY <1>9 DEF MovesKey, DropsFulltext, MovesForeignKey, DropsOption
<1>10. ASSUME NEW d, NEW u, GoesOn(d) \/ Sequences(d) \/ Triggers(d, u)
       PROVE  pass \in {1, 3, 4, 6} /\ pass' = pass
  BY <1>10 DEF GoesOn, Sequences, Triggers, ColumnStep, InPlace
<1>11. CASE RewriteIndex \/ RemoveFulltext \/ RewriteForeignKey \/ RemoveOption
  <2>1. pass >= 5 /\ pass # 6
    BY <1>3, <1>11 DEF RewriteIndex, RemoveFulltext, RewriteForeignKey, RemoveOption
  <2> QED
    BY <1>1, <1>9, <1>10, <2>1, Steps
<1>12. CASE RewriteDatatypes
  <2>1. pass = 2
    BY <1>1, <1>12, PassNumbers DEF RewriteDatatypes
  <2> QED
    BY <1>1, <1>9, <1>10, <2>1, Steps
<1>13. CASE EndPass
  <2>1. pass' = pass + 1
    BY <1>13 DEF EndPass, NextPass
  <2>2. pass' # pass
    BY <1>1, <2>1
  <2> QED
    BY <1>1, <1>9, <1>10, <2>2, Steps
<1> QED
  BY <1>4, <1>5, <1>6, <1>7, <1>8, <1>11, <1>12, <1>13 DEF Next

(* A column that says what it said before is as good as before.            *)
LEMMA FollowsRefl == \A n : Follows(n, n) /\ KeepsDates(n, n)
  BY DEF Follows, KeepsNots, KeepsDates
LEMMA NullAtFollows ==
  ASSUME NEW past \in BOOLEAN, NEW b, NEW m, NEW n, Follows(m, n), m.type = "COLUMN_DEF",
         past \/ KeepsDates(m, n), NullAt(past, b, m)
  PROVE  NullAt(past, b, n)
  BY DEF Follows, KeepsNots, KeepsDates, NullAt

LEMMA StillNull ==
  ASSUME NullInv, table' = table,
         \A c \in DOMAIN children' : children'[c].type = "COLUMN_DEF" =>
           \E j \in DOMAIN children :
             /\ Follows(children[j], children'[c]) /\ (Past(4, c)' <=> Past(4, j))
             /\ Past(4, j) \/ KeepsDates(children[j], children'[c])
  PROVE  NullInv'
<1> SUFFICES ASSUME NEW d \in DOMAIN table.children, NEW c \in DOMAIN children',
                    Column(table.children[d], children'[c]), NullSaidOnce(table.children[d])
             PROVE  NullAt(Past(4, c)', table.children[d], children'[c])
  BY DEF NullInv
<1>1. PICK j \in DOMAIN children :
        /\ Follows(children[j], children'[c]) /\ (Past(4, c)' <=> Past(4, j))
        /\ Past(4, j) \/ KeepsDates(children[j], children'[c])
  BY DEF Column
<1>2. children[j].type = "COLUMN_DEF" /\ Column(table.children[d], children[j])
  BY <1>1 DEF Column, Follows
<1>3. NullAt(Past(4, j), table.children[d], children[j]) /\ Past(4, j) \in BOOLEAN
  BY <1>2 DEF NullInv, Past
<1>4. NullAt(Past(4, j), table.children[d], children'[c])
  BY <1>1, <1>2, <1>3, NullAtFollows
<1> QED
  BY <1>1, <1>4 DEF NullAt

LEMMA StartNull == Init => NullInv
<1> SUFFICES ASSUME Init, NEW d \in DOMAIN table.children, NEW c \in DOMAIN children,
                    Column(table.children[d], children[c]), NullSaidOnce(table.children[d])
             PROVE  NullAt(Past(4, c), table.children[d], children[c])
  BY DEF NullInv
<1>1. children = table.children /\ WellFormed(table) /\ pass = 1
  BY StartWInv DEF Init, WInv
<1>2. d = c
  BY <1>1 DEF Column, WellFormed, Apart
<1>3. Whole(children[c]) /\ Undated(children[c])
  BY <1>1, <1>2 DEF WellFormed, Whole, Undated, NullSaidOnce, Column
<1> QED
  BY <1>1, <1>2, <1>3 DEF NullAt, Past

(* A turn that replaces column d by node, before the pass that lifts NOT   *)
(* NULL or behind it.                                                      *)
LEMMA ReplacedKeepsNull ==
  ASSUME WInv, NullInv, NEW d \in DOMAIN children, NEW node, Replaced(d, node),
         pass # 4, Follows(children[d], node), pass >= 5 \/ KeepsDates(children[d], node)
  PROVE  NullInv'
<1>1. /\ Len(children) \in Nat /\ DOMAIN children = 1 .. Len(children) /\ pass \in 1 .. 10
      /\ table' = table /\ pass' = pass /\ DOMAIN children' = DOMAIN children
      /\ \A c \in DOMAIN children : children'[c] = IF c = d THEN node ELSE children[c]
  BY TheChildren DEF WInv, Cursor, Replaced
<1>2. \A c \in DOMAIN children' : (Past(4, c)' <=> Past(4, c)) /\ (pass >= 5 => Past(4, c))
  BY <1>1 DEF Past
<1>3. \A c \in DOMAIN children' :
        Follows(children[c], children'[c]) /\ (pass >= 5 \/ KeepsDates(children[c], children'[c]))
  BY <1>1, FollowsRefl
<1> QED
  BY <1>1, <1>2, <1>3, StillNull

(* The turn that lifts it.                                                 *)
LEMMA LiftedNull ==
  ASSUME WInv, NullInv, NEW d \in DOMAIN children, pass = 4, pos' = d + 1,
         Replaced(d, LiftNotNull(children[d]))
  PROVE  NullInv'
<1> DEFINE node == LiftNotNull(children[d])
<1>1. /\ Len(children) \in Nat /\ DOMAIN children = 1 .. Len(children) /\ pos \in Nat
      /\ table' = table /\ pass' = 4 /\ DOMAIN children' = DOMAIN children
      /\ \A c \in DOMAIN children : children'[c] = IF c = d THEN node ELSE children[c]
      /\ children[d] \in Node /\ Parsed(children[d])
      /\ d >= pos /\ children[d].type = "COLUMN_DEF"
      /\ \A q \in pos .. d - 1 : children[q].type # "COLUMN_DEF"
  BY TheChildren DEF WInv, Cursor, Replaced, Finds
<1>2. node.type = "COLUMN_DEF" /\ node.kids[1] = children[d].kids[1]
  BY <1>1, LiftedSame DEF Same
<1> HIDE DEF node
<1> SUFFICES ASSUME NEW b \in DOMAIN table.children, NEW c \in DOMAIN children',
                    Column(table.children[b], children'[c]), NullSaidOnce(table.children[b])
             PROVE  NullAt(Past(4, c)', table.children[b], children'[c])
  BY <1>1 DEF NullInv
<1>3. CASE c # d
  <2>1. children'[c] = children[c] /\ children[c].type = "COLUMN_DEF"
    BY <1>1, <1>3 DEF Column
  <2>2. c < d + 1 <=> c < pos
    BY <1>1, <1>3, <2>1
  <2>3. Past(4, c)' <=> Past(4, c)
    BY <1>1, <2>2 DEF Past
  <2>4. NullAt(Past(4, c), table.children[b], children[c])
    BY <1>1, <2>1 DEF NullInv
  <2> QED
    BY <2>1, <2>3, <2>4 DEF NullAt
<1>4. CASE c = d
  <2> DEFINE m == children[d]
             s == table.children[b]
  <2>1. children'[c] = node /\ Column(s, m)
    BY <1>1, <1>2, <1>4 DEF Column
  <2>2. ~Past(4, d) /\ Past(4, d)'
    BY <1>1 DEF Past
  <2>3. Whole(m) /\ Undated(m) /\ Nots(m) = Nots(s) /\ (HasStupidDate(m) <=> HasStupidDate(s))
    BY <2>1, <2>2 DEF NullInv, NullAt
  <2>4. Nots(m) <= 1
    BY <2>3 DEF NullSaidOnce, Nots
  <2>5. /\ Whole(node) /\ Undated(node)
        /\ Nots(node) = IF HasStupidDate(m) THEN 0 ELSE Nots(m)
    BY <1>1, <2>3, <2>4, LiftedNots DEF node
  <2> QED
    BY <1>4, <2>1, <2>2, <2>3, <2>5 DEF NullAt
<1> QED
  BY <1>3, <1>4

LEMMA NextNull == WInv /\ NullInv /\ [Next]_vars => NullInv'
<1> SUFFICES ASSUME WInv, NullInv, [Next]_vars PROVE NullInv'
  OBVIOUS
<1>1. /\ Len(children) \in Nat /\ DOMAIN children = 1 .. Len(children)
      /\ \A c \in DOMAIN children : children[c] \in Node /\ Parsed(children[c])
      /\ table' = table /\ Inv' /\ pass \in 1 .. 10 /\ DOMAIN children' = 1 .. Len(children')
  BY TheChildren, CursorMoves, NextInv DEF WInv, Cursor, Inv, ChildrenOK
<1>2. ASSUME NEW d \in DOMAIN children, pass = 1, Replaced(d, RewriteEnums(children[d]))
      PROVE  NullInv'
  <2> DEFINE node == RewriteEnums(children[d])
  <2>1. children[d].type = "COLUMN_DEF"
    BY <1>2 DEF Replaced, Finds
  <2>2. KeepsNots(children[d], node) /\ KeepsDates(children[d], node)
    BY <1>1, <2>1, EnumNots
  <2>3. Same(children[d], node)
    BY <1>1, <2>1, EnumSame
  <2> HIDE DEF node
  <2>4. Follows(children[d], node)
    BY <2>2, <2>3 DEF Follows, Same
  <2>5. Replaced(d, node) /\ pass # 4
    BY <1>2 DEF node
  <2> QED
    BY <2>2, <2>4, <2>5, ReplacedKeepsNull
<1>3. ASSUME NEW d \in DOMAIN children, NEW k \in DOMAIN children[d].kids, LosesPart(d, k),
             \/ pass = 3 /\ children[d].kids[k].type = "ONUPDATE"
             \/ pass = 6 /\ children[d].kids[k].type = "AUTO_INCREMENT"
      PROVE  NullInv'
  <2> DEFINE node == [children[d] EXCEPT !.kids = RemoveAt(@, k)]
  <2>1. children[d].type = "COLUMN_DEF" /\ children[d] \in Node /\ Parsed(children[d])
    BY <1>1, <1>3 DEF LosesPart, Replaced, Finds
  <2>2. k \in 1 .. Len(children[d].kids) /\ k > 2
    BY <1>3, <2>1 DEF Node, Parsed, IsColumn
  <2>3. Same(children[d], node)
    BY <2>1, <2>2, FewerSame
  <2>4. node.kids = RemoveAt(children[d].kids, k)
    BY <2>1 DEF Node
  <2>5. Replaced(d, node) /\ pass # 4
    BY <1>3 DEF LosesPart
  <2> HIDE DEF node
  <2>6. children[d].kids[k].type \notin {"NOT", "NULL"}
    BY <1>3
  <2>7. /\ KeepsNots(children[d], node)
        /\ children[d].kids[k].type = "ONUPDATE" => KeepsDates(children[d], node)
    BY <2>1, <2>2, <2>4, <2>6, PartOut
  <2>8. Follows(children[d], node)
    BY <2>3, <2>7 DEF Follows, Same
  <2> QED
    BY <1>3, <2>5, <2>7, <2>8, ReplacedKeepsNull
<1>4. ASSUME NEW p \in 1 .. Len(children), NEW n \in {1, 2}, TakesOut(p, n), pass >= 5
      PROVE  NullInv'
  <2>1. /\ \A c \in DOMAIN children' : \E j \in DOMAIN children : children'[c] = children[j]
        /\ pass' = pass
    BY <1>1, <1>4 DEF TakesOut
  <2>2. \A c, j : (Past(4, c)' <=> TRUE) /\ (Past(4, j) <=> TRUE)
    BY <1>1, <1>4, <2>1 DEF Past
  <2> QED
    BY <1>1, <2>1, <2>2, FollowsRefl, StillNull
<1>5. ASSUME pass # 4, pass' \in {pass, pass + 1}, pass' = 4 => pos' = 1,
             Len(children') = Len(children),
             \A c \in DOMAIN children : /\ Follows(children[c], children'[c])
                                        /\ KeepsDates(children[c], children'[c])
      PROVE  NullInv'
  <2>1. \A c \in DOMAIN children' : c \in DOMAIN children /\ c \in Nat /\ c >= 1
    BY <1>1, <1>5
  <2>2. \A c \in DOMAIN children' : Past(4, c)' <=> Past(4, c)
    BY <1>1, <1>5, <2>1 DEF Past
  <2> QED
    BY <1>1, <1>5, <2>1, <2>2, StillNull
<1>6. CASE SpellsOut
  <2>1. \A c \in DOMAIN children : /\ Same(children[c], children'[c])
                                   /\ children'[c].kids = children[c].kids
    BY <1>1, <1>6 DEF SpellsOut
  <2>2. \A c \in DOMAIN children : /\ Follows(children[c], children'[c])
                                   /\ KeepsDates(children[c], children'[c])
    BY <2>1 DEF Same, Follows, KeepsNots, KeepsDates, Nots, Whole, Undated, HasStupidDate
  <2> QED
    BY <1>5, <1>6, <2>2 DEF SpellsOut
<1>7. CASE EndsPass /\ pass # 4
  BY <1>1, <1>5, <1>7, FollowsRefl DEF EndsPass
<1>8. CASE EndsPass /\ pass = 4
  <2>1. FindsNone(children, pos, "COLUMN_DEF") /\ children' = children /\ pass' = 5
    BY <1>8 DEF EndsPass, LooksFor, Passes
  <2>2. pos \in Nat
    BY DEF WInv, Cursor
  <2>3. \A c \in DOMAIN children : children[c].type = "COLUMN_DEF" => c < pos
    BY <1>1, <2>1, <2>2 DEF FindsNone
  <2>4. \A c \in DOMAIN children :
          children[c].type = "COLUMN_DEF" => Past(4, c) /\ Past(4, c)'
    BY <1>8, <2>1, <2>3 DEF Past
  <2> QED
    BY <1>1, <2>1, <2>4, FollowsRefl, StillNull
<1>9. CASE UNCHANGED <<table, children, pass>> /\ pass \in {3, 6}
  BY <1>5, <1>9, FollowsRefl
<1>10. CASE UNCHANGED vars
  BY <1>10 DEF vars, NullInv, Past
<1> QED
  BY <1>2, <1>3, <1>4, <1>6, <1>7, <1>8, <1>9, <1>10, LiftedNull, ColumnTurns

(* A column loses its NOT NULL if and only if a date of zeros is in it:    *)
(* the pass that asks for the date looks at every column once, after ON    *)
(* UPDATE clauses have gone from it and before AUTO_INCREMENT does, and    *)
(* takes out the two words that stand together, not what moved into their  *)
(* place (create_rewrite_stupid_date).                                     *)
THEOREM NullabilityIsKept == Spec => []NullabilityKept
<1>1. WInv /\ NullInv => NullabilityKept
  <2> SUFFICES ASSUME WInv, NullInv, Done,
                      NEW d \in DOMAIN table.children, NEW c \in DOMAIN children,
                      Column(table.children[d], children[c]), NullSaidOnce(table.children[d])
               PROVE  Nullable(children[c])
                        <=> Nullable(table.children[d]) \/ HasStupidDate(table.children[d])
    BY DEF NullabilityKept, Column
  <2> DEFINE b == table.children[d]
             n == children[c]
  <2>1. pass = 10
    BY PassNumbers DEF WInv, Cursor
  <2>2. Past(4, c)
    BY <2>1 DEF Past
  <2>3. Whole(n) /\ Nots(n) = IF HasStupidDate(b) THEN 0 ELSE Nots(b)
    BY <2>2 DEF NullInv, NullAt
  <2>4. Whole(b)
    BY DEF WInv, WellFormed, Whole, Column
  <2>5. b \in Node /\ n \in Node
    BY TheTable, TheChildren DEF WInv
  <2> HIDE DEF b, n
  <2>6. ASSUME NEW m \in Node, Whole(m)
        PROVE  Nullable(m) <=> Nots(m) = 0
    <3>1. m.kids \in Seq(Part) /\ DOMAIN m.kids = 1 .. Len(m.kids)
      BY DEF Node
    <3>2. Nots(m) = 0 <=> \A k \in DOMAIN m.kids : m.kids[k].type # "NOT"
      BY <3>1, CountIsNat DEF Nots, FindsNone
    <3> QED
      BY <2>6, <3>2 DEF Nullable, Whole, IsNotNull
  <2>7. Nullable(n) <=> Nullable(b) \/ HasStupidDate(b)
    BY <2>3, <2>4, <2>5, <2>6
  <2> QED
    BY <2>7 DEF b, n
<1>2. Init => WInv /\ NullInv
  BY StartWInv, StartNull
<1>3. WInv /\ NullInv /\ [Next]_vars => (WInv /\ NullInv)'
  BY NextWInv, NextNull
<1> QED
  BY <1>1, <1>2, <1>3, PTL DEF Spec
=============================================================================
