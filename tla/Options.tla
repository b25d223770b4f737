------------------------------ MODULE Options ------------------------------
(***************************************************************************)
(* How one option is read off the command line: the second half of         *)
(* _getopt_internal (getopt.c).  An element of the command line is a       *)
(* sequence of characters; a long name is its first letter and the rest.   *)
(* A table of options has the letters of its flags, the letters that need  *)
(* an argument, and its long names.                                        *)
(***************************************************************************)
EXTENDS Integers, Sequences

(* What getopt returns besides letters.                                    *)
Reserved == {"none", "pending", "end"}

Table == [flags : SUBSET (STRING \ Reserved), needing : SUBSET (STRING \ Reserved),
          long : Seq([name : Seq(STRING), arg : BOOLEAN, val : STRING \ Reserved])]

Dashes    == <<"-", "-">>
IsWord(e) == ~(Len(e) > 1 /\ e[1] = "-")
IsLong(e) == e[2] = "-"

StartsWith(s, t) == Len(t) <= Len(s) /\ SubSeq(s, 1, Len(t)) = t

(* What a call reads: how many elements it uses up, what is left of the    *)
(* one it is in, the letter it returns, and the argument if there is one.  *)
Read(used, rest, opt, arg) == [used |-> used, rest |-> rest, opt |-> opt, arg |-> arg]
Refused(used, rest)        == Read(used, rest, "?", <<>>)

(* The argument in the next element, if there is a next element.           *)
WithNext(opt, after) ==
  IF after = <<>> THEN Refused(1, <<>>) ELSE Read(2, <<>>, opt, <<Head(after)>>)

(* --name and --name=value: an exact name wins, an abbreviation must fit   *)
(* one name only.                                                          *)
Long(table, text, after) ==
  LET equals == {i \in DOMAIN text : text[i] = "="}
      first  == CHOOSE i \in equals : \A j \in equals : i <= j
      name   == IF equals = {} THEN text ELSE SubSeq(text, 1, first - 1)
      fits   == {i \in DOMAIN table.long : StartsWith(table.long[i].name, name)}
      exact  == {i \in fits : table.long[i].name = name}
      found  == IF exact # {} THEN exact ELSE fits
      option == table.long[CHOOSE i \in found : \A j \in found : i <= j]
  IN  CASE found = {} \/ (exact = {} /\ \E i, j \in fits : i # j) -> Refused(1, <<>>)
        [] OTHER ->
             IF equals # {}
             THEN IF option.arg THEN Read(1, <<>>, option.val, <<SubSeq(text, first + 1, Len(text))>>)
                                ELSE Refused(1, <<>>)
             ELSE IF option.arg THEN WithNext(option.val, after)
                                ELSE Read(1, <<>>, option.val, <<>>)

(* Slip: every letter uses up the element.                                 *)
ShortAdvancing(table, text, after) ==
  LET c == Head(text)
      left == Tail(text)
  IN  CASE c \in table.needing -> IF left = <<>> THEN WithNext(c, after)
                                                 ELSE Read(1, <<>>, c, <<left>>)
        [] c \in table.flags   -> Read(1, left, c, <<>>)
        [] OTHER               -> Refused(1, left)

(* One letter of -abc; the element is used up with its last letter, or     *)
(* when the rest of it is the argument.                                    *)
Short(table, text, after) ==
  LET c == Head(text)
      left == Tail(text)
      used == IF left = <<>> THEN 1 ELSE 0
  IN  CASE c \in table.needing -> IF left = <<>> THEN WithNext(c, after)
                                                 ELSE Read(1, <<>>, c, <<left>>)
        [] c \in table.flags   -> Read(used, left, c, <<>>)
        [] OTHER               -> Refused(used, left)

(* The next option of the elements in todo; rest is what an earlier call   *)
(* left of the first of them.                                              *)
Decode(table, todo, rest) ==
  LET e == Head(todo)
  IN  IF IsLong(e) THEN Long(table, SubSeq(e, 3, Len(e)), Tail(todo))
      ELSE Short(table, IF rest = <<>> THEN Tail(e) ELSE rest, Tail(todo))
=============================================================================
