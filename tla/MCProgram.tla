----------------------------- MODULE MCProgram -----------------------------
(***************************************************************************)
(* The program on small command lines and inputs.  A world varies one of   *)
(* the two: many command lines with a short input, and many inputs with    *)
(* the conversions on or off.                                              *)
(***************************************************************************)
EXTENDS Program

SeqsUpTo(n, S) == UNION {[1 .. k -> S] : k \in 0 .. n}

LongOption(name, arg, val) == [name |-> name, arg |-> arg, val |-> val]

MCFilesTable ==
  [flags |-> {"h", "d", "e", "c", "V"}, needing |-> {"f"},
   long |-> <<LongOption(<<"h", "elp">>, FALSE, "h"), LongOption(<<"v", "ersion">>, FALSE, "V"),
              LongOption(<<"d", "ebug">>, FALSE, "d"), LongOption(<<"e", "scape">>, FALSE, "e"),
              LongOption(<<"l", "owercase">>, FALSE, "c")>>]

MCTestTable ==
  [flags |-> {"a", "b"}, needing |-> {"c", "d"},
   long |-> <<LongOption(<<"a", "dd">>, TRUE, "add"), LongOption(<<"a", "ppend">>, FALSE, "append"),
              LongOption(<<"d", "elete">>, TRUE, "delete"), LongOption(<<"v", "erbose">>, FALSE, "verbose"),
              LongOption(<<"c", "reate">>, FALSE, "create"), LongOption(<<"f", "ile">>, TRUE, "file")>>]

MCZeroDates == {<<"'", "0", "'">>, <<"'", "0", " ", "0", "'">>}

(* Command lines.                                                          *)
SQL   == <<"E", "nl">>
XFile == [name |-> <<"x">>, text |-> SQL]
YFile == [name |-> <<"y">>, text |-> <<"0">>]

World(caller, given, posix, files, stdin, broken) ==
  [caller |-> caller, argv |-> given, posixly_correct |-> posix,
   files |-> files, stdin |-> stdin, broken |-> broken]

Elements ==
  {<<"x">>, <<"-">>, <<"-", "-">>, <<"-", "c", "e">>, <<"-", "d", "f">>, <<"-", "f", "y">>, <<"-", "-", "e">>}
Refusals ==
  {<<"-", "h">>, <<"-", "V">>, <<"-", "?", "e">>, <<"-", "-", "v", "ersion">>, <<"-", "-", "=", "x">>,
   <<"-", "-", "x">>, <<"-", "-", "d", "=", "x">>, <<"-", "-", "h">>, <<>>}

CommandWorlds ==
  {World("pgify", given, posix, {XFile, YFile}, SQL, {}) :
      given \in SeqsUpTo(4, Elements), posix \in BOOLEAN}
  \union {World("pgify", given, FALSE, {YFile}, SQL, {"read", "memory"}) :
      given \in SeqsUpTo(2, Elements \union Refusals)}

(* Words are told apart by their place, so that their order shows.         *)
Words == <<<<"1">>, <<"2">>, <<"3">>, <<"4">>, <<"5">>, <<"6">>>>
TestWorlds ==
  {World("test", [i \in 1 .. 6 |-> IF p[i] = <<"w">> THEN Words[i] ELSE p[i]], FALSE, {}, <<>>, {}) :
      p \in [1 .. 6 -> {<<"w">>, <<"-", "a">>, <<"-", "c">>, <<"-", "-">>}]}
  \union {World("test", <<<<"x">>>> \o given, FALSE, {}, <<>>, {}) :
      given \in SeqsUpTo(2, {<<"y">>, <<"-", "-", "a", "=", "x">>, <<"-", "-", "a", "dd">>, <<"-", "-", "f", "=", "x">>,
                            <<"-", "-", "f">>, <<"-", "-", "v", "=", "x">>, <<"-", "b", "c", "x">>})}

(* Inputs: all short ones, and longer ones behind what opens a token.      *)
Chars == {"E", "q", "Q", "_", "0", " ", "cr", "nl", "'", "dq", "bq", "bs", "#", "-", "/", "*", ".",
          "!", "=", "[", "?", "+", "nul"}

MCCharacters == Chars \union {"a", "e", "]"}

Behind(opening, n, S) == {opening \o t : t \in SeqsUpTo(n, S)}

Texts ==
  SeqsUpTo(2, Chars)
  \union Behind(<<"'">>, 5, {"'", "bs", "e", "nl"})
  \union Behind(<<"e", "'", "0">>, 4, {"'", "0", " ", "nul"})
  \union Behind(<<"q", "'">>, 4, {"[", "]", "?", "'", "e"})
  \union Behind(<<"Q", "'">>, 2, {"?", "'", "e", "nl"})
  \union Behind(<<"0">>, 4, {"0", ".", "E", "-"})
  \union Behind(<<"/", "*">>, 3, {"*", "/", "nl"})
  \union Behind(<<"-", "-">>, 3, {"cr", "nl", "e"})
  \union Behind(<<"bq">>, 3, {"bq", "E", "nl"})
  \union Behind(<<"dq">>, 3, {"dq", "E", "nl"})

TextWorlds ==
  {World("pgify", given, FALSE, {}, text, {}) :
      given \in {<<>>, <<<<"-", "c", "e">>>>}, text \in Texts}

MCWorlds == CommandWorlds \union TestWorlds \union TextWorlds
=============================================================================
