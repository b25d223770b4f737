------------------------------- MODULE Lexer -------------------------------
(***************************************************************************)
(* The lexer that ANTLR makes of mysql.g (mysqlLexer.c): mTokens predicts  *)
(* a rule from the next characters, the rule consumes them, its action may *)
(* change the text of the token or send it to the HIDDEN channel.  A rule  *)
(* that fails gives up what it consumed; the runtime reports the error,    *)
(* skips a little and goes on with mTokens.                                *)
(*                                                                         *)
(* What is abstracted: a character stands for its class (one letter of     *)
(* each kind the rules tell apart, one digit); all words are of one type,  *)
(* keywords too, and so are all operators.  A rule is one step, except the *)
(* quoted string, whose loop takes one step a turn.                        *)
(***************************************************************************)
EXTENDS Integers, Sequences

CONSTANTS
  Characters, (* what a source is made of                                  *)
  ZeroDates,  (* the two quoted literals that MySQL takes for no date      *)
  Recovery    (* how many characters the runtime may skip after an error   *)

EOF == "eof"

ASSUME CharactersAssumption ==
  EOF \notin Characters /\ {"a", "e", "q", "E", "dq"} \subseteq Characters

ASSUME ZeroDatesAssumption == ZeroDates \subseteq Seq(Characters) \ {<<>>}

ASSUME RecoveryAssumption == Recovery \subseteq Nat \ {0}

VARIABLES
  source,     (* the characters of the input stream                        *)
  pgoptions,  (* which flags are set: "ESCAPE", "LOWERID", "DEBUG"         *)
  scanning,   (* "off", "tokens": in mTokens, "string": in mQUOTED_STRING, *)
              (* "done": the end of the input was reached                  *)
  start,      (* where the token begins that is being matched              *)
  pos,        (* the next character                                        *)
  folding,    (* _LA reads lower case letters as upper case                *)
  tokens,     (* the tokens emitted so far                                 *)
  dropped     (* the places of the characters given up after an error      *)

lexerVars == <<source, pgoptions, scanning, start, pos, folding, tokens, dropped>>

-----------------------------------------------------------------------------
(* Characters; "bs" is the backslash, "dq" and "bq" the other quotes.      *)
Letters == {"A", "E", "Q"}
Digits  == {"0"}
IdRest  == Letters \union Digits \union {"_", "$", "#"}
Blanks  == {" ", "tab", "cr", "nl"}

Upper(c) == CASE c = "a" -> "A" [] c = "e" -> "E" [] c = "q" -> "Q" [] OTHER -> c
Lower(c) == CASE c = "A" -> "a" [] c = "E" -> "e" [] c = "Q" -> "q" [] OTHER -> c

Openers   == {"<", "{", "[", "("}
Closer(c) == CASE c = "<" -> ">" [] c = "{" -> "}" [] c = "[" -> "]" [] OTHER -> ")"

Singles == {";", ":", ".", ",", "*", "@", ")", "(", "]", "[", "+", "-", "/",
            "=", "%", "<", ">", "|"}
Doubles == {<<".", ".">>, <<":", "=">>, <<"*", "*">>, <<"=", ">">>, <<"|", "|">>,
            <<"<", "<">>, <<"<", ">">>, <<"<", "=">>, <<">", ">">>, <<">", "=">>,
            <<"!", "=">>, <<"^", "=">>}

(* The character at a place, and what LA reads there.                      *)
Raw(p) == IF p \in 1 .. Len(source) THEN source[p] ELSE EOF
At(p)  == IF folding THEN Upper(Raw(p)) ELSE Raw(p)

Here  == At(start)
There == At(start + 1)
End   == Len(source) + 1

(* The loops (S)* and (~S)*, begun at p, leave off at e.                   *)
Run(S, p, e)   == At(e) \notin S /\ \A i \in p .. e - 1 : At(i) \in S
Until(S, p, e) == At(e) \in S \union {EOF} /\ \A i \in p .. e - 1 : At(i) \notin S \union {EOF}

(* The loop ( options {greedy=false;} : . )* in front of two characters:   *)
(* it leaves off at the first of them even if the input ends behind it.    *)
Shortest(c, d, p, e) ==
  LET stops(i) == At(i) = EOF \/ (At(i) = c /\ At(i + 1) \in {d, EOF})
  IN  stops(e) /\ \A i \in p .. e - 1 : ~stops(i)

-----------------------------------------------------------------------------
(* Slip: the next token begins with the last character of this one.        *)
EmitOverlapping(type, hidden, last, text) ==
  /\ tokens' = Append(tokens, [type |-> type, hidden |-> hidden,
                               first |-> start, last |-> last, text |-> text])
  /\ start' = last
  /\ pos' = last
  /\ scanning' = "tokens"
  /\ UNCHANGED <<source, pgoptions, dropped>>

(* nextToken: the token that was matched goes into the vector.             *)
Emit(type, hidden, last, text) ==
  /\ tokens' = Append(tokens, [type |-> type, hidden |-> hidden,
                               first |-> start, last |-> last, text |-> text])
  /\ start' = last + 1
  /\ pos' = last + 1
  /\ scanning' = "tokens"
  /\ UNCHANGED <<source, pgoptions, dropped>>

(* Slip: nothing is skipped.                                               *)
FailStuck(p) ==
  /\ dropped' = dropped \union (start .. p - 1)
  /\ start' = p
  /\ pos' = p
  /\ scanning' = "tokens"
  /\ UNCHANGED <<source, pgoptions, tokens>>

(* nextToken: a match that failed at p is reported and left behind.        *)
Fail(p) ==
  \E k \in Recovery :
    LET q == IF p + k > End THEN End ELSE p + k
    IN  /\ dropped' = dropped \union (start .. q - 1)
        /\ start' = q
        /\ pos' = q
        /\ scanning' = "tokens"
        /\ UNCHANGED <<source, pgoptions, tokens>>

Slice(last) == SubSeq(source, start, last)

(* A token with the text it has in the source.                             *)
EmitSlice(type, hidden, last) == Emit(type, hidden, last, Slice(last))

-----------------------------------------------------------------------------
(* The prediction in mTokens walks along the zero dates; where the input   *)
(* ends on the way there is no viable alternative.                         *)
IsZeroDate(d) == start + Len(d) <= End /\ \A i \in DOMAIN d : At(start + i - 1) = d[i]
EndsInside(d) == /\ 1 < End - start /\ End - start < Len(d)
                 /\ \A i \in 1 .. End - start : At(start + i - 1) = d[i]

ZeroDate ==
  /\ \E d \in ZeroDates : IsZeroDate(d) /\ Emit("zerodate", FALSE, start + Len(d) - 1, <<"NULL">>)
  /\ UNCHANGED folding

ZeroDateFails == (\E d \in ZeroDates : EndsInside(d)) /\ Fail(start) /\ UNCHANGED folding

(* mQUOTED_STRING: the quote, and then its loop.                           *)
OpenString ==
  /\ Here = "'" /\ There # EOF
  /\ \A d \in ZeroDates : ~IsZeroDate(d) /\ ~EndsInside(d)
  /\ scanning' = "string"
  /\ pos' = start + 1
  /\ UNCHANGED <<source, pgoptions, start, folding, tokens, dropped>>

(* Slip: the quote behind a backslash ends the string.                     *)
StringTurnPlain ==
  /\ At(pos) \notin {"'", EOF}
  /\ pos' = pos + 1
  /\ UNCHANGED <<source, pgoptions, scanning, start, folding, tokens, dropped>>

(* A backslash takes the quote behind it along, unless that is the last    *)
(* character of the input.                                                 *)
StringTurn ==
  /\ At(pos) \notin {"'", EOF}
  /\ pos' = IF At(pos) = "bs" /\ At(pos + 1) = "'" /\ At(pos + 2) # EOF
            THEN pos + 2 ELSE pos + 1
  /\ UNCHANGED <<source, pgoptions, scanning, start, folding, tokens, dropped>>

CloseString ==
  /\ At(pos) = "'"
  /\ Emit("string", FALSE, pos,
          IF "ESCAPE" \in pgoptions THEN <<"E">> \o Slice(pos) ELSE Slice(pos))
  /\ UNCHANGED folding

StringFails == At(pos) = EOF /\ Fail(pos) /\ UNCHANGED folding

Quote == Here = "'" /\ There = EOF /\ EmitSlice("quote", FALSE, start) /\ UNCHANGED folding

(* mQSTRING: q'[ ... ]' and its kin, q'x ... x' for any other delimiter.   *)
IsPerlString == (Here = "Q" /\ There = "'") \/ Here = "q"

PerlString ==
  /\ IsPerlString /\ There = "'" /\ At(start + 2) \in Openers
  /\ \E e \in start + 3 .. End :
        /\ Shortest(Closer(At(start + 2)), "'", start + 3, e)
        /\ IF At(e) # EOF /\ At(e + 1) = "'" THEN EmitSlice("perlstring", FALSE, e + 1)
                                             ELSE Fail(End)
  /\ UNCHANGED folding

(* mQS_OTHER reads without folding; where it fails it does not come to the *)
(* assignment that puts the old _LA back.                                  *)
Continues(i, delimiter) ==
  /\ Raw(i) # EOF /\ Raw(i + 1) # EOF
  /\ Raw(i + 1) = "'" => Raw(i) # delimiter /\ Raw(i + 2) # EOF

(* Slip: the old _LA is not put back.                                      *)
PerlOtherUnfolded ==
  LET delimiter == Raw(start + 2) IN
  /\ IsPerlString /\ There = "'" /\ delimiter \notin Openers \union Blanks \union {EOF}
  /\ \E e \in start + 3 .. End :
        /\ ~Continues(e, delimiter) /\ \A i \in start + 3 .. e - 1 : Continues(i, delimiter)
        /\ IF Raw(e) = delimiter /\ Raw(e + 1) = "'"
           THEN EmitSlice("perlstring", FALSE, e + 1) ELSE Fail(e + 1)
  /\ folding' = FALSE

PerlOther ==
  LET delimiter == Raw(start + 2) IN
  /\ IsPerlString /\ There = "'" /\ delimiter \notin Openers \union Blanks \union {EOF}
  /\ \E e \in start + 3 .. End :
        /\ ~Continues(e, delimiter) /\ \A i \in start + 3 .. e - 1 : Continues(i, delimiter)
        /\ IF Raw(e) = delimiter /\ Raw(e + 1) = "'"
           THEN EmitSlice("perlstring", FALSE, e + 1) /\ UNCHANGED folding
           ELSE Fail(e + 1) /\ folding' = FALSE

PerlFails ==
  /\ IsPerlString /\ (There # "'" \/ At(start + 2) \in Blanks \union {EOF})
  /\ Fail(start + 1)
  /\ UNCHANGED folding

(* mID: a word, or an identifier in quotes; back quotes become quotes.     *)
Word ==
  /\ Here \in Letters /\ ~IsPerlString
  /\ \E e \in start + 1 .. End : Run(IdRest, start + 1, e) /\ EmitSlice("word", FALSE, e - 1)
  /\ UNCHANGED folding

DoubleQuoted ==
  /\ Here = "dq"
  /\ \E e \in start + 1 .. End :
        /\ Until({"dq"}, start + 1, e)
        /\ IF At(e) # EOF THEN EmitSlice("word", FALSE, e) ELSE Fail(e)
  /\ UNCHANGED folding

Identifier(name) ==
  <<"dq">> \o (IF "LOWERID" \in pgoptions
               THEN [i \in DOMAIN name |-> Lower(name[i])] ELSE name) \o <<"dq">>

BackQuoted ==
  /\ Here = "bq" /\ There # EOF
  /\ \E e \in start + 1 .. End :
        /\ Until({"bq"}, start + 1, e)
        /\ IF At(e) # EOF
           THEN Emit("word", FALSE, e, Identifier(SubSeq(source, start + 1, e - 1)))
           ELSE Fail(e)
  /\ UNCHANGED folding

Backtick == Here = "bq" /\ There = EOF /\ EmitSlice("backtick", FALSE, start) /\ UNCHANGED folding

(* mNUMBER: digits, a fraction where a digit follows the point (the        *)
(* syntactic predicate), an exponent that must have digits.                *)
Mantissa(e) ==
  \/ Here = "." /\ Run(Digits, start + 1, e)
  \/ /\ Here # "."
     /\ \E i \in start + 1 .. e :
           /\ Run(Digits, start + 1, i)
           /\ IF At(i) = "." /\ At(i + 1) \in Digits THEN i < e /\ Run(Digits, i + 1, e) ELSE e = i

Number ==
  /\ Here \in Digits \/ (Here = "." /\ There \in Digits)
  /\ \E m \in start + 1 .. End :
        /\ Mantissa(m)
        /\ LET d == IF At(m + 1) \in {"+", "-"} THEN m + 2 ELSE m + 1
           IN  IF At(m) # "E" THEN EmitSlice("number", FALSE, m - 1)
               ELSE IF At(d) \notin Digits THEN Fail(d)
               ELSE \E e \in d + 1 .. End : Run(Digits, d, e) /\ EmitSlice("number", FALSE, e - 1)
  /\ UNCHANGED folding

(* The operators; mNOT_EQ is predicted by its first character alone.       *)
Operator ==
  /\ \/ <<Here, There>> \in Doubles /\ EmitSlice("operator", FALSE, start + 1)
     \/ /\ Here \in Singles /\ <<Here, There>> \notin Doubles
        /\ ~(Here = "." /\ There \in Digits)
        /\ <<Here, There>> \notin {<<"-", "-">>, <<"/", "*">>}
        /\ EmitSlice("operator", FALSE, start)
  /\ UNCHANGED folding

OperatorFails == Here \in {"!", "^"} /\ There # "=" /\ Fail(start + 1) /\ UNCHANGED folding

Blank == Here \in Blanks /\ EmitSlice("blank", TRUE, start) /\ UNCHANGED folding

(* Comments.  One that ends with the line needs the line break.            *)
LineComment(p) ==
  \E e \in p .. End :
    LET n == IF At(e) = "cr" THEN e + 1 ELSE e
    IN  /\ Until({"cr", "nl"}, p, e)
        /\ IF At(n) = "nl" THEN EmitSlice("comment", TRUE, n) ELSE Fail(n)

SlComment    == Here = "-" /\ There = "-" /\ LineComment(start + 2) /\ UNCHANGED folding
MysqlComment == Here = "#" /\ LineComment(start + 1) /\ UNCHANGED folding

MlComment ==
  /\ Here = "/" /\ There = "*"
  /\ \E e \in start + 2 .. End :
        /\ Shortest("*", "/", start + 2, e)
        /\ IF At(e) # EOF /\ At(e + 1) = "/" THEN EmitSlice("comment", TRUE, e + 1)
                                             ELSE Fail(End)
  /\ UNCHANGED folding

(* No rule begins with this character.                                     *)
NoViable ==
  /\ Here \notin Letters \union Digits \union Blanks \union Singles
                 \union {"'", "dq", "bq", "#", "!", "^", "q"}
  /\ Fail(start)
  /\ UNCHANGED folding

mTokens ==
  /\ scanning = "tokens" /\ start < End
  /\ \/ ZeroDate \/ ZeroDateFails \/ OpenString \/ Quote
     \/ PerlString \/ PerlOther \/ PerlFails
     \/ Word \/ DoubleQuoted \/ BackQuoted \/ Backtick
     \/ Number \/ Operator \/ OperatorFails \/ Blank
     \/ SlComment \/ MysqlComment \/ MlComment \/ NoViable

QuotedString == scanning = "string" /\ (StringTurn \/ CloseString \/ StringFails)

EndOfInput ==
  /\ scanning = "tokens" /\ start = End
  /\ scanning' = "done"
  /\ UNCHANGED <<source, pgoptions, start, pos, folding, tokens, dropped>>

LexerNext == mTokens \/ QuotedString \/ EndOfInput

LexerInit ==
  /\ source = <<>> /\ pgoptions = {}
  /\ scanning = "off" /\ start = 1 /\ pos = 1 /\ folding = FALSE
  /\ tokens = <<>> /\ dropped = {}

(* pgify: the stream is set to fold, the lexer is made for it.             *)
StartLexer(text, options) ==
  /\ scanning = "off"
  /\ source' = text /\ pgoptions' = options
  /\ scanning' = "tokens" /\ folding' = TRUE
  /\ UNCHANGED <<start, pos, tokens, dropped>>

-----------------------------------------------------------------------------
(* Every character that was read is in one token, or was given up with an  *)
(* error and is in none; tokens follow each other as in the source.  About *)
(* all rules and the places where they leave off (mTokens).                *)
Tiled ==
  /\ \A i \in DOMAIN tokens : tokens[i].first <= tokens[i].last /\ tokens[i].last < start
  /\ \A i, j \in DOMAIN tokens : i < j => tokens[i].last < tokens[j].first
  /\ dropped = {p \in 1 .. start - 1 :
                   \A i \in DOMAIN tokens : p \notin tokens[i].first .. tokens[i].last}

(* mQS_OTHER turns folding off and puts it back only when it succeeds: the *)
(* words of the rest of the input would not be recognised.  It fails at    *)
(* the end of the input only, so that every token begins with folding on.  *)
FoldsAtTokens == scanning = "tokens" /\ start < End => folding

(* Where PostgreSQL closes a literal that begins with E and a quote; 0 if  *)
(* it does not.                                                            *)
ClosesAt(text) ==
  LET closes[p \in 1 .. Len(text) + 2] ==
        IF p > Len(text) THEN 0
        ELSE CASE text[p] = "bs" -> closes[p + 2]
               [] text[p] = "'"  -> p
               [] OTHER          -> closes[p + 1]
  IN  closes[3]

DoubledBackslash(text) ==
  \E p \in 1 .. Len(text) - 1 : text[p] = "bs" /\ text[p + 1] = "bs"

(* A string token ends where PostgreSQL takes its text to end, and not     *)
(* earlier, so that what follows it in the output is not read as part of   *)
(* it nor the other way round.  About the loop of mQUOTED_STRING and its   *)
(* prefix E.  Two backslashes in a row are left out, because behind them   *)
(* mQUOTED_STRING takes a quote along that ends the string; and a string   *)
(* at the very end, which may end behind a backslash because nothing else  *)
(* comes.                                                                  *)
ReadAsOneLiteral ==
  \A i \in DOMAIN tokens :
     LET t == tokens[i]
     IN  /\ t.type = "string" /\ "ESCAPE" \in pgoptions
         /\ ~DoubledBackslash(t.text) /\ t.last < Len(source)
         => t.text[1] = "E" /\ ClosesAt(t.text) = Len(t.text)
=============================================================================
