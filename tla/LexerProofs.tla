---------------------------- MODULE LexerProofs ----------------------------
(***************************************************************************)
(* Proofs about the lexer: what every step of it preserves, for every      *)
(* input and whatever the runtime skips after an error.  The theorems are  *)
(* those of ProgramProofs, where the lexer is started.                     *)
(***************************************************************************)
EXTENDS Lexer, TLAPS

Types == {"zerodate", "string", "quote", "perlstring", "word", "backtick",
          "number", "operator", "blank", "comment"}
Texts == Seq(Characters \union {"NULL"})
Tokens == [type : Types, hidden : BOOLEAN, first : Nat \ {0}, last : Nat, text : Texts]

(* The cursors stay in the input.                                          *)
CursorsOK ==
  /\ source \in Seq(Characters)
  /\ tokens \in Seq(Tokens)
  /\ scanning \in {"off", "tokens", "string", "done"}
  /\ start \in 1 .. End /\ pos \in start .. End
  /\ scanning \in {"tokens", "done"} => pos = start
  /\ scanning = "off" => start = 1 /\ pos = 1 /\ tokens = <<>>
  /\ scanning = "string" => start < pos /\ folding
  /\ folding \in BOOLEAN

LexerInv == CursorsOK /\ Tiled /\ FoldsAtTokens

LEMMA PlacesOfTokens ==
  ASSUME tokens \in Seq(Tokens), NEW i \in DOMAIN tokens
  PROVE  tokens[i].first \in Nat /\ tokens[i].last \in Nat
<1>1. tokens[i] \in Tokens
      OBVIOUS
<1>2. \A t \in Tokens : t.first \in Nat /\ t.last \in Nat
      BY DEF Tokens
<1>3. QED BY <1>1, <1>2

(* A token that begins where the last one left off keeps everything.       *)
LEMMA EmitKeeps ==
  ASSUME LexerInv, folding, folding' = folding,
         NEW type \in Types, NEW hidden \in BOOLEAN, NEW last \in start .. End - 1,
         NEW text \in Texts, Emit(type, hidden, last, text)
  PROVE  LexerInv'
<1> DEFINE t == [type |-> type, hidden |-> hidden, first |-> start, last |-> last, text |-> text]
<1>1. /\ source \in Seq(Characters) /\ tokens \in Seq(Tokens)
      /\ start \in Nat \ {0} /\ last \in Nat /\ start <= last /\ last < End
      /\ Len(source) \in Nat
      BY DEF LexerInv, CursorsOK, End
<1>2. /\ tokens' = Append(tokens, t)
      /\ start' = last + 1 /\ pos' = last + 1 /\ scanning' = "tokens"
      /\ source' = source /\ dropped' = dropped
      BY DEF Emit
<1>3. t \in Tokens
      BY <1>1 DEF Tokens
<1>4. t.first = start /\ t.last = last
      OBVIOUS
<1> HIDE DEF t
<1>5. tokens' \in Seq(Tokens)
      BY <1>1, <1>2, <1>3
<1>6. CursorsOK'
      BY <1>1, <1>2, <1>5 DEF CursorsOK, End
<1>7. /\ DOMAIN tokens = 1 .. Len(tokens) /\ DOMAIN tokens' = 1 .. Len(tokens) + 1
      /\ \A i \in 1 .. Len(tokens) : tokens'[i] = tokens[i]
      /\ tokens'[Len(tokens) + 1] = t
      /\ Len(tokens) \in Nat
      BY <1>1, <1>2, <1>3
<1>8. \A i \in DOMAIN tokens : tokens[i].first \in Nat /\ tokens[i].last \in Nat
      BY <1>1, PlacesOfTokens
<1>9. Tiled'
  <2>1. /\ \A i \in DOMAIN tokens : tokens[i].first <= tokens[i].last /\ tokens[i].last < start
        /\ \A i, j \in DOMAIN tokens : i < j => tokens[i].last < tokens[j].first
        /\ dropped = {p \in 1 .. start - 1 :
                         \A i \in DOMAIN tokens : p \notin tokens[i].first .. tokens[i].last}
        BY DEF LexerInv, Tiled
  <2>2. \A i \in DOMAIN tokens' : tokens'[i].first <= tokens'[i].last /\ tokens'[i].last < last + 1
        BY <1>1, <1>4, <1>7, <1>8, <2>1
  <2>3. \A i, j \in DOMAIN tokens' : i < j => tokens'[i].last < tokens'[j].first
        BY <1>1, <1>4, <1>7, <1>8, <2>1
  <2>4. dropped' = {p \in 1 .. last :
                       \A i \in DOMAIN tokens' : p \notin tokens'[i].first .. tokens'[i].last}
    <3>1. ASSUME NEW p \in dropped
          PROVE  p \in 1 .. last /\ \A i \in DOMAIN tokens' : p \notin tokens'[i].first .. tokens'[i].last
          BY <1>1, <1>4, <1>7, <1>8, <2>1
    <3>2. ASSUME NEW p \in 1 .. last,
                 \A i \in DOMAIN tokens' : p \notin tokens'[i].first .. tokens'[i].last
          PROVE  p \in dropped
      <4>1. p \notin start .. last
            BY <1>4, <1>7, <3>2
      <4>2. p \in 1 .. start - 1
            BY <1>1, <4>1
      <4>3. \A i \in DOMAIN tokens : p \notin tokens[i].first .. tokens[i].last
            BY <1>7, <3>2
      <4>4. QED BY <2>1, <4>2, <4>3
    <3>3. QED BY <1>2, <3>1, <3>2
  <2>5. last + 1 - 1 = last
        BY <1>1
  <2>6. QED BY <1>2, <2>2, <2>3, <2>4, <2>5 DEF Tiled
<1>10. QED BY <1>6, <1>9 DEF LexerInv, FoldsAtTokens

(* What a failed match gives up is in no token.                            *)
LEMMA FailKeeps ==
  ASSUME LexerInv, NEW p \in start .. End + 1, Fail(p),
         folding' \in BOOLEAN, folding' \/ p + 1 >= End
  PROVE  LexerInv'
<1>1. PICK k \in Recovery : LET q == IF p + k > End THEN End ELSE p + k IN
         /\ dropped' = dropped \union (start .. q - 1)
         /\ start' = q /\ pos' = q /\ scanning' = "tokens"
         /\ UNCHANGED <<source, pgoptions, tokens>>
      BY DEF Fail
<1> DEFINE q == IF p + k > End THEN End ELSE p + k
<1>2. k \in Nat \ {0}
      BY RecoveryAssumption
<1>3. /\ source \in Seq(Characters) /\ tokens \in Seq(Tokens)
      /\ start \in Nat \ {0} /\ End \in Nat /\ start <= End
      BY DEF LexerInv, CursorsOK, End
<1>4. /\ q \in start .. End /\ (p + 1 >= End => q = End) /\ q \in Nat \ {0}
      BY <1>2, <1>3
<1>5. /\ dropped' = dropped \union (start .. q - 1)
      /\ start' = q /\ pos' = q /\ scanning' = "tokens"
      /\ source' = source /\ tokens' = tokens /\ End' = End
      BY <1>1 DEF End
<1> HIDE DEF q
<1>6. CursorsOK'
      BY <1>3, <1>4, <1>5 DEF CursorsOK
<1>7. \A i \in DOMAIN tokens : tokens[i].first \in Nat /\ tokens[i].last \in Nat
      BY <1>3, PlacesOfTokens
<1>8. Tiled'
  <2>1. /\ \A i \in DOMAIN tokens : tokens[i].first <= tokens[i].last /\ tokens[i].last < start
        /\ \A i, j \in DOMAIN tokens : i < j => tokens[i].last < tokens[j].first
        /\ dropped = {r \in 1 .. start - 1 :
                         \A i \in DOMAIN tokens : r \notin tokens[i].first .. tokens[i].last}
        BY DEF LexerInv, Tiled
  <2>2. \A i \in DOMAIN tokens : tokens[i].last < q
        BY <1>3, <1>4, <1>7, <2>1
  <2>3. dropped' = {r \in 1 .. q - 1 :
                       \A i \in DOMAIN tokens : r \notin tokens[i].first .. tokens[i].last}
    <3>1. \A r \in start .. q - 1 : \A i \in DOMAIN tokens : r \notin tokens[i].first .. tokens[i].last
          BY <1>3, <1>4, <1>7, <2>1
    <3>2. \A r : r \in 1 .. q - 1 <=> r \in 1 .. start - 1 \/ r \in start .. q - 1
          BY <1>3, <1>4
    <3>3. QED BY <1>5, <2>1, <3>1, <3>2
  <2>4. QED BY <1>5, <2>1, <2>2, <2>3 DEF Tiled
<1>9. QED BY <1>4, <1>5, <1>6, <1>8 DEF LexerInv, FoldsAtTokens

-----------------------------------------------------------------------------
(* Behind the last character, and only there, LA gives EOF.                *)
LEMMA EndsAtEOF ==
  ASSUME LexerInv, NEW p \in Int
  PROVE  /\ At(p) # EOF => p \in 1 .. End - 1
         /\ Raw(p) = EOF => p \notin 1 .. End - 1
<1>1. source \in Seq(Characters) /\ Len(source) \in Nat
      BY DEF LexerInv, CursorsOK
<1>2. p \notin 1 .. Len(source) => At(p) = EOF
      BY DEF At, Raw, Upper, EOF
<1>3. p \in 1 .. Len(source) => Raw(p) \in Characters
      BY <1>1 DEF Raw
<1>4. End - 1 = Len(source)
      BY <1>1 DEF End
<1>5. QED BY <1>2, <1>3, <1>4, CharactersAssumption

(* What is cut out of the source is a text.                                *)
LEMMA SlicesAreTexts ==
  ASSUME LexerInv, NEW i \in 1 .. End, NEW j \in 0 .. End - 1
  PROVE  SubSeq(source, i, j) \in Seq(Characters) /\ SubSeq(source, i, j) \in Texts
<1>1. source \in Seq(Characters) /\ Len(source) \in Nat /\ End - 1 = Len(source)
      BY DEF LexerInv, CursorsOK, End
<1>2. \A n \in i .. j : source[n] \in Characters
      BY <1>1
<1>3. SubSeq(source, i, j) \in Seq(Characters)
      BY <1>1, <1>2
<1>4. QED BY <1>3 DEF Texts

(* mTokens, at a place where a token may begin.                            *)
LEMMA EmitSliceKeeps ==
  ASSUME LexerInv, folding, folding' = folding,
         NEW type \in Types, NEW hidden \in BOOLEAN, NEW last \in start .. End - 1,
         EmitSlice(type, hidden, last)
  PROVE  LexerInv'
<1>1. start \in 1 .. End /\ last \in 0 .. End - 1
      BY DEF LexerInv, CursorsOK
<1>2. Slice(last) \in Texts
      BY <1>1, SlicesAreTexts DEF Slice
<1>3. QED BY <1>2, EmitKeeps DEF EmitSlice

(* An identifier in back quotes becomes one in quotes.                     *)
LEMMA IdentifiersAreTexts ==
  ASSUME NEW name \in Seq(Characters)
  PROVE  Identifier(name) \in Texts
<1> DEFINE lowered == [i \in DOMAIN name |-> Lower(name[i])]
<1>1. Len(name) \in Nat /\ DOMAIN name = 1 .. Len(name)
      OBVIOUS
<1>2. \A i \in DOMAIN name : Lower(name[i]) \in Characters
      BY CharactersAssumption DEF Lower
<1>3. lowered \in Seq(Characters)
      BY <1>1, <1>2
<1>4. <<"dq">> \in Seq(Characters)
      BY CharactersAssumption
<1> HIDE DEF lowered
<1>5. \A s \in Seq(Characters) : <<"dq">> \o s \o <<"dq">> \in Seq(Characters)
      BY <1>4
<1>6. Identifier(name) \in Seq(Characters)
      BY <1>3, <1>5 DEF Identifier, lowered
<1>7. QED BY <1>6 DEF Texts

(* A comment that ends with the line.                                      *)
LEMMA LineCommentKeeps ==
  ASSUME LexerInv, start < End, folding, folding' = folding,
         NEW p \in start + 1 .. End, LineComment(p)
  PROVE  LexerInv'
<1>1. start \in Nat \ {0} /\ End \in Nat /\ folding' \in BOOLEAN
      BY DEF LexerInv, CursorsOK, End
<1>2. PICK e \in p .. End :
         LET n == IF At(e) = "cr" THEN e + 1 ELSE e
         IN  IF At(n) = "nl" THEN EmitSlice("comment", TRUE, n) ELSE Fail(n)
      BY DEF LineComment
<1> DEFINE n == IF At(e) = "cr" THEN e + 1 ELSE e
<1>3. At(e) = "cr" => e \in 1 .. End - 1
      BY <1>1, EndsAtEOF DEF EOF
<1>4. n \in start .. End
      BY <1>1, <1>3
<1>5. IF At(n) = "nl" THEN EmitSlice("comment", TRUE, n) ELSE Fail(n)
      BY <1>2
<1> HIDE DEF n
<1>6. At(n) = "nl" => n \in start .. End - 1
      BY <1>1, <1>4, EndsAtEOF DEF EOF
<1>7. "comment" \in Types
      BY DEF Types
<1>8. CASE At(n) = "nl"
      BY <1>1, <1>5, <1>6, <1>7, <1>8, EmitSliceKeeps
<1>9. CASE At(n) # "nl"
      BY <1>1, <1>4, <1>5, <1>9, FailKeeps
<1>10. QED BY <1>8, <1>9

(* A step of mTokens, rule by rule: a token that is emitted ends in front  *)
(* of the end of the input, and mQS_OTHER fails only there.                *)
LEMMA RuleKeeps ==
  ASSUME LexerInv, mTokens
  PROVE  LexerInv'
<1>1. /\ scanning = "tokens" /\ start < End /\ folding /\ folding \in BOOLEAN
      /\ start \in Nat \ {0} /\ End \in Nat /\ pos = start
      BY DEF mTokens, LexerInv, CursorsOK, FoldsAtTokens, End
<1>0. /\ start \in start .. End - 1 /\ End \in start .. End + 1
      /\ {"quote", "backtick", "blank", "operator"} \subseteq Types /\ {TRUE, FALSE} \subseteq BOOLEAN
      BY <1>1 DEF Types
<1>2. CASE ZeroDate
  <2>1. PICK d \in ZeroDates :
           IsZeroDate(d) /\ Emit("zerodate", FALSE, start + Len(d) - 1, <<"NULL">>)
        BY <1>2 DEF ZeroDate
  <2>2. Len(d) \in Nat \ {0}
        BY ZeroDatesAssumption
  <2>3. start + Len(d) - 1 \in start .. End - 1
        BY <1>1, <2>1, <2>2 DEF IsZeroDate
  <2>4. <<"NULL">> \in Texts /\ "zerodate" \in Types /\ FALSE \in BOOLEAN
        BY DEF Texts, Types
  <2>5. QED BY <1>1, <1>2, <2>1, <2>3, <2>4, EmitKeeps DEF ZeroDate
<1>3. CASE ZeroDateFails
      BY <1>1, <1>3, FailKeeps DEF ZeroDateFails
<1>4. CASE OpenString
  <2>1. /\ scanning' = "string" /\ pos' = start + 1 /\ start' = start /\ folding' = folding
        /\ source' = source /\ tokens' = tokens /\ dropped' = dropped /\ End' = End
        BY <1>4 DEF OpenString, End
  <2>2. CursorsOK'
        BY <1>1, <2>1 DEF LexerInv, CursorsOK
  <2>3. Tiled'
        BY <2>1 DEF LexerInv, Tiled
  <2>4. QED BY <2>1, <2>2, <2>3 DEF LexerInv, FoldsAtTokens
<1>5. CASE Quote
  <2>1. EmitSlice("quote", FALSE, start) /\ folding' = folding
        BY <1>5 DEF Quote
  <2>2. QED BY <1>0, <1>1, <2>1, EmitSliceKeeps
<1>6. CASE PerlString
  <2>1. PICK e \in start + 3 .. End :
           IF At(e) # EOF /\ At(e + 1) = "'" THEN EmitSlice("perlstring", FALSE, e + 1) ELSE Fail(End)
        BY <1>6 DEF PerlString
  <2>2. At(e + 1) = "'" => e + 1 \in start .. End - 1
        BY <1>1, EndsAtEOF DEF EOF
  <2>3. folding' = folding /\ "perlstring" \in Types
        BY <1>6 DEF PerlString, Types
  <2>4. CASE At(e) # EOF /\ At(e + 1) = "'"
        BY <1>1, <2>1, <2>2, <2>3, <2>4, EmitSliceKeeps
  <2>5. CASE ~(At(e) # EOF /\ At(e + 1) = "'")
        BY <1>0, <1>1, <2>1, <2>3, <2>5, FailKeeps
  <2>6. QED BY <2>4, <2>5
<1>7. CASE PerlOther
  <2> DEFINE delimiter == Raw(start + 2)
  <2>1. PICK e \in start + 3 .. End :
           /\ ~Continues(e, delimiter)
           /\ IF Raw(e) = delimiter /\ Raw(e + 1) = "'"
              THEN EmitSlice("perlstring", FALSE, e + 1) /\ UNCHANGED folding
              ELSE Fail(e + 1) /\ folding' = FALSE
        BY <1>7 DEF PerlOther
  <2> HIDE DEF delimiter
  <2>2. CASE Raw(e) = delimiter /\ Raw(e + 1) = "'"
    <3>1. e + 1 \in start .. End - 1
          BY <1>1, <2>2 DEF Raw, EOF, End
    <3>2. "perlstring" \in Types /\ folding' = folding
          BY <2>1, <2>2 DEF Types
    <3>3. QED BY <1>1, <2>1, <2>2, <3>1, <3>2, EmitSliceKeeps
  <2>3. CASE ~(Raw(e) = delimiter /\ Raw(e + 1) = "'")
    <3>1. Raw(e) = EOF \/ Raw(e + 1) = EOF \/ Raw(e + 2) = EOF
          BY <2>1, <2>3 DEF Continues
    <3>2. e + 2 >= End
          BY <1>1, <3>1, EndsAtEOF
    <3>3. e + 1 \in start .. End + 1 /\ e + 1 + 1 >= End
          BY <1>1, <3>2
    <3>4. Fail(e + 1) /\ folding' = FALSE
          BY <2>1, <2>3
    <3>5. QED BY <3>3, <3>4, FailKeeps
  <2>4. QED BY <2>2, <2>3
<1>8. CASE PerlFails
      BY <1>1, <1>8, FailKeeps DEF PerlFails
<1>9. CASE Word
  <2>1. PICK e \in start + 1 .. End : EmitSlice("word", FALSE, e - 1)
        BY <1>9 DEF Word
  <2>2. e - 1 \in start .. End - 1 /\ "word" \in Types /\ folding' = folding
        BY <1>1, <1>9 DEF Types, Word
  <2>3. QED BY <1>1, <2>1, <2>2, EmitSliceKeeps
<1>10. CASE DoubleQuoted
  <2>1. PICK e \in start + 1 .. End : IF At(e) # EOF THEN EmitSlice("word", FALSE, e) ELSE Fail(e)
        BY <1>10 DEF DoubleQuoted
  <2>2. (At(e) # EOF => e \in start .. End - 1) /\ "word" \in Types /\ folding' = folding
        BY <1>1, <1>10, EndsAtEOF DEF Types, DoubleQuoted
  <2>3. CASE At(e) # EOF
        BY <1>1, <2>1, <2>2, <2>3, EmitSliceKeeps
  <2>4. CASE At(e) = EOF
        BY <1>1, <2>1, <2>2, <2>4, FailKeeps
  <2>5. QED BY <2>3, <2>4
<1>11. CASE BackQuoted
  <2>1. PICK e \in start + 1 .. End :
           IF At(e) # EOF THEN Emit("word", FALSE, e, Identifier(SubSeq(source, start + 1, e - 1)))
                          ELSE Fail(e)
        BY <1>11 DEF BackQuoted
  <2>2. (At(e) # EOF => e \in start .. End - 1) /\ "word" \in Types /\ folding' = folding
        BY <1>1, <1>11, EndsAtEOF DEF Types, BackQuoted
  <2>3. CASE At(e) # EOF
    <3> DEFINE name == SubSeq(source, start + 1, e - 1)
    <3>1. name \in Seq(Characters)
          BY <1>1, <2>2, <2>3, SlicesAreTexts
    <3> HIDE DEF name
    <3>2. Identifier(name) \in Texts
          BY <3>1, IdentifiersAreTexts
    <3>3. QED BY <1>1, <2>1, <2>2, <2>3, <3>2, EmitKeeps DEF name
  <2>4. CASE At(e) = EOF
        BY <1>1, <2>1, <2>2, <2>4, FailKeeps
  <2>5. QED BY <2>3, <2>4
<1>12. CASE Backtick
  <2>1. EmitSlice("backtick", FALSE, start) /\ folding' = folding
        BY <1>12 DEF Backtick
  <2>2. QED BY <1>0, <1>1, <2>1, EmitSliceKeeps
<1>13. CASE Number
  <2>1. PICK m \in start + 1 .. End :
           LET d == IF At(m + 1) \in {"+", "-"} THEN m + 2 ELSE m + 1
           IN  IF At(m) # "E" THEN EmitSlice("number", FALSE, m - 1)
               ELSE IF At(d) \notin Digits THEN Fail(d)
               ELSE \E e \in d + 1 .. End : Run(Digits, d, e) /\ EmitSlice("number", FALSE, e - 1)
        BY <1>13 DEF Number
  <2> DEFINE d == IF At(m + 1) \in {"+", "-"} THEN m + 2 ELSE m + 1
  <2>2. "number" \in Types /\ folding' = folding /\ FALSE \in BOOLEAN
        BY <1>13 DEF Types, Number
  <2>3. CASE At(m) # "E"
    <3>1. m - 1 \in start .. End - 1
          BY <1>1
    <3>2. QED BY <1>1, <2>1, <2>2, <2>3, <3>1, EmitSliceKeeps
  <2>4. CASE At(m) = "E"
    <3>1. m \in 1 .. End - 1 /\ (At(m + 1) \in {"+", "-"} => m + 1 \in 1 .. End - 1)
          BY <1>1, <2>4, EndsAtEOF DEF EOF
    <3>2. d \in start + 1 .. End
          BY <1>1, <3>1
    <3>3. IF At(d) \notin Digits THEN Fail(d)
          ELSE \E e \in d + 1 .. End : Run(Digits, d, e) /\ EmitSlice("number", FALSE, e - 1)
          BY <2>1, <2>4
    <3> HIDE DEF d
    <3>4. CASE At(d) \notin Digits
          BY <1>1, <2>2, <3>2, <3>3, <3>4, FailKeeps
    <3>5. CASE At(d) \in Digits
      <4>1. PICK e \in d + 1 .. End : EmitSlice("number", FALSE, e - 1)
            BY <3>3, <3>5
      <4>2. e - 1 \in start .. End - 1
            BY <1>1, <3>2
      <4>3. QED BY <1>1, <2>2, <4>1, <4>2, EmitSliceKeeps
    <3>6. QED BY <3>4, <3>5
  <2>5. QED BY <2>3, <2>4
<1>14. CASE Operator
  <2>1. "operator" \in Types /\ folding' = folding
        BY <1>14 DEF Types, Operator
  <2>2. CASE <<Here, There>> \in Doubles /\ EmitSlice("operator", FALSE, start + 1)
    <3>1. There # EOF
          BY <2>2 DEF Doubles, EOF
    <3>2. start + 1 \in start .. End - 1
          BY <1>1, <3>1, EndsAtEOF DEF There
    <3>3. QED BY <1>1, <2>1, <2>2, <3>2, EmitSliceKeeps
  <2>3. CASE EmitSlice("operator", FALSE, start)
        BY <1>0, <1>1, <2>1, <2>3, EmitSliceKeeps
  <2>4. QED BY <1>14, <2>2, <2>3 DEF Operator
<1>15. CASE OperatorFails
      BY <1>1, <1>15, FailKeeps DEF OperatorFails
<1>16. CASE Blank
  <2>1. EmitSlice("blank", TRUE, start) /\ folding' = folding
        BY <1>16 DEF Blank
  <2>2. QED BY <1>0, <1>1, <2>1, EmitSliceKeeps
<1>17. CASE SlComment
  <2>1. There # EOF
        BY <1>17 DEF SlComment, EOF
  <2>2. start + 2 \in start + 1 .. End
        BY <1>1, <2>1, EndsAtEOF DEF There
  <2>3. QED BY <1>1, <1>17, <2>2, LineCommentKeeps DEF SlComment
<1>18. CASE MysqlComment
  <2>1. start + 1 \in start + 1 .. End
        BY <1>1
  <2>2. QED BY <1>1, <1>18, <2>1, LineCommentKeeps DEF MysqlComment
<1>19. CASE MlComment
  <2>1. PICK e \in start + 2 .. End :
           IF At(e) # EOF /\ At(e + 1) = "/" THEN EmitSlice("comment", TRUE, e + 1) ELSE Fail(End)
        BY <1>19 DEF MlComment
  <2>2. At(e + 1) = "/" => e + 1 \in start .. End - 1
        BY <1>1, EndsAtEOF DEF EOF
  <2>3. folding' = folding /\ "comment" \in Types
        BY <1>19 DEF MlComment, Types
  <2>4. CASE At(e) # EOF /\ At(e + 1) = "/"
        BY <1>1, <2>1, <2>2, <2>3, <2>4, EmitSliceKeeps
  <2>5. CASE ~(At(e) # EOF /\ At(e + 1) = "/")
        BY <1>0, <1>1, <2>1, <2>3, <2>5, FailKeeps
  <2>6. QED BY <2>4, <2>5
<1>20. CASE NoViable
      BY <1>1, <1>20, FailKeeps DEF NoViable
<1>21. QED
      BY <1>2, <1>3, <1>4, <1>5, <1>6, <1>7, <1>8, <1>9, <1>10, <1>11, <1>12, <1>13,
         <1>14, <1>15, <1>16, <1>17, <1>18, <1>19, <1>20 DEF mTokens

(* A step of mQUOTED_STRING: its loop does not run past the end.           *)
LEMMA QuotedStringKeeps ==
  ASSUME LexerInv, QuotedString
  PROVE  LexerInv'
<1>1. /\ scanning = "string" /\ folding /\ folding \in BOOLEAN /\ start < pos
      /\ start \in Nat \ {0} /\ End \in Nat /\ pos \in start .. End
      BY DEF QuotedString, LexerInv, CursorsOK, End
<1>2. CASE StringTurn
  <2>1. /\ At(pos) # EOF
        /\ pos' = pos + 1 \/ (pos' = pos + 2 /\ At(pos + 1) # EOF)
        BY <1>2 DEF StringTurn, EOF
  <2>2. pos' \in pos + 1 .. End
        BY <1>1, <2>1, EndsAtEOF
  <2>3. /\ scanning' = scanning /\ start' = start /\ folding' = folding
        /\ source' = source /\ tokens' = tokens /\ dropped' = dropped /\ End' = End
        BY <1>2 DEF StringTurn, End
  <2>4. CursorsOK'
        BY <1>1, <2>2, <2>3 DEF LexerInv, CursorsOK
  <2>5. Tiled' /\ FoldsAtTokens'
        BY <1>1, <2>3 DEF LexerInv, Tiled, FoldsAtTokens
  <2>6. QED BY <2>4, <2>5 DEF LexerInv
<1>3. CASE CloseString
  <2> DEFINE text == IF "ESCAPE" \in pgoptions THEN <<"E">> \o Slice(pos) ELSE Slice(pos)
  <2>1. Emit("string", FALSE, pos, text) /\ folding' = folding /\ At(pos) # EOF
        BY <1>3 DEF CloseString, EOF
  <2>2. pos \in start .. End - 1
        BY <1>1, <2>1, EndsAtEOF
  <2>3. start \in 1 .. End /\ pos \in 0 .. End - 1
        BY <1>1, <2>2
  <2>4. Slice(pos) \in Seq(Characters)
        BY <2>3, SlicesAreTexts DEF Slice
  <2>5. <<"E">> \o Slice(pos) \in Seq(Characters)
        BY <2>4, CharactersAssumption
  <2>6. text \in Texts
    <3>1. \A t \in Seq(Characters) : t \in Texts
          BY DEF Texts
    <3>2. <<"E">> \o Slice(pos) \in Texts /\ Slice(pos) \in Texts
          BY <2>4, <2>5, <3>1
    <3>3. QED BY <3>2
  <2>7. "string" \in Types /\ FALSE \in BOOLEAN
        BY DEF Types
  <2> HIDE DEF text
  <2>8. QED BY <1>1, <2>1, <2>2, <2>6, <2>7, EmitKeeps
<1>4. CASE StringFails
  <2>1. Fail(pos) /\ folding' = folding /\ pos \in start .. End + 1
        BY <1>1, <1>4 DEF StringFails
  <2>2. QED BY <1>1, <2>1, FailKeeps
<1>5. QED BY <1>2, <1>3, <1>4 DEF QuotedString

(* The lexer begins at the front of the input and with folding on, and     *)
(* every step of it, and of anybody else, keeps the invariant.             *)
LEMMA LexerBegins == LexerInit => LexerInv
<1> SUFFICES ASSUME LexerInit PROVE LexerInv
    OBVIOUS
<1>1. /\ source = <<>> /\ scanning = "off" /\ start = 1 /\ pos = 1 /\ folding = FALSE
      /\ tokens = <<>> /\ dropped = {}
      BY DEF LexerInit
<1>2. End = 1 /\ source \in Seq(Characters) /\ tokens \in Seq(Tokens)
      BY <1>1 DEF End
<1>3. CursorsOK
  <2>1. start \in 1 .. End /\ pos \in start .. End
        BY <1>1, <1>2
  <2>2. QED BY <1>1, <1>2, <2>1 DEF CursorsOK
<1>4. Tiled
      BY <1>1 DEF Tiled
<1>5. QED BY <1>1, <1>3, <1>4 DEF LexerInv, FoldsAtTokens

LEMMA StartKeeps ==
  ASSUME LexerInv, NEW text \in Seq(Characters), NEW options, StartLexer(text, options)
  PROVE  LexerInv'
<1>1. /\ scanning = "off" /\ start = 1 /\ pos = 1 /\ tokens = <<>> /\ tokens \in Seq(Tokens)
      BY DEF StartLexer, LexerInv, CursorsOK
<1>2. /\ source' = text /\ scanning' = "tokens" /\ folding' = TRUE
      /\ start' = start /\ pos' = pos /\ tokens' = tokens /\ dropped' = dropped
      BY DEF StartLexer
<1>3. End' \in Nat \ {0}
      BY <1>2 DEF End
<1>4. CursorsOK'
      BY <1>1, <1>2, <1>3 DEF CursorsOK
<1>5. Tiled'
      BY <1>2 DEF LexerInv, Tiled
<1>6. QED BY <1>2, <1>4, <1>5 DEF LexerInv, FoldsAtTokens

LEMMA LexerKeeps ==
  ASSUME LexerInv, LexerNext \/ UNCHANGED lexerVars
  PROVE  LexerInv'
<1>1. CASE UNCHANGED lexerVars
      BY <1>1 DEF LexerInv, CursorsOK, Tiled, FoldsAtTokens, End, lexerVars
<1>2. CASE EndOfInput
  <2>1. /\ scanning = "tokens" /\ scanning' = "done"
        /\ UNCHANGED <<source, start, pos, folding, tokens, dropped>>
        BY <1>2 DEF EndOfInput
  <2>2. CursorsOK'
        BY <2>1 DEF LexerInv, CursorsOK, End
  <2>3. Tiled' /\ FoldsAtTokens'
        BY <2>1 DEF LexerInv, Tiled, FoldsAtTokens
  <2>4. QED BY <2>2, <2>3 DEF LexerInv
<1>3. QED BY <1>1, <1>2, RuleKeeps, QuotedStringKeeps DEF LexerNext

-----------------------------------------------------------------------------
(* Quoted strings.  Inside of one every quote stands behind a backslash,   *)
(* and a quote that ends one does so only if it is the last character.     *)
Quoted(chars, a, b) ==
  chars[a] = "'" /\ \A p \in a + 1 .. b - 1 : chars[p] = "'" => chars[p - 1] = "bs"

LastIfEscaped(chars, p) == chars[p] = "'" /\ chars[p - 1] = "bs" => p = Len(chars)

IsString(t, chars, options) ==
  /\ t.first < t.last /\ t.last <= Len(chars)
  /\ Quoted(chars, t.first, t.last) /\ chars[t.last] = "'" /\ LastIfEscaped(chars, t.last)
  /\ "ESCAPE" \in options => t.text = <<"E">> \o SubSeq(chars, t.first, t.last)

StringsInv ==
  /\ scanning = "string" =>
       Quoted(source, start, pos) /\ (pos <= Len(source) => LastIfEscaped(source, pos))
  /\ \A i \in DOMAIN tokens :
        tokens[i].type = "string" => IsString(tokens[i], source, pgoptions)

(* A rule other than that of the quoted string makes no string token.      *)
Other(t) == t.type # "string"
EmitsOther ==
  /\ source' = source /\ pgoptions' = pgoptions /\ scanning' = "tokens"
  /\ tokens' = tokens \/ \E t : tokens' = Append(tokens, t) /\ Other(t)

LEMMA EmitIsOther ==
  ASSUME NEW type, NEW hidden, NEW last, NEW text, Emit(type, hidden, last, text), type # "string"
  PROVE  EmitsOther
<1> DEFINE t == [type |-> type, hidden |-> hidden, first |-> start, last |-> last, text |-> text]
<1>1. tokens' = Append(tokens, t) /\ scanning' = "tokens" /\ UNCHANGED <<source, pgoptions>>
  BY DEF Emit
<1>2. Other(t)
  BY DEF Other
<1> QED
  BY <1>1, <1>2 DEF EmitsOther

LEMMA EmitSliceIsOther ==
  ASSUME NEW type, NEW hidden, NEW last, EmitSlice(type, hidden, last), type # "string"
  PROVE  EmitsOther
BY EmitIsOther DEF EmitSlice

LEMMA FailIsOther ==
  ASSUME NEW p, Fail(p)
  PROVE  EmitsOther
BY DEF Fail, EmitsOther

LEMMA LineCommentIsOther ==
  ASSUME NEW p, LineComment(p)
  PROVE  EmitsOther
<1>1. PICK e \in p .. End :
        LET n == IF At(e) = "cr" THEN e + 1 ELSE e
        IN  IF At(n) = "nl" THEN EmitSlice("comment", TRUE, n) ELSE Fail(n)
  BY DEF LineComment
<1> QED
  BY <1>1, EmitSliceIsOther, FailIsOther

LEMMA RuleIsOther ==
  ASSUME mTokens
  PROVE  OpenString \/ EmitsOther
<1>1. CASE ZeroDate
  BY <1>1, EmitIsOther DEF ZeroDate
<1>2. CASE ZeroDateFails \/ PerlFails \/ OperatorFails \/ NoViable
  BY <1>2, FailIsOther DEF ZeroDateFails, PerlFails, OperatorFails, NoViable
<1>3. CASE Quote \/ Backtick \/ Blank
  BY <1>3, EmitSliceIsOther DEF Quote, Backtick, Blank
<1>4. CASE PerlString
  BY <1>4, EmitSliceIsOther, FailIsOther DEF PerlString
<1>5. CASE PerlOther
  BY <1>5, EmitSliceIsOther, FailIsOther DEF PerlOther
<1>6. CASE Word
  BY <1>6, EmitSliceIsOther DEF Word
<1>7. CASE DoubleQuoted
  BY <1>7, EmitSliceIsOther, FailIsOther DEF DoubleQuoted
<1>8. CASE BackQuoted
  BY <1>8, EmitIsOther, FailIsOther DEF BackQuoted
<1>9. CASE Number
  BY <1>9, EmitSliceIsOther, FailIsOther DEF Number
<1>10. CASE Operator
  BY <1>10, EmitSliceIsOther DEF Operator
<1>11. CASE SlComment \/ MysqlComment
  BY <1>11, LineCommentIsOther DEF SlComment, MysqlComment
<1>12. CASE MlComment
  BY <1>12, EmitSliceIsOther, FailIsOther DEF MlComment
<1> QED
  BY <1>1, <1>2, <1>3, <1>4, <1>5, <1>6, <1>7, <1>8, <1>9, <1>10, <1>11, <1>12 DEF mTokens

(* A character of the source as the rules see it, where it matters.        *)
LEMMA QuotesAsRead ==
  ASSUME NEW p \in Int
  PROVE  /\ At(p) = "'" <=> Raw(p) = "'"
         /\ At(p) = "bs" <=> Raw(p) = "bs"
         /\ At(p) = EOF <=> Raw(p) = EOF
BY DEF At, Upper, EOF

(* Strings that are there stay.                                            *)
LEMMA OtherKeepsStrings ==
  ASSUME CursorsOK, StringsInv, EmitsOther
  PROVE  StringsInv'
<1>1. /\ source' = source /\ pgoptions' = pgoptions /\ scanning' = "tokens"
      /\ tokens \in Seq(Tokens)
  BY DEF EmitsOther, CursorsOK
<1>2. \A i \in DOMAIN tokens' :
         tokens'[i].type = "string" => IsString(tokens'[i], source, pgoptions)
  <2>1. CASE tokens' = tokens
    BY <2>1 DEF StringsInv
  <2>2. ASSUME NEW t, tokens' = Append(tokens, t), Other(t),
               NEW i \in DOMAIN tokens', tokens'[i].type = "string"
        PROVE  IsString(tokens'[i], source, pgoptions)
    <3>1. /\ DOMAIN tokens = 1 .. Len(tokens) /\ DOMAIN tokens' = 1 .. Len(tokens) + 1
          /\ Len(tokens) \in Nat
          /\ \A j \in 1 .. Len(tokens) : tokens'[j] = tokens[j]
          /\ tokens'[Len(tokens) + 1] = t
      BY <1>1, <2>2
    <3>2. i \in DOMAIN tokens /\ tokens'[i] = tokens[i]
      BY <2>2, <3>1 DEF Other
    <3> QED
      BY <2>2, <3>2 DEF StringsInv
  <2> QED
    BY <2>1, <2>2 DEF EmitsOther
<1> QED
  BY <1>1, <1>2 DEF StringsInv

(* The loop of mQUOTED_STRING passes a quote only behind a backslash, and  *)
(* comes to one behind a backslash only if that is the last character.     *)
LEMMA StringTurnKeepsStrings ==
  ASSUME CursorsOK, StringsInv, scanning = "string", StringTurn
  PROVE  StringsInv'
<1>1. /\ source \in Seq(Characters) /\ Len(source) \in Nat
      /\ start \in Nat \ {0} /\ pos \in Nat \ {0} /\ start < pos
      /\ Quoted(source, start, pos)
  BY DEF CursorsOK, StringsInv, End
<1>2. /\ Raw(pos) # "'" /\ Raw(pos) # EOF
      /\ pos' = IF Raw(pos) = "bs" /\ Raw(pos + 1) = "'" /\ Raw(pos + 2) # EOF
                THEN pos + 2 ELSE pos + 1
      /\ source' = source /\ pgoptions' = pgoptions /\ start' = start /\ tokens' = tokens
      /\ scanning' = "string"
  <2>1. pos + 1 \in Int /\ pos + 2 \in Int /\ pos \in Int
    BY <1>1
  <2> QED
    BY <2>1, QuotesAsRead DEF StringTurn
<1>3. pos \in 1 .. Len(source) /\ source[pos] = Raw(pos)
  BY <1>1, <1>2 DEF Raw
<1>4. Quoted(source, start, pos')
  <2>1. source[start] = "'" /\ \A p \in start + 1 .. pos - 1 : source[p] = "'" => source[p - 1] = "bs"
    BY <1>1 DEF Quoted
  <2>2. ASSUME NEW p \in pos .. pos' - 1, source[p] = "'"
        PROVE  source[p - 1] = "bs"
    <3>1. p # pos
      BY <1>2, <1>3, <2>2
    <3>2. p = pos + 1 /\ Raw(pos) = "bs"
      BY <1>1, <1>2, <2>2, <3>1
    <3> QED
      BY <1>1, <1>3, <3>2
  <2>3. \A p \in start + 1 .. pos' - 1 : p \in start + 1 .. pos - 1 \/ p \in pos .. pos' - 1
    BY <1>1, <1>2
  <2> QED
    BY <2>1, <2>2, <2>3 DEF Quoted
<1>5. ASSUME pos' <= Len(source), source[pos'] = "'", source[pos' - 1] = "bs"
      PROVE  pos' = Len(source)
  <2>1. CASE pos' = pos + 2
    <3>1. pos + 1 \in 1 .. Len(source) /\ pos' - 1 = pos + 1 /\ pos' # pos + 1
      BY <1>1, <1>5, <2>1
    <3>2. source[pos + 1] = "'"
      BY <1>2, <3>1 DEF Raw
    <3> QED
      BY <1>5, <3>1, <3>2
  <2>2. CASE pos' = pos + 1
    <3>1. pos' - 1 = pos /\ pos + 1 \in 1 .. Len(source) /\ pos' # pos + 2
      BY <1>1, <1>5, <2>2
    <3>2. Raw(pos) = "bs" /\ Raw(pos + 1) = "'"
      BY <1>3, <1>5, <2>2, <3>1 DEF Raw
    <3>3. Raw(pos + 2) = EOF
      BY <1>2, <3>1, <3>2
    <3>4. pos + 2 \notin 1 .. Len(source)
      <4>1. \A p \in 1 .. Len(source) : Raw(p) \in Characters
        BY <1>1 DEF Raw
      <4> QED
        BY <3>3, <4>1, CharactersAssumption
    <3> QED
      BY <1>1, <2>2, <3>1, <3>4
  <2> QED
    BY <1>2, <2>1, <2>2
<1> QED
  BY <1>2, <1>4, <1>5 DEF StringsInv, LastIfEscaped

LEMMA CloseStringKeepsStrings ==
  ASSUME CursorsOK, StringsInv, scanning = "string", CloseString
  PROVE  StringsInv'
<1> DEFINE text == IF "ESCAPE" \in pgoptions THEN <<"E">> \o Slice(pos) ELSE Slice(pos)
           t == [type |-> "string", hidden |-> FALSE, first |-> start, last |-> pos, text |-> text]
<1>1. /\ tokens \in Seq(Tokens) /\ Len(source) \in Nat
      /\ start \in Nat \ {0} /\ pos \in Nat \ {0} /\ start < pos
      /\ Quoted(source, start, pos) /\ (pos <= Len(source) => LastIfEscaped(source, pos))
  BY DEF CursorsOK, StringsInv, End
<1>2. /\ Raw(pos) = "'" /\ tokens' = Append(tokens, t) /\ scanning' = "tokens"
      /\ source' = source /\ pgoptions' = pgoptions
  <2>1. pos \in Int
    BY <1>1
  <2> QED
    BY <2>1, QuotesAsRead DEF CloseString, Emit
<1>3. pos \in 1 .. Len(source) /\ source[pos] = "'"
  BY <1>2 DEF Raw, EOF
<1>4. IsString(t, source, pgoptions)
  <2>1. t.first = start /\ t.last = pos /\ t.text = text
    OBVIOUS
  <2> HIDE DEF t
  <2> QED
    BY <1>1, <1>3, <2>1 DEF IsString, Slice
<1> HIDE DEF t
<1>5. /\ DOMAIN tokens = 1 .. Len(tokens) /\ DOMAIN tokens' = 1 .. Len(tokens) + 1
      /\ Len(tokens) \in Nat
      /\ \A i \in 1 .. Len(tokens) : tokens'[i] = tokens[i]
      /\ tokens'[Len(tokens) + 1] = t
  BY <1>1, <1>2
<1>6. ASSUME NEW i \in DOMAIN tokens', tokens'[i].type = "string"
      PROVE  IsString(tokens'[i], source, pgoptions)
  BY <1>4, <1>5, <1>6 DEF StringsInv
<1> QED
  BY <1>2, <1>6 DEF StringsInv

LEMMA StringsKept ==
  ASSUME LexerInv, StringsInv, LexerNext \/ UNCHANGED lexerVars
  PROVE  StringsInv'
<1>1. CursorsOK
  BY DEF LexerInv
<1>2. CASE EmitsOther
  BY <1>1, <1>2, OtherKeepsStrings
<1>3. CASE OpenString /\ mTokens
  <2>1. /\ start \in Nat \ {0} /\ Len(source) \in Nat /\ start \in 1 .. Len(source)
    BY <1>1, <1>3 DEF CursorsOK, End, mTokens
  <2>2. /\ source' = source /\ pgoptions' = pgoptions /\ tokens' = tokens /\ start' = start
        /\ pos' = start + 1 /\ scanning' = "string" /\ At(start) = "'"
    BY <1>3 DEF OpenString, Here
  <2>3. source[start] = "'"
    BY <2>1, <2>2, QuotesAsRead DEF Raw
  <2>4. Quoted(source, start, start + 1) /\ LastIfEscaped(source, start + 1)
    BY <2>1, <2>3 DEF Quoted, LastIfEscaped
  <2> QED
    BY <2>2, <2>4 DEF StringsInv
<1>4. CASE QuotedString /\ StringTurn
  BY <1>1, <1>4, StringTurnKeepsStrings DEF QuotedString
<1>5. CASE QuotedString /\ CloseString
  BY <1>1, <1>5, CloseStringKeepsStrings DEF QuotedString
<1>6. CASE QuotedString /\ StringFails
  BY <1>1, <1>6, FailIsOther, OtherKeepsStrings DEF StringFails
<1>7. CASE EndOfInput
  BY <1>7 DEF EndOfInput, StringsInv
<1>8. CASE UNCHANGED lexerVars
  BY <1>8 DEF lexerVars, StringsInv
<1> QED
  BY <1>2, <1>3, <1>4, <1>5, <1>6, <1>7, <1>8, RuleIsOther DEF LexerNext, QuotedString

LEMMA StringsBegin ==
  ASSUME LexerInv, NEW text, NEW options, StartLexer(text, options)
  PROVE  StringsInv'
BY DEF StartLexer, LexerInv, CursorsOK, StringsInv
=============================================================================
