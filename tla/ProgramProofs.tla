--------------------------- MODULE ProgramProofs ---------------------------
(***************************************************************************)
(* Proofs about the program, for every command line, every input, every    *)
(* size of the buffer and whatever the lexer skips after an error.         *)
(***************************************************************************)
EXTENDS Program, LexerProofs, GetoptProofs, FiniteSetTheorems

(* What is read stays a sequence of characters.                            *)
InputsOK == world \in Worlds /\ buffer \in Seq(Characters) /\ unread \in Seq(Characters)

LexInv == InputsOK /\ LexerInv

LEMMA ChunksAreInputs ==
  ASSUME NEW s \in Seq(Characters), NEW t \in Seq(Characters),
         NEW m \in 0 .. Len(s), NEW n \in 0 .. Len(s)
  PROVE  t \o SubSeq(s, 1, m) \in Seq(Characters) /\ SubSeq(s, n + 1, Len(s)) \in Seq(Characters)
<1>1. Len(s) \in Nat /\ \A i \in 1 .. Len(s) : s[i] \in Characters
      OBVIOUS
<1>2. \A i \in 1 .. m : s[i] \in Characters
      BY <1>1
<1>3. \A i \in n + 1 .. Len(s) : s[i] \in Characters
      BY <1>1
<1>4. SubSeq(s, 1, m) \in Seq(Characters)
      BY <1>1, <1>2
<1>5. SubSeq(s, n + 1, Len(s)) \in Seq(Characters)
      BY <1>1, <1>3
<1>6. QED BY <1>4, <1>5

LEMMA LexInvInit == ProgramInit => LexInv
<1> SUFFICES ASSUME ProgramInit PROVE LexInv
    OBVIOUS
<1>1. LexerInv
      BY LexerBegins DEF ProgramInit
<1>2. world \in Worlds /\ buffer = <<>> /\ unread = world.stdin
      BY DEF ProgramInit
<1>3. InputsOK
      BY <1>2, WorldsAssumption DEF InputsOK
<1>4. QED BY <1>1, <1>3 DEF LexInv

(* Only reading the input changes the buffer, only Pgify and LexerTurn     *)
(* touch the lexer.                                                        *)
LEMMA LexInvNext == LexInv /\ [Next]_vars => LexInv'
<1> SUFFICES ASSUME LexInv, [Next]_vars PROVE LexInv'
    OBVIOUS
<1>1. /\ world \in Worlds /\ buffer \in Seq(Characters) /\ unread \in Seq(Characters)
      /\ LexerInv
      BY DEF LexInv, InputsOK
<1>2. ASSUME UNCHANGED <<lexerVars, world, unread, buffer>> PROVE LexInv'
      BY <1>1, <1>2, LexerKeeps DEF LexInv, InputsOK
<1>3. CASE UNCHANGED vars
      BY <1>2, <1>3 DEF vars, programVars
<1>4. CASE FirstCall
      BY <1>2, <1>4 DEF FirstCall, programVars
<1>5. CASE GetoptTurn
      BY <1>2, <1>5 DEF GetoptTurn, programVars
<1>6. CASE Switch
      BY <1>2, <1>6 DEF Switch
<1>7. CASE ShowAndExit
      BY <1>2, <1>7 DEF ShowAndExit
<1>8. CASE EndOfSwitches
      BY <1>2, <1>8 DEF EndOfSwitches
<1>9. CASE TestTurn
      BY <1>2, <1>9 DEF TestTurn, programVars
<1>10. CASE TestEnd
      BY <1>2, <1>10 DEF TestEnd
<1>11. CASE OpenFile
  <2>1. PICK f \in Named : buffer' = f.text
        BY <1>11 DEF OpenFile
  <2>2. f.text \in Seq(Characters)
        BY <1>1, <2>1, WorldsAssumption DEF Named
  <2>3. UNCHANGED <<lexerVars, world, unread>>
        BY <1>11 DEF OpenFile
  <2>4. InputsOK'
        BY <1>1, <2>1, <2>2, <2>3 DEF InputsOK
  <2>5. QED BY <1>1, <2>3, <2>4, LexerKeeps DEF LexInv
<1>12. CASE OpenFails
      BY <1>2, <1>12 DEF OpenFails
<1>13. CASE ReadChunk
  <2>1. PICK n \in 1 .. Len(unread), m \in 0 .. Len(unread) :
           /\ buffer' = buffer \o SubSeq(unread, 1, m)
           /\ unread' = SubSeq(unread, n + 1, Len(unread))
        BY <1>13 DEF ReadChunk
  <2>2. n \in 0 .. Len(unread)
        BY <1>1
  <2>3. buffer' \in Seq(Characters) /\ unread' \in Seq(Characters)
        BY <1>1, <2>1, <2>2, ChunksAreInputs
  <2>4. UNCHANGED <<lexerVars, world>>
        BY <1>13 DEF ReadChunk
  <2>5. InputsOK'
        BY <1>1, <2>3, <2>4 DEF InputsOK
  <2>6. QED BY <1>1, <2>4, <2>5, LexerKeeps DEF LexInv
<1>14. CASE ReadError
      BY <1>2, <1>14 DEF ReadError
<1>15. CASE EndOfStdin
      BY <1>2, <1>15 DEF EndOfStdin
<1>16. CASE Pgify
  <2>1. StartLexer(buffer, PgOptions) /\ UNCHANGED <<world, unread, buffer>>
        BY <1>16 DEF Pgify
  <2>2. QED BY <1>1, <2>1, StartKeeps DEF LexInv, InputsOK
<1>17. CASE NoState
      BY <1>2, <1>17 DEF NoState
<1>18. CASE LexerTurn
  <2>1. LexerNext /\ UNCHANGED <<world, unread, buffer>>
        BY <1>18 DEF LexerTurn, programVars
  <2>2. QED BY <1>1, <2>1, LexerKeeps DEF LexInv, InputsOK
<1>19. CASE PgifyFails
      BY <1>2, <1>19 DEF PgifyFails
<1>20. CASE PrintResult
      BY <1>2, <1>20 DEF PrintResult
<1>21. CASE StreamFails
      BY <1>2, <1>21 DEF StreamFails
<1>22. CASE NullInput
      BY <1>2, <1>22 DEF NullInput
<1>23. QED
      BY <1>3, <1>4, <1>5, <1>6, <1>7, <1>8, <1>9, <1>10, <1>11, <1>12, <1>13,
         <1>14, <1>15, <1>16, <1>17, <1>18, <1>19, <1>20, <1>21, <1>22 DEF Next

(* Every character of the input that was read is in exactly one token or   *)
(* was given up, and tokens come in the order of the source: mTokens and   *)
(* nextToken, whatever read_stdin or the file held.                        *)
THEOREM TokensTileTheInput == Spec => []Tiled
<1>1. LexInv => Tiled
      BY DEF LexInv, LexerInv
<1>2. QED BY <1>1, LexInvInit, LexInvNext, PTL DEF Spec

(* mQS_OTHER leaves folding off only where nothing is left to be read, so  *)
(* that no keyword goes unrecognised behind a q-string it gave up.         *)
THEOREM TokensBeginFolded == Spec => []FoldsAtTokens
<1>1. LexInv => FoldsAtTokens
      BY DEF LexInv, LexerInv
<1>2. QED BY <1>1, LexInvInit, LexInvNext, PTL DEF Spec

-----------------------------------------------------------------------------
(* getopt_long is called by one of the two callers, or its call goes on,   *)
(* or nothing of it changes.                                               *)
LEMMA StepsOfGetopt ==
  ASSUME [Next]_vars
  PROVE  Call \/ GetoptNext \/ UNCHANGED getoptVars
<1>1. CASE UNCHANGED vars
      BY <1>1 DEF vars
<1>2. CASE FirstCall \/ Switch \/ TestTurn
      BY <1>2 DEF FirstCall, Switch, TestTurn
<1>3. CASE GetoptTurn
      BY <1>3 DEF GetoptTurn
<1>4. CASE \/ ShowAndExit \/ EndOfSwitches \/ TestEnd \/ OpenFile \/ OpenFails \/ ReadChunk
            \/ ReadError \/ StreamFails
      BY <1>4 DEF ShowAndExit, EndOfSwitches, TestEnd, OpenFile, OpenFails, ReadChunk, ReadError, StreamFails
<1>5. CASE EndOfStdin \/ Pgify \/ NoState \/ NullInput \/ LexerTurn \/ PgifyFails \/ PrintResult
      BY <1>5 DEF EndOfStdin, Pgify, NoState, NullInput, LexerTurn, PgifyFails, PrintResult
<1>6. QED BY <1>1, <1>2, <1>3, <1>4, <1>5 DEF Next

LEMMA GetoptInvInit == ProgramInit => GetoptInv
<1> SUFFICES ASSUME ProgramInit PROVE GetoptInv
    OBVIOUS
<1>1. /\ table \in Table /\ posixly_correct \in BOOLEAN /\ argv \in Seq(Elements) /\ StartGetopt
      BY WorldsAssumption DEF ProgramInit, Elements
<1>2. QED BY <1>1, GetoptBegins

LEMMA GetoptInvNext == GetoptInv /\ [Next]_vars => GetoptInv'
<1> SUFFICES ASSUME GetoptInv, [Next]_vars PROVE GetoptInv'
    OBVIOUS
<1>1. CASE UNCHANGED getoptVars
      BY <1>1 DEF GetoptInv, GetoptTypes, Blocks, argc, getoptVars
<1>2. QED BY <1>1, StepsOfGetopt, CallKeeps, GetoptNextKeeps

(* Every step of the program is one of Scan, or Scan sees nothing of it.   *)
LEMMA ScanBegins == ProgramInit => Abstract!ScanInit
<1> SUFFICES ASSUME ProgramInit PROVE Abstract!ScanInit
    OBVIOUS
<1>1. /\ optind = 1 /\ nextchar = <<>> /\ ~ending /\ result = Answer("none", <<>>)
      /\ result.opt = "none" /\ getopt = "returned"
      BY DEF ProgramInit, StartGetopt, Answer
<1>2. Settled = argv /\ Dealt = 0 /\ ~NoneLeft
      BY <1>1 DEF Settled, Dealt, NoneLeft
<1>3. SubSeq(argv, 1, 0) = <<>>
      BY SubSeqEmpty
<1>4. Taken = <<>> /\ Operands = <<>>
      BY <1>1, <1>2, <1>3 DEF Taken, Operands
<1>5. QED BY <1>1, <1>4 DEF Abstract!ScanInit, Abstract!Answer, Answer, Taken, Operands

LEMMA ScanSteps ==
  GetoptInv /\ [Next]_vars => Abstract!ScanNext \/ UNCHANGED Abstract!scanVars
<1> SUFFICES ASSUME GetoptInv, [Next]_vars
             PROVE  Abstract!ScanNext \/ UNCHANGED Abstract!scanVars
    OBVIOUS
<1>1. CASE UNCHANGED getoptVars
  <2>1. UNCHANGED <<callerVars, argv, optind, nextchar, first_nonopt, last_nonopt, bottom, middle, top,
                    getopt, ending, result>>
        BY <1>1 DEF getoptVars, callerVars
  <2>2. Settled' = Settled /\ Dealt' = Dealt /\ NoneLeft' = NoneLeft
        BY <2>1 DEF Settled, Dealt, NoneLeft
  <2>3. Taken' = Taken /\ Operands' = Operands /\ Todo' = Todo
        BY <2>1, <2>2 DEF Taken, Operands, Todo
  <2>4. QED BY <2>1, <2>3, IsStutter
<1>2. CASE Call
      BY <1>2, CallSimulates DEF Abstract!ScanNext
<1>3. QED BY <1>1, <1>2, StepsOfGetopt, GetoptNextSimulates

(* getopt_long gives the callers the options in the order of the command   *)
(* line, and leaves the operands in their order behind them, whatever      *)
(* exchange does on the way: _getopt_internal implements Scan.             *)
THEOREM GetoptScans == Spec => Scans
<1>1. GetoptInv /\ [Next]_vars => [Abstract!ScanNext]_(Abstract!scanVars)
      BY ScanSteps
<1>2. QED BY <1>1, ScanBegins, GetoptInvInit, GetoptInvNext, PTL DEF Spec, Scans, Abstract!ScanSpec

-----------------------------------------------------------------------------
(* Where main is, and what it has to tell.                                 *)
MainOK ==
  /\ at \in {"switches", "open", "stdin", "state", "null", "lex", "exited"}
  /\ status \in {-1, 0, 1, Killed} /\ (at = "exited") = (status # -1)
  /\ pgoptions \subseteq {"DEBUG", "ESCAPE", "LOWERID"}

(* No rule of the lexer changes the options it reads, nor its input.       *)
LEMMA OptionsKept == LexerNext => pgoptions' = pgoptions /\ source' = source
<1> SUFFICES ASSUME LexerNext PROVE pgoptions' = pgoptions /\ source' = source
    OBVIOUS
<1> USE DEF Emit, EmitSlice, Fail
<1>1. CASE EndOfInput
      BY <1>1 DEF EndOfInput
<1>2. CASE QuotedString
      BY <1>2 DEF QuotedString, StringTurn, CloseString, StringFails
<1>3. CASE ZeroDate \/ ZeroDateFails \/ OpenString \/ Quote
      BY <1>3 DEF ZeroDate, ZeroDateFails, OpenString, Quote
<1>4. CASE PerlString
      BY <1>4 DEF PerlString
<1>5. CASE PerlOther
      BY <1>5 DEF PerlOther
<1>6. CASE PerlFails \/ Word \/ Backtick
      BY <1>6 DEF PerlFails, Word, Backtick
<1>7. CASE DoubleQuoted
      BY <1>7 DEF DoubleQuoted
<1>8. CASE BackQuoted
      BY <1>8 DEF BackQuoted
<1>9. CASE Number
      BY <1>9 DEF Number
<1>10. CASE Operator \/ OperatorFails \/ Blank \/ NoViable
      BY <1>10 DEF Operator, OperatorFails, Blank, NoViable
<1>11. CASE SlComment \/ MysqlComment
      BY <1>11 DEF SlComment, MysqlComment, LineComment
<1>12. CASE MlComment
      BY <1>12 DEF MlComment
<1>13. QED
      BY <1>1, <1>2, <1>3, <1>4, <1>5, <1>6, <1>7, <1>8, <1>9, <1>10, <1>11, <1>12 DEF LexerNext, mTokens

LEMMA MainInit == ProgramInit => MainOK
BY DEF ProgramInit, LexerInit, MainOK

LEMMA MainNext == MainOK /\ [Next]_vars => MainOK'
<1> SUFFICES ASSUME MainOK, [Next]_vars PROVE MainOK'
    OBVIOUS
<1> USE DEF MainOK, lexerVars, programVars, Killed
<1>1. CASE UNCHANGED vars
      BY <1>1 DEF vars
<1>2. CASE FirstCall \/ GetoptTurn \/ Switch \/ TestTurn
  <2>1. UNCHANGED <<at, status, pgoptions>>
    <3>1. CASE FirstCall
          BY <3>1 DEF FirstCall
    <3>2. CASE GetoptTurn
          BY <3>2 DEF GetoptTurn
    <3>3. CASE Switch
          BY <3>3 DEF Switch
    <3>4. CASE TestTurn
          BY <3>4 DEF TestTurn
    <3>5. QED BY <1>2, <3>1, <3>2, <3>3, <3>4
  <2>2. QED BY <2>1
<1>3. CASE ShowAndExit \/ TestEnd \/ ReadError \/ NoState \/ NullInput \/ PgifyFails \/ PrintResult
  <2>1. at' = "exited" /\ status' \in {0, 1, Killed} /\ pgoptions' = pgoptions
    <3> USE DEF Exit
    <3>1. CASE ShowAndExit
          BY <3>1 DEF ShowAndExit
    <3>2. CASE TestEnd
          BY <3>2 DEF TestEnd
    <3>3. CASE ReadError
          BY <3>3 DEF ReadError
    <3>4. CASE NoState
          BY <3>4 DEF NoState
    <3>5. CASE PgifyFails
          BY <3>5 DEF PgifyFails
    <3>6. CASE PrintResult
          BY <3>6 DEF PrintResult
    <3>7. CASE NullInput
          BY <3>7 DEF NullInput
    <3>8. QED BY <1>3, <3>1, <3>2, <3>3, <3>4, <3>5, <3>6, <3>7
  <2>2. QED BY <2>1
<1>4. CASE EndOfSwitches \/ OpenFile \/ OpenFails \/ ReadChunk \/ StreamFails
  <2>1. /\ at' \in {"switches", "open", "stdin", "state", "null", "lex"} /\ at # "exited"
        /\ status' = status /\ pgoptions' = pgoptions
    <3>1. CASE EndOfSwitches
          BY <3>1 DEF EndOfSwitches, Returned
    <3>2. CASE OpenFile
          BY <3>2 DEF OpenFile
    <3>3. CASE OpenFails
          BY <3>3 DEF OpenFails
    <3>4. CASE ReadChunk
          BY <3>4 DEF ReadChunk
    <3>5. CASE StreamFails
          BY <3>5 DEF StreamFails
    <3>6. QED BY <1>4, <3>1, <3>2, <3>3, <3>4, <3>5
  <2>2. QED BY <2>1
<1>5. CASE EndOfStdin
      BY <1>5 DEF EndOfStdin, Exit
<1>6. CASE Pgify
      BY <1>6 DEF Pgify, StartLexer, PgOptions
<1>7. CASE LexerTurn
      BY <1>7, OptionsKept DEF LexerTurn
<1>8. QED BY <1>1, <1>2, <1>3, <1>4, <1>5, <1>6, <1>7 DEF Next

(* The cursors of getopt_long, of exchange and of the lexer stay in what   *)
(* they read, and the program has an exit status when it has exited.       *)
THEOREM ProgramTypes == Spec => []TypeOK
<1>1. GetoptInv /\ LexInv /\ MainOK => TypeOK
  <2> SUFFICES ASSUME GetoptInv, LexInv, MainOK PROVE TypeOK
      OBVIOUS
  <2>1. /\ argv \in Seq(Seq(STRING)) /\ optind \in 1 .. argc
        /\ first_nonopt \in 0 .. argc /\ last_nonopt \in 0 .. argc /\ argc \in Nat
        BY DEF GetoptInv, GetoptTypes, Elements, argc
  <2>2. getopt \notin {"skip", "stop"} => first_nonopt <= last_nonopt
        BY DEF GetoptInv, GetoptTypes, Blocks
  <2>3. at = "switches" /\ getopt # "returned" => last_nonopt <= optind
        BY DEF GetoptInv, GetoptTypes, Blocks
  <2>4. getopt = "exchange" => 1 <= bottom /\ bottom <= middle /\ middle <= top /\ top <= argc
    <3>1. getopt = "exchange" => /\ 1 <= bottom /\ bottom <= middle /\ middle <= top /\ top <= optind
                                /\ top \in Nat
          BY DEF GetoptInv, GetoptTypes
    <3>2. QED BY <2>1, <3>1
  <2>5. nextchar # <<>> => optind < argc
        BY DEF GetoptInv
  <2>6. /\ start \in 1 .. pos /\ pos <= Len(source) + 1
        /\ scanning \in {"off", "tokens", "string", "done"}
        BY DEF LexInv, LexerInv, CursorsOK, End
  <2>7. QED BY <2>1, <2>2, <2>3, <2>4, <2>5, <2>6 DEF MainOK, TypeOK
<1>2. QED
  BY <1>1, GetoptInvInit, GetoptInvNext, LexInvInit, LexInvNext, MainInit, MainNext, PTL DEF Spec
-----------------------------------------------------------------------------
(* The largest of some numbers that have a bound.                          *)
LEMMA LargestExists ==
  ASSUME NEW n \in Nat, NEW T, T \subseteq 1 .. n, T # {}
  PROVE  (CHOOSE i \in T : \A j \in T : j <= i) \in T
<1> DEFINE mirror == {n - i : i \in T}
           m      == CHOOSE k \in mirror : \A l \in mirror : k <= l
<1>1. mirror \subseteq Nat /\ mirror # {}
  <2>1. \A i \in T : n - i \in Nat
        OBVIOUS
  <2>2. PICK i \in T : TRUE
        OBVIOUS
  <2>3. n - i \in mirror
        OBVIOUS
  <2>4. QED BY <2>1, <2>3
<1>2. m \in mirror /\ \A l \in mirror : m <= l
  <2>1. PICK k \in mirror : \A l \in mirror : ~(<<l, k>> \in OpToRel(<, Nat))
        BY <1>1, NatLessThanWellFounded, WFMin
  <2>2. \A l \in mirror : ~(l < k)
        BY <1>1, <2>1 DEF OpToRel
  <2>3. \A l \in mirror : k <= l
        BY <1>1, <2>2
  <2>4. QED BY <2>3
<1> HIDE DEF m
<1>3. PICK i \in T : m = n - i
      BY <1>2
<1>4. \A j \in T : n - i <= n - j
      BY <1>2, <1>3
<1>5. \A j \in T : j <= i
      BY <1>4
<1>6. QED BY <1>5

(* A character that stands behind another is on a later line, or behind it *)
(* on the same one.                                                        *)
LEMMA PositionsRise ==
  ASSUME NEW p \in Nat \ {0}, NEW q \in Nat \ {0}
  PROVE  /\ LineOf(p) \in Nat /\ ColumnOf(p) \in Nat
         /\ p < q => \/ LineOf(p) < LineOf(q)
                     \/ LineOf(p) = LineOf(q) /\ ColumnOf(p) < ColumnOf(q)
<1> DEFINE Breaks(x) == {i \in 1 .. x - 1 : source[i] = "nl"}
           Last(x)   == CHOOSE i \in Breaks(x) : \A j \in Breaks(x) : j <= i
<1>1. ASSUME NEW x \in Nat \ {0}
      PROVE  /\ IsFiniteSet(Breaks(x)) /\ Cardinality(Breaks(x)) \in Nat
             /\ LineOf(x) = 1 + Cardinality(Breaks(x))
             /\ ColumnOf(x) = IF Breaks(x) = {} THEN x - 1 ELSE x - 1 - Last(x)
             /\ Breaks(x) # {} => Last(x) \in 1 .. x - 1
  <2>1. IsFiniteSet(1 .. x - 1)
        BY FS_Interval
  <2>2. Breaks(x) \in SUBSET (1 .. x - 1)
        OBVIOUS
  <2>3. IsFiniteSet(Breaks(x))
        BY <2>1, <2>2, FS_Subset
  <2>4. Cardinality(Breaks(x)) \in Nat
        BY <2>3, FS_CardinalityType
  <2>5. Breaks(x) # {} => Last(x) \in 1 .. x - 1
    <3> DEFINE n == x - 1
    <3>1. n \in Nat /\ Breaks(x) \subseteq 1 .. n
          OBVIOUS
    <3> HIDE DEF n, Breaks
    <3>2. Breaks(x) # {} => Last(x) \in Breaks(x)
          BY <3>1, LargestExists
    <3>3. QED BY <3>1, <3>2 DEF n
  <2>6. LineOf(x) = 1 + Cardinality(Breaks(x))
        BY DEF LineOf
  <2>7. ColumnOf(x) = IF Breaks(x) = {} THEN x - 1 ELSE x - 1 - Last(x)
        BY DEF ColumnOf
  <2>8. QED BY <2>3, <2>4, <2>5, <2>6, <2>7
<1>2. p < q => Breaks(p) \in SUBSET Breaks(q)
      OBVIOUS
<1> HIDE DEF Breaks
<1>3. p < q => Cardinality(Breaks(p)) <= Cardinality(Breaks(q))
      BY <1>1, <1>2, FS_Subset
<1>4. p < q /\ Cardinality(Breaks(p)) = Cardinality(Breaks(q)) => Breaks(p) = Breaks(q)
      BY <1>1, <1>2, FS_Subset
<1>5. Breaks(p) = Breaks(q) => Last(p) = Last(q)
      OBVIOUS
<1> HIDE DEF Last
<1>6. p < q /\ LineOf(p) = LineOf(q) => ColumnOf(p) < ColumnOf(q)
  <2> SUFFICES ASSUME p < q, LineOf(p) = LineOf(q) PROVE ColumnOf(p) < ColumnOf(q)
      OBVIOUS
  <2>1. Breaks(p) = Breaks(q)
        BY <1>1, <1>4
  <2>2. CASE Breaks(p) = {}
    <3>1. ColumnOf(p) = p - 1 /\ ColumnOf(q) = q - 1
          BY <1>1, <2>1, <2>2
    <3>2. QED BY <3>1
  <2>3. CASE Breaks(p) # {}
    <3>1. ColumnOf(p) = p - 1 - Last(p) /\ Last(p) \in 1 .. p - 1
          BY <1>1, <2>3
    <3>2. ColumnOf(q) = q - 1 - Last(p)
          BY <1>1, <1>5, <2>1, <2>3
    <3>3. QED BY <3>1, <3>2
  <2>4. QED BY <2>2, <2>3
<1>7. LineOf(p) \in Nat /\ LineOf(q) \in Nat /\ (p < q => LineOf(p) <= LineOf(q))
  <2>1. /\ Cardinality(Breaks(p)) \in Nat /\ LineOf(p) = 1 + Cardinality(Breaks(p))
        /\ Cardinality(Breaks(q)) \in Nat /\ LineOf(q) = 1 + Cardinality(Breaks(q))
        BY <1>1
  <2>2. QED BY <1>3, <2>1
<1>8. ColumnOf(p) \in Nat
  <2>1. /\ ColumnOf(p) = IF Breaks(p) = {} THEN p - 1 ELSE p - 1 - Last(p)
        /\ Breaks(p) # {} => Last(p) \in 1 .. p - 1
        BY <1>1
  <2>2. QED BY <2>1
<1>9. QED BY <1>6, <1>7, <1>8

(* What the proofs about the printer assume of the vector it is given is   *)
(* what the lexer leaves behind, for every input and every failure.        *)
THEOREM VectorSuitsThePrinter == Spec => []PrinterInput
<1>1. LexInv => PrinterInput
  <2> SUFFICES ASSUME LexInv, scanning = "done" PROVE Printing!WellFormed(Vector)
      BY DEF PrinterInput
  <2>1. tokens \in Seq(Tokens) /\ Tiled
        BY DEF LexInv, LexerInv, CursorsOK
  <2>2. ASSUME NEW i \in DOMAIN tokens
        PROVE  /\ tokens[i].hidden \in BOOLEAN
               /\ tokens[i].first \in Nat \ {0} /\ tokens[i].last \in Nat
               /\ tokens[i].first <= tokens[i].last
    <3>1. tokens[i] \in Tokens
          BY <2>1
    <3>2. \A t \in Tokens : t.hidden \in BOOLEAN /\ t.first \in Nat \ {0} /\ t.last \in Nat
          BY DEF Tokens
    <3>3. tokens[i].first <= tokens[i].last
          BY <2>1 DEF Tiled
    <3>4. QED BY <3>1, <3>2, <3>3
  <2>3. \A i, j \in DOMAIN tokens : i < j => tokens[i].first < tokens[j].first
    <3>1. \A i, j \in DOMAIN tokens : i < j => tokens[i].last < tokens[j].first
          BY <2>1 DEF Tiled
    <3>2. QED BY <2>2, <3>1
  <2> DEFINE placed == [i \in DOMAIN tokens |-> [hidden |-> tokens[i].hidden,
                                                line |-> LineOf(tokens[i].first),
                                                col |-> ColumnOf(tokens[i].first)]]
  <2>4. \A i \in DOMAIN tokens :
           /\ LineOf(tokens[i].first) \in Nat /\ ColumnOf(tokens[i].first) \in Nat
           /\ \A j \in DOMAIN tokens : i < j =>
                \/ LineOf(tokens[i].first) < LineOf(tokens[j].first)
                \/ /\ LineOf(tokens[i].first) = LineOf(tokens[j].first)
                   /\ ColumnOf(tokens[i].first) < ColumnOf(tokens[j].first)
        BY <2>2, <2>3, PositionsRise
  <2>5. DOMAIN tokens = 1 .. Len(tokens) /\ Len(tokens) \in Nat
        BY <2>1
  <2>6. placed \in Seq(Printing!Token)
    <3>1. \A i \in DOMAIN tokens : placed[i] \in Printing!Token
          BY <2>2, <2>4 DEF Printing!Token
    <3>2. placed = [i \in 1 .. Len(tokens) |-> placed[i]]
          BY <2>5
    <3> HIDE DEF placed
    <3>3. \A i \in 1 .. Len(tokens) : placed[i] \in Printing!Token
          BY <2>5, <3>1
    <3>4. QED BY <2>5, <3>2, <3>3
  <2>7. DOMAIN placed = DOMAIN tokens
        OBVIOUS
  <2>8. \A i, j \in DOMAIN placed :
           i < j => \/ placed[i].line < placed[j].line
                    \/ placed[i].line = placed[j].line /\ placed[i].col < placed[j].col
        BY <2>4
  <2>9. Vector = [tokens |-> placed, nodes |-> <<>>, post |-> 0]
        BY DEF Vector
  <2> HIDE DEF placed
  <2>10. Vector \in Printing!Input
    <3>1. <<>> \in Seq(Printing!Node)
          OBVIOUS
    <3>2. QED BY <2>6, <2>9, <3>1 DEF Printing!Input
  <2>11. Vector.tokens = placed /\ Vector.nodes = <<>>
        BY <2>9
  <2>12. DOMAIN Vector.nodes = {}
        BY <2>11
  <2>13. QED BY <2>8, <2>10, <2>11, <2>12 DEF Printing!WellFormed
<1>2. QED BY <1>1, LexInvInit, LexInvNext, PTL DEF Spec

-----------------------------------------------------------------------------
(* ClosesAt and Meaning are defined by recursion towards the end of what   *)
(* they read.  That there is such a function is shown by taking its values *)
(* from the end on.                                                        *)
LEMMA LeastExists ==
  ASSUME NEW T, T \subseteq Nat, T # {}
  PROVE  \E i \in T : \A j \in T : i <= j
<1>1. PICK i \in T : \A j \in T : ~(<<j, i>> \in OpToRel(<, Nat))
  BY NatLessThanWellFounded, WFMin
<1>2. \A j \in T : ~(j < i)
  BY <1>1 DEF OpToRel
<1> QED
  BY <1>2

FilledIn(f, end, n, body) ==
  \A p \in 1 .. n + 2 : f[p] = IF p > n THEN end ELSE body[p][f[p + 1]][f[p + 2]]

LEMMA FromTheEnd ==
  ASSUME NEW V, NEW end \in V, NEW n \in Nat,
         NEW body \in [1 .. n -> [V -> [V -> V]]]
  PROVE  \E f \in [1 .. n + 2 -> V] : FilledIn(f, end, n, body)
<1> DEFINE Value(f, p) == IF p > n THEN end ELSE body[p][f[p + 1]][f[p + 2]]
           Partial(k, f) == \A p \in 1 .. n + 2 : p + k > n => f[p] = Value(f, p)
           missing == {k \in 0 .. n : ~\E f \in [1 .. n + 2 -> V] : Partial(k, f)}
<1>1. missing = {}
  <2> SUFFICES ASSUME missing # {} PROVE FALSE
    OBVIOUS
  <2> HIDE DEF Partial
  <2>1. PICK k \in missing : \A j \in missing : k <= j
    <3>1. missing \subseteq Nat
      OBVIOUS
    <3> HIDE DEF missing
    <3> QED
      BY <3>1, LeastExists
  <2>2. k \in 0 .. n /\ ~\E f \in [1 .. n + 2 -> V] : Partial(k, f)
    BY <2>1
  <2>3. CASE k = 0
    <3> DEFINE g == [p \in 1 .. n + 2 |-> end]
    <3>1. g \in [1 .. n + 2 -> V] /\ \A p \in 1 .. n + 2 : p + 0 > n => g[p] = end /\ p > n
      OBVIOUS
    <3> HIDE DEF g
    <3>2. Partial(0, g)
      BY <3>1 DEF Partial
    <3> QED
      BY <2>2, <2>3, <3>1, <3>2
  <2>4. CASE k # 0
    <3>1. k - 1 \in 0 .. n /\ k - 1 < k /\ k \in Nat
      BY <2>2, <2>4
    <3>2. PICK f \in [1 .. n + 2 -> V] : Partial(k - 1, f)
      BY <2>1, <3>1
    <3> DEFINE q == n + 1 - k
               g == [f EXCEPT ![q] = Value(f, q)]
    <3>3. q \in 1 .. n /\ q + 1 \in 1 .. n + 2 /\ q + 2 \in 1 .. n + 2
      BY <2>2, <2>4
    <3>4. Value(f, q) \in V
      <4>1. f[q + 1] \in V /\ f[q + 2] \in V /\ body[q] \in [V -> [V -> V]]
        BY <3>3
      <4>2. body[q][f[q + 1]][f[q + 2]] \in V
        BY <4>1
      <4> QED
        BY <4>2
    <3>5. /\ g \in [1 .. n + 2 -> V] /\ g[q] = Value(f, q)
          /\ \A p \in 1 .. n + 2 : p # q => g[p] = f[p]
      <4> HIDE DEF Value, q
      <4> QED
        BY <3>3, <3>4
    <3> HIDE DEF g
    <3>6. \A p \in 1 .. n + 2 : p >= q => Value(g, p) = Value(f, p)
      <4> SUFFICES ASSUME NEW p \in 1 .. n + 2, p >= q, p <= n
                   PROVE  Value(g, p) = Value(f, p)
        OBVIOUS
      <4>1. /\ p + 1 \in 1 .. n + 2 /\ p + 2 \in 1 .. n + 2 /\ p + 1 # q /\ p + 2 # q
        BY <3>3
      <4> QED
        BY <3>5, <4>1
    <3>7. Partial(k, g)
      <4> SUFFICES ASSUME NEW p \in 1 .. n + 2, p + k > n
                   PROVE  g[p] = Value(g, p)
        BY DEF Partial
      <4>1. p >= q
        BY <3>1
      <4>2. CASE p = q
        BY <3>5, <3>6, <4>1, <4>2
      <4>3. CASE p # q
        <5>1. p + (k - 1) > n
          BY <3>1, <4>1, <4>3
        <5>2. f[p] = Value(f, p)
          BY <3>2, <5>1 DEF Partial
        <5> QED
          BY <3>5, <3>6, <4>1, <4>3, <5>2
      <4> QED
        BY <4>2, <4>3
    <3> QED
      BY <2>2, <3>5, <3>7
  <2> QED
    BY <2>3, <2>4
<1>2. n \in 0 .. n
  OBVIOUS
<1>3. PICK f \in [1 .. n + 2 -> V] : Partial(n, f)
  <2> HIDE DEF Partial
  <2>1. \A k \in 0 .. n : \E f \in [1 .. n + 2 -> V] : Partial(k, f)
    BY <1>1
  <2> QED
    BY <1>2, <2>1
<1>4. ASSUME NEW p \in 1 .. n + 2
      PROVE  f[p] = Value(f, p)
  <2>1. p + n > n
    OBVIOUS
  <2> QED
    BY <1>3, <2>1
<1>5. FilledIn(f, end, n, body)
  BY <1>4 DEF FilledIn
<1> QED
  BY <1>5

-----------------------------------------------------------------------------
(* Where PostgreSQL closes a literal.                                      *)
Closing(text, f, p) ==
  IF p > Len(text) THEN 0
  ELSE CASE text[p] = "bs" -> f[p + 2]
         [] text[p] = "'"  -> p
         [] OTHER          -> f[p + 1]

LEMMA ClosingExists ==
  ASSUME NEW text, Len(text) \in Nat
  PROVE  \E f : /\ f = [p \in 1 .. Len(text) + 2 |-> Closing(text, f, p)]
                /\ ClosesAt(text) = f[3]
<1> DEFINE n    == Len(text)
           body == [p \in 1 .. n |-> [a \in Nat |-> [b \in Nat |->
                      CASE text[p] = "bs" -> b [] text[p] = "'" -> p [] OTHER -> a]]]
<1>1. body \in [1 .. n -> [Nat -> [Nat -> Nat]]]
  OBVIOUS
<1>2. \A p \in 1 .. n, a \in Nat, b \in Nat :
        body[p][a][b] = CASE text[p] = "bs" -> b [] text[p] = "'" -> p [] OTHER -> a
  OBVIOUS
<1> HIDE DEF body
<1>3. PICK f \in [1 .. n + 2 -> Nat] : FilledIn(f, 0, n, body)
  <2>1. 0 \in Nat
    OBVIOUS
  <2> HIDE DEF n
  <2>2. n \in Nat
    BY DEF n
  <2> QED
    BY <1>1, <2>1, <2>2, FromTheEnd
<1>4. ASSUME NEW p \in 1 .. n + 2
      PROVE  f[p] = Closing(text, f, p)
  <2>1. CASE p > n
    BY <1>3, <2>1 DEF Closing, FilledIn
  <2>2. CASE ~(p > n)
    <3>1. p \in 1 .. n /\ p + 1 \in 1 .. n + 2 /\ p + 2 \in 1 .. n + 2
      BY <2>2
    <3>2. f[p + 1] \in Nat /\ f[p + 2] \in Nat
      BY <1>3, <3>1
    <3> QED
      BY <1>2, <1>3, <2>2, <3>1, <3>2 DEF Closing, FilledIn
  <2> QED
    BY <2>1, <2>2
<1> DEFINE closes == CHOOSE h : h = [p \in 1 .. n + 2 |-> Closing(text, h, p)]
<1>5. f = [p \in 1 .. n + 2 |-> Closing(text, f, p)]
  BY <1>3, <1>4
<1>6. closes = [p \in 1 .. n + 2 |-> Closing(text, closes, p)]
  BY <1>5
<1>7. ClosesAt(text) = closes[3]
  BY DEF ClosesAt, Closing
<1> QED
  BY <1>6, <1>7

(* A text that stands in quotes, with a backslash in front of each quote   *)
(* inside of it and no two in a row, is closed by its last quote: so does  *)
(* every place in it that PostgreSQL's reading comes to.                   *)
LEMMA ClosesAtEnd ==
  ASSUME NEW text, NEW n \in Nat, Len(text) = n, n >= 3,
         text[n] = "'", text[n - 1] = "bs" => n - 1 < 3,
         \A p \in 3 .. n - 1 : text[p] = "'" => text[p - 1] = "bs" /\ p - 1 >= 3,
         ~DoubledBackslash(text)
  PROVE  ClosesAt(text) = n
<1>1. PICK f : /\ f = [p \in 1 .. n + 2 |-> Closing(text, f, p)]
               /\ ClosesAt(text) = f[3]
  BY ClosingExists
<1>2. \A p \in 1 .. n + 2 : f[p] = Closing(text, f, p)
  BY <1>1
<1> DEFINE Reached(p) == p \in 3 .. n /\ (p > 3 => text[p - 1] # "bs")
           wrong == {k \in 0 .. n : Reached(n - k) /\ f[n - k] # n}
<1>3. wrong = {}
  <2> SUFFICES ASSUME wrong # {} PROVE FALSE
    OBVIOUS
  <2>1. PICK k \in wrong : \A j \in wrong : k <= j
    <3>1. wrong \subseteq Nat
      OBVIOUS
    <3> HIDE DEF wrong
    <3> QED
      BY <3>1, LeastExists
  <2> DEFINE p == n - k
  <2>2. p \in 3 .. n /\ (p > 3 => text[p - 1] # "bs") /\ f[p] # n /\ k \in Nat
    BY <2>1
  <2>3. \A q \in p + 1 .. n : (q > 3 => text[q - 1] # "bs") => f[q] = n
    <3> SUFFICES ASSUME NEW q \in p + 1 .. n, text[q - 1] # "bs", f[q] # n
                 PROVE  FALSE
      BY <2>2
    <3>1. n - q \in 0 .. n /\ n - (n - q) = q /\ q \in 3 .. n /\ n - q < k
      BY <2>2
    <3>2. n - q \in wrong
      BY <3>1
    <3> HIDE DEF wrong
    <3>3. k <= n - q
      BY <2>1, <3>2
    <3> QED
      BY <2>2, <3>1, <3>3
  <2> HIDE DEF wrong, p
  <2>4. f[p] = Closing(text, f, p) /\ p <= n
    BY <1>2, <2>2
  <2>5. CASE text[p] = "bs"
    <3>1. p # n /\ p # n - 1
      BY <2>2, <2>5
    <3>2. p + 1 \in 1 .. n - 1 /\ p + 2 \in p + 1 .. n /\ (p + 2) - 1 = p + 1
      BY <2>2, <3>1
    <3>3. text[p + 1] # "bs"
      BY <2>2, <2>5, <3>2 DEF DoubledBackslash
    <3>4. f[p + 2] = n
      BY <2>3, <3>2, <3>3
    <3> QED
      BY <2>2, <2>4, <2>5, <3>4 DEF Closing
  <2>6. CASE text[p] = "'"
    <3>1. f[p] = p
      BY <2>2, <2>4, <2>6 DEF Closing
    <3>2. p \in 3 .. n - 1
      BY <2>2, <3>1
    <3> QED
      BY <2>2, <2>6, <3>2
  <2>7. CASE text[p] # "bs" /\ text[p] # "'"
    <3>1. p # n
      BY <2>7
    <3>2. p + 1 \in p + 1 .. n /\ (p + 1) - 1 = p
      BY <2>2, <3>1
    <3>3. f[p + 1] = n
      BY <2>3, <2>7, <3>2
    <3> QED
      BY <2>2, <2>4, <2>7, <3>3 DEF Closing
  <2> QED
    BY <2>5, <2>6, <2>7
<1>4. n - 3 \in 0 .. n /\ n - (n - 3) = 3 /\ Reached(3)
  OBVIOUS
<1>5. f[3] = n
  BY <1>3, <1>4
<1> QED
  BY <1>1, <1>5

LEMMA OneInFront ==
  ASSUME NEW S, NEW a \in S, NEW s \in Seq(S), NEW m \in Nat, Len(s) = m
  PROVE  /\ Len(<<a>> \o s) = m + 1 /\ (<<a>> \o s)[1] = a
         /\ \A p \in 2 .. m + 1 : (<<a>> \o s)[p] = s[p - 1]
OBVIOUS

(* What the string rule emits is such a text, with E in front of it.       *)
LEMMA StringCloses ==
  ASSUME NEW chars, Len(chars) \in Nat, NEW options, NEW t, IsString(t, chars, options),
         "ESCAPE" \in options, t.first \in Nat \ {0}, t.last \in Nat,
         ~DoubledBackslash(t.text), t.last < Len(chars), chars \in Seq(Characters)
  PROVE  t.text[1] = "E" /\ ClosesAt(t.text) = Len(t.text)
<1> DEFINE first == t.first
           last  == t.last
           slice == SubSeq(chars, first, last)
           m     == last - first + 1
           text  == t.text
<1> HIDE DEF slice, m, text, first, last
<1>1. /\ first \in Nat \ {0} /\ last \in Nat /\ first < last /\ last < Len(chars)
      /\ chars[first] = "'" /\ chars[last] = "'" /\ chars[last - 1] # "bs"
      /\ \A p \in first + 1 .. last - 1 : chars[p] = "'" => chars[p - 1] = "bs"
      /\ text = <<"E">> \o slice
  <2>1. first \in Nat \ {0} /\ last \in Nat /\ last < Len(chars)
    BY DEF first, last
  <2>2. /\ first < last /\ Quoted(chars, first, last) /\ chars[last] = "'"
        /\ LastIfEscaped(chars, last) /\ text = <<"E">> \o slice
    BY DEF IsString, first, last, text, slice
  <2> QED
    BY <2>1, <2>2 DEF Quoted, LastIfEscaped
<1>0. m \in Nat /\ m >= 2 /\ m = last - first + 1
  BY <1>1 DEF m
<1>2. /\ slice \in Seq(Characters) /\ Len(slice) = m
      /\ \A k \in 1 .. m : slice[k] = chars[first + k - 1]
  <2>1. first \in 1 .. Len(chars) + 1 /\ last \in first - 1 .. Len(chars)
    BY <1>1
  <2> QED
    BY <1>0, <2>1, CutProperties DEF slice
<1>3. /\ Len(text) = m + 1 /\ text[1] = "E"
      /\ \A p \in 2 .. m + 1 : text[p] = chars[first + p - 2]
  <2>1. /\ Len(text) = m + 1 /\ text[1] = "E"
        /\ \A p \in 2 .. m + 1 : text[p] = slice[p - 1]
    <3>1. "E" \in Characters /\ m \in Nat /\ slice \in Seq(Characters) /\ Len(slice) = m
      BY <1>0, <1>2, CharactersAssumption
    <3>2. text = <<"E">> \o slice
      BY <1>1
    <3>3. /\ Len(<<"E">> \o slice) = m + 1 /\ (<<"E">> \o slice)[1] = "E"
          /\ \A p \in 2 .. m + 1 : (<<"E">> \o slice)[p] = slice[p - 1]
      BY <3>1, OneInFront
    <3> QED
      BY <3>2, <3>3
  <2>2. \A p \in 2 .. m + 1 : slice[p - 1] = chars[first + p - 2]
    <3> TAKE p \in 2 .. m + 1
    <3>1. p - 1 \in 1 .. m /\ first + (p - 1) - 1 = first + p - 2
      BY <1>0, <1>1
    <3>2. slice[p - 1] = chars[first + (p - 1) - 1]
      BY <1>2, <3>1
    <3> QED
      BY <3>1, <3>2
  <2> QED
    BY <2>1, <2>2
<1> DEFINE n == m + 1
<1>4. n \in Nat /\ n >= 3 /\ text[n] = "'" /\ text[n - 1] # "bs"
  <2>1. first + n - 2 = last /\ first + (n - 1) - 2 = last - 1
    BY <1>0, <1>1
  <2>2. n \in 2 .. m + 1 /\ n - 1 \in 2 .. m + 1
    BY <1>0
  <2>3. text[n] = chars[last] /\ text[n - 1] = chars[last - 1]
    BY <1>3, <2>1, <2>2
  <2>4. n \in Nat /\ n >= 3
    BY <1>0
  <2> HIDE DEF n
  <2> QED
    BY <1>1, <2>3, <2>4
<1>5. \A p \in 3 .. n - 1 : text[p] = "'" => text[p - 1] = "bs" /\ p - 1 >= 3
  <2> SUFFICES ASSUME NEW p \in 3 .. n - 1, text[p] = "'"
               PROVE  text[p - 1] = "bs" /\ p - 1 >= 3
    OBVIOUS
  <2>1. /\ p \in 2 .. m + 1 /\ p - 1 \in 2 .. m + 1 /\ first + p - 2 \in first + 1 .. last - 1
        /\ first + (p - 1) - 2 = (first + p - 2) - 1
    BY <1>0, <1>1
  <2>2. text[p - 1] = "bs"
    BY <1>1, <1>3, <2>1
  <2>3. text[2] = "'"
    <3>1. 2 \in 2 .. m + 1 /\ first + 2 - 2 = first
      BY <1>0, <1>1
    <3> QED
      BY <1>1, <1>3, <3>1
  <2> QED
    BY <2>2, <2>3
<1>6. ~DoubledBackslash(text)
  BY DEF text
<1>7. Len(text) = n
  BY <1>3
<1> HIDE DEF n
<1>8. ClosesAt(text) = n
  BY <1>4, <1>5, <1>6, <1>7, ClosesAtEnd
<1> QED
  BY <1>3, <1>7, <1>8 DEF text

(* Nobody but the lexer touches its variables.                             *)
LEMMA StepsOfLexer ==
  ASSUME [Next]_vars
  PROVE  LexerNext \/ UNCHANGED lexerVars \/ (Pgify /\ StartLexer(buffer, PgOptions))
<1>1. CASE UNCHANGED vars
  BY <1>1 DEF vars
<1>2. CASE FirstCall \/ GetoptTurn \/ Switch \/ TestTurn
  BY <1>2 DEF FirstCall, GetoptTurn, Switch, TestTurn
<1>3. CASE \/ ShowAndExit \/ EndOfSwitches \/ TestEnd \/ OpenFile \/ OpenFails \/ ReadChunk
            \/ ReadError \/ StreamFails
  BY <1>3 DEF ShowAndExit, EndOfSwitches, TestEnd, OpenFile, OpenFails, ReadChunk, ReadError, StreamFails
<1>4. CASE EndOfStdin \/ NoState \/ NullInput \/ PgifyFails \/ PrintResult
  BY <1>4 DEF EndOfStdin, NoState, NullInput, PgifyFails, PrintResult
<1>5. CASE Pgify \/ LexerTurn
  BY <1>5 DEF Pgify, LexerTurn
<1> QED
  BY <1>1, <1>2, <1>3, <1>4, <1>5 DEF Next

(* A string token is one literal for PostgreSQL, and no more than one, for *)
(* every input and whatever was given up in front of it: the loop of       *)
(* mQUOTED_STRING with the prefix E.                                       *)
THEOREM StringsAreLiterals == Spec => []ReadAsOneLiteral
<1>1. ProgramInit => StringsInv
  BY DEF ProgramInit, LexerInit, StringsInv
<1>2. LexInv /\ StringsInv /\ [Next]_vars => StringsInv'
  <2> SUFFICES ASSUME LexInv, StringsInv, [Next]_vars PROVE StringsInv'
    OBVIOUS
  <2>1. LexerInv
    BY DEF LexInv
  <2> QED
    BY <2>1, StepsOfLexer, StringsKept, StringsBegin
<1>3. LexInv /\ StringsInv => ReadAsOneLiteral
  <2> SUFFICES ASSUME LexInv, StringsInv, NEW i \in DOMAIN tokens, tokens[i].type = "string",
                      "ESCAPE" \in pgoptions, ~DoubledBackslash(tokens[i].text),
                      tokens[i].last < Len(source)
               PROVE  tokens[i].text[1] = "E" /\ ClosesAt(tokens[i].text) = Len(tokens[i].text)
    BY DEF ReadAsOneLiteral
  <2>1. source \in Seq(Characters) /\ Len(source) \in Nat /\ tokens \in Seq(Tokens)
    BY DEF LexInv, LexerInv, CursorsOK
  <2>2. tokens[i].first \in Nat \ {0} /\ tokens[i].last \in Nat
    <3>1. tokens[i] \in Tokens
      BY <2>1
    <3>2. \A t \in Tokens : t.first \in Nat \ {0} /\ t.last \in Nat
      BY DEF Tokens
    <3> QED
      BY <3>1, <3>2
  <2>3. IsString(tokens[i], source, pgoptions)
    BY DEF StringsInv
  <2> QED
    BY <2>1, <2>2, <2>3, StringCloses
<1> QED
  BY <1>1, <1>2, <1>3, LexInvInit, LexInvNext, PTL DEF Spec

-----------------------------------------------------------------------------
(* What the elements of the command line say, one after the other.         *)
OptionLetters == STRING \union {"?", "V", "c"}
Sayings == [letters : SUBSET OptionLetters, file : {<<>>} \union {<<x>> : x \in Elements}]

LEMMA SaysIsSaying ==
  ASSUME NEW letters \in SUBSET OptionLetters, NEW file, file = <<>> \/ \E x \in Elements : file = <<x>>
  PROVE  Says(letters, file) \in Sayings
BY DEF Says, Sayings

LEMMA FollowedIsSaying ==
  ASSUME NEW a \in Sayings, NEW b \in Sayings
  PROVE  Followed(a, b) \in Sayings
<1>1. a.letters \union b.letters \in SUBSET OptionLetters
  BY DEF Sayings
<1>2. (IF b.file = <<>> THEN a.file ELSE b.file) \in {<<>>} \union {<<x>> : x \in Elements}
  BY DEF Sayings
<1> QED
  BY <1>1, <1>2 DEF Followed, Says, Sayings

LEMMA FollowedInTurn ==
  ASSUME NEW a, NEW b, NEW c
  PROVE  Followed(a, Followed(b, c)) = Followed(Followed(a, b), c)
<1>1. a.letters \union (b.letters \union c.letters) = (a.letters \union b.letters) \union c.letters
  OBVIOUS
<1> QED
  BY <1>1 DEF Followed, Says

LEMMA NothingFollowed ==
  ASSUME NEW a \in Sayings
  PROVE  Followed(Nothing, a) = a /\ Followed(a, Nothing) = a
<1>1. a = [letters |-> a.letters, file |-> a.file]
  BY DEF Sayings
<1>2. {} \union a.letters = a.letters /\ a.letters \union {} = a.letters
  OBVIOUS
<1>3. (IF a.file = <<>> THEN <<>> ELSE a.file) = a.file
  OBVIOUS
<1>4. Followed(Nothing, a) = [letters |-> {} \union a.letters,
                              file |-> IF a.file = <<>> THEN <<>> ELSE a.file]
  BY DEF Followed, Nothing, Says
<1>5. Followed(a, Nothing) = [letters |-> a.letters \union {}, file |-> a.file]
  BY DEF Followed, Nothing, Says
<1> QED
  BY <1>1, <1>2, <1>3, <1>4, <1>5

LEMMA NothingIsSaying == Nothing \in Sayings
<1>1. {} \in SUBSET OptionLetters
  OBVIOUS
<1> QED
  BY <1>1, SaysIsSaying DEF Nothing

(* The f that a group of letters has first.                                *)
LEMMA FirstOf ==
  ASSUME NEW text \in Seq(STRING), NEW T, T \subseteq DOMAIN text, T # {}
  PROVE  /\ (CHOOSE j \in T : \A k \in T : j <= k) \in T
         /\ \A k \in T : (CHOOSE j \in T : \A l \in T : j <= l) <= k
<1>1. T \subseteq Nat
  OBVIOUS
<1>2. \E j \in T : \A k \in T : j <= k
  BY <1>1, LeastExists
<1> QED
  BY <1>2

LEMMA GroupIsSaying ==
  ASSUME NEW given \in Seq(Elements), NEW m, NEW i \in 1 .. Len(given), NEW text \in Seq(STRING),
         m[i + 1] \in Sayings, m[i + 2] \in Sayings
  PROVE  Group(given, m, i, text) \in Sayings
<1> DEFINE fs == {j \in DOMAIN text : text[j] = "f"}
           f  == CHOOSE j \in fs : \A k \in fs : j <= k
           before == {text[j] : j \in 1 .. f - 1}
           all == {text[j] : j \in DOMAIN text}
<1>1. Group(given, m, i, text) =
        CASE fs = {} -> Followed(Says(all, <<>>), m[i + 1])
          [] fs # {} /\ f < Len(text) ->
               Followed(Says(before, <<SubSeq(text, f + 1, Len(text))>>), m[i + 1])
          [] fs # {} /\ f = Len(text) /\ i < Len(given) ->
               Followed(Says(before, <<given[i + 1]>>), m[i + 2])
          [] OTHER -> Says(before \union {"?"}, <<>>)
  BY DEF Group
<1>2. Len(text) \in Nat /\ DOMAIN text = 1 .. Len(text) /\ all \in SUBSET OptionLetters
  BY DEF OptionLetters
<1>3. fs # {} => f \in 1 .. Len(text)
  <2>1. fs \subseteq DOMAIN text
    OBVIOUS
  <2> HIDE DEF fs
  <2> QED
    BY <1>2, <2>1, FirstOf
<1> HIDE DEF f, fs
<1>4. fs # {} => before \in SUBSET OptionLetters /\ SubSeq(text, f + 1, Len(text)) \in Elements
  <2> SUFFICES ASSUME fs # {} PROVE before \in SUBSET OptionLetters
                                    /\ SubSeq(text, f + 1, Len(text)) \in Elements
    OBVIOUS
  <2>1. f \in 1 .. Len(text)
    BY <1>3
  <2>2. \A j \in f + 1 .. Len(text) : text[j] \in STRING
    BY <1>2, <2>1
  <2>3. \A j \in 1 .. f - 1 : text[j] \in STRING
    BY <1>2, <2>1
  <2>4. SubSeq(text, f + 1, Len(text)) \in Seq(STRING)
    BY <1>2, <2>1, <2>2
  <2> QED
    BY <2>3, <2>4 DEF Elements, OptionLetters
<1>5. i < Len(given) => given[i + 1] \in Elements
  OBVIOUS
<1> HIDE DEF all, before
<1>6. CASE fs = {}
  <2>1. Group(given, m, i, text) = Followed(Says(all, <<>>), m[i + 1])
    BY <1>1, <1>6
  <2> QED
    BY <1>2, <2>1, SaysIsSaying, FollowedIsSaying
<1>7. CASE fs # {} /\ f < Len(text)
  <2>1. Group(given, m, i, text) =
          Followed(Says(before, <<SubSeq(text, f + 1, Len(text))>>), m[i + 1])
    BY <1>1, <1>7
  <2>2. Says(before, <<SubSeq(text, f + 1, Len(text))>>) \in Sayings
    BY <1>4, <1>7, SaysIsSaying
  <2> QED
    BY <2>1, <2>2, FollowedIsSaying
<1>8. CASE fs # {} /\ f = Len(text) /\ i < Len(given)
  <2>1. Group(given, m, i, text) = Followed(Says(before, <<given[i + 1]>>), m[i + 2])
    BY <1>1, <1>2, <1>8
  <2>2. Says(before, <<given[i + 1]>>) \in Sayings
    BY <1>4, <1>5, <1>8, SaysIsSaying
  <2> QED
    BY <2>1, <2>2, FollowedIsSaying
<1>9. CASE fs # {} /\ ~(f < Len(text)) /\ ~(f = Len(text) /\ i < Len(given))
  <2>1. Group(given, m, i, text) = Says(before \union {"?"}, <<>>)
    BY <1>1, <1>9
  <2>2. before \union {"?"} \in SUBSET OptionLetters
    BY <1>4, <1>9 DEF OptionLetters
  <2> QED
    BY <2>1, <2>2, SaysIsSaying
<1> QED
  BY <1>6, <1>7, <1>8, <1>9

(* One place of Meaning.                                                   *)
Meant(given, posix, m, i) ==
  IF i > Len(given) THEN Nothing
  ELSE CASE given[i] = Dashes \/ (posix /\ IsWord(given[i])) -> Nothing
         [] ~posix /\ IsWord(given[i]) -> m[i + 1]
         [] given[i] # Dashes /\ ~IsWord(given[i]) /\ IsLong(given[i]) ->
              Followed(Says({Letter(given[i][3])}, <<>>), m[i + 1])
         [] OTHER -> Group(given, m, i, Tail(given[i]))

(* Which of its cases an element is.                                       *)
LEMMA MeantCases ==
  ASSUME NEW given, Len(given) \in Nat, NEW posix \in BOOLEAN, NEW m, NEW i \in 1 .. Len(given)
  PROVE  /\ given[i] = Dashes => Meant(given, posix, m, i) = Nothing
         /\ posix /\ IsWord(given[i]) => Meant(given, posix, m, i) = Nothing
         /\ ~posix /\ IsWord(given[i]) => Meant(given, posix, m, i) = m[i + 1]
         /\ given[i] # Dashes /\ ~IsWord(given[i]) /\ IsLong(given[i]) =>
              Meant(given, posix, m, i) = Followed(Says({Letter(given[i][3])}, <<>>), m[i + 1])
         /\ given[i] # Dashes /\ ~IsWord(given[i]) /\ ~IsLong(given[i]) =>
              Meant(given, posix, m, i) = Group(given, m, i, Tail(given[i]))
<1> DEFINE e == given[i]
<1>1. Meant(given, posix, m, i) =
        CASE e = Dashes \/ (posix /\ IsWord(e)) -> Nothing
          [] ~posix /\ IsWord(e) -> m[i + 1]
          [] e # Dashes /\ ~IsWord(e) /\ IsLong(e) ->
               Followed(Says({Letter(e[3])}, <<>>), m[i + 1])
          [] OTHER -> Group(given, m, i, Tail(e))
  BY DEF Meant
<1>2. e = Dashes => ~IsWord(e)
  BY DEF Dashes, IsWord
<1> HIDE DEF e
<1>3. CASE e = Dashes
  BY <1>1, <1>2, <1>3 DEF e
<1>4. CASE e # Dashes /\ IsWord(e) /\ posix
  BY <1>1, <1>4 DEF e
<1>5. CASE e # Dashes /\ IsWord(e) /\ ~posix
  BY <1>1, <1>5 DEF e
<1>6. CASE e # Dashes /\ ~IsWord(e) /\ IsLong(e)
  BY <1>1, <1>6 DEF e
<1>7. CASE e # Dashes /\ ~IsWord(e) /\ ~IsLong(e)
  BY <1>1, <1>7 DEF e
<1> QED
  BY <1>3, <1>4, <1>5, <1>6, <1>7

LEMMA MeantIsSaying ==
  ASSUME NEW given \in Seq(Elements), NEW posix \in BOOLEAN, NEW m, NEW i \in 1 .. Len(given),
         m[i + 1] \in Sayings, m[i + 2] \in Sayings
  PROVE  Meant(given, posix, m, i) \in Sayings
<1>1. given[i] \in Seq(STRING) /\ Len(given) \in Nat
  BY DEF Elements
<1>2. Len(given[i]) \in Nat
  BY <1>1
<1>3. given[i] # Dashes /\ ~IsWord(given[i]) /\ IsLong(given[i]) => Letter(given[i][3]) \in OptionLetters
  <2> SUFFICES ASSUME given[i] # Dashes, ~IsWord(given[i]), IsLong(given[i])
               PROVE  Letter(given[i][3]) \in OptionLetters
    OBVIOUS
  <2>0. PICK e : e = given[i]
    OBVIOUS
  <2>1. Len(e) > 1 /\ e[1] = "-" /\ e[2] = "-" /\ e # Dashes /\ e \in Seq(STRING) /\ Len(e) \in Nat
    BY <1>1, <2>0 DEF IsWord, IsLong
  <2>2. Len(e) # 2
    <3> SUFFICES ASSUME Len(e) = 2 PROVE FALSE
      OBVIOUS
    <3>1. e = <<e[1], e[2]>>
      BY <2>1
    <3> QED
      BY <2>1, <3>1 DEF Dashes
  <2>3. 3 \in 1 .. Len(e)
    <3>1. PICK l \in Nat : l = Len(e)
      BY <2>1
    <3>2. l > 1 /\ l # 2
      BY <2>1, <2>2, <3>1
    <3>3. 3 \in 1 .. l
      BY <3>2
    <3> QED
      BY <3>1, <3>3
  <2>4. e[3] \in STRING
    BY <2>1, <2>3
  <2> QED
    BY <2>0, <2>4 DEF Letter, OptionLetters
<1>4. ~IsWord(given[i]) => Tail(given[i]) \in Seq(STRING)
  <2> SUFFICES ASSUME ~IsWord(given[i]) PROVE Tail(given[i]) \in Seq(STRING)
    OBVIOUS
  <2>1. Len(given[i]) > 1
    BY DEF IsWord
  <2>2. given[i] # <<>>
    BY <1>1, <2>1
  <2> QED
    BY <1>1, <2>2, HeadTailProperties
<1>5. CASE given[i] = Dashes \/ (posix /\ IsWord(given[i]))
  BY <1>1, <1>5, MeantCases, NothingIsSaying
<1>6. CASE ~posix /\ IsWord(given[i])
  BY <1>1, <1>6, MeantCases
<1>7. CASE given[i] # Dashes /\ ~IsWord(given[i]) /\ IsLong(given[i])
  <2>1. Says({Letter(given[i][3])}, <<>>) \in Sayings
    BY <1>3, <1>7, SaysIsSaying
  <2> QED
    BY <1>1, <1>7, <2>1, MeantCases, FollowedIsSaying
<1>8. CASE given[i] # Dashes /\ ~IsWord(given[i]) /\ ~IsLong(given[i])
  <2>1. Meant(given, posix, m, i) = Group(given, m, i, Tail(given[i]))
    BY <1>1, <1>8, MeantCases
  <2> QED
    BY <1>4, <1>8, <2>1, GroupIsSaying
<1> QED
  BY <1>5, <1>6, <1>7, <1>8

LEMMA SameAhead ==
  ASSUME NEW given, NEW posix, NEW m, NEW k, NEW i \in Nat, m[i + 1] = k[i + 1], m[i + 2] = k[i + 2]
  PROVE  Meant(given, posix, m, i) = Meant(given, posix, k, i)
<1>1. Group(given, m, i, Tail(given[i])) = Group(given, k, i, Tail(given[i]))
  BY DEF Group
<1> QED
  BY <1>1 DEF Meant

(* What an element means with those behind it is what Meaning says.        *)
LEMMA MeaningExists ==
  ASSUME NEW given \in Seq(Elements), NEW posix \in BOOLEAN,
         NEW m, m = Meaning(given, posix)
  PROVE  \A i \in 1 .. Len(given) + 2 : m[i] = Meant(given, posix, m, i) /\ m[i] \in Sayings
<1> DEFINE n == Len(given)
           Ahead(i, a, b) == [q \in {i + 1, i + 2} |-> IF q = i + 1 THEN a ELSE b]
           body == [i \in 1 .. n |-> [a \in Sayings |-> [b \in Sayings |->
                      Meant(given, posix, Ahead(i, a, b), i)]]]
<1>1. n \in Nat
  OBVIOUS
<1> HIDE DEF n
<1>2. ASSUME NEW i \in 1 .. n, NEW a \in Sayings, NEW b \in Sayings
      PROVE  Meant(given, posix, Ahead(i, a, b), i) \in Sayings
  <2>1. Ahead(i, a, b)[i + 1] = a /\ Ahead(i, a, b)[i + 2] = b
    BY <1>1
  <2> HIDE DEF Ahead
  <2> QED
    BY <2>1, MeantIsSaying DEF n
<1>3. body \in [1 .. n -> [Sayings -> [Sayings -> Sayings]]]
  <2> HIDE DEF Ahead
  <2> QED
    BY <1>2
<1>4. \A i \in 1 .. n : \A a \in Sayings, b \in Sayings :
        body[i][a][b] = Meant(given, posix, Ahead(i, a, b), i)
  <2> HIDE DEF Ahead
  <2> QED
    OBVIOUS
<1> HIDE DEF body
<1>5. PICK f \in [1 .. n + 2 -> Sayings] : FilledIn(f, Nothing, n, body)
  BY <1>1, <1>3, NothingIsSaying, FromTheEnd
<1>6. ASSUME NEW i \in 1 .. n + 2
      PROVE  f[i] = Meant(given, posix, f, i)
  <2>1. CASE i > n
    BY <1>5, <2>1 DEF FilledIn, Meant, n
  <2>2. CASE ~(i > n)
    <3>1. i \in 1 .. n /\ i + 1 \in 1 .. n + 2 /\ i + 2 \in 1 .. n + 2
      BY <1>1, <2>2
    <3>2. f[i + 1] \in Sayings /\ f[i + 2] \in Sayings
      BY <1>5, <3>1
    <3>3. f[i] = Meant(given, posix, Ahead(i, f[i + 1], f[i + 2]), i)
      <4> HIDE DEF Ahead
      <4> QED
        BY <1>4, <1>5, <2>2, <3>1, <3>2 DEF FilledIn
    <3>4. PICK ahead : ahead = Ahead(i, f[i + 1], f[i + 2])
      OBVIOUS
    <3>5. ahead[i + 1] = f[i + 1] /\ ahead[i + 2] = f[i + 2]
      BY <1>1, <3>4
    <3>6. Meant(given, posix, ahead, i) = Meant(given, posix, f, i)
      <4>1. i \in Nat
        BY <3>1
      <4> QED
        BY <3>5, <4>1, SameAhead
    <3> QED
      BY <3>3, <3>4, <3>6
  <2> QED
    BY <2>1, <2>2
<1> DEFINE meant == CHOOSE h : h = [i \in 1 .. n + 2 |-> Meant(given, posix, h, i)]
<1>7. f = [i \in 1 .. n + 2 |-> Meant(given, posix, f, i)]
  BY <1>5, <1>6
<1>8. meant = [i \in 1 .. n + 2 |-> Meant(given, posix, meant, i)]
  BY <1>7
<1>9. m = meant
  BY DEF Meaning, Meant, n
<1> HIDE DEF meant
<1>10. \A i \in 1 .. n + 2 : m[i] = Meant(given, posix, m, i)
  BY <1>8, <1>9
<1> DEFINE wrong == {k \in 0 .. n + 1 : m[n + 2 - k] \notin Sayings}
<1>11. wrong = {}
  <2> SUFFICES ASSUME wrong # {} PROVE FALSE
    OBVIOUS
  <2>1. PICK k \in wrong : \A j \in wrong : k <= j
    <3>1. wrong \subseteq Nat
      OBVIOUS
    <3> HIDE DEF wrong
    <3> QED
      BY <3>1, LeastExists
  <2> DEFINE i == n + 2 - k
  <2>2. i \in 1 .. n + 2 /\ m[i] \notin Sayings /\ k \in 0 .. n + 1
    BY <1>1, <2>1
  <2>3. \A q \in i + 1 .. n + 2 : m[q] \in Sayings
    <3> SUFFICES ASSUME NEW q \in i + 1 .. n + 2, m[q] \notin Sayings PROVE FALSE
      OBVIOUS
    <3>1. n + 2 - q \in 0 .. n + 1 /\ n + 2 - (n + 2 - q) = q /\ n + 2 - q < k
      BY <1>1, <2>2
    <3>2. n + 2 - q \in wrong
      BY <3>1
    <3> HIDE DEF wrong
    <3>3. k <= n + 2 - q
      BY <2>1, <3>2
    <3> QED
      BY <1>1, <2>2, <3>1, <3>3
  <2> HIDE DEF wrong, i
  <2>4. CASE i > n
    <3>1. m[i] = Nothing
      BY <1>10, <2>2, <2>4 DEF Meant, n
    <3> QED
      BY <2>2, <3>1, NothingIsSaying
  <2>5. CASE ~(i > n)
    <3>1. i \in 1 .. n /\ i + 1 \in i + 1 .. n + 2 /\ i + 2 \in i + 1 .. n + 2
      BY <1>1, <2>2, <2>5
    <3>2. m[i + 1] \in Sayings /\ m[i + 2] \in Sayings
      BY <2>3, <3>1
    <3> QED
      BY <1>10, <2>2, <3>1, <3>2, MeantIsSaying DEF n
  <2> QED
    BY <2>4, <2>5
<1>12. \A i \in 1 .. n + 2 : m[i] \in Sayings
  <2> SUFFICES ASSUME NEW i \in 1 .. n + 2 PROVE m[i] \in Sayings
    OBVIOUS
  <2>1. n + 2 - i \in 0 .. n + 1 /\ n + 2 - (n + 2 - i) = i
    BY <1>1
  <2> QED
    BY <1>11, <2>1
<1> QED
  BY <1>10, <1>12 DEF n

(* A group is its first letter and the group behind that.                  *)
LEMMA TailOfText ==
  ASSUME NEW text \in Seq(STRING), text # <<>>
  PROVE  /\ Len(text) \in Nat \ {0} /\ Head(text) = text[1] /\ text[1] \in STRING
         /\ Tail(text) \in Seq(STRING) /\ Len(Tail(text)) = Len(text) - 1
         /\ \A j \in 1 .. Len(text) - 1 : Tail(text)[j] = text[j + 1]
         /\ Tail(text) = <<>> <=> Len(text) = 1
<1>1. Len(text) \in Nat /\ Len(text) # 0
  OBVIOUS
<1>2. /\ Tail(text) \in Seq(STRING) /\ Len(Tail(text)) = Len(text) - 1
      /\ \A j \in 1 .. Len(Tail(text)) : Tail(text)[j] = text[j + 1]
  BY HeadTailProperties
<1>3. Tail(text) = <<>> <=> Len(Tail(text)) = 0
  BY <1>2
<1> QED
  BY <1>1, <1>2, <1>3

LEMMA GroupWithoutF ==
  ASSUME NEW given, NEW m, NEW i \in Nat, NEW text \in Seq(STRING), text # <<>>,
         Head(text) # "f", Tail(text) # <<>>
  PROVE  Group(given, m, i, text) =
           Followed(Says({Head(text)}, <<>>), Group(given, m, i, Tail(text)))
<1>0. PICK t : t = Tail(text)
  OBVIOUS
<1>1. PICK n \in Nat : t = Tail(text) /\ n = Len(t)
  BY <1>0, TailOfText
<1>2. /\ Len(text) = n + 1 /\ text[1] # "f" /\ Head(text) = text[1] /\ t \in Seq(STRING)
      /\ \A j \in 1 .. n : t[j] = text[j + 1]
  BY <1>1, TailOfText
<1>3. DOMAIN text = 1 .. n + 1 /\ DOMAIN t = 1 .. n
  BY <1>1, <1>2
<1> DEFINE Fs(s)     == {j \in DOMAIN s : s[j] = "f"}
           F(s)      == CHOOSE j \in Fs(s) : \A k \in Fs(s) : j <= k
           Before(s) == {s[j] : j \in 1 .. F(s) - 1}
           Behind(s) == SubSeq(s, F(s) + 1, Len(s))
           All(s)    == {s[j] : j \in DOMAIN s}
<1>4. ASSUME NEW s
      PROVE  /\ Fs(s) = {} => Group(given, m, i, s) = Followed(Says(All(s), <<>>), m[i + 1])
             /\ Fs(s) # {} /\ F(s) < Len(s) =>
                  Group(given, m, i, s) = Followed(Says(Before(s), <<Behind(s)>>), m[i + 1])
             /\ Fs(s) # {} /\ ~(F(s) < Len(s)) /\ F(s) = Len(s) /\ i < Len(given) =>
                  Group(given, m, i, s) = Followed(Says(Before(s), <<given[i + 1]>>), m[i + 2])
             /\ Fs(s) # {} /\ ~(F(s) < Len(s)) /\ ~(F(s) = Len(s) /\ i < Len(given)) =>
                  Group(given, m, i, s) = Says(Before(s) \union {"?"}, <<>>)
  <2>1. Group(given, m, i, s) =
          CASE Fs(s) = {} -> Followed(Says(All(s), <<>>), m[i + 1])
            [] Fs(s) # {} /\ F(s) < Len(s) ->
                 Followed(Says(Before(s), <<Behind(s)>>), m[i + 1])
            [] Fs(s) # {} /\ F(s) = Len(s) /\ i < Len(given) ->
                 Followed(Says(Before(s), <<given[i + 1]>>), m[i + 2])
            [] OTHER -> Says(Before(s) \union {"?"}, <<>>)
    BY DEF Group
  <2> HIDE DEF Fs, F, Before, Behind, All
  <2> QED
    BY <2>1
<1>5. Fs(text) = {} <=> Fs(t) = {}
  <2>1. ASSUME NEW j \in Fs(text) PROVE j - 1 \in Fs(t)
    <3>1. j \in 2 .. n + 1 /\ text[j] = "f"
      BY <1>2, <1>3
    <3>2. j - 1 \in 1 .. n /\ (j - 1) + 1 = j
      BY <3>1
    <3> QED
      BY <1>2, <1>3, <3>1, <3>2
  <2>2. ASSUME NEW j \in Fs(t) PROVE j + 1 \in Fs(text)
    <3>1. j \in 1 .. n /\ t[j] = "f"
      BY <1>3
    <3>2. j + 1 \in 1 .. n + 1
      BY <3>1
    <3> QED
      BY <1>2, <1>3, <3>1, <3>2
  <2> HIDE DEF Fs
  <2> QED
    BY <2>1, <2>2
<1>6. Fs(t) # {} => F(t) \in 1 .. n /\ F(text) = F(t) + 1
  <2> SUFFICES ASSUME Fs(t) # {} PROVE F(t) \in 1 .. n /\ F(text) = F(t) + 1
    OBVIOUS
  <2>1. Fs(t) \subseteq DOMAIN t /\ Fs(text) \subseteq DOMAIN text /\ Fs(text) # {}
    BY <1>5
  <2> HIDE DEF Fs
  <2>2. /\ F(t) \in Fs(t) /\ \A k \in Fs(t) : F(t) <= k
        /\ F(text) \in Fs(text) /\ \A k \in Fs(text) : F(text) <= k
    BY <1>2, <2>1, FirstOf
  <2> USE DEF Fs
  <2> HIDE DEF F
  <2>3. F(t) \in 1 .. n /\ t[F(t)] = "f" /\ F(text) \in 1 .. n + 1 /\ text[F(text)] = "f"
    BY <1>3, <2>2
  <2>4. F(text) # 1
    BY <1>2, <2>3
  <2>5. F(text) - 1 \in 1 .. n /\ (F(text) - 1) + 1 = F(text) /\ F(t) + 1 \in 1 .. n + 1
    BY <2>3, <2>4
  <2>6. F(text) - 1 \in Fs(t)
    BY <1>2, <1>3, <2>3, <2>5
  <2>7. F(t) + 1 \in Fs(text)
    BY <1>2, <1>3, <2>3, <2>5
  <2> HIDE DEF Fs
  <2>8. F(t) <= F(text) - 1 /\ F(text) <= F(t) + 1
    BY <2>2, <2>6, <2>7
  <2> QED
    BY <2>3, <2>8
<1>7. Fs(t) # {} => Before(text) = {text[1]} \union Before(t) /\ Behind(text) = Behind(t)
  <2> SUFFICES ASSUME Fs(t) # {}
               PROVE  Before(text) = {text[1]} \union Before(t) /\ Behind(text) = Behind(t)
    OBVIOUS
  <2> HIDE DEF Fs, F
  <2>1. PICK f \in 1 .. n : F(t) = f /\ F(text) = f + 1
    BY <1>6
  <2>2. Before(text) = {text[j] : j \in 1 .. f} /\ Before(t) = {t[j] : j \in 1 .. f - 1}
    BY <2>1
  <2>3. Before(text) = {text[1]} \union Before(t)
    <3>1. ASSUME NEW j \in 1 .. f, j # 1 PROVE j - 1 \in 1 .. f - 1 /\ t[j - 1] = text[j]
      <4>1. j - 1 \in 1 .. f - 1 /\ j - 1 \in 1 .. n /\ (j - 1) + 1 = j
        BY <2>1, <3>1
      <4> QED
        BY <1>2, <4>1
    <3>2. ASSUME NEW j \in 1 .. f - 1 PROVE j + 1 \in 1 .. f /\ t[j] = text[j + 1]
      <4>1. j + 1 \in 1 .. f /\ j \in 1 .. n
        BY <2>1
      <4> QED
        BY <1>2, <4>1
    <3>3. 1 \in 1 .. f
      BY <2>1
    <3>4. ASSUME NEW x \in Before(text) PROVE x \in {text[1]} \union Before(t)
      <4>1. PICK j \in 1 .. f : x = text[j]
        BY <2>2
      <4>2. CASE j # 1
        <5>1. j - 1 \in 1 .. f - 1 /\ t[j - 1] = x
          BY <3>1, <4>1, <4>2
        <5> QED
          BY <2>2, <5>1
      <4> QED
        BY <4>1, <4>2
    <3>5. ASSUME NEW x \in {text[1]} \union Before(t) PROVE x \in Before(text)
      <4>1. CASE x = text[1]
        BY <2>2, <3>3, <4>1
      <4>2. CASE x \in Before(t)
        <5>1. PICK j \in 1 .. f - 1 : x = t[j]
          BY <2>2, <4>2
        <5>2. j + 1 \in 1 .. f /\ x = text[j + 1]
          BY <3>2, <5>1
        <5> QED
          BY <2>2, <5>2
      <4> QED
        BY <4>1, <4>2
    <3> HIDE DEF Before
    <3> QED
      BY <3>4, <3>5
  <2>4. Behind(text) = SubSeq(text, f + 2, n + 1) /\ Behind(t) = SubSeq(t, f + 1, n)
    <3>1. (f + 1) + 1 = f + 2
      BY <2>1
    <3> QED
      BY <1>1, <1>2, <2>1, <3>1
  <2>5. SubSeq(text, f + 2, n + 1) = SubSeq(t, f + 1, n)
    <3>1. /\ f + 2 \in 1 .. Len(text) + 1 /\ n + 1 \in f + 2 - 1 .. Len(text)
          /\ n + 1 - (f + 2) + 1 = n - f /\ n - f \in Nat
      BY <1>2, <2>1
    <3>2. /\ SubSeq(text, f + 2, n + 1) \in Seq(STRING) /\ Len(SubSeq(text, f + 2, n + 1)) = n - f
          /\ \A k \in 1 .. n - f : SubSeq(text, f + 2, n + 1)[k] = text[f + 2 + k - 1]
      BY <3>1, CutProperties
    <3>3. /\ f + 1 \in 1 .. Len(t) + 1 /\ n \in f + 1 - 1 .. Len(t)
          /\ n - (f + 1) + 1 = n - f
      BY <1>1, <2>1
    <3>4. /\ SubSeq(t, f + 1, n) \in Seq(STRING) /\ Len(SubSeq(t, f + 1, n)) = n - f
          /\ \A k \in 1 .. n - f : SubSeq(t, f + 1, n)[k] = t[f + 1 + k - 1]
      BY <1>2, <3>3, CutProperties
    <3>5. ASSUME NEW k \in 1 .. n - f
          PROVE  t[f + 1 + k - 1] = text[f + 2 + k - 1]
      <4>1. f + 1 + k - 1 \in 1 .. n /\ (f + 1 + k - 1) + 1 = f + 2 + k - 1
        BY <2>1
      <4> QED
        BY <1>2, <4>1
    <3>6. \A k \in 1 .. n - f : SubSeq(text, f + 2, n + 1)[k] = SubSeq(t, f + 1, n)[k]
      BY <3>2, <3>4, <3>5
    <3> QED
      BY <3>2, <3>4, <3>6, SeqEqual
  <2> QED
    BY <2>3, <2>4, <2>5
<1>8. All(text) = {text[1]} \union All(t)
  <2>1. ASSUME NEW j \in 1 .. n + 1, j # 1 PROVE j - 1 \in 1 .. n /\ t[j - 1] = text[j]
    <3>1. j - 1 \in 1 .. n /\ (j - 1) + 1 = j
      BY <2>1
    <3> QED
      BY <1>2, <3>1
  <2>2. ASSUME NEW j \in 1 .. n PROVE j + 1 \in 1 .. n + 1 /\ t[j] = text[j + 1]
    BY <1>2
  <2>3. 1 \in 1 .. n + 1
    OBVIOUS
  <2>4. All(text) = {text[j] : j \in 1 .. n + 1} /\ All(t) = {t[j] : j \in 1 .. n}
    BY <1>3
  <2> HIDE DEF All
  <2>5. ASSUME NEW x \in All(text) PROVE x \in {text[1]} \union All(t)
    <3>1. PICK j \in 1 .. n + 1 : x = text[j]
      BY <2>4
    <3>2. CASE j # 1
      <4>1. j - 1 \in 1 .. n /\ t[j - 1] = x
        BY <2>1, <3>1, <3>2
      <4> QED
        BY <2>4, <4>1
    <3> QED
      BY <3>1, <3>2
  <2>6. ASSUME NEW x \in {text[1]} \union All(t) PROVE x \in All(text)
    <3>1. CASE x = text[1]
      BY <2>3, <2>4, <3>1
    <3>2. CASE x \in All(t)
      <4>1. PICK j \in 1 .. n : x = t[j]
        BY <2>4, <3>2
      <4>2. j + 1 \in 1 .. n + 1 /\ x = text[j + 1]
        BY <2>2, <4>1
      <4> QED
        BY <2>4, <4>2
    <3> QED
      BY <3>1, <3>2
  <2> QED
    BY <2>5, <2>6
<1>9. Fs(t) # {} => (F(text) < Len(text) <=> F(t) < Len(t)) /\ (F(text) = Len(text) <=> F(t) = Len(t))
  <2> HIDE DEF F, Fs
  <2> QED
    BY <1>1, <1>2, <1>6
<1> HIDE DEF Fs, F, Before, Behind, All
<1> DEFINE c == Says({text[1]}, <<>>)
           More(letters) == {text[1]} \union letters
<1> HIDE DEF c, More
<1>16. /\ Fs(t) # {} => Before(text) = More(Before(t)) /\ Behind(text) = Behind(t)
       /\ All(text) = More(All(t))
  BY <1>7, <1>8 DEF More
<1>10. ASSUME NEW letters, NEW file
       PROVE  Says(More(letters), file) = Followed(c, Says(letters, file))
  <2>1. (IF file = <<>> THEN <<>> ELSE file) = file
    OBVIOUS
  <2> QED
    BY <2>1 DEF Followed, Says, c, More
<1>11. ASSUME NEW letters, NEW file, NEW a
       PROVE  Followed(Says(More(letters), file), a)
                = Followed(c, Followed(Says(letters, file), a))
  <2>1. Says(More(letters), file) = Followed(c, Says(letters, file))
    BY <1>10
  <2> QED
    BY <2>1, FollowedInTurn
<1>12. CASE Fs(t) = {}
  <2>1. Group(given, m, i, text) = Followed(Says(All(text), <<>>), m[i + 1])
    BY <1>4, <1>5, <1>12
  <2>2. Group(given, m, i, t) = Followed(Says(All(t), <<>>), m[i + 1])
    BY <1>4, <1>12
  <2>3. Group(given, m, i, text) = Followed(Says(More(All(t)), <<>>), m[i + 1])
    BY <1>16, <2>1
  <2>4. Group(given, m, i, text) = Followed(c, Followed(Says(All(t), <<>>), m[i + 1]))
    BY <1>11, <2>3
  <2> QED
    BY <1>1, <1>2, <2>2, <2>4 DEF c
<1>13. CASE Fs(t) # {} /\ F(t) < Len(t)
  <2>1. Group(given, m, i, text) = Followed(Says(Before(text), <<Behind(text)>>), m[i + 1])
    BY <1>4, <1>5, <1>9, <1>13
  <2>2. Group(given, m, i, t) = Followed(Says(Before(t), <<Behind(t)>>), m[i + 1])
    BY <1>4, <1>13
  <2>3. Group(given, m, i, text) = Followed(Says(More(Before(t)), <<Behind(t)>>), m[i + 1])
    BY <1>16, <1>13, <2>1
  <2>4. Group(given, m, i, text) =
          Followed(c, Followed(Says(Before(t), <<Behind(t)>>), m[i + 1]))
    BY <1>11, <2>3
  <2> QED
    BY <1>1, <1>2, <2>2, <2>4 DEF c
<1>14. CASE Fs(t) # {} /\ F(t) = Len(t) /\ i < Len(given)
  <2>0. ~(F(t) < Len(t)) /\ ~(F(text) < Len(text)) /\ F(text) = Len(text) /\ Fs(text) # {}
    BY <1>1, <1>5, <1>9, <1>14
  <2>1. Group(given, m, i, text) = Followed(Says(Before(text), <<given[i + 1]>>), m[i + 2])
    BY <1>4, <1>14, <2>0
  <2>2. Group(given, m, i, t) = Followed(Says(Before(t), <<given[i + 1]>>), m[i + 2])
    BY <1>4, <1>14, <2>0
  <2>3. Group(given, m, i, text) = Followed(Says(More(Before(t)), <<given[i + 1]>>), m[i + 2])
    BY <1>16, <1>14, <2>1
  <2>4. Group(given, m, i, text) =
          Followed(c, Followed(Says(Before(t), <<given[i + 1]>>), m[i + 2]))
    BY <1>11, <2>3
  <2> QED
    BY <1>1, <1>2, <2>2, <2>4 DEF c
<1>15. CASE Fs(t) # {} /\ ~(F(t) < Len(t)) /\ ~(F(t) = Len(t) /\ i < Len(given))
  <2>1. Group(given, m, i, text) = Says(Before(text) \union {"?"}, <<>>)
    BY <1>4, <1>5, <1>9, <1>15
  <2>2. Group(given, m, i, t) = Says(Before(t) \union {"?"}, <<>>)
    BY <1>4, <1>15
  <2>3. Before(text) \union {"?"} = More(Before(t) \union {"?"})
    BY <1>16, <1>15 DEF More
  <2>4. Group(given, m, i, text) = Says(More(Before(t) \union {"?"}), <<>>)
    BY <2>1, <2>3
  <2>5. Group(given, m, i, text) = Followed(c, Says(Before(t) \union {"?"}, <<>>))
    BY <1>10, <2>4
  <2> QED
    BY <1>1, <1>2, <2>2, <2>5 DEF c
<1> QED
  BY <1>12, <1>13, <1>14, <1>15

(* Its last letter, an f with the file behind it, and an f at the end.     *)
LEMMA GroupOfOne ==
  ASSUME NEW given, NEW m, NEW i \in Nat, NEW text \in Seq(STRING), text # <<>>,
         Head(text) # "f", Tail(text) = <<>>
  PROVE  Group(given, m, i, text) = Followed(Says({Head(text)}, <<>>), m[i + 1])
<1>1. Len(text) = 1 /\ Head(text) = text[1] /\ DOMAIN text = 1 .. 1
  BY TailOfText
<1>2. {j \in DOMAIN text : text[j] = "f"} = {} /\ {text[j] : j \in DOMAIN text} = {text[1]}
  BY <1>1
<1> QED
  BY <1>1, <1>2 DEF Group

LEMMA GroupAtF ==
  ASSUME NEW given, NEW m, NEW i \in Nat, NEW text \in Seq(STRING), text # <<>>,
         Head(text) = "f"
  PROVE  /\ Tail(text) # <<>> =>
              Group(given, m, i, text) = Followed(Says({}, <<Tail(text)>>), m[i + 1])
         /\ Tail(text) = <<>> /\ i < Len(given) =>
              Group(given, m, i, text) = Followed(Says({}, <<given[i + 1]>>), m[i + 2])
<1> DEFINE fs == {j \in DOMAIN text : text[j] = "f"}
           f  == CHOOSE j \in fs : \A k \in fs : j <= k
           before == {text[j] : j \in 1 .. f - 1}
<1>1. /\ fs # {} /\ f < Len(text) =>
           Group(given, m, i, text)
             = Followed(Says(before, <<SubSeq(text, f + 1, Len(text))>>), m[i + 1])
      /\ fs # {} /\ f = Len(text) /\ ~(f < Len(text)) /\ i < Len(given) =>
           Group(given, m, i, text) = Followed(Says(before, <<given[i + 1]>>), m[i + 2])
  <2>1. Group(given, m, i, text) =
          CASE fs = {} -> Followed(Says({text[j] : j \in DOMAIN text}, <<>>), m[i + 1])
            [] fs # {} /\ f < Len(text) ->
                 Followed(Says(before, <<SubSeq(text, f + 1, Len(text))>>), m[i + 1])
            [] fs # {} /\ f = Len(text) /\ i < Len(given) ->
                 Followed(Says(before, <<given[i + 1]>>), m[i + 2])
            [] OTHER -> Says(before \union {"?"}, <<>>)
    BY DEF Group
  <2> HIDE DEF fs, f, before
  <2> QED
    BY <2>1
<1>2. /\ text[1] = "f" /\ 1 \in DOMAIN text /\ Len(text) \in Nat \ {0}
      /\ Tail(text) = <<>> <=> Len(text) = 1
  BY TailOfText
<1>3. fs # {} /\ f = 1
  <2>1. fs \subseteq DOMAIN text /\ 1 \in fs
    BY <1>2
  <2> HIDE DEF fs
  <2>2. f \in fs /\ f <= 1
    BY <2>1, FirstOf
  <2>3. f \in DOMAIN text
    BY <2>1, <2>2
  <2> HIDE DEF f
  <2> QED
    BY <2>1, <2>2, <2>3
<1>4. before = {}
  <2> HIDE DEF f
  <2> QED
    BY <1>3
<1> HIDE DEF fs, f, before
<1>5. SubSeq(text, 1 + 1, Len(text)) = Tail(text)
  <2>1. 1 + 1 = 2
    OBVIOUS
  <2> QED
    BY <2>1
<1>6. CASE Tail(text) # <<>>
  <2>1. f < Len(text)
    BY <1>2, <1>3, <1>6
  <2>2. Group(given, m, i, text)
          = Followed(Says(before, <<SubSeq(text, f + 1, Len(text))>>), m[i + 1])
    BY <1>1, <1>3, <2>1
  <2> QED
    BY <1>3, <1>4, <1>5, <1>6, <2>2
<1>7. CASE Tail(text) = <<>>
  <2>1. f = Len(text) /\ ~(f < Len(text))
    BY <1>2, <1>3, <1>7
  <2> QED
    BY <1>1, <1>3, <1>4, <1>7, <2>1
<1> QED
  BY <1>6, <1>7

-----------------------------------------------------------------------------
(* What decode_switches reads, an option at a time, says what the command  *)
(* line means.                                                             *)
Ends          == {"h", "V", "?"}
Told(opt, arg) ==
  CASE opt = "f"             -> Says({}, arg)
    [] opt \in {"d", "e", "c"} -> Says({opt}, <<>>)
    [] OTHER                 -> Nothing

LEMMA LongMeans ==
  ASSUME NEW text \in Seq(STRING), text # <<>>, NEW after, NEW d,
         d = Long(FilesTable, text, after), d.opt \notin Ends
  PROVE  d = Read(1, <<>>, Letter(text[1]), <<>>) /\ Letter(text[1]) \in {"d", "e", "c"}
<1> DEFINE t == FilesTable
           equals == {i \in DOMAIN text : text[i] = "="}
           first  == CHOOSE i \in equals : \A j \in equals : i <= j
           name   == IF equals = {} THEN text ELSE SubSeq(text, 1, first - 1)
           fits   == {i \in DOMAIN t.long : StartsWith(t.long[i].name, name)}
           exact  == {i \in fits : t.long[i].name = name}
           found  == IF exact # {} THEN exact ELSE fits
           place  == CHOOSE i \in found : \A j \in found : i <= j
           option == t.long[place]
<1>1. d =
        CASE found = {} \/ (exact = {} /\ \E i, j \in fits : i # j) -> Refused(1, <<>>)
          [] OTHER ->
               IF equals # {}
               THEN IF option.arg THEN Read(1, <<>>, option.val, <<SubSeq(text, first + 1, Len(text))>>)
                                  ELSE Refused(1, <<>>)
               ELSE IF option.arg THEN WithNext(option.val, after)
                                  ELSE Read(1, <<>>, option.val, <<>>)
  BY DEF Long
<1>2. found \subseteq DOMAIN t.long
  OBVIOUS
<1>3. \A i \in found : equals = {} => StartsWith(t.long[i].name, text)
  OBVIOUS
<1> HIDE DEF equals, first, name, fits, exact, found
<1>4. t.long \in Seq([name : Seq(STRING), arg : BOOLEAN, val : STRING \ Reserved])
  BY WorldsAssumption DEF Table
<1>5. found # {} => place \in found /\ place \in DOMAIN t.long
  <2>1. found \subseteq Nat
    BY <1>2, <1>4
  <2> QED
    BY <1>2, <2>1, SmallestExists
<1> HIDE DEF place
<1>6. Refused(1, <<>>).opt \in Ends
  BY DEF Refused, Read, Ends
<1>7. found # {} => ~option.arg /\ option.val = Letter(option.name[1]) /\ option.val \in t.flags
                    /\ option.name # <<>>
  BY <1>5, FilesTableAssumption
<1>8. /\ found # {} /\ equals = {} /\ d = Read(1, <<>>, option.val, <<>>)
  <2> HIDE DEF option
  <2>1. d # Refused(1, <<>>)
    BY <1>6
  <2>2. ~(found = {} \/ (exact = {} /\ \E i, j \in fits : i # j))
    BY <1>1, <2>1
  <2>3. ~option.arg
    BY <1>7, <2>2
  <2> QED
    BY <1>1, <2>1, <2>2, <2>3
<1>9. option.name[1] = text[1]
  <2>1. StartsWith(option.name, text)
    BY <1>3, <1>5, <1>8
  <2>2. option.name \in Seq(STRING)
    <3>1. \A x \in [name : Seq(STRING), arg : BOOLEAN, val : STRING \ Reserved] :
             x.name \in Seq(STRING)
      OBVIOUS
    <3>2. \A S : t.long \in Seq(S) => (place \in DOMAIN t.long => t.long[place] \in S)
      OBVIOUS
    <3> QED
      BY <1>4, <1>5, <1>8, <3>1, <3>2
  <2> HIDE DEF option
  <2>3. PICK s \in Seq(STRING) : s = option.name
    BY <2>2
  <2>4. Len(text) <= Len(s) /\ SubSeq(s, 1, Len(text)) = text
    BY <2>1, <2>3 DEF StartsWith
  <2>5. Len(text) \in Nat \ {0} /\ Len(s) \in Nat
    BY TailOfText
  <2>6. 1 \in 1 .. Len(s) + 1 /\ Len(text) \in 1 - 1 .. Len(s) /\ 1 \in 1 .. Len(text) - 1 + 1
    BY <2>4, <2>5
  <2>7. SubSeq(s, 1, Len(text))[1] = s[1 + 1 - 1]
    BY <2>6, CutProperties
  <2> QED
    BY <2>3, <2>4, <2>7
<1>10. d.opt = option.val
  BY <1>8 DEF Read
<1>11. option.val \in {"d", "e", "c"}
  BY <1>7, <1>8, <1>10, FilesTableAssumption DEF Ends
<1> QED
  BY <1>7, <1>8, <1>9, <1>11

LEMMA ShortMeans ==
  ASSUME NEW text \in Seq(STRING), text # <<>>, NEW after \in Seq(Elements), NEW d,
         d = Short(FilesTable, text, after), d.opt \notin Ends
  PROVE  \/ /\ Head(text) = "f" /\ Tail(text) = <<>> /\ after # <<>>
            /\ d = Read(2, <<>>, "f", <<Head(after)>>)
         \/ /\ Head(text) = "f" /\ Tail(text) # <<>>
            /\ d = Read(1, <<>>, "f", <<Tail(text)>>)
         \/ /\ Head(text) \in {"d", "e", "c"}
            /\ d = Read(IF Tail(text) = <<>> THEN 1 ELSE 0, Tail(text), Head(text), <<>>)
<1> DEFINE c == Head(text)
           left == Tail(text)
           used == IF left = <<>> THEN 1 ELSE 0
<1>1. d = CASE c \in FilesTable.needing ->
                 IF left = <<>> THEN WithNext(c, after) ELSE Read(1, <<>>, c, <<left>>)
            [] c \in FilesTable.flags   -> Read(used, left, c, <<>>)
            [] OTHER                    -> Refused(used, left)
  BY DEF Short
<1>2. \A n, r : Refused(n, r).opt \in Ends
  BY DEF Refused, Read, Ends
<1>3. /\ c \in FilesTable.needing <=> c = "f"
      /\ c \in FilesTable.flags <=> c \in {"h", "d", "e", "c", "V"}
  BY FilesTableAssumption
<1> HIDE DEF c, left, used
<1>4. CASE c = "f"
  <2>1. d = IF left = <<>> THEN WithNext(c, after) ELSE Read(1, <<>>, c, <<left>>)
    BY <1>1, <1>3, <1>4
  <2>2. left = <<>> => after # <<>> /\ d = Read(2, <<>>, c, <<Head(after)>>)
    BY <1>2, <2>1 DEF WithNext
  <2> QED
    BY <1>4, <2>1, <2>2 DEF c, left
<1>5. CASE c # "f" /\ c \in {"h", "d", "e", "c", "V"}
  <2>1. d = Read(used, left, c, <<>>)
    BY <1>1, <1>3, <1>5
  <2>2. c \in {"d", "e", "c"}
    BY <1>5, <2>1 DEF Read, Ends
  <2> QED
    BY <2>1, <2>2 DEF c, left, used
<1>6. CASE c # "f" /\ c \notin {"h", "d", "e", "c", "V"}
  <2>1. d = Refused(used, left)
    BY <1>1, <1>3, <1>6
  <2> QED
    BY <1>2, <2>1
<1> QED
  BY <1>4, <1>5, <1>6

Rest(given, m, i, text) == IF text = <<>> THEN m[i] ELSE Group(given, m, i, text)

(* An option, with what is left of its element and the elements behind it, *)
(* says what these said together.                                          *)
OptionSays(given, m, i, rest, d) ==
  /\ d.opt \in {"d", "e", "c", "f"} /\ (d.opt = "f" => d.arg # <<>>)
  /\ d.used \in 0 .. 2 /\ i + d.used <= Len(given) + 1
  /\ Rest(given, m, i, rest)
       = Followed(Told(d.opt, d.arg), Rest(given, m, i + d.used, d.rest))
  /\ d.rest # <<>> => d.used = 0 /\ ~IsLong(given[i])

LEMMA OptionMeans ==
  ASSUME NEW given \in Seq(Elements), NEW posix \in BOOLEAN,
         NEW m, m = Meaning(given, posix),
         NEW i \in 1 .. Len(given), NEW todo, todo = SubSeq(given, i, Len(given)),
         NEW rest \in Seq(STRING),
         rest = <<>> => ~IsWord(given[i]) /\ given[i] # Dashes,
         rest # <<>> => ~IsLong(given[i]),
         NEW d, d = Decode(FilesTable, todo, rest), d.opt \notin Ends
  PROVE  OptionSays(given, m, i, rest, d)
<1> USE DEF OptionSays
<1>1. PICK n \in Nat : n = Len(given)
  OBVIOUS
<1>2. i \in 1 .. n /\ i \in Nat /\ i \in 1 .. n + 2
  BY <1>1
<1>3. PICK e : e = given[i]
  OBVIOUS
<1>4. e \in Seq(STRING)
  BY <1>3 DEF Elements
<1>5. /\ todo \in Seq(Elements) /\ Len(todo) = n - i + 1 /\ Len(todo) >= 1 /\ todo # <<>>
      /\ \A k \in 1 .. n - i + 1 : todo[k] = given[i + k - 1]
  <2>1. i \in 1 .. Len(given) + 1 /\ Len(given) \in i - 1 .. Len(given)
    BY <1>1
  <2>2. /\ todo \in Seq(Elements) /\ Len(todo) = n - i + 1
        /\ \A k \in 1 .. n - i + 1 : todo[k] = given[i + k - 1]
    BY <1>1, <2>1, CutProperties
  <2>3. n - i + 1 >= 1 /\ n - i + 1 # 0
    BY <1>2
  <2>4. todo # <<>>
    BY <2>2, <2>3
  <2> QED
    BY <2>2, <2>3, <2>4
<1>6. /\ Head(todo) = e /\ Tail(todo) \in Seq(Elements)
      /\ Tail(todo) # <<>> => i < n /\ Head(Tail(todo)) = given[i + 1]
  <2>1. 1 \in 1 .. n - i + 1 /\ i + 1 - 1 = i /\ n - i + 1 \in Nat
    BY <1>2
  <2>2. Head(todo) = todo[1] /\ todo[1] = given[i]
    BY <1>5, <2>1
  <2>3. /\ Tail(todo) \in Seq(Elements) /\ Len(Tail(todo)) = n - i
        /\ \A j \in 1 .. n - i : Tail(todo)[j] = todo[j + 1]
    <3>1. /\ Tail(todo) \in Seq(Elements) /\ Len(Tail(todo)) = Len(todo) - 1
          /\ \A j \in 1 .. Len(Tail(todo)) : Tail(todo)[j] = todo[j + 1]
      BY <1>5, HeadTailProperties
    <3>2. Len(todo) - 1 = n - i
      BY <1>5, <2>1, <1>2
    <3> QED
      BY <3>1, <3>2
  <2>4. ASSUME Tail(todo) # <<>>
        PROVE  i < n /\ Head(Tail(todo)) = given[i + 1]
    <3>1. Len(Tail(todo)) # 0
      BY <2>3, <2>4
    <3>2. i < n
      BY <1>2, <2>3, <3>1
    <3>3. 1 \in 1 .. n - i /\ 1 + 1 \in 1 .. n - i + 1 /\ i + (1 + 1) - 1 = i + 1
      BY <1>2, <3>2
    <3>4. Tail(todo)[1] = given[i + 1]
      BY <1>5, <2>3, <3>3
    <3> QED
      BY <2>3, <2>4, <3>2, <3>4
  <2> QED
    BY <1>3, <2>2, <2>3, <2>4
<1>7. m[i] = Meant(given, posix, m, i) /\ \A k \in 1 .. n + 2 : m[k] \in Sayings
  <2>1. \A k \in 1 .. n + 2 : m[k] = Meant(given, posix, m, k) /\ m[k] \in Sayings
    BY <1>1, MeaningExists
  <2> QED
    BY <1>2, <2>1
<1>8. CASE IsLong(e)
  <2>1. PICK text : text = SubSeq(e, 3, Len(e))
    OBVIOUS
  <2>2. rest = <<>> /\ ~IsWord(e) /\ e # Dashes
    BY <1>3, <1>8
  <2>3. /\ text \in Seq(STRING) /\ text # <<>> /\ text[1] = e[3]
    <3>1. PICK l \in Nat : l = Len(e)
      BY <1>4
    <3>2. l > 1 /\ e[1] = "-" /\ e[2] = "-"
      BY <1>8, <2>2, <3>1 DEF IsWord, IsLong
    <3>3. l # 2
      <4> SUFFICES ASSUME l = 2 PROVE FALSE
        OBVIOUS
      <4>1. e = <<e[1], e[2]>>
        BY <1>4, <3>1
      <4> QED
        BY <2>2, <3>2, <4>1 DEF Dashes
    <3>4. 3 \in 1 .. l + 1 /\ l \in 3 - 1 .. l /\ l - 3 + 1 >= 1 /\ 1 \in 1 .. l - 3 + 1
          /\ 3 + 1 - 1 = 3
      BY <3>2, <3>3
    <3>5. text \in Seq(STRING) /\ Len(text) = l - 3 + 1 /\ text[1] = e[3]
      BY <1>4, <2>1, <3>1, <3>4, CutProperties
    <3>6. text # <<>>
      BY <3>4, <3>5
    <3> QED
      BY <3>5, <3>6
  <2>4. d = Long(FilesTable, text, Tail(todo))
    BY <1>6, <1>8, <2>1 DEF Decode
  <2>5. d = Read(1, <<>>, Letter(e[3]), <<>>) /\ Letter(e[3]) \in {"d", "e", "c"}
    BY <2>3, <2>4, LongMeans
  <2>6. d.used = 1 /\ d.rest = <<>> /\ d.opt = Letter(e[3])
    BY <2>5 DEF Read
  <2>7. m[i] = Followed(Says({Letter(e[3])}, <<>>), m[i + 1])
    BY <1>1, <1>3, <1>7, <1>8, <2>2, MeantCases
  <2>8. Told(d.opt, d.arg) = Says({Letter(e[3])}, <<>>)
    BY <2>5, <2>6 DEF Told
  <2> QED
    BY <1>1, <1>2, <2>2, <2>5, <2>6, <2>7, <2>8 DEF Rest
<1>9. CASE ~IsLong(e)
  <2>1. PICK text : text = IF rest = <<>> THEN Tail(e) ELSE rest
    OBVIOUS
  <2>2. d = Short(FilesTable, text, Tail(todo))
    BY <1>6, <1>9, <2>1 DEF Decode
  <2>3. /\ text \in Seq(STRING) /\ text # <<>>
        /\ Rest(given, m, i, rest) = Group(given, m, i, text)
    <3>1. CASE rest = <<>>
      <4>1. ~IsWord(e) /\ e # Dashes
        BY <1>3, <3>1
      <4>2. PICK l \in Nat : l = Len(e)
        BY <1>4
      <4>6. l > 1 /\ l # 0 /\ l # 1
        <5>1. Len(e) \in Nat /\ Len(e) > 1
          BY <1>4, <4>1 DEF IsWord
        <5>2. l > 1
          BY <4>2, <5>1
        <5> QED
          BY <5>2
      <4>3. e # <<>> /\ Len(e) # 1
        BY <4>2, <4>6
      <4>4. Tail(e) \in Seq(STRING) /\ Tail(e) # <<>>
        BY <1>4, <4>3, TailOfText
      <4>5. m[i] = Group(given, m, i, Tail(e))
        BY <1>1, <1>3, <1>7, <1>9, <4>1, MeantCases
      <4> QED
        BY <2>1, <3>1, <4>4, <4>5 DEF Rest
    <3>2. CASE rest # <<>>
      BY <2>1, <3>2 DEF Rest
    <3> QED
      BY <3>1, <3>2
  <2>4. \/ /\ Head(text) = "f" /\ Tail(text) = <<>> /\ Tail(todo) # <<>>
           /\ d = Read(2, <<>>, "f", <<Head(Tail(todo))>>)
        \/ /\ Head(text) = "f" /\ Tail(text) # <<>>
           /\ d = Read(1, <<>>, "f", <<Tail(text)>>)
        \/ /\ Head(text) \in {"d", "e", "c"}
           /\ d = Read(IF Tail(text) = <<>> THEN 1 ELSE 0, Tail(text), Head(text), <<>>)
    BY <1>6, <2>2, <2>3, ShortMeans
  <2>5. CASE /\ Head(text) = "f" /\ Tail(text) = <<>> /\ Tail(todo) # <<>>
             /\ d = Read(2, <<>>, "f", <<Head(Tail(todo))>>)
    <3>1. /\ d.used = 2 /\ d.rest = <<>> /\ d.opt = "f" /\ d.arg = <<given[i + 1]>>
          /\ i < n
      BY <1>6, <2>5 DEF Read
    <3>2. Group(given, m, i, text) = Followed(Says({}, <<given[i + 1]>>), m[i + 2])
      <4>1. i < Len(given) /\ Head(text) = "f" /\ Tail(text) = <<>>
        BY <1>1, <2>5, <3>1
      <4>2. text \in Seq(STRING) /\ text # <<>> /\ i \in Nat
        BY <1>2, <2>3
      <4> QED
        BY <4>1, <4>2, GroupAtF
    <3>3. Told(d.opt, d.arg) = Says({}, <<given[i + 1]>>)
      BY <3>1 DEF Told
    <3>4. Rest(given, m, i + d.used, d.rest) = m[i + 2]
      BY <3>1 DEF Rest
    <3>5. d.arg # <<>> /\ i + d.used <= n + 1
      BY <1>2, <3>1
    <3> QED
      BY <1>1, <2>3, <3>1, <3>2, <3>3, <3>4, <3>5
  <2>6. CASE /\ Head(text) = "f" /\ Tail(text) # <<>>
             /\ d = Read(1, <<>>, "f", <<Tail(text)>>)
    <3>1. d.used = 1 /\ d.rest = <<>> /\ d.opt = "f" /\ d.arg = <<Tail(text)>>
      BY <2>6 DEF Read
    <3>2. Group(given, m, i, text) = Followed(Says({}, <<Tail(text)>>), m[i + 1])
      <4>1. Head(text) = "f" /\ Tail(text) # <<>>
        BY <2>6
      <4>2. text \in Seq(STRING) /\ text # <<>> /\ i \in Nat
        BY <1>2, <2>3
      <4> QED
        BY <4>1, <4>2, GroupAtF
    <3>3. Told(d.opt, d.arg) = Says({}, <<Tail(text)>>)
      BY <3>1 DEF Told
    <3>4. Rest(given, m, i + d.used, d.rest) = m[i + 1]
      BY <3>1 DEF Rest
    <3>5. d.arg # <<>> /\ i + d.used <= n + 1
      BY <1>2, <3>1
    <3> QED
      BY <1>1, <2>3, <3>1, <3>2, <3>3, <3>4, <3>5
  <2>7. CASE /\ Head(text) \in {"d", "e", "c"}
             /\ d = Read(IF Tail(text) = <<>> THEN 1 ELSE 0, Tail(text), Head(text), <<>>)
    <3>1. /\ d.used = (IF Tail(text) = <<>> THEN 1 ELSE 0) /\ d.rest = Tail(text)
          /\ d.opt = Head(text)
      BY <2>7 DEF Read
    <3>2. Told(d.opt, d.arg) = Says({Head(text)}, <<>>) /\ d.opt # "f"
      BY <2>7, <3>1 DEF Told
    <3>3. CASE Tail(text) = <<>>
      <4>1. Group(given, m, i, text) = Followed(Says({Head(text)}, <<>>), m[i + 1])
        BY <1>2, <2>3, <2>7, <3>3, GroupOfOne
      <4>2. Rest(given, m, i + d.used, d.rest) = m[i + 1]
        BY <3>1, <3>3 DEF Rest
      <4>3. d.used = 1 /\ i + d.used <= n + 1
        BY <1>2, <3>1, <3>3
      <4>4. Rest(given, m, i, rest)
              = Followed(Told(d.opt, d.arg), Rest(given, m, i + d.used, d.rest))
        BY <2>3, <3>2, <4>1, <4>2
      <4>5. d.opt \in {"d", "e", "c"} /\ d.rest = <<>>
        BY <2>7, <3>1, <3>3
      <4> QED
        BY <1>1, <3>2, <4>3, <4>4, <4>5
    <3>4. CASE Tail(text) # <<>>
      <4>1. Group(given, m, i, text)
              = Followed(Says({Head(text)}, <<>>), Group(given, m, i, Tail(text)))
        BY <1>2, <2>3, <2>7, <3>4, GroupWithoutF
      <4>2. d.used = 0 /\ i + d.used = i /\ i <= n + 1
        BY <1>2, <3>1, <3>4
      <4>3. Rest(given, m, i + d.used, d.rest) = Group(given, m, i, Tail(text))
        BY <3>1, <3>4, <4>2 DEF Rest
      <4>4. Rest(given, m, i, rest)
              = Followed(Told(d.opt, d.arg), Rest(given, m, i + d.used, d.rest))
        BY <2>3, <3>2, <4>1, <4>3
      <4>5. d.opt \in {"d", "e", "c"}
        BY <2>7, <3>1
      <4>6. ~IsLong(given[i])
        BY <1>3, <1>9
      <4> QED
        BY <1>1, <3>2, <4>2, <4>4, <4>5, <4>6
    <3> QED
      BY <3>3, <3>4
  <2> QED
    BY <2>4, <2>5, <2>6, <2>7
<1> QED
  BY <1>8, <1>9

(* Where decode_switches is in the command line: what it has seen, the     *)
(* option it was told last and what is still to be read say together what  *)
(* the command line means.                                                 *)
Reads(given, m, seen, opt, arg, todo, rest) ==
  /\ opt \in {"none", "pending", "end", "d", "e", "c", "f"} /\ (opt = "f" => arg # <<>>)
  /\ \E i \in 1 .. Len(given) + 1 :
        /\ todo = SubSeq(given, i, Len(given))
        /\ rest # <<>> => i <= Len(given) /\ ~IsLong(given[i])
        /\ m[1] = Followed(seen, Followed(Told(opt, arg), Rest(given, m, i, rest)))

LEMMA RestIsSaying ==
  ASSUME NEW given \in Seq(Elements), NEW posix \in BOOLEAN, NEW m, m = Meaning(given, posix),
         NEW i \in 1 .. Len(given) + 1, NEW rest \in Seq(STRING), rest # <<>> => i <= Len(given)
  PROVE  /\ Rest(given, m, i, rest) \in Sayings
         /\ i = Len(given) + 1 => Rest(given, m, i, <<>>) = Nothing
<1>1. PICK n \in Nat : n = Len(given)
  OBVIOUS
<1>2. \A k \in 1 .. n + 2 : m[k] = Meant(given, posix, m, k) /\ m[k] \in Sayings
  BY <1>1, MeaningExists
<1>3. i \in 1 .. n + 2 /\ i + 1 \in 1 .. n + 2 /\ (rest # <<>> => i \in 1 .. n /\ i + 2 \in 1 .. n + 2)
  BY <1>1
<1>4. Rest(given, m, i, rest) \in Sayings
  <2>1. CASE rest = <<>>
    BY <1>2, <1>3, <2>1 DEF Rest
  <2>2. CASE rest # <<>>
    <3>1. m[i + 1] \in Sayings /\ m[i + 2] \in Sayings
      BY <1>2, <1>3, <2>2
    <3> QED
      BY <1>1, <1>3, <2>2, <3>1, GroupIsSaying DEF Rest
  <2> QED
    BY <2>1, <2>2
<1>5. i = Len(given) + 1 => Rest(given, m, i, <<>>) = Nothing
  <2> SUFFICES ASSUME i = n + 1 PROVE m[i] = Nothing
    BY <1>1 DEF Rest
  <2>1. i > n /\ m[i] = Meant(given, posix, m, i)
    BY <1>2, <1>3
  <2> QED
    BY <1>1, <2>1 DEF Meant
<1> QED
  BY <1>4, <1>5

LEMMA TellsNothing ==
  Told("none", <<>>) = Nothing /\ Told("pending", <<>>) = Nothing /\ Told("end", <<>>) = Nothing
BY DEF Told

LEMMA ReadsBegin ==
  ASSUME NEW given \in Seq(Elements), NEW posix \in BOOLEAN, NEW m, m = Meaning(given, posix)
  PROVE  Reads(given, m, Nothing, "none", <<>>, given, <<>>)
<1>1. PICK n \in Nat : n = Len(given)
  OBVIOUS
<1>2. 1 \in 1 .. n + 1 /\ 1 \in 1 .. n + 2
  OBVIOUS
<1>3. given = SubSeq(given, 1, n)
  BY <1>1, SubSeqFull
<1>4. m[1] \in Sayings
  BY <1>1, <1>2, MeaningExists
<1>5. Rest(given, m, 1, <<>>) = m[1]
  BY DEF Rest
<1>6. m[1] = Followed(Nothing, Followed(Told("none", <<>>), Rest(given, m, 1, <<>>)))
  BY <1>4, <1>5, NothingFollowed, TellsNothing
<1> QED
  BY <1>1, <1>2, <1>3, <1>6 DEF Reads

LEMMA ReadsOn ==
  ASSUME NEW given \in Seq(Elements), NEW posix \in BOOLEAN, NEW m, m = Meaning(given, posix),
         NEW seen, NEW opt, NEW arg, NEW todo, NEW rest \in Seq(STRING),
         Reads(given, m, seen, opt, arg, todo, rest)
  PROVE  Reads(given, m, Followed(seen, Told(opt, arg)), "pending", <<>>, todo, rest)
<1>1. PICK i \in 1 .. Len(given) + 1 :
         /\ todo = SubSeq(given, i, Len(given))
         /\ rest # <<>> => i <= Len(given) /\ ~IsLong(given[i])
         /\ m[1] = Followed(seen, Followed(Told(opt, arg), Rest(given, m, i, rest)))
  BY DEF Reads
<1>2. PICK x : x = Rest(given, m, i, rest)
  OBVIOUS
<1>3. x \in Sayings
  BY <1>1, <1>2, RestIsSaying
<1>4. Followed(Told("pending", <<>>), x) = x
  BY <1>3, NothingFollowed, TellsNothing
<1>5. m[1] = Followed(Followed(seen, Told(opt, arg)), Followed(Told("pending", <<>>), x))
  BY <1>1, <1>2, <1>4, FollowedInTurn
<1> QED
  BY <1>1, <1>2, <1>5 DEF Reads

(* The three sequences of Scan and what they say.                          *)
LEMMA PlaceOfTodo ==
  ASSUME NEW given \in Seq(Elements), NEW i \in 1 .. Len(given) + 1,
         NEW todo, todo = SubSeq(given, i, Len(given))
  PROVE  /\ todo # <<>> => /\ i \in 1 .. Len(given) /\ Head(todo) = given[i]
                           /\ i + 1 \in 1 .. Len(given) + 1
                           /\ Tail(todo) = SubSeq(given, i + 1, Len(given))
         /\ todo = <<>> => i = Len(given) + 1
         /\ todo \in Seq(Elements) /\ Len(todo) = Len(given) - i + 1
<1>1. PICK n \in Nat : n = Len(given)
  OBVIOUS
<1>2. todo \in Seq(Elements) /\ Len(todo) = n - i + 1
  <2>1. Len(given) \in i - 1 .. Len(given)
    BY <1>1
  <2> QED
    BY <1>1, <2>1, CutProperties
<1>3. todo = <<>> => i = n + 1
  BY <1>1, <1>2
<1>4. ASSUME todo # <<>>
      PROVE  /\ i \in 1 .. n /\ Head(todo) = given[i] /\ i + 1 \in 1 .. n + 1
             /\ Tail(todo) = SubSeq(given, i + 1, n)
  <2>1. n - i + 1 # 0
    BY <1>2, <1>4
  <2>2. i \in 1 .. n /\ i + 1 \in 1 .. n + 1 /\ n \in i .. n /\ 1 \in 0 .. n - i + 1
    BY <1>1, <2>1
  <2>3. Head(todo) = given[i] /\ Tail(todo) = SubSeq(given, i + 1, n)
    BY <1>1, <2>2, HeadTailOfSubSeq
  <2> QED
    BY <2>2, <2>3
<1> QED
  BY <1>1, <1>2, <1>3, <1>4

LEMMA WordReads ==
  ASSUME NEW given \in Seq(Elements), NEW posix \in BOOLEAN, NEW m, m = Meaning(given, posix),
         NEW seen, NEW todo, Reads(given, m, seen, "pending", <<>>, todo, <<>>),
         todo # <<>>, ~posix, IsWord(Head(todo))
  PROVE  Reads(given, m, seen, "pending", <<>>, Tail(todo), <<>>)
<1>1. PICK i \in 1 .. Len(given) + 1 :
         /\ todo = SubSeq(given, i, Len(given))
         /\ m[1] = Followed(seen, Followed(Told("pending", <<>>), Rest(given, m, i, <<>>)))
  BY DEF Reads
<1>2. /\ i \in 1 .. Len(given) /\ Head(todo) = given[i] /\ i + 1 \in 1 .. Len(given) + 1
      /\ Tail(todo) = SubSeq(given, i + 1, Len(given))
  BY <1>1, PlaceOfTodo
<1>3. m[i] = m[i + 1]
  <2>1. Len(given) \in Nat /\ i \in 1 .. Len(given) + 2
    BY <1>2
  <2>2. m[i] = Meant(given, posix, m, i)
    BY <2>1, MeaningExists
  <2> QED
    BY <1>2, <2>1, <2>2, MeantCases
<1>4. Rest(given, m, i, <<>>) = Rest(given, m, i + 1, <<>>)
  BY <1>3 DEF Rest
<1> QED
  BY <1>1, <1>2, <1>4 DEF Reads

LEMMA EndReads ==
  ASSUME NEW given \in Seq(Elements), NEW posix \in BOOLEAN, NEW m, m = Meaning(given, posix),
         NEW seen, NEW todo, Reads(given, m, seen, "pending", <<>>, todo, <<>>),
         todo # <<>> => Head(todo) = Dashes \/ (posix /\ IsWord(Head(todo))),
         NEW opt \in {"pending", "end"}
  PROVE  Reads(given, m, seen, opt, <<>>, <<>>, <<>>)
<1>1. PICK i \in 1 .. Len(given) + 1 :
         /\ todo = SubSeq(given, i, Len(given))
         /\ m[1] = Followed(seen, Followed(Told("pending", <<>>), Rest(given, m, i, <<>>)))
  BY DEF Reads
<1>2. PICK n \in Nat : n = Len(given)
  OBVIOUS
<1>3. Rest(given, m, i, <<>>) = Nothing
  <2>1. CASE todo = <<>>
    <3>1. i = Len(given) + 1
      BY <1>1, <2>1, PlaceOfTodo
    <3>2. <<>> \in Seq(STRING)
      OBVIOUS
    <3> QED
      BY <3>1, <3>2, RestIsSaying
  <2>2. CASE todo # <<>>
    <3>1. i \in 1 .. Len(given) /\ Head(todo) = given[i]
      BY <1>1, <2>2, PlaceOfTodo
    <3>2. i \in 1 .. Len(given) + 2
      BY <1>2, <3>1
    <3>3. m[i] = Meant(given, posix, m, i)
      BY <3>2, MeaningExists
    <3>4. Meant(given, posix, m, i) = Nothing
      BY <1>2, <2>2, <3>1, MeantCases
    <3> QED
      BY <3>3, <3>4 DEF Rest
  <2> QED
    BY <2>1, <2>2
<1>4. n + 1 \in 1 .. Len(given) + 1 /\ n + 1 = Len(given) + 1
  BY <1>2
<1>5. Rest(given, m, n + 1, <<>>) = Nothing
  <2>1. <<>> \in Seq(STRING)
    OBVIOUS
  <2> QED
    BY <1>4, <2>1, RestIsSaying
<1>6. <<>> = SubSeq(given, n + 1, Len(given))
  BY <1>2, SubSeqEmpty
<1>7. Told(opt, <<>>) = Told("pending", <<>>)
  BY TellsNothing
<1>8. m[1] = Followed(seen, Followed(Told(opt, <<>>), Rest(given, m, n + 1, <<>>)))
  BY <1>1, <1>3, <1>5, <1>7
<1> QED
  BY <1>4, <1>6, <1>8 DEF Reads

LEMMA OptionReads ==
  ASSUME NEW given \in Seq(Elements), NEW posix \in BOOLEAN, NEW m, m = Meaning(given, posix),
         NEW seen, NEW todo, NEW rest \in Seq(STRING),
         Reads(given, m, seen, "pending", <<>>, todo, rest), todo # <<>>,
         rest = <<>> => ~IsWord(Head(todo)) /\ Head(todo) # Dashes,
         NEW d, d = Decode(FilesTable, todo, rest), d.opt \notin Ends
  PROVE  Reads(given, m, seen, d.opt, d.arg, SubSeq(todo, d.used + 1, Len(todo)), d.rest)
<1>1. PICK i \in 1 .. Len(given) + 1 :
         /\ todo = SubSeq(given, i, Len(given))
         /\ rest # <<>> => i <= Len(given) /\ ~IsLong(given[i])
         /\ m[1] = Followed(seen, Followed(Told("pending", <<>>), Rest(given, m, i, rest)))
  BY DEF Reads
<1>2. i \in 1 .. Len(given) /\ Head(todo) = given[i] /\ Len(todo) = Len(given) - i + 1
  BY <1>1, PlaceOfTodo
<1>3. OptionSays(given, m, i, rest, d)
  <2>1. rest = <<>> => ~IsWord(given[i]) /\ given[i] # Dashes
    BY <1>2
  <2>2. rest # <<>> => ~IsLong(given[i])
    BY <1>1
  <2>3. i \in 1 .. Len(given) /\ todo = SubSeq(given, i, Len(given))
    BY <1>1, <1>2
  <2> QED
    BY <2>1, <2>2, <2>3, OptionMeans
<1> USE DEF OptionSays
<1>4. PICK n \in Nat : n = Len(given)
  OBVIOUS
<1>5. PICK u \in 0 .. 2 : u = d.used
  BY <1>3
<1>6. /\ i + u \in 1 .. n + 1 /\ u \in 0 .. Len(given) - i + 1 /\ (u = 0 => i + u = i)
      /\ i <= n
  BY <1>2, <1>3, <1>4, <1>5
<1>7. SubSeq(todo, u + 1, Len(todo)) = SubSeq(given, i + u, Len(given))
  BY <1>1, <1>6, CutOfCut
<1>8. Followed(Told("pending", <<>>), Rest(given, m, i, rest)) = Rest(given, m, i, rest)
  <2>1. Rest(given, m, i, rest) \in Sayings
    BY <1>1, RestIsSaying
  <2> QED
    BY <2>1, NothingFollowed, TellsNothing
<1>9. m[1] = Followed(seen, Followed(Told(d.opt, d.arg), Rest(given, m, i + u, d.rest)))
  BY <1>1, <1>3, <1>5, <1>8
<1>10. d.rest # <<>> => i + u <= Len(given) /\ ~IsLong(given[i + u])
  BY <1>3, <1>4, <1>5, <1>6
<1> QED
  BY <1>3, <1>4, <1>5, <1>6, <1>7, <1>9, <1>10 DEF Reads

LEMMA AllReads ==
  ASSUME NEW given \in Seq(Elements), NEW posix \in BOOLEAN, NEW m, m = Meaning(given, posix),
         NEW letters, NEW file, NEW arg,
         Reads(given, m, Says(letters, file), "end", arg, <<>>, <<>>)
  PROVE  m[1] = Says(letters, file)
<1>1. PICK i \in 1 .. Len(given) + 1 :
         /\ <<>> = SubSeq(given, i, Len(given))
         /\ m[1] = Followed(Says(letters, file), Followed(Told("end", arg), Rest(given, m, i, <<>>)))
  BY DEF Reads
<1>2. i = Len(given) + 1
  BY <1>1, PlaceOfTodo
<1>3. Rest(given, m, i, <<>>) = Nothing
  <2>1. <<>> \in Seq(STRING)
    OBVIOUS
  <2> QED
    BY <1>2, <2>1, RestIsSaying
<1>4. Told("end", arg) = Nothing
  BY DEF Told
<1>5. Followed(Nothing, Nothing) = Nothing
  BY NothingFollowed, NothingIsSaying
<1>6. Followed(Says(letters, file), Nothing) = Says(letters, file)
  <2>1. letters \union {} = letters
    OBVIOUS
  <2> QED
    BY <2>1 DEF Followed, Says, Nothing
<1> QED
  BY <1>1, <1>3, <1>4, <1>5, <1>6

-----------------------------------------------------------------------------
(* The locals of decode_switches, as what they say.                        *)
SeenLetters == (IF "debug" \in switches THEN {"d"} ELSE {})
               \union (IF "escape" \in switches THEN {} ELSE {"e"})
               \union (IF "lowercase" \in switches THEN {} ELSE {"c"})
Seen == Says(SeenLetters, fName)

ForPgify  == world.caller = "pgify"
Commanded == Meaning(world.argv, posixly_correct)

CommandInv ==
  /\ ForPgify => table = FilesTable
  /\ at \notin {"switches", "exited"} => ForPgify
  /\ at = "switches" /\ ForPgify /\ result.opt \notin Ends =>
       Reads(world.argv, Commanded, Seen, result.opt, result.arg, Todo, nextchar)
  /\ at \notin {"switches", "exited"} => Commanded[1] = Seen

LEMMA WorldKept ==
  ASSUME [Next]_vars
  PROVE  UNCHANGED <<world, table, posixly_correct>>
<1> USE DEF callerVars
<1>1. CASE UNCHANGED vars
  BY <1>1 DEF vars, getoptVars, programVars
<1>2. CASE FirstCall \/ Switch \/ TestTurn
  BY <1>2 DEF FirstCall, Switch, TestTurn, Call, programVars
<1>3. CASE GetoptTurn
  <2>1. world' = world
    BY <1>3 DEF GetoptTurn, programVars
  <2>2. UNCHANGED callerVars
    <3>1. CASE Advance \/ Exchange \/ Exchanged \/ Skip \/ Skipped
      BY <3>1 DEF Advance, Exchange, Exchanged, Skip, Skipped
    <3>2. CASE EndOfOptions \/ Stop \/ AllRead \/ StopAtWord
      BY <3>2 DEF EndOfOptions, Stop, AllRead, StopAtWord
    <3>3. CASE ReturnOption
      BY <3>3 DEF ReturnOption
    <3> QED
      BY <1>3, <3>1, <3>2, <3>3 DEF GetoptTurn, GetoptNext
  <2> QED
    BY <2>1, <2>2
<1>4. CASE \/ ShowAndExit \/ EndOfSwitches \/ TestEnd \/ OpenFile \/ OpenFails \/ ReadChunk
            \/ ReadError \/ StreamFails
  BY <1>4 DEF ShowAndExit, EndOfSwitches, TestEnd, OpenFile, OpenFails, ReadChunk, ReadError, StreamFails,
              getoptVars
<1>5. CASE EndOfStdin \/ Pgify \/ NoState \/ NullInput \/ LexerTurn \/ PgifyFails \/ PrintResult
  BY <1>5 DEF EndOfStdin, Pgify, NoState, NullInput, LexerTurn, PgifyFails, PrintResult, getoptVars,
              programVars
<1> QED
  BY <1>1, <1>2, <1>3, <1>4, <1>5 DEF Next

LEMMA WorldTypes ==
  ASSUME GetoptInv, InputsOK
  PROVE  /\ world.argv \in Seq(Elements) /\ posixly_correct \in BOOLEAN
         /\ nextchar \in Seq(STRING)
BY WorldsAssumption DEF GetoptInv, GetoptTypes, InputsOK, Elements

LEMMA CommandInit == ProgramInit => CommandInv
<1> SUFFICES ASSUME ProgramInit PROVE CommandInv
  OBVIOUS
<1>1. GetoptInv /\ InputsOK
  BY GetoptInvInit, LexInvInit DEF LexInv
<1>2. /\ at = "switches" /\ fName = <<>> /\ switches = {"escape", "lowercase"}
      /\ (ForPgify => table = FilesTable) /\ argv = world.argv /\ StartGetopt
  BY DEF ProgramInit, ForPgify
<1>3. /\ result.opt = "none" /\ result.arg = <<>> /\ nextchar = <<>> /\ optind = 1 /\ ~NoneLeft
  BY <1>2 DEF StartGetopt, Answer, NoneLeft
<1>4. Seen = Nothing
  <2>1. SeenLetters = {}
    BY <1>2 DEF SeenLetters
  <2> QED
    BY <1>2, <2>1 DEF Seen, Nothing
<1>5. Todo = world.argv
  <2>1. world.argv \in Seq(Elements)
    BY <1>1, WorldTypes
  <2>2. SubSeq(world.argv, 1, Len(world.argv)) = world.argv
    BY <2>1, SubSeqFull
  <2> QED
    BY <1>2, <1>3, <2>2 DEF Todo
<1>6. Reads(world.argv, Commanded, Seen, result.opt, result.arg, Todo, nextchar)
  BY <1>1, <1>3, <1>4, <1>5, WorldTypes, ReadsBegin DEF Commanded
<1> QED
  BY <1>2, <1>6 DEF CommandInv

(* The answer is not read as long as there is none.                        *)
LEMMA NoAnswerRead ==
  ASSUME NEW given, NEW m, NEW seen, NEW todo, NEW rest, NEW arg, NEW opt \in {"pending", "end"}
  PROVE  Reads(given, m, seen, opt, arg, todo, rest) <=> Reads(given, m, seen, opt, <<>>, todo, rest)
<1>1. Told(opt, arg) = Told(opt, <<>>)
  BY DEF Told
<1> QED
  BY <1>1 DEF Reads

(* A turn of getopt_long, as the step of Scan that it is.                  *)
LEMMA TurnReads ==
  ASSUME GetoptInv, InputsOK, GetoptTurn, ForPgify, table = FilesTable,
         NEW m, m = Commanded, NEW seen,
         Reads(world.argv, m, seen, result.opt, result.arg, Todo, nextchar),
         result'.opt \notin Ends
  PROVE  Reads(world.argv, m, seen, result'.opt, result'.arg, Todo', nextchar')
<1>1. PICK given, posix : given = world.argv /\ posix = posixly_correct
  OBVIOUS
<1>2. /\ given \in Seq(Elements) /\ posix \in BOOLEAN /\ nextchar \in Seq(STRING)
      /\ m = Meaning(given, posix)
  BY <1>1, WorldTypes DEF Commanded
<1>3. GetoptNext /\ getopt # "returned" /\ result.opt = "pending"
  BY DEF GetoptTurn, GetoptInv, GetoptTypes
<1>4. Abstract!ScanNext \/ UNCHANGED Abstract!scanVars
  BY <1>3, GetoptNextSimulates
<1>11. PICK todo, rest, arg : todo = Todo /\ rest = nextchar /\ arg = result.arg
  OBVIOUS
<1>12. PICK todo1, rest1, opt1, arg1 :
         todo1 = Todo' /\ rest1 = nextchar' /\ opt1 = result'.opt /\ arg1 = result'.arg
  OBVIOUS
<1>13. Reads(given, m, seen, "pending", <<>>, todo, rest)
  <2>1. Reads(given, m, seen, "pending", arg, todo, rest)
    BY <1>1, <1>3, <1>11
  <2> QED
    BY <2>1, NoAnswerRead
<1>14. SUFFICES Reads(given, m, seen, opt1, arg1, todo1, rest1)
  BY <1>1, <1>12
<1>5. CASE UNCHANGED Abstract!scanVars
  <2>1. UNCHANGED <<Todo, nextchar, result>>
    BY <1>5 DEF Abstract!scanVars, Todo
  <2>2. todo1 = todo /\ rest1 = rest /\ opt1 = "pending" /\ arg1 = arg
    BY <1>3, <1>11, <1>12, <2>1
  <2> QED
    BY <1>13, <2>2, NoAnswerRead
<1>6. CASE Abstract!AskNext
  BY <1>3, <1>6 DEF Abstract!AskNext, Abstract!Pending
<1>7. CASE Abstract!PassOver
  <2>1. /\ nextchar = <<>> /\ Todo # <<>> /\ ~posix /\ IsWord(Head(Todo))
        /\ Todo' = Tail(Todo) /\ nextchar' = nextchar /\ result' = result
    BY <1>1, <1>7 DEF Abstract!PassOver, Abstract!IsWord, IsWord, Todo
  <2>2. rest = <<>> /\ todo # <<>> /\ IsWord(Head(todo))
    BY <1>11, <2>1
  <2>3. Reads(given, m, seen, "pending", <<>>, Tail(todo), <<>>)
    BY <1>2, <1>13, <2>1, <2>2, WordReads
  <2>4. todo1 = Tail(todo) /\ rest1 = <<>> /\ opt1 = "pending"
    BY <1>3, <1>11, <1>12, <2>1
  <2> QED
    BY <2>3, <2>4, NoAnswerRead
<1>8. CASE Abstract!EndOptions
  <2>1. /\ nextchar = <<>> /\ Todo # <<>> /\ Head(Todo) = Dashes
        /\ Todo' = <<>> /\ nextchar' = nextchar /\ result' = result
    BY <1>8 DEF Abstract!EndOptions, Abstract!Dashes, Dashes, Todo
  <2>2. rest = <<>> /\ (todo # <<>> => Head(todo) = Dashes \/ (posix /\ IsWord(Head(todo))))
    BY <1>11, <2>1
  <2>3. Reads(given, m, seen, "pending", <<>>, <<>>, <<>>)
    BY <1>2, <1>13, <2>2, EndReads
  <2>4. todo1 = <<>> /\ rest1 = <<>> /\ opt1 = "pending"
    BY <1>3, <1>12, <2>1
  <2> QED
    BY <2>3, <2>4, NoAnswerRead
<1>9. CASE Abstract!EndScan
  <2>1. /\ nextchar = <<>> /\ (Todo # <<>> => posix /\ IsWord(Head(Todo)))
        /\ Todo' = <<>> /\ nextchar' = nextchar /\ result'.opt = "end" /\ result'.arg = <<>>
    BY <1>1, <1>9 DEF Abstract!EndScan, Abstract!IsWord, IsWord, Todo, Abstract!Answer
  <2>2. rest = <<>> /\ (todo # <<>> => Head(todo) = Dashes \/ (posix /\ IsWord(Head(todo))))
    BY <1>11, <2>1
  <2>3. Reads(given, m, seen, "end", <<>>, <<>>, <<>>)
    BY <1>2, <1>13, <2>2, EndReads
  <2>4. todo1 = <<>> /\ rest1 = <<>> /\ opt1 = "end" /\ arg1 = <<>>
    BY <1>12, <2>1
  <2> QED
    BY <2>3, <2>4
<1>10. CASE Abstract!TakeOption
  <2>1. PICK d : d = Decode(FilesTable, todo, rest)
    OBVIOUS
  <2>6. d = Decode(table, Todo, nextchar)
    BY <1>11, <2>1
  <2>2. Abstract!Decode(table, Todo, nextchar) = d
    BY <2>6, SameDecode
  <2>3. /\ Todo # <<>> /\ (nextchar = <<>> => ~IsWord(Head(Todo)) /\ Head(Todo) # Dashes)
        /\ Todo' = SubSeq(Todo, d.used + 1, Len(Todo)) /\ nextchar' = d.rest
        /\ result'.opt = d.opt /\ result'.arg = d.arg
    BY <1>10, <2>2 DEF Abstract!TakeOption, Abstract!IsWord, IsWord, Abstract!Dashes, Dashes, Todo,
                       Abstract!Answer
  <2>4. /\ todo1 = SubSeq(todo, d.used + 1, Len(todo)) /\ rest1 = d.rest
        /\ opt1 = d.opt /\ arg1 = d.arg /\ d.opt \notin Ends
    BY <1>11, <1>12, <2>3
  <2>5. /\ todo # <<>> /\ (rest = <<>> => ~IsWord(Head(todo)) /\ Head(todo) # Dashes)
        /\ rest \in Seq(STRING)
    BY <1>2, <1>11, <2>3
  <2>7. Reads(given, m, seen, d.opt, d.arg, SubSeq(todo, d.used + 1, Len(todo)), d.rest)
    BY <1>2, <1>13, <2>1, <2>4, <2>5, OptionReads
  <2> QED
    BY <2>4, <2>7
<1> QED
  BY <1>4, <1>5, <1>6, <1>7, <1>8, <1>9, <1>10 DEF Abstract!ScanNext

(* A turn of the loop of decode_switches takes over what it was told.      *)
LEMMA SwitchSees ==
  ASSUME Switch, result.opt = "f" => result.arg # <<>>
  PROVE  Seen' = Followed(Seen, Told(result.opt, result.arg))
<1>1. /\ result.opt \in {"f", "d", "e", "c"}
      /\ fName' = IF result.opt = "f" THEN result.arg ELSE fName
      /\ switches' = CASE result.opt = "d" -> switches \union {"debug"}
                       [] result.opt = "e" -> switches \ {"escape"}
                       [] result.opt = "c" -> switches \ {"lowercase"}
                       [] result.opt = "f" -> switches
  BY DEF Switch
<1>2. \A l, f, k : Followed(Says(l, f), Says(k, <<>>)) = Says(l \union k, f)
  BY DEF Followed, Says
<1>3. CASE result.opt = "f"
  <2>1. SeenLetters' = SeenLetters \union {}
    BY <1>1, <1>3 DEF SeenLetters
  <2>2. Told(result.opt, result.arg) = Says({}, result.arg) /\ fName' = result.arg
    BY <1>1, <1>3 DEF Told
  <2>3. Followed(Says(SeenLetters, fName), Says({}, result.arg))
          = Says(SeenLetters \union {}, result.arg)
    BY <1>3 DEF Followed, Says
  <2>4. Seen' = Says(SeenLetters \union {}, result.arg)
    BY <2>1, <2>2 DEF Seen
  <2> QED
    BY <2>2, <2>3, <2>4 DEF Seen
<1>4. ASSUME NEW c, c = result.opt, c \in {"d", "e", "c"}, SeenLetters' = SeenLetters \union {c}
      PROVE  Seen' = Followed(Seen, Told(result.opt, result.arg))
  <2>1. Told(result.opt, result.arg) = Says({c}, <<>>) /\ fName' = fName
    BY <1>1, <1>4 DEF Told
  <2>2. Followed(Says(SeenLetters, fName), Says({c}, <<>>)) = Says(SeenLetters \union {c}, fName)
    BY <1>2
  <2>3. Seen' = Says(SeenLetters', fName')
    BY DEF Seen
  <2>4. Seen' = Says(SeenLetters \union {c}, fName)
    BY <1>4, <2>1, <2>3
  <2> QED
    BY <2>1, <2>2, <2>4 DEF Seen
<1>5. CASE result.opt = "d"
  <2>1. switches' = switches \union {"debug"}
    BY <1>1, <1>5
  <2>2. SeenLetters' = SeenLetters \union {"d"}
    BY <2>1 DEF SeenLetters
  <2> QED
    BY <1>4, <1>5, <2>2
<1>6. CASE result.opt = "e"
  <2>1. switches' = switches \ {"escape"}
    BY <1>1, <1>6
  <2>2. SeenLetters' = SeenLetters \union {"e"}
    BY <2>1 DEF SeenLetters
  <2> QED
    BY <1>4, <1>6, <2>2
<1>7. CASE result.opt = "c"
  <2>1. switches' = switches \ {"lowercase"}
    BY <1>1, <1>7
  <2>2. SeenLetters' = SeenLetters \union {"c"}
    BY <2>1 DEF SeenLetters
  <2> QED
    BY <1>4, <1>7, <2>2
<1> QED
  BY <1>1, <1>3, <1>5, <1>6, <1>7

LEMMA CommandNext == GetoptInv /\ InputsOK /\ CommandInv /\ [Next]_vars => CommandInv'
<1> SUFFICES ASSUME GetoptInv, InputsOK, CommandInv, [Next]_vars
             PROVE  CommandInv'
  OBVIOUS
<1>1. UNCHANGED <<world, table, posixly_correct>> /\ ForPgify' = ForPgify /\ Commanded' = Commanded
  BY WorldKept DEF ForPgify, Commanded
<1>2. ForPgify => table = FilesTable
  BY DEF CommandInv
<1>3. PICK given, posix, m : given = world.argv /\ posix = posixly_correct /\ m = Commanded
  OBVIOUS
<1>4. /\ given \in Seq(Elements) /\ posix \in BOOLEAN /\ nextchar \in Seq(STRING)
      /\ m = Meaning(given, posix)
  BY <1>3, WorldTypes DEF Commanded
<1>5. at = "switches" /\ ForPgify /\ result.opt \notin Ends =>
        Reads(given, m, Seen, result.opt, result.arg, Todo, nextchar)
  BY <1>3 DEF CommandInv
<1>6. ASSUME at = "switches", at' = "switches",
             ForPgify /\ result'.opt \notin Ends =>
               Reads(given, m, Seen', result'.opt, result'.arg, Todo', nextchar')
      PROVE  CommandInv'
  BY <1>1, <1>2, <1>3, <1>6 DEF CommandInv
<1>7. ASSUME UNCHANGED <<getoptVars, fName, switches>>,
             \/ at' \in {at, "exited"}
             \/ at \notin {"switches", "exited"} /\ at' # "switches"
      PROVE  CommandInv'
  <2>1. Todo' = Todo /\ nextchar' = nextchar /\ result' = result /\ Seen' = Seen
    BY <1>7 DEF getoptVars, Todo, NoneLeft, Seen, SeenLetters
  <2>2. at' \notin {"switches", "exited"} => ForPgify'
    BY <1>1, <1>7 DEF CommandInv
  <2>3. at' \notin {"switches", "exited"} => Commanded[1]' = Seen'
    <3>1. at' \notin {"switches", "exited"} => at \notin {"switches", "exited"}
      BY <1>7
    <3> QED
      BY <1>1, <2>1, <3>1 DEF CommandInv
  <2>4. at' = "switches" /\ ForPgify' /\ result'.opt \notin Ends =>
          Reads(given, m, Seen', result'.opt, result'.arg, Todo', nextchar')
    BY <1>1, <1>5, <1>7, <2>1
  <2> QED
    BY <1>1, <1>2, <1>3, <2>2, <2>3, <2>4 DEF CommandInv
<1>8. ASSUME Call
      PROVE  /\ Todo' = Todo /\ nextchar' = nextchar
             /\ result'.opt = "pending" /\ result'.arg = <<>>
  <2>1. Abstract!AskNext
    BY <1>8, CallSimulates
  <2> QED
    BY <1>8, <2>1 DEF Abstract!AskNext, Abstract!Answer, Call, Answer, Todo
<1>9. CASE UNCHANGED vars
  <2>1. UNCHANGED <<getoptVars, fName, switches>> /\ at' = at
    BY <1>9 DEF vars, programVars
  <2> QED
    BY <1>7, <2>1
<1>10. CASE FirstCall
  <2>1. /\ at = "switches" /\ at' = "switches" /\ result.opt = "none" /\ Call /\ Seen' = Seen
    BY <1>10 DEF FirstCall, programVars, Seen, SeenLetters
  <2>2. ForPgify => Reads(given, m, Seen', "pending", <<>>, Todo, nextchar)
    <3> SUFFICES ASSUME ForPgify PROVE Reads(given, m, Seen, "pending", <<>>, Todo, nextchar)
      BY <2>1
    <3>1. Reads(given, m, Seen, result.opt, result.arg, Todo, nextchar)
      BY <1>5, <2>1 DEF Ends
    <3>2. Followed(Seen, Told(result.opt, result.arg)) = Seen
      <4>1. Told(result.opt, result.arg) = Nothing
        BY <2>1 DEF Told
      <4>2. SeenLetters \union {} = SeenLetters
        OBVIOUS
      <4> QED
        BY <4>1, <4>2 DEF Seen, Followed, Says, Nothing
    <3> QED
      BY <1>4, <3>1, <3>2, ReadsOn
  <2> QED
    BY <1>6, <1>8, <2>1, <2>2
<1>11. CASE GetoptTurn
  <2>1. at = "switches" /\ at' = "switches" /\ Seen' = Seen /\ result.opt = "pending"
    BY <1>11 DEF GetoptTurn, programVars, Seen, SeenLetters, GetoptInv, GetoptTypes
  <2>2. ASSUME ForPgify, result'.opt \notin Ends
        PROVE  Reads(given, m, Seen', result'.opt, result'.arg, Todo', nextchar')
    <3>1. PICK seen : seen = Seen
      OBVIOUS
    <3>2. Reads(world.argv, m, seen, result.opt, result.arg, Todo, nextchar)
      BY <1>3, <1>5, <2>1, <2>2, <3>1 DEF Ends
    <3>3. Reads(world.argv, m, seen, result'.opt, result'.arg, Todo', nextchar')
      BY <1>2, <1>3, <1>11, <2>2, <3>2, TurnReads
    <3> QED
      BY <1>3, <2>1, <3>1, <3>3
  <2> QED
    BY <1>6, <2>1, <2>2
<1>12. CASE Switch
  <2>1. /\ at = "switches" /\ at' = "switches" /\ ForPgify /\ Call
        /\ result.opt \in {"f", "d", "e", "c"}
    BY <1>12 DEF Switch, Returned, ForPgify
  <2>2. Reads(given, m, Seen, result.opt, result.arg, Todo, nextchar)
    BY <1>5, <2>1 DEF Ends
  <2>3. Seen' = Followed(Seen, Told(result.opt, result.arg))
    BY <1>12, <2>2, SwitchSees DEF Reads
  <2>4. Reads(given, m, Seen', "pending", <<>>, Todo, nextchar)
    BY <1>4, <2>2, <2>3, ReadsOn
  <2> QED
    BY <1>6, <1>8, <2>1, <2>4
<1>13. CASE TestTurn
  <2>1. at = "switches" /\ at' = "switches" /\ ~ForPgify
    BY <1>13 DEF TestTurn, Returned, ForPgify, programVars
  <2> QED
    BY <1>6, <2>1
<1>14. CASE ShowAndExit \/ TestEnd
  BY <1>7, <1>14 DEF ShowAndExit, TestEnd, Exit
<1>15. CASE EndOfSwitches
  <2>1. /\ at = "switches" /\ at' = "open" /\ ForPgify /\ result.opt = "end"
        /\ UNCHANGED <<fName, switches>>
    BY <1>15 DEF EndOfSwitches, Returned, ForPgify
  <2>2. Todo = <<>> /\ nextchar = <<>>
    BY <2>1 DEF Todo, NoneLeft, GetoptInv
  <2>3. Reads(given, m, Seen, "end", result.arg, <<>>, <<>>)
    BY <1>5, <2>1, <2>2 DEF Ends
  <2>4. m[1] = Seen
    BY <1>4, <2>3, AllReads DEF Seen
  <2>5. Seen' = Seen
    BY <2>1 DEF Seen, SeenLetters
  <2> QED
    BY <1>1, <1>2, <1>3, <2>1, <2>4, <2>5 DEF CommandInv
<1>16. CASE OpenFile \/ OpenFails \/ ReadChunk \/ ReadError \/ StreamFails \/ EndOfStdin
  <2>1. /\ UNCHANGED <<getoptVars, fName, switches>> /\ at \notin {"switches", "exited"}
        /\ at' # "switches"
    BY <1>16 DEF OpenFile, OpenFails, ReadChunk, ReadError, StreamFails, EndOfStdin, Exit
  <2> QED
    BY <1>7, <2>1
<1>17. CASE Pgify \/ NoState \/ NullInput \/ LexerTurn \/ PgifyFails \/ PrintResult
  <2>1. /\ UNCHANGED <<getoptVars, fName, switches>> /\ at \notin {"switches", "exited"}
        /\ at' # "switches"
    BY <1>17 DEF Pgify, NoState, NullInput, LexerTurn, PgifyFails, PrintResult, programVars, Exit
  <2> QED
    BY <1>7, <2>1
<1> QED
  BY <1>9, <1>10, <1>11, <1>12, <1>13, <1>14, <1>15, <1>16, <1>17 DEF Next

-----------------------------------------------------------------------------
(* What the program has for its input: the file, or what stdin had, some   *)
(* of it read and the rest still to come.                                  *)
NoZero == \A i \in DOMAIN world.stdin : world.stdin[i] # "nul"

InputInv ==
  /\ at \in {"switches", "open"} => buffer = <<>> /\ unread = world.stdin
  /\ at = "stdin" => /\ Named = {} \/ "memory" \in world.broken
                     /\ NoZero => buffer \o unread = world.stdin
  /\ at \in {"state", "lex"} => IsInput(buffer, Named)
  /\ at = "lex" => source = buffer /\ pgoptions = PgOptions

LEMMA InputInit == ProgramInit => InputInv
BY DEF ProgramInit, InputInv

(* No step but those that read it changes what the input should be.        *)
LEMMA InputStays ==
  ASSUME world' = world, Named' = Named, buffer' = buffer, IsInput(buffer, Named)
  PROVE  IsInput(buffer, Named)'
BY DEF IsInput

LEMMA JoinedInTurn == \A s, t, v \in Seq(Characters) : (s \o t) \o v = s \o (t \o v)
BY ConcatAssociative

(* fgets takes what is in front of a place, and there is no zero byte in   *)
(* it where g_string_append would leave off.                               *)
LEMMA ChunkIsKept ==
  ASSUME InputsOK, ReadChunk, NEW all, buffer \o unread = all,
         \A i \in DOMAIN all : all[i] # "nul"
  PROVE  buffer' \o unread' = all
<1>1. PICK b, u : b = buffer /\ u = unread
  OBVIOUS
<1>2. b \in Seq(Characters) /\ u \in Seq(Characters)
  BY <1>1 DEF InputsOK
<1>3. PICK n \in 1 .. Len(u), m \in 0 .. Len(u) :
         /\ m = n \/ (m < n /\ m + 1 \in {i \in DOMAIN u : u[i] = "nul"})
         /\ buffer' = b \o SubSeq(u, 1, m)
         /\ unread' = SubSeq(u, n + 1, Len(u))
  BY <1>1 DEF ReadChunk
<1>4. \A i \in DOMAIN u : u[i] # "nul"
  <2> SUFFICES ASSUME NEW i \in DOMAIN u PROVE u[i] # "nul"
    OBVIOUS
  <2>1. Len(b) + i \in DOMAIN (b \o u) /\ (b \o u)[Len(b) + i] = u[i]
    BY <1>2
  <2> QED
    BY <1>1, <2>1
<1>5. m = n
  BY <1>3, <1>4
<1>6. SubSeq(u, 1, n) \o SubSeq(u, n + 1, Len(u)) = u
  <2>1. SubSeq(u, 1, Len(u)) = u
    BY <1>2, SubSeqFull
  <2>2. Len(u) \in Nat /\ 1 \in 1 .. Len(u) + 1 /\ n \in 1 - 1 .. Len(u) /\ Len(u) \in n .. Len(u)
    BY <1>2, <1>3
  <2>3. SubSeq(u, 1, n) \o SubSeq(u, n + 1, Len(u)) = SubSeq(u, 1, Len(u))
    BY <1>2, <2>2, ConcatAdjacentSubSeq
  <2> QED
    BY <2>1, <2>3
<1>7. SubSeq(u, 1, n) \in Seq(Characters) /\ SubSeq(u, n + 1, Len(u)) \in Seq(Characters)
  <2>1. n \in 0 .. Len(u)
    BY <1>2, <1>3
  <2>2. <<>> \in Seq(Characters)
    OBVIOUS
  <2>3. SubSeq(u, n + 1, Len(u)) \in Seq(Characters)
    BY <1>2, <2>1, <2>2, ChunksAreInputs
  <2>4. SubSeq(u, 1, n) \in Seq(Characters)
    BY <1>2, <2>1
  <2> QED
    BY <2>3, <2>4
<1>8. (b \o SubSeq(u, 1, n)) \o SubSeq(u, n + 1, Len(u))
        = b \o (SubSeq(u, 1, n) \o SubSeq(u, n + 1, Len(u)))
  <2>1. PICK x, y : x = SubSeq(u, 1, n) /\ y = SubSeq(u, n + 1, Len(u))
    OBVIOUS
  <2>2. x \in Seq(Characters) /\ y \in Seq(Characters)
    BY <1>7, <2>1
  <2>3. \A s, t, v \in Seq(Characters) : (s \o t) \o v = s \o (t \o v)
    BY JoinedInTurn
  <2>4. (b \o x) \o y = b \o (x \o y)
    BY <1>2, <2>2, <2>3
  <2> QED
    BY <2>1, <2>4
<1> QED
  BY <1>1, <1>3, <1>5, <1>6, <1>8

LEMMA InputNext == InputsOK /\ InputInv /\ [Next]_vars => InputInv'
<1> SUFFICES ASSUME InputsOK, InputInv, [Next]_vars
             PROVE  InputInv'
  OBVIOUS
<1>1. world' = world /\ NoZero' = NoZero
  BY WorldKept DEF NoZero
<1>2. ASSUME fName' = fName PROVE Named' = Named
  BY <1>1, <1>2 DEF Named
<1>3. ASSUME switches' = switches PROVE PgOptions' = PgOptions
  BY <1>3 DEF PgOptions
<1>4. ASSUME at = "switches", at' \in {"switches", "open", "exited"},
             UNCHANGED <<unread, buffer>>
      PROVE  InputInv'
  BY <1>1, <1>4 DEF InputInv
<1>5. ASSUME at' = "exited" PROVE InputInv'
  BY <1>5 DEF InputInv
<1>6. CASE UNCHANGED vars
  <2>1. UNCHANGED <<at, fName, switches, unread, buffer, source, pgoptions>>
    BY <1>6 DEF vars, programVars, lexerVars
  <2> QED
    BY <1>1, <1>2, <1>3, <2>1, InputStays DEF InputInv
<1>7. CASE FirstCall
  BY <1>4, <1>7 DEF FirstCall, programVars
<1>8. CASE GetoptTurn
  BY <1>4, <1>8 DEF GetoptTurn, programVars
<1>9. CASE Switch
  BY <1>4, <1>9 DEF Switch, Returned
<1>10. CASE TestTurn
  BY <1>4, <1>10 DEF TestTurn, Returned, programVars
<1>11. CASE EndOfSwitches
  BY <1>4, <1>11 DEF EndOfSwitches, Returned
<1>12. CASE ShowAndExit \/ TestEnd \/ ReadError \/ NoState \/ NullInput \/ PgifyFails \/ PrintResult
  <2>1. at' = "exited"
    BY <1>12 DEF ShowAndExit, TestEnd, ReadError, NoState, NullInput, PgifyFails, PrintResult, Exit
  <2> QED
    BY <1>5, <2>1
<1>13. CASE OpenFile
  <2>1. PICK f \in Named : buffer' = f.text
    BY <1>13 DEF OpenFile
  <2>2. at' = "state" /\ fName' = fName
    BY <1>13 DEF OpenFile
  <2>3. \A g \in Named : g = f
    <3> SUFFICES ASSUME NEW g \in Named PROVE g = f
      OBVIOUS
    <3>1. f \in world.files /\ g \in world.files /\ <<f.name>> = <<g.name>>
      BY <2>1 DEF Named
    <3>2. f.name = g.name
      BY <3>1
    <3> QED
      BY <3>1, <3>2, WorldsAssumption DEF InputsOK
  <2>4. Named' # {} /\ \A g \in Named' : buffer' = g.text
    BY <1>2, <2>1, <2>2, <2>3
  <2> QED
    BY <1>1, <2>2, <2>4 DEF InputInv, IsInput
<1>14. CASE OpenFails
  <2>1. /\ at = "open" /\ at' = "stdin"
        /\ Named = {} \/ "memory" \in world.broken
        /\ UNCHANGED <<fName, unread, buffer>>
    BY <1>14 DEF OpenFails
  <2>2. buffer = <<>> /\ unread = world.stdin
    BY <2>1 DEF InputInv
  <2>3. <<>> \o unread = unread
    BY ConcatEmptySeq DEF InputsOK
  <2> QED
    BY <1>1, <1>2, <2>1, <2>2, <2>3 DEF InputInv
<1>15. CASE ReadChunk
  <2>1. at = "stdin" /\ at' = "stdin" /\ fName' = fName
    BY <1>15 DEF ReadChunk
  <2>2. NoZero => buffer' \o unread' = world.stdin
    BY <1>15, <2>1, ChunkIsKept DEF InputInv, NoZero
  <2> QED
    BY <1>1, <1>2, <2>1, <2>2 DEF InputInv
<1>16. CASE EndOfStdin
  <2>1. /\ at = "stdin" /\ at' \in {"state", "exited"} /\ unread = <<>>
        /\ UNCHANGED <<fName, unread, buffer>>
    BY <1>16 DEF EndOfStdin, Exit
  <2>2. buffer \o <<>> = buffer
    BY ConcatEmptySeq DEF InputsOK
  <2>3. /\ Named = {} \/ "memory" \in world.broken
        /\ NoZero => buffer = world.stdin
    BY <2>1, <2>2 DEF InputInv
  <2>4. IsInput(buffer, Named)
    BY <2>3 DEF IsInput, NoZero
  <2> QED
    BY <1>1, <1>2, <1>5, <2>1, <2>4, InputStays DEF InputInv
<1>17. CASE Pgify
  <2>1. /\ at = "state" /\ at' = "lex" /\ source' = buffer /\ pgoptions' = PgOptions
        /\ UNCHANGED <<fName, switches, unread, buffer>>
    BY <1>17 DEF Pgify, StartLexer
  <2> QED
    BY <1>1, <1>2, <1>3, <2>1, InputStays DEF InputInv
<1>18. CASE LexerTurn
  <2>1. at = "lex" /\ LexerNext /\ UNCHANGED <<at, fName, switches, unread, buffer>>
    BY <1>18 DEF LexerTurn, programVars
  <2>2. UNCHANGED <<source, pgoptions>>
    BY <2>1, OptionsKept
  <2> QED
    BY <1>1, <1>2, <1>3, <2>1, <2>2, InputStays DEF InputInv
<1>19. CASE StreamFails
  <2>1. at' = "null"
    BY <1>19 DEF StreamFails
  <2> QED
    BY <2>1 DEF InputInv
<1> QED
  BY <1>6, <1>7, <1>8, <1>9, <1>10, <1>11, <1>12, <1>13, <1>14, <1>15, <1>16, <1>17, <1>18, <1>19
  DEF Next

(* The program converts what it was told to convert, and as it was told:   *)
(* for every command line, wherever the options stand in it, and every     *)
(* input, whatever the size of the buffer it is read with.  About          *)
(* decode_switches, main, read_stdin and getopt under them.                *)
THEOREM DoesAsCommanded == Spec => []AsCommanded
<1>1. CommandInv /\ InputInv => AsCommanded
  <2> SUFFICES ASSUME CommandInv, InputInv, at = "lex"
               PROVE  AsCommanded
    BY DEF AsCommanded
  <2>1. PICK meant : meant = Commanded[1]
    OBVIOUS
  <2>2. meant.letters = SeenLetters /\ meant.file = fName
    BY <2>1 DEF CommandInv, Seen, Says
  <2>3. {f \in world.files : <<f.name>> = meant.file} = Named
    BY <2>2 DEF Named
  <2>4. /\ "d" \in meant.letters <=> "debug" \in switches
        /\ "e" \in meant.letters <=> "escape" \notin switches
        /\ "c" \in meant.letters <=> "lowercase" \notin switches
        /\ meant.letters \subseteq {"d", "e", "c"}
    BY <2>2 DEF SeenLetters
  <2>5. pgoptions = (IF "d" \in meant.letters THEN {"DEBUG"} ELSE {})
                    \union (IF "e" \in meant.letters THEN {} ELSE {"ESCAPE"})
                    \union (IF "c" \in meant.letters THEN {} ELSE {"LOWERID"})
    BY <2>4 DEF InputInv, PgOptions
  <2>6. IsInput(source, Named)
    BY DEF InputInv
  <2> QED
    BY <2>1, <2>3, <2>4, <2>5, <2>6 DEF AsCommanded, Commanded
<1>2. ProgramInit => CommandInv /\ InputInv
  BY CommandInit, InputInit
<1>3. LexInv => InputsOK
  BY DEF LexInv
<1> QED
  BY <1>1, <1>2, <1>3, LexInvInit, LexInvNext, GetoptInvInit, GetoptInvNext, CommandNext, InputNext,
     PTL DEF Spec
=============================================================================
