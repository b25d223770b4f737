------------------------------ MODULE Program ------------------------------
(***************************************************************************)
(* The program (main.c): decode_switches asks getopt_long for the options, *)
(* the input is the named file or what can be read from stdin, and pgify   *)
(* runs its lexer over it.  The other caller of getopt_long is the main    *)
(* that getopt1.c has for -DTEST: it reads on after a refused option.      *)
(*                                                                         *)
(* The tokens go on to the parser, the rewriting and the printer, which    *)
(* have modules of their own (Walker, CreateTable, Session, Printer).      *)
(***************************************************************************)
EXTENDS Getopt, Lexer, FiniteSets

CONSTANTS
  Worlds,     (* what the program may be started with                      *)
  FilesTable, (* the options of decode_switches ...                        *)
  TestTable,  (* ... and those of the main in getopt1.c                    *)
  BUF_SIZE    (* the buffer of read_stdin                                  *)

(* A world has a caller, a command line, POSIXLY_CORRECT, the files that   *)
(* can be opened, what stdin has, and what is broken: "read" when reading  *)
(* stdin may fail, "memory" when an allocation may fail (one of main, of   *)
(* pgify or of libantlr3c; glib ends the process where one of its fails).  *)
ASSUME WorldsAssumption ==
  /\ FilesTable \in Table /\ TestTable \in Table
  /\ BUF_SIZE \in Nat /\ BUF_SIZE > 1
  /\ \A w \in Worlds :
        /\ w.caller \in {"pgify", "test"}
        /\ w.argv \in Seq(Seq(STRING)) /\ w.posixly_correct \in BOOLEAN
        /\ w.stdin \in Seq(Characters)
        /\ \A f \in w.files : f.text \in Seq(Characters) \ {<<>>}
        /\ \A f, g \in w.files : f.name = g.name => f = g

(* long_options and the letters in decode_switches: no long name has an    *)
(* argument, and its first letter tells which letter it stands for.        *)
Letter(c) == IF c = "v" THEN "V" ELSE IF c = "l" THEN "c" ELSE c

ASSUME FilesTableAssumption ==
  /\ FilesTable.flags = {"h", "d", "e", "c", "V"} /\ FilesTable.needing = {"f"}
  /\ \A i \in DOMAIN FilesTable.long :
        LET option == FilesTable.long[i]
        IN  /\ option.name # <<>> /\ ~option.arg
            /\ option.val = Letter(option.name[1]) /\ option.val \in FilesTable.flags

(* The status of a process that a segmentation fault ends.                 *)
Killed == 139

VARIABLES
  world,      (* what the program was started with                         *)
  at,         (* where main is: "switches", "open", "stdin", "state",      *)
              (* "null" instead of "state" without an input, "lex",        *)
              (* "exited"                                                  *)
  fName,      (* the name given with -f, as <<name>>, <<>> without one     *)
  switches,   (* the locals of decode_switches that are TRUE               *)
  unread,     (* what is left in stdin                                     *)
  buffer,     (* what read_stdin has read                                  *)
  status      (* the exit status; -1 as long as there is none              *)

programVars == <<world, at, fName, switches, unread, buffer, status>>
vars == <<getoptVars, lexerVars, programVars>>

ProgramInit ==
  /\ world \in Worlds
  /\ table = (IF world.caller = "pgify" THEN FilesTable ELSE TestTable)
  /\ posixly_correct = world.posixly_correct
  /\ argv = world.argv
  /\ StartGetopt
  /\ LexerInit
  /\ at = "switches"
  /\ fName = <<>> /\ switches = {"escape", "lowercase"}
  /\ unread = world.stdin /\ buffer = <<>>
  /\ status = -1

Exit(code) == at' = "exited" /\ status' = code

-----------------------------------------------------------------------------
(* The first call of getopt_long, and its steps.                           *)
FirstCall ==
  /\ at = "switches" /\ result.opt = "none"
  /\ Call
  /\ UNCHANGED <<lexerVars, programVars>>

GetoptTurn ==
  /\ at = "switches" /\ getopt # "returned"
  /\ GetoptNext
  /\ UNCHANGED <<lexerVars, programVars>>

Returned(caller) == at = "switches" /\ getopt = "returned" /\ world.caller = caller

(* Slip: the first of two names counts.                                    *)
SwitchFirstName ==
  /\ Returned("pgify") /\ result.opt \in {"f", "d", "e", "c"}
  /\ fName' = IF result.opt = "f" /\ fName = <<>> THEN result.arg ELSE fName
  /\ switches' = CASE result.opt = "d" -> switches \union {"debug"}
                   [] result.opt = "e" -> switches \ {"escape"}
                   [] result.opt = "c" -> switches \ {"lowercase"}
                   [] result.opt = "f" -> switches
  /\ Call
  /\ UNCHANGED <<lexerVars, world, at, unread, buffer, status>>

(* decode_switches: a turn of its loop, up to the next call.  The options  *)
(* that are on to begin with can only be turned off.                       *)
Switch ==
  /\ Returned("pgify") /\ result.opt \in {"f", "d", "e", "c"}
  /\ fName' = IF result.opt = "f" THEN result.arg ELSE fName
  /\ switches' = CASE result.opt = "d" -> switches \union {"debug"}
                   [] result.opt = "e" -> switches \ {"escape"}
                   [] result.opt = "c" -> switches \ {"lowercase"}
                   [] result.opt = "f" -> switches
  /\ Call
  /\ UNCHANGED <<lexerVars, world, at, unread, buffer, status>>

(* The version, the usage, and the usage because of a refused option.      *)
ShowAndExit ==
  /\ Returned("pgify") /\ result.opt \in {"V", "h", "?"}
  /\ Exit(IF result.opt = "?" THEN 1 ELSE 0)
  /\ UNCHANGED <<getoptVars, lexerVars, world, fName, switches, unread, buffer>>

EndOfSwitches ==
  /\ Returned("pgify") /\ result.opt = "end"
  /\ at' = "open"
  /\ UNCHANGED <<getoptVars, lexerVars, world, fName, switches, unread, buffer, status>>

(* The loop of the main in getopt1.c, which only tells what it got.        *)
TestTurn ==
  /\ Returned("test") /\ result.opt \notin {"none", "end"}
  /\ Call
  /\ UNCHANGED <<lexerVars, programVars>>

TestEnd ==
  /\ Returned("test") /\ result.opt = "end"
  /\ Exit(0)
  /\ UNCHANGED <<getoptVars, lexerVars, world, fName, switches, unread, buffer>>

-----------------------------------------------------------------------------
(* main: antlr3AsciiFileStreamNew, which gives nothing when the file can   *)
(* not be read, no name was given, or there is no memory for it; whichever *)
(* it is, stdin is read.                                                   *)
Named == {f \in world.files : <<f.name>> = fName}

OpenFile ==
  /\ at = "open"
  /\ \E f \in Named : buffer' = f.text
  /\ at' = "state"
  /\ UNCHANGED <<getoptVars, lexerVars, world, fName, switches, unread, status>>

OpenFails ==
  /\ at = "open"
  /\ Named = {} \/ "memory" \in world.broken
  /\ at' = "stdin"
  /\ UNCHANGED <<getoptVars, lexerVars, world, fName, switches, unread, buffer, status>>

(* A turn of read_stdin: fgets reads to the end of the line, or what fits  *)
(* the buffer; g_string_append takes what is in front of a zero byte.      *)
ReadChunk ==
  /\ at = "stdin" /\ unread # <<>>
  /\ LET breaks == {i \in DOMAIN unread : unread[i] = "nl"}
         nulls  == {i \in DOMAIN unread : unread[i] = "nul"}
     IN  \E n \in 1 .. Len(unread), m \in 0 .. Len(unread) :
            /\ n = Len(unread) \/ n = BUF_SIZE - 1 \/ n \in breaks
            /\ \A i \in 1 .. n - 1 : i < BUF_SIZE - 1 /\ i \notin breaks
            /\ m = n \/ (m < n /\ m + 1 \in nulls)
            /\ \A i \in 1 .. m : i \notin nulls
            /\ buffer' = buffer \o SubSeq(unread, 1, m)
            /\ unread' = SubSeq(unread, n + 1, Len(unread))
  /\ UNCHANGED <<getoptVars, lexerVars, world, at, fName, switches, status>>

ReadError ==
  /\ at = "stdin" /\ "read" \in world.broken
  /\ Exit(1)
  /\ UNCHANGED <<getoptVars, lexerVars, world, fName, switches, unread, buffer>>

(* antlr3NewAsciiStringCopyStream finds no memory; main does not look.     *)
StreamFails ==
  /\ at = "stdin" /\ unread = <<>> /\ buffer # <<>> /\ "memory" \in world.broken
  /\ at' = "null"
  /\ UNCHANGED <<getoptVars, lexerVars, world, fName, switches, unread, buffer, status>>

(* An empty input is no error, and nothing is printed.                     *)
EndOfStdin ==
  /\ at = "stdin" /\ unread = <<>>
  /\ IF buffer = <<>> THEN Exit(0) ELSE at' = "state" /\ UNCHANGED status
  /\ UNCHANGED <<getoptVars, lexerVars, world, fName, switches, unread, buffer>>

-----------------------------------------------------------------------------
PgOptions == (IF "debug" \in switches THEN {"DEBUG"} ELSE {})
             \union (IF "escape" \in switches THEN {"ESCAPE"} ELSE {})
             \union (IF "lowercase" \in switches THEN {"LOWERID"} ELSE {})

(* walkerstate_new, and pgify begins.                                      *)
Pgify ==
  /\ at = "state"
  /\ StartLexer(buffer, PgOptions)
  /\ at' = "lex"
  /\ UNCHANGED <<getoptVars, world, fName, switches, unread, buffer, status>>

NoState ==
  /\ at \in {"state", "null"} /\ "memory" \in world.broken
  /\ Exit(1)
  /\ UNCHANGED <<getoptVars, lexerVars, world, fName, switches, unread, buffer>>

(* pgify calls setUcaseLA of the input that is none.                       *)
NullInput ==
  /\ at = "null"
  /\ Exit(Killed)
  /\ UNCHANGED <<getoptVars, lexerVars, world, fName, switches, unread, buffer>>

LexerTurn ==
  /\ at = "lex"
  /\ LexerNext
  /\ UNCHANGED <<getoptVars, programVars>>

(* pgify could not allocate the lexer or the token stream or, once all     *)
(* tokens were read, the parser.  Its cleanup frees what it finds in the   *)
(* locals it had not come to: the program dies of that, or pgify_string    *)
(* gives nothing, which is no failure of main.                             *)
PgifyFails ==
  /\ at = "lex" /\ "memory" \in world.broken
  /\ scanning = "done" \/ (pos = 1 /\ scanning = "tokens")
  /\ Exit(0) \/ Exit(Killed)
  /\ UNCHANGED <<getoptVars, lexerVars, world, fName, switches, unread, buffer>>

(* The rest of pgify_string, and main prints the result, or nothing when   *)
(* there was no memory for the parse tree.                                 *)
PrintResult ==
  /\ at = "lex" /\ scanning = "done"
  /\ Exit(0)
  /\ UNCHANGED <<getoptVars, lexerVars, world, fName, switches, unread, buffer>>

Next ==
  \/ FirstCall \/ GetoptTurn \/ Switch \/ ShowAndExit \/ EndOfSwitches
  \/ TestTurn \/ TestEnd
  \/ OpenFile \/ OpenFails \/ ReadChunk \/ ReadError \/ StreamFails \/ EndOfStdin
  \/ Pgify \/ NoState \/ NullInput \/ LexerTurn \/ PgifyFails \/ PrintResult

(* There is one thread, and it runs.                                       *)
Spec == ProgramInit /\ [][Next]_vars /\ WF_vars(Next)

-----------------------------------------------------------------------------
TypeOK ==
  /\ argv \in Seq(Seq(STRING)) /\ optind \in 1 .. argc
  /\ first_nonopt \in 0 .. argc /\ last_nonopt \in 0 .. argc
  /\ getopt \notin {"skip", "stop"} => first_nonopt <= last_nonopt
  /\ at = "switches" /\ getopt # "returned" => last_nonopt <= optind
  /\ getopt = "exchange" =>
       1 <= bottom /\ bottom <= middle /\ middle <= top /\ top <= argc
  /\ nextchar # <<>> => optind < argc
  /\ start \in 1 .. pos /\ pos <= Len(source) + 1
  /\ scanning \in {"off", "tokens", "string", "done"}
  /\ pgoptions \subseteq {"DEBUG", "ESCAPE", "LOWERID"}
  /\ at \in {"switches", "open", "stdin", "state", "null", "lex", "exited"}
  /\ status \in {-1, 0, 1, Killed} /\ (at = "exited") = (status # -1)

(* Every command line, every file and every stdin ends the program: the    *)
(* loop of exchange, which moves two of its three bounds, the recovery of  *)
(* the lexer, which must leave something behind after every error, and the *)
(* loops that look for the end of a string or a comment.                   *)
Terminates == <>(at = "exited")

(* How main.c's usage and the table of options would be read by hand, from *)
(* the elements as they were given, the i-th and those behind it: which    *)
(* letters are set, and the last file.  A missing name is a question mark. *)
Says(letters, file)   == [letters |-> letters, file |-> file]
Nothing               == Says({}, <<>>)
Followed(said, later) == Says(said.letters \union later.letters,
                              IF later.file = <<>> THEN said.file ELSE later.file)

(* The letters of a group, up to an f, which has what is behind it for a   *)
(* file, or the next element.                                              *)
Group(given, meant, i, text) ==
  LET fs == {j \in DOMAIN text : text[j] = "f"}
      f  == CHOOSE j \in fs : \A k \in fs : j <= k
      before == {text[j] : j \in 1 .. f - 1}
  IN  CASE fs = {} -> Followed(Says({text[j] : j \in DOMAIN text}, <<>>), meant[i + 1])
        [] fs # {} /\ f < Len(text) ->
             Followed(Says(before, <<SubSeq(text, f + 1, Len(text))>>), meant[i + 1])
        [] fs # {} /\ f = Len(text) /\ i < Len(given) ->
             Followed(Says(before, <<given[i + 1]>>), meant[i + 2])
        [] OTHER -> Says(before \union {"?"}, <<>>)

Meaning(given, posix) ==
  LET n == Len(given)
      meant[i \in 1 .. n + 2] ==
        IF i > n THEN Nothing
        ELSE CASE given[i] = Dashes \/ (posix /\ IsWord(given[i])) -> Nothing
               [] ~posix /\ IsWord(given[i]) -> meant[i + 1]
               [] given[i] # Dashes /\ ~IsWord(given[i]) /\ IsLong(given[i]) ->
                    Followed(Says({Letter(given[i][3])}, <<>>), meant[i + 1])
               [] OTHER -> Group(given, meant, i, Tail(given[i]))
  IN  meant

(* A text is that of the file, or all of stdin, without a loss, when there *)
(* is no file to open or no memory to open it.                             *)
IsInput(text, named) ==
  \/ named # {} /\ \A f \in named : text = f.text
  \/ /\ named = {} \/ "memory" \in world.broken
     /\ (\A i \in DOMAIN world.stdin : world.stdin[i] # "nul") => text = world.stdin

(* What is converted, and how, is what the command line says, wherever in  *)
(* it the options and the operands stand: a given switch turns its         *)
(* conversion off, the last file counts, and it is stdin when that cannot  *)
(* be opened.  About decode_switches, main, read_stdin and getopt under    *)
(* them.                                                                   *)
AsCommanded ==
  at = "lex" =>
    LET meant == Meaning(world.argv, posixly_correct)[1]
        named == {f \in world.files : <<f.name>> = meant.file}
    IN  /\ meant.letters \subseteq {"d", "e", "c"}
        /\ pgoptions = (IF "d" \in meant.letters THEN {"DEBUG"} ELSE {})
                       \union (IF "e" \in meant.letters THEN {} ELSE {"ESCAPE"})
                       \union (IF "c" \in meant.letters THEN {} ELSE {"LOWERID"})
        /\ IsInput(source, named)

-----------------------------------------------------------------------------
(* Slip: the stream counts carriage returns.                               *)
LineOfReturns(p) == 1 + Cardinality({i \in 1 .. p - 1 : source[i] = "cr"})

(* Where the input stream says a character stands.                         *)
LineOf(p) == 1 + Cardinality({i \in 1 .. p - 1 : source[i] = "nl"})
ColumnOf(p) ==
  LET breaks == {i \in 1 .. p - 1 : source[i] = "nl"}
  IN  IF breaks = {} THEN p - 1
      ELSE p - 1 - (CHOOSE i \in breaks : \A j \in breaks : j <= i)

Vector ==
  [tokens |-> [i \in DOMAIN tokens |-> [hidden |-> tokens[i].hidden,
                                        line |-> LineOf(tokens[i].first),
                                        col |-> ColumnOf(tokens[i].first)]],
   nodes |-> <<>>, post |-> 0]

Printing == INSTANCE Printer WITH
  Inputs <- {}, input <- Vector, pc <- "walk", at <- 1,
  tokenIndex <- 1, output <- <<>>, postbuf <- 0

(* The vector of tokens that the lexer leaves behind is one that the       *)
(* printer may be given: lines and columns rise along it.  That is what    *)
(* the theorems about the printer assume.  About nextToken and the stream. *)
PrinterInput == scanning = "done" => Printing!WellFormed(Vector)
=============================================================================
