------------------------------- MODULE Getopt -------------------------------
(***************************************************************************)
(* getopt_long (getopt.c, getopt1.c): each call returns the next option of *)
(* argv.  Elements that are no options are skipped, and exchanged with the *)
(* options behind them at the next call that advances, in place and by     *)
(* swapping blocks, so that at the end argv[optind] is the first operand.  *)
(* A call is several steps here: each turn of a loop is one.               *)
(*                                                                         *)
(* argv leaves out the name of the program: indices are those of the code. *)
(* Out of reach of the callers in this repository, and left out: option    *)
(* strings that begin with - or : or have W; or ::, and getopt_long_only.  *)
(***************************************************************************)
EXTENDS Options

VARIABLES
  table,            (* the options of the caller                           *)
  posixly_correct,  (* whether the environment has that variable           *)
  argv,             (* the command line, permuted in place                 *)
  optind,           (* the next element                                    *)
  nextchar,         (* what is left of a group of letters                  *)
  ordering,         (* "PERMUTE", "REQUIRE_ORDER", "unset" before a call   *)
  first_nonopt, last_nonopt,  (* the elements skipped last                 *)
  bottom, middle, top,        (* the locals of exchange                    *)
  getopt,           (* where the call is: "returned", "advance",           *)
                    (* "exchange", "skip", "test", "stop"                  *)
  ending,           (* a -- was seen                                       *)
  result            (* what is returned, with optarg                       *)

getoptVars == <<table, posixly_correct, argv, optind, nextchar, ordering, first_nonopt,
                last_nonopt, bottom, middle, top, getopt, ending, result>>

callerVars   == <<table, posixly_correct>>
nonoptVars   == <<first_nonopt, last_nonopt>>
exchangeVars == <<bottom, middle, top>>

argc == Len(argv) + 1

Answer(opt, arg) == [opt |-> opt, arg |-> arg]

Smaller(a, b) == IF a < b THEN a ELSE b

StartGetopt ==
  /\ optind = 1 /\ nextchar = <<>> /\ ordering = "unset"
  /\ first_nonopt = 0 /\ last_nonopt = 0
  /\ bottom = 0 /\ middle = 0 /\ top = 0
  /\ getopt = "returned" /\ ending = FALSE
  /\ result = Answer("none", <<>>)

-----------------------------------------------------------------------------
(* A call; _getopt_initialize is part of the first.                        *)
Call ==
  /\ getopt = "returned" /\ result.opt # "end"
  /\ result' = Answer("pending", <<>>)
  /\ getopt' = IF nextchar = <<>> THEN "advance" ELSE "test"
  /\ IF ordering = "unset"
     THEN /\ first_nonopt' = optind /\ last_nonopt' = optind
          /\ ordering' = IF posixly_correct THEN "REQUIRE_ORDER" ELSE "PERMUTE"
     ELSE UNCHANGED <<nonoptVars, ordering>>
  /\ UNCHANGED <<callerVars, argv, optind, nextchar, exchangeVars, ending>>

BeginExchange(first, last, next) ==
  /\ getopt' = "exchange"
  /\ bottom' = first /\ middle' = last /\ top' = next

(* Slip: the skipped elements are left where they are.                     *)
AdvanceInPlace ==
  /\ getopt = "advance"
  /\ LET last  == Smaller(last_nonopt, optind)
         first == Smaller(first_nonopt, optind)
     IN  /\ last_nonopt' = last
         /\ first_nonopt' = IF ordering = "PERMUTE" /\ last # optind THEN optind ELSE first
         /\ getopt' = IF ordering = "PERMUTE" THEN "skip" ELSE "test"
  /\ UNCHANGED <<callerVars, argv, optind, nextchar, ordering, exchangeVars, ending, result>>

(* Options were read since elements were skipped: they change places.      *)
Advance ==
  /\ getopt = "advance"
  /\ LET last  == Smaller(last_nonopt, optind)
         first == Smaller(first_nonopt, optind)
     IN  /\ last_nonopt' = last
         /\ IF ordering = "PERMUTE" /\ first # last /\ last # optind
            THEN first_nonopt' = first /\ BeginExchange(first, last, optind)
            ELSE /\ first_nonopt' = IF ordering = "PERMUTE" /\ last # optind THEN optind ELSE first
                 /\ getopt' = IF ordering = "PERMUTE" THEN "skip" ELSE "test"
                 /\ UNCHANGED exchangeVars
  /\ UNCHANGED <<callerVars, argv, optind, nextchar, ordering, ending, result>>

(* argv with the blocks of n elements at i and at j swapped.               *)
Swapped(i, j, n) ==
  [k \in DOMAIN argv |-> IF k \in i .. i + n - 1 THEN argv[k - i + j]
                         ELSE IF k \in j .. j + n - 1 THEN argv[k - j + i] ELSE argv[k]]

(* Slip: the short segment goes to the near end of the long one.           *)
ExchangeNear ==
  /\ getopt = "exchange" /\ bottom < middle /\ middle < top
  /\ LET below == middle - bottom
         above == top - middle
     IN  IF above > below
         THEN /\ argv' = Swapped(bottom, middle, below)
              /\ top' = top - below /\ UNCHANGED bottom
         ELSE /\ argv' = Swapped(bottom, middle, above)
              /\ bottom' = bottom + above /\ UNCHANGED top
  /\ UNCHANGED <<callerVars, optind, nextchar, ordering, nonoptVars, middle, getopt, ending, result>>

(* One turn of the loop of exchange: the shorter segment is swapped with   *)
(* the far end of the longer one.                                          *)
Exchange ==
  /\ getopt = "exchange" /\ bottom < middle /\ middle < top
  /\ LET below == middle - bottom
         above == top - middle
     IN  IF above > below
         THEN /\ argv' = Swapped(bottom, top - below, below)
              /\ top' = top - below /\ UNCHANGED bottom
         ELSE /\ argv' = Swapped(bottom, middle, above)
              /\ bottom' = bottom + above /\ UNCHANGED top
  /\ UNCHANGED <<callerVars, optind, nextchar, ordering, nonoptVars, middle, getopt, ending, result>>

(* exchange returns, to the place it was called from.                      *)
Exchanged ==
  /\ getopt = "exchange" /\ ~(bottom < middle /\ middle < top)
  /\ first_nonopt' = first_nonopt + (optind - last_nonopt)
  /\ last_nonopt' = optind
  /\ getopt' = IF ending THEN "stop" ELSE "skip"
  /\ UNCHANGED <<callerVars, argv, optind, nextchar, ordering, exchangeVars, ending, result>>

AtWord == optind < argc /\ IsWord(argv[optind])

Skip ==
  /\ getopt = "skip" /\ AtWord
  /\ optind' = optind + 1
  /\ UNCHANGED <<callerVars, argv, nextchar, ordering, nonoptVars, exchangeVars, getopt, ending, result>>

Skipped ==
  /\ getopt = "skip" /\ ~AtWord
  /\ last_nonopt' = optind
  /\ getopt' = "test"
  /\ UNCHANGED <<callerVars, argv, optind, nextchar, ordering, first_nonopt, exchangeVars, ending, result>>

(* The element -- is an option, and all behind it are none.                *)
EndOfOptions ==
  /\ getopt = "test" /\ nextchar = <<>>
  /\ optind # argc /\ argv[optind] = Dashes
  /\ optind' = optind + 1
  /\ ending' = TRUE
  /\ IF first_nonopt # last_nonopt /\ last_nonopt # optind'
     THEN BeginExchange(first_nonopt, last_nonopt, optind') /\ UNCHANGED first_nonopt
     ELSE /\ first_nonopt' = IF first_nonopt = last_nonopt THEN optind' ELSE first_nonopt
          /\ getopt' = "stop"
          /\ UNCHANGED exchangeVars
  /\ UNCHANGED <<callerVars, argv, nextchar, ordering, last_nonopt, result>>

Return(opt, arg) == result' = Answer(opt, arg) /\ getopt' = "returned"

Stop ==
  /\ getopt = "stop"
  /\ last_nonopt' = argc
  /\ optind' = IF first_nonopt # argc THEN first_nonopt ELSE argc
  /\ Return("end", <<>>)
  /\ UNCHANGED <<callerVars, argv, nextchar, ordering, first_nonopt, exchangeVars, ending>>

(* Nothing is left: back to the elements that were skipped.                *)
AllRead ==
  /\ getopt = "test" /\ nextchar = <<>> /\ optind = argc
  /\ optind' = IF first_nonopt # last_nonopt THEN first_nonopt ELSE optind
  /\ Return("end", <<>>)
  /\ UNCHANGED <<callerVars, argv, nextchar, ordering, nonoptVars, exchangeVars, ending>>

StopAtWord ==
  /\ getopt = "test" /\ nextchar = <<>> /\ AtWord /\ ordering = "REQUIRE_ORDER"
  /\ Return("end", <<>>)
  /\ UNCHANGED <<callerVars, argv, optind, nextchar, ordering, nonoptVars, exchangeVars, ending>>

ReturnOption ==
  /\ getopt = "test" /\ optind # argc
  /\ nextchar = <<>> => ~IsWord(argv[optind]) /\ argv[optind] # Dashes
  /\ LET d == Decode(table, SubSeq(argv, optind, Len(argv)), nextchar)
     IN  optind' = optind + d.used /\ nextchar' = d.rest /\ Return(d.opt, d.arg)
  /\ UNCHANGED <<callerVars, argv, ordering, nonoptVars, exchangeVars, ending>>

GetoptNext == \/ Advance \/ Exchange \/ Exchanged \/ Skip \/ Skipped \/ EndOfOptions
              \/ Stop \/ AllRead \/ StopAtWord \/ ReturnOption

-----------------------------------------------------------------------------
(* a with the elements from b up to m behind those from m up to t.         *)
Rotated(a, b, m, t) ==
  [i \in DOMAIN a |-> IF i < b \/ i >= t THEN a[i]
                      ELSE IF i < b + (t - m) THEN a[i + (m - b)] ELSE a[i - (t - m)]]

(* The command line as the exchanges that are due will leave it, and how   *)
(* many elements of it stand in front of the operands.                     *)
Settled ==
  CASE getopt = "exchange" -> Rotated(argv, bottom, middle, top)
    [] getopt \in {"skip", "stop"} \/ result.opt \in {"none", "end"} -> argv
    [] OTHER -> Rotated(argv, first_nonopt, last_nonopt, optind)
Dealt ==
  CASE getopt \in {"skip", "stop"} -> first_nonopt - 1
    [] getopt \notin {"skip", "stop"} /\ result.opt \in {"none", "end"} -> optind - 1
    [] OTHER -> first_nonopt + (optind - last_nonopt) - 1

NoneLeft == ending \/ result.opt = "end"

Abstract == INSTANCE Scan WITH
  permuting <- ~posixly_correct,
  taken     <- SubSeq(Settled, 1, Dealt),
  operands  <- SubSeq(Settled, Dealt + 1, IF NoneLeft THEN Len(argv) ELSE optind - 1),
  todo      <- IF NoneLeft THEN <<>> ELSE SubSeq(argv, optind, Len(argv)),
  rest      <- nextchar

(* Every call returns the next option in the order of the command line,    *)
(* whatever was skipped and exchanged before; no element gets lost or      *)
(* changes sides, the operands keep their order, and at the end they are   *)
(* the elements from optind on.  About _getopt_internal and exchange.      *)
Scans == Abstract!ScanSpec
=============================================================================
