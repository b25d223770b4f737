-------------------------------- MODULE Scan --------------------------------
(***************************************************************************)
(* What getopt promises, by the comment at the head of _getopt_internal:   *)
(* the options come one at a time in the order of the command line; the    *)
(* operands keep their order and end up behind everything that was taken   *)
(* for options; -- ends the options, and so does the first operand when    *)
(* operands may not be passed over.  Nothing is moved about here: the      *)
(* elements are dealt out to three sequences.                              *)
(***************************************************************************)
EXTENDS Options

VARIABLES
  table,      (* the options of the caller                                 *)
  permuting,  (* operands are passed over                                  *)
  taken,      (* the elements that were options, arguments or --           *)
  operands,   (* the elements that were passed over, or came behind --     *)
  todo,       (* the elements not looked at yet                            *)
  rest,       (* what is left of a group of letters at the head of todo    *)
  result      (* what the call returned; "pending" while it runs           *)

scanVars == <<table, permuting, taken, operands, todo, rest, result>>

Answer(opt, arg) == [opt |-> opt, arg |-> arg]
Pending == result.opt = "pending"

ScanInit ==
  /\ taken = <<>> /\ operands = <<>> /\ rest = <<>>
  /\ result = Answer("none", <<>>)

AskNext ==
  /\ ~Pending /\ result.opt # "end"
  /\ result' = Answer("pending", <<>>)
  /\ UNCHANGED <<table, permuting, taken, operands, todo, rest>>

PassOver ==
  /\ Pending /\ rest = <<>> /\ todo # <<>>
  /\ permuting /\ IsWord(Head(todo))
  /\ operands' = Append(operands, Head(todo))
  /\ todo' = Tail(todo)
  /\ UNCHANGED <<table, permuting, taken, rest, result>>

EndOptions ==
  /\ Pending /\ rest = <<>> /\ todo # <<>>
  /\ Head(todo) = Dashes
  /\ taken' = Append(taken, Dashes)
  /\ operands' = operands \o Tail(todo)
  /\ todo' = <<>>
  /\ UNCHANGED <<table, permuting, rest, result>>

TakeOption ==
  /\ Pending /\ todo # <<>>
  /\ rest = <<>> => ~IsWord(Head(todo)) /\ Head(todo) # Dashes
  /\ LET d == Decode(table, todo, rest)
     IN  /\ taken' = taken \o SubSeq(todo, 1, d.used)
         /\ todo' = SubSeq(todo, d.used + 1, Len(todo))
         /\ rest' = d.rest
         /\ result' = Answer(d.opt, d.arg)
  /\ UNCHANGED <<table, permuting, operands>>

(* At the end, or at an operand that may not be passed over.               *)
EndScan ==
  /\ Pending /\ rest = <<>>
  /\ todo # <<>> => ~permuting /\ IsWord(Head(todo))
  /\ operands' = operands \o todo
  /\ todo' = <<>>
  /\ result' = Answer("end", <<>>)
  /\ UNCHANGED <<table, permuting, taken, rest>>

ScanNext == AskNext \/ PassOver \/ EndOptions \/ TakeOption \/ EndScan

ScanSpec == ScanInit /\ [][ScanNext]_scanVars
=============================================================================
