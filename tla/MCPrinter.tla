----------------------------- MODULE MCPrinter -----------------------------
(***************************************************************************)
(* Small sources and trees for Printer.  A source is a sequence of lexeme  *)
(* kinds; the positions of its tokens follow from them, as the lexer's do. *)
(***************************************************************************)
EXTENDS Printer, SequencesExt

CONSTANTS
  Kinds,       (* the kinds of lexeme a source is made of                  *)
  MaxTokens,   (* the length of a source                                   *)
  MaxLeaves    (* the leaves of a rewritten tree                           *)

(* "word" and "blank" are one column wide, "break" is the newline that     *)
(* ends a line, "string" a quoted string and "remark" a comment, both with *)
(* a line break inside and one character after it.                         *)
IsHidden(k)     == k \in {"blank", "break", "remark"}
After(k, place) ==
  CASE k \in {"word", "blank"}     -> [place EXCEPT !.col = @ + 1]
    [] k = "break"                 -> [line |-> place.line + 1, col |-> 0]
    [] k \in {"string", "remark"}  -> [line |-> place.line + 1, col |-> 1]

TokensOf(source) ==
  LET Put(sofar, k) ==
        [place  |-> After(k, sofar.place),
         tokens |-> Append(sofar.tokens, [hidden |-> IsHidden(k),
                                          line   |-> sofar.place.line,
                                          col    |-> sofar.place.col])]
      start == [place |-> [line |-> 1, col |-> 0], tokens |-> << >>]
  IN  FoldLeft(Put, start, source).tokens

Sources == SeqOf(Kinds, MaxTokens)

Visible(source) == {i \in DOMAIN source : ~IsHidden(source[i])}
Tree(leaves) ==
  <<[kind |-> "inner", src |-> 0]>>
    \o [n \in DOMAIN leaves |-> [kind |-> "leaf", src |-> leaves[n]]]
    \o <<[kind |-> "eof", src |-> 0]>>

(* Any rewriting: leaves kept, moved, dropped, duplicated and invented.    *)
Rewritings ==
  {x \in Sources \X SeqOf(0 .. MaxTokens, MaxLeaves) :
     Range(x[2]) \subseteq Visible(x[1]) \union {0}}

Rewritten ==
  {[tokens |-> TokensOf(x[1]), nodes |-> Tree(x[2]), post |-> post] :
     x \in Rewritings, post \in {0, 1}}

(* No rewriting: one leaf for every visible token, in order.               *)
AsParsed ==
  {[tokens |-> TokensOf(source),
    nodes  |-> Tree(SelectSeq([i \in DOMAIN source |-> i], LAMBDA i : ~IsHidden(source[i]))),
    post   |-> 0] : source \in Sources}
=============================================================================
