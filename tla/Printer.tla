------------------------------ MODULE Printer ------------------------------
(***************************************************************************)
(* The printer of pgify.c: pgify_string prints the rewritten tree with     *)
(* TreeWalkPrinter, and weaves back into it the white space and comments   *)
(* that the parser never saw (the HIDDEN channel of the token vector).     *)
(* advance prints the hidden tokens in front of each leaf it is given,     *)
(* advance_all the ones that are left, print_postbuf the statements that   *)
(* the rewriting passes queued.                                            *)
(*                                                                         *)
(* What is abstracted: a text is the token or the leaf it belongs to; the  *)
(* tree is its nodes in the order in which TreeWalkPrinter visits them,    *)
(* an inner node before its children.  Positions are kept exactly, because *)
(* everything advance decides, it decides on lines and columns.            *)
(***************************************************************************)
EXTENDS Integers, Sequences

CONSTANT Inputs   (* the (token vector, tree, queue) triples that are printed *)

(***************************************************************************)
(* A token of the vector: the channel, and where it starts.  A node of the *)
(* tree: whether it has children, is a leaf or is the end-of-file leaf,    *)
(* and the token it was made from, 0 when the rewriting invented it        *)
(* (an imaginary token such as T_TRANSFORM: it has no position).           *)
(***************************************************************************)
Token == [hidden : BOOLEAN, line : Nat, col : Nat]
Node  == [kind : {"inner", "leaf", "eof"}, src : Nat]
Input == [tokens : Seq(Token), nodes : Seq(Node), post : Nat]

(* The lexer emits tokens from left to right, and a tree is built from     *)
(* visible tokens only.                                                    *)
WellFormed(in) ==
  /\ in \in Input
  /\ \A i, j \in DOMAIN in.tokens :
        i < j => \/ in.tokens[i].line < in.tokens[j].line
                 \/ /\ in.tokens[i].line = in.tokens[j].line
                    /\ in.tokens[i].col < in.tokens[j].col
  /\ \A n \in DOMAIN in.nodes :
        /\ in.nodes[n].src \in 0 .. Len(in.tokens)
        /\ in.nodes[n].src > 0 => ~in.tokens[in.nodes[n].src].hidden

ASSUME InputsAssumption == \A in \in Inputs : WellFormed(in)

VARIABLES
  input,       (* what is printed, chosen once                             *)
  pc,          (* "walk": TreeWalkPrinter, "drain": advance_all, "done"    *)
  at,          (* the node the walk is at                                  *)
  tokenIndex,  (* the cursor into the token vector, shared by all calls    *)
  output,      (* what has been appended to the output string              *)
  postbuf      (* how many statements wait in ws->postbuf                  *)

vars == <<input, pc, at, tokenIndex, output, postbuf>>

tokens == input.tokens
nodes  == input.nodes

(* The pieces of text the output is made of.                               *)
HiddenText(i) == [kind |-> "hidden", idx |-> i]
LeafText(n)   == [kind |-> "leaf", idx |-> n]
PostText(k)   == [kind |-> "post", idx |-> k]
Text          == [kind : {"hidden", "leaf", "post"}, idx : Nat]

(* getLine and getCharPositionInLine of a leaf: 0 for an imaginary token.  *)
Line(n)     == IF nodes[n].src = 0 THEN 0 ELSE tokens[nodes[n].src].line
Position(n) == IF nodes[n].src = 0 THEN 0 ELSE tokens[nodes[n].src].col

(* Slips: only lines are compared; what follows on the same line counts.   *)
PrecedesByLine(i, n)     == tokens[i].line < Line(n)
PrecedesOnSameLine(i, n) == tokens[i].line <= Line(n) \/ tokens[i].col <= Position(n)

(* The test of advance: it never asks for both on the same line.           *)
Precedes(i, n) == tokens[i].line < Line(n) \/ tokens[i].col <= Position(n)

TokensLeft == tokenIndex <= Len(tokens)
AtLeaf     == pc = "walk" /\ at <= Len(nodes) /\ nodes[at].kind = "leaf"

-----------------------------------------------------------------------------
Init ==
  /\ input \in Inputs
  /\ pc = "walk"
  /\ at = 1
  /\ tokenIndex = 1
  /\ output = << >>
  /\ postbuf = input.post

(* TreeWalkPrinter passes over a node with children and over the EOF leaf. *)
PassNode ==
  /\ pc = "walk" /\ at <= Len(nodes)
  /\ nodes[at].kind \in {"inner", "eof"}
  /\ at' = at + 1
  /\ UNCHANGED <<input, pc, tokenIndex, output, postbuf>>

(* A slip: the loop goes on without its increment.                         *)
SkipVisibleStuck ==
  /\ AtLeaf \/ pc = "drain"
  /\ TokensLeft /\ ~tokens[tokenIndex].hidden
  /\ UNCHANGED vars

(* advance and advance_all skip the tokens the tree speaks for.            *)
SkipVisible ==
  /\ AtLeaf \/ pc = "drain"
  /\ TokensLeft /\ ~tokens[tokenIndex].hidden
  /\ tokenIndex' = tokenIndex + 1
  /\ UNCHANGED <<input, pc, at, output, postbuf>>

(* One turn of the loop of advance that appends a hidden token.            *)
AdvanceHidden ==
  /\ AtLeaf
  /\ TokensLeft /\ tokens[tokenIndex].hidden
  /\ Precedes(tokenIndex, at)
  /\ output' = Append(output, HiddenText(tokenIndex))
  /\ tokenIndex' = tokenIndex + 1
  /\ UNCHANGED <<input, pc, at, postbuf>>

(* Slips: the increment of the for loop is also done at its break; every   *)
(* call of advance begins with the first token.                            *)
PrintLeafSkipping ==
  /\ AtLeaf
  /\ TokensLeft => tokens[tokenIndex].hidden /\ ~Precedes(tokenIndex, at)
  /\ output' = Append(output, LeafText(at))
  /\ at' = at + 1
  /\ tokenIndex' = IF TokensLeft THEN tokenIndex + 1 ELSE tokenIndex
  /\ UNCHANGED <<input, pc, postbuf>>
PrintLeafRestarting ==
  /\ AtLeaf
  /\ TokensLeft => tokens[tokenIndex].hidden /\ ~Precedes(tokenIndex, at)
  /\ output' = Append(output, LeafText(at))
  /\ at' = at + 1
  /\ tokenIndex' = 1
  /\ UNCHANGED <<input, pc, postbuf>>

(* advance leaves its loop, at the end of the vector or at its break, and  *)
(* appends the text of the leaf.                                           *)
PrintLeaf ==
  /\ AtLeaf
  /\ TokensLeft => tokens[tokenIndex].hidden /\ ~Precedes(tokenIndex, at)
  /\ output' = Append(output, LeafText(at))
  /\ at' = at + 1
  /\ UNCHANGED <<input, pc, tokenIndex, postbuf>>

(* The walk returns, and advance_all begins.                               *)
EndWalk ==
  /\ pc = "walk" /\ at > Len(nodes)
  /\ pc' = "drain"
  /\ UNCHANGED <<input, at, tokenIndex, output, postbuf>>

DrainHidden ==
  /\ pc = "drain"
  /\ TokensLeft /\ tokens[tokenIndex].hidden
  /\ output' = Append(output, HiddenText(tokenIndex))
  /\ tokenIndex' = tokenIndex + 1
  /\ UNCHANGED <<input, pc, at, postbuf>>

(* A slip: print_postbuf is called before advance_all.                     *)
FlushFirst ==
  /\ pc = "drain"
  /\ output' = IF postbuf > 0 THEN Append(output, PostText(postbuf)) ELSE output
  /\ postbuf' = 0
  /\ pc' = "done"
  /\ UNCHANGED <<input, at, tokenIndex>>

(* print_postbuf: a queue that is not empty is appended and emptied.       *)
Flush ==
  /\ pc = "drain" /\ ~TokensLeft
  /\ output' = IF postbuf > 0 THEN Append(output, PostText(postbuf)) ELSE output
  /\ postbuf' = 0
  /\ pc' = "done"
  /\ UNCHANGED <<input, at, tokenIndex>>

Next ==
  \/ PassNode \/ SkipVisible \/ AdvanceHidden \/ PrintLeaf
  \/ EndWalk \/ DrainHidden \/ Flush

Spec == Init /\ [][Next]_vars

(* pgify_string is a loop-free caller of three loops that run on one       *)
(* thread to the end: a step that is possible is taken.                    *)
FairSpec == Spec /\ WF_vars(Next)

-----------------------------------------------------------------------------
(* The cursors stay in their vectors, one past the end included, and the   *)
(* control state agrees with them.                                         *)
TypeOK ==
  /\ WellFormed(input)
  /\ pc \in {"walk", "drain", "done"}
  /\ at \in 1 .. Len(nodes) + 1
  /\ tokenIndex \in 1 .. Len(tokens) + 1
  /\ output \in Seq(Text)
  /\ postbuf \in Nat
  /\ pc # "walk" => at = Len(nodes) + 1
  /\ pc = "done" => tokenIndex = Len(tokens) + 1

Printed(t) == \E p \in DOMAIN output : output[p] = t

(* Where a piece of output was in the source; 0 when it was not there.     *)
Origin(t) ==
  CASE t.kind = "hidden" -> t.idx
    [] t.kind = "leaf"   -> nodes[t.idx].src
    [] OTHER             -> 0

(* No comment and no blank is lost, whatever the rewriting did to the      *)
(* tree: when pgify_string returns, every hidden token is in the output,   *)
(* and so is every leaf of the tree (advance, advance_all).                *)
NothingLost ==
  pc = "done" =>
    /\ \A i \in DOMAIN tokens : tokens[i].hidden => Printed(HiddenText(i))
    /\ \A n \in DOMAIN nodes : nodes[n].kind = "leaf" => Printed(LeafText(n))
    /\ input.post > 0 => output # << >> /\ output[Len(output)] = PostText(input.post)

(* Nothing is printed twice, and neither stream is reordered: hidden       *)
(* tokens leave in the order of the vector and leaves in the order of the  *)
(* tree, however the two are woven (the shared tokenIndex never goes back).*)
StreamsInOrder ==
  \A p, q \in DOMAIN output :
    p < q /\ output[p].kind = output[q].kind => output[p].idx < output[q].idx

(* A comment that stood before a token is never printed after it, even     *)
(* when the rewriting moved, dropped or invented tokens (advance).         *)
TriviaNotLate ==
  \A p, q \in DOMAIN output :
    /\ output[p].kind = "leaf" /\ output[q].kind = "hidden"
    /\ output[q].idx < nodes[output[p].idx].src
    => q < p

(* Every visible token ends on the line it starts on: the line break after *)
(* it belongs to a hidden token that starts on its line.                   *)
SingleLine(in) ==
  \A s, j \in DOMAIN in.tokens :
    ~in.tokens[s].hidden /\ s < j /\ in.tokens[s].line < in.tokens[j].line
    => \E h \in s + 1 .. j - 1 :
          in.tokens[h].hidden /\ in.tokens[h].line = in.tokens[s].line

(* The rewriting kept what it kept in place.                               *)
InSourceOrder(in) ==
  \A m, n \in DOMAIN in.nodes :
    m < n /\ in.nodes[m].src > 0 /\ in.nodes[n].src > 0
    => in.nodes[m].src <= in.nodes[n].src

(* The converse of TriviaNotLate: a comment or blank that stood after a    *)
(* token is not printed before it.  advance compares lines and columns     *)
(* apart, so this needs one-line tokens that are printed in their order.   *)
TriviaNotEarly ==
  SingleLine(input) /\ InSourceOrder(input) =>
    \A p, q \in DOMAIN output :
      /\ output[p].kind = "leaf" /\ output[q].kind = "hidden"
      /\ nodes[output[p].idx].src > 0
      /\ q < p
      => output[q].idx < nodes[output[p].idx].src

(* A statement that no pass rewrites: the leaves are visible tokens of the *)
(* source, in its order.                                                   *)
Untransformed(in) ==
  /\ in.post = 0
  /\ \A m, n \in DOMAIN in.nodes :
        /\ in.nodes[n].kind = "leaf" => in.nodes[n].src > 0
        /\ m < n /\ in.nodes[m].src > 0 /\ in.nodes[n].src > 0
           => in.nodes[m].src < in.nodes[n].src

(* What no pass rewrites is printed as it was written: the output follows  *)
(* the source, token by token (test/testpassthroughtable.sh).              *)
PassThrough ==
  Untransformed(input) =>
    \A p, q \in DOMAIN output : p < q => Origin(output[p]) < Origin(output[q])

(* It is printed so as long as its visible tokens end on the line they     *)
(* start on; comments may span lines.                                      *)
OneLinersUnchanged == SingleLine(input) => PassThrough

(* pgify_string returns.                                                   *)
Terminates == <>(pc = "done")

-----------------------------------------------------------------------------
(* Why the invariants hold.  The output is what lies behind the cursors,   *)
(* each piece of its kind and no other;                                    *)
Behind ==
  \A p \in DOMAIN output :
    /\ output[p].kind = "hidden" =>
         output[p].idx \in 1 .. tokenIndex - 1 /\ tokens[output[p].idx].hidden
    /\ output[p].kind = "leaf" =>
         output[p].idx \in 1 .. at - 1 /\ nodes[output[p].idx].kind = "leaf"
    /\ output[p].kind = "post" => pc = "done" /\ input.post > 0 /\ p = Len(output)

(* all of what lies behind the cursors is in it;                           *)
Complete ==
  /\ \A i \in 1 .. tokenIndex - 1 : tokens[i].hidden => Printed(HiddenText(i))
  /\ \A n \in 1 .. at - 1 : nodes[n].kind = "leaf" => Printed(LeafText(n))

(* the queue waits for the end;                                            *)
QueueWaits ==
  /\ pc # "done" => postbuf = input.post
  /\ pc = "done" /\ input.post > 0 =>
       output # << >> /\ output[Len(output)] = PostText(input.post)

(* when a leaf is printed, the token cursor has passed what stood before   *)
(* it;                                                                     *)
CaughtUp ==
  \A p \in DOMAIN output : \A i \in DOMAIN tokens :
    output[p].kind = "leaf" /\ tokens[i].hidden /\ i < nodes[output[p].idx].src
    => i < tokenIndex

(* and where lines and order allow it to tell, the token cursor has passed *)
(* no hidden token behind a leaf that is still to come.                    *)
NotAhead ==
  pc = "walk" /\ SingleLine(input) /\ InSourceOrder(input) =>
    \A n \in at .. Len(nodes) : \A i \in 1 .. tokenIndex - 1 :
      nodes[n].src > 0 /\ tokens[i].hidden => i < nodes[n].src

IInv ==
  /\ TypeOK /\ Behind /\ Complete /\ QueueWaits /\ CaughtUp /\ NotAhead
  /\ StreamsInOrder /\ TriviaNotLate /\ TriviaNotEarly

-----------------------------------------------------------------------------
(* The printer implements the abstract weaving of Weave.                   *)
W == INSTANCE Weave WITH woven <- output, finished <- (pc = "done")
Weaves == W!Spec
=============================================================================
