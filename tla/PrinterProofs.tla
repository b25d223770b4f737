--------------------------- MODULE PrinterProofs ---------------------------
(***************************************************************************)
(* Proofs about Printer: for every set of inputs, IInv is an inductive     *)
(* invariant, the safety properties follow from it, and the two cursors    *)
(* implement the weaving that Weave describes.                             *)
(***************************************************************************)
EXTENDS Printer, TLAPS

(* What Append does to the output.                                         *)
LEMMA AppendText ==
  ASSUME NEW s \in Seq(Text), NEW t \in Text
  PROVE  /\ Append(s, t) \in Seq(Text)
         /\ Len(Append(s, t)) = Len(s) + 1
         /\ DOMAIN Append(s, t) = 1 .. Len(s) + 1 /\ DOMAIN s = 1 .. Len(s)
         /\ \A p \in 1 .. Len(s) : Append(s, t)[p] = s[p]
         /\ Append(s, t)[Len(s) + 1] = t
  OBVIOUS

(* A well-formed input is typed all the way down.                          *)
LEMMA InputTypes ==
  ASSUME WellFormed(input)
  PROVE  /\ tokens \in Seq(Token) /\ nodes \in Seq(Node) /\ input.post \in Nat
         /\ Len(tokens) \in Nat /\ DOMAIN tokens = 1 .. Len(tokens)
         /\ Len(nodes) \in Nat /\ DOMAIN nodes = 1 .. Len(nodes)
         /\ \A i \in DOMAIN tokens : tokens[i] \in Token
         /\ \A n \in DOMAIN nodes : nodes[n] \in Node
  BY DEF WellFormed, Input, tokens, nodes

LEMMA InitInv == Init => IInv
<1> SUFFICES ASSUME Init PROVE IInv
  OBVIOUS
<1>1. WellFormed(input)
  BY InputsAssumption DEF Init
<1>2. TypeOK
  BY <1>1, InputTypes DEF Init, TypeOK
<1> QED
  BY <1>1, <1>2, InputTypes
     DEF Init, IInv, Behind, Complete, QueueWaits, CaughtUp, NotAhead,
         StreamsInOrder, TriviaNotLate, TriviaNotEarly

(* Positions grow along the token vector.                                  *)
LEMMA Lexical ==
  ASSUME WellFormed(input), NEW i \in DOMAIN tokens, NEW j \in DOMAIN tokens, i < j
  PROVE  \/ tokens[i].line < tokens[j].line
         \/ tokens[i].line = tokens[j].line /\ tokens[i].col < tokens[j].col
  BY DEF WellFormed, tokens

(* A hidden token that advance breaks at stands behind the leaf.           *)
LEMMA BreakIsBehind ==
  ASSUME WellFormed(input), NEW n \in DOMAIN nodes, NEW i \in DOMAIN tokens,
         tokens[i].hidden, ~Precedes(i, n)
  PROVE  nodes[n].src < i \/ nodes[n].src = 0
<1> DEFINE s == nodes[n].src
<1> SUFFICES ASSUME s > 0, ~(s < i) PROVE FALSE
  BY InputTypes DEF Node
<1>1. s \in DOMAIN tokens /\ ~tokens[s].hidden
  BY InputTypes DEF WellFormed, tokens, nodes
<1>2. i < s
  BY <1>1, InputTypes
<1>3. Line(n) = tokens[s].line /\ Position(n) = tokens[s].col
  BY DEF Line, Position
<1>4. /\ tokens[s].line \in Nat /\ tokens[s].col \in Nat
      /\ tokens[i].line \in Nat /\ tokens[i].col \in Nat
  BY <1>1, InputTypes DEF Token
<1> QED
  BY <1>1, <1>2, <1>3, <1>4, Lexical DEF Precedes

(* The step that matters: with one-line tokens printed in their order, a   *)
(* hidden token that advance appends in front of the leaf at n stands in   *)
(* front of every leaf from n on.  If it stood behind one, its line would  *)
(* be a later one, and the line break in between would be a hidden token   *)
(* that had already been printed too early.                                *)
LEMMA AppendIsBefore ==
  ASSUME WellFormed(input), SingleLine(input), InSourceOrder(input),
         tokenIndex \in DOMAIN tokens, tokens[tokenIndex].hidden,
         at \in DOMAIN nodes, Precedes(tokenIndex, at),
         \A n \in at .. Len(nodes) : \A i \in 1 .. tokenIndex - 1 :
           nodes[n].src > 0 /\ tokens[i].hidden => i < nodes[n].src,
         NEW m \in at .. Len(nodes), nodes[m].src > 0
  PROVE  tokenIndex < nodes[m].src
<1> DEFINE j == tokenIndex
           s == nodes[m].src
           t == nodes[at].src
<1> SUFFICES ASSUME ~(j < s) PROVE FALSE
  OBVIOUS
<1>1. /\ m \in DOMAIN nodes /\ at \in 1 .. Len(nodes) /\ j \in 1 .. Len(tokens)
      /\ s \in DOMAIN tokens /\ ~tokens[s].hidden
      /\ t \in 0 .. Len(tokens) /\ (t > 0 => ~tokens[t].hidden)
  <2>1. m \in DOMAIN nodes /\ at \in 1 .. Len(nodes) /\ j \in 1 .. Len(tokens)
    BY InputTypes
  <2>2. /\ s \in DOMAIN tokens /\ ~tokens[s].hidden
        /\ t \in 0 .. Len(tokens) /\ (t > 0 => ~tokens[t].hidden)
    <3>1. \A n \in DOMAIN nodes :
            /\ nodes[n].src \in 0 .. Len(tokens)
            /\ nodes[n].src > 0 => ~tokens[nodes[n].src].hidden
      BY DEF WellFormed, tokens, nodes
    <3> QED
      BY <2>1, <3>1, InputTypes
  <2> QED
    BY <2>1, <2>2
<1>2. s \in Nat /\ j \in Nat /\ s < j
  BY <1>1, InputTypes
<1>3. \A i \in DOMAIN tokens : tokens[i].line \in Nat /\ tokens[i].col \in Nat
  BY InputTypes DEF Token
<1>4. ASSUME NEW r \in DOMAIN tokens, ~tokens[r].hidden, r < j, tokens[r].line < tokens[j].line,
             NEW k \in at .. Len(nodes), nodes[k].src = r, r > 0
      PROVE  FALSE
  <2>1. PICK h \in r + 1 .. j - 1 : tokens[h].hidden
    BY <1>4, InputTypes DEF SingleLine, tokens
  <2>2. h \in 1 .. j - 1 /\ ~(h < r)
    BY <2>1, <1>1, InputTypes
  <2> QED
    BY <2>1, <2>2, <1>4
<1>5. CASE t = 0
  <2>1. tokens[j].col = 0
    BY <1>5, <1>3 DEF Precedes, Line, Position
  <2>2. tokens[s].line < tokens[j].line
    <3>1. \/ tokens[s].line < tokens[j].line
          \/ tokens[s].line = tokens[j].line /\ tokens[s].col < tokens[j].col
      BY <1>1, <1>2, Lexical
    <3>2. tokens[s].col \in Nat
      BY <1>1, <1>3
    <3> QED
      BY <2>1, <3>1, <3>2
  <2> QED
    BY <2>2, <1>4, <1>1, <1>2
<1>6. CASE t > 0
  <2>1. t <= s
    <3>1. CASE m = at
      BY <3>1, <1>1, <1>2
    <3>2. CASE m # at
      <4>1. at \in DOMAIN input.nodes /\ m \in DOMAIN input.nodes /\ at < m
        BY <3>2, <1>1, InputTypes DEF nodes
      <4> QED
        BY <4>1, <1>6 DEF InSourceOrder, nodes
    <3> QED
      BY <3>1, <3>2
  <2>2. t \in DOMAIN tokens /\ t < j /\ ~tokens[t].hidden
    BY <2>1, <1>6, <1>1, <1>2, InputTypes
  <2>3. Line(at) = tokens[t].line /\ Position(at) = tokens[t].col
    BY <1>6 DEF Line, Position
  <2>4. tokens[t].line < tokens[j].line
    <3>1. tokens[j].line < tokens[t].line \/ tokens[j].col <= tokens[t].col
      BY <2>3 DEF Precedes
    <3>2. \/ tokens[t].line < tokens[j].line
          \/ tokens[t].line = tokens[j].line /\ tokens[t].col < tokens[j].col
      BY <2>2, <1>1, Lexical
    <3>3. /\ tokens[t].line \in Nat /\ tokens[t].col \in Nat
          /\ tokens[j].line \in Nat /\ tokens[j].col \in Nat
      BY <2>2, <1>1, <1>3
    <3> QED
      BY <3>1, <3>2, <3>3
  <2> QED
    BY <2>2, <2>4, <1>4, <1>6, <1>1
<1> QED
  BY <1>5, <1>6, <1>1

-----------------------------------------------------------------------------
LEMMA TypeStep == TypeOK /\ [Next]_vars => TypeOK'
<1> SUFFICES ASSUME TypeOK, [Next]_vars PROVE TypeOK'
  OBVIOUS
<1>1. input' = input /\ tokens' = tokens /\ nodes' = nodes
  BY DEF Next, PassNode, SkipVisible, AdvanceHidden, PrintLeaf, EndWalk, DrainHidden,
         Flush, vars, tokens, nodes
<1>2. WellFormed(input')
  BY <1>1 DEF TypeOK
<1>3. /\ Len(tokens) \in Nat /\ DOMAIN tokens = 1 .. Len(tokens)
      /\ Len(nodes) \in Nat /\ input.post \in Nat
  BY InputTypes DEF TypeOK
<1>4. \A k \in Nat : HiddenText(k) \in Text /\ LeafText(k) \in Text /\ PostText(k) \in Text
  BY DEF HiddenText, LeafText, PostText, Text
<1>5. CASE PassNode
  BY <1>1, <1>2, <1>3, <1>5 DEF TypeOK, PassNode
<1>6. CASE SkipVisible
  BY <1>1, <1>2, <1>3, <1>6 DEF TypeOK, SkipVisible, AtLeaf, TokensLeft
<1>7. CASE AdvanceHidden
  <2>1. output' \in Seq(Text)
    BY <1>4, <1>7, AppendText DEF TypeOK, AdvanceHidden
  <2> QED
    BY <2>1, <1>1, <1>2, <1>3, <1>7 DEF TypeOK, AdvanceHidden, AtLeaf, TokensLeft
<1>8. CASE PrintLeaf
  <2>1. output' \in Seq(Text)
    BY <1>4, <1>8, AppendText DEF TypeOK, PrintLeaf
  <2> QED
    BY <2>1, <1>1, <1>2, <1>3, <1>8 DEF TypeOK, PrintLeaf, AtLeaf
<1>9. CASE EndWalk
  BY <1>1, <1>2, <1>3, <1>9 DEF TypeOK, EndWalk
<1>10. CASE DrainHidden
  <2>1. output' \in Seq(Text)
    BY <1>4, <1>10, AppendText DEF TypeOK, DrainHidden
  <2> QED
    BY <2>1, <1>1, <1>2, <1>3, <1>10 DEF TypeOK, DrainHidden, TokensLeft
<1>11. CASE Flush
  <2>1. output' \in Seq(Text)
    BY <1>4, <1>11, AppendText DEF TypeOK, Flush
  <2> QED
    BY <2>1, <1>1, <1>2, <1>3, <1>11 DEF TypeOK, Flush, TokensLeft
<1>12. CASE UNCHANGED vars
  BY <1>1, <1>2, <1>12 DEF TypeOK, vars
<1> QED
  BY <1>5, <1>6, <1>7, <1>8, <1>9, <1>10, <1>11, <1>12 DEF Next

(* Type correctness: the cursors stay in their vectors, whatever tree the  *)
(* rewriting leaves behind.                                                *)
THEOREM TypeCorrect == Spec => []TypeOK
<1>1. Init => TypeOK
  BY InitInv DEF IInv
<1>2. TypeOK /\ [Next]_vars => TypeOK'
  BY TypeStep
<1> QED
  BY <1>1, <1>2, PTL DEF Spec

(* The step that advance and advance_all share.                            *)
LEMMA AppendHiddenStep ==
  ASSUME IInv, TypeOK', input' = input,
         tokenIndex \in DOMAIN tokens, tokens[tokenIndex].hidden,
         pc \in {"walk", "drain"},
         pc = "walk" => at \in DOMAIN nodes /\ Precedes(tokenIndex, at),
         output' = Append(output, HiddenText(tokenIndex)),
         tokenIndex' = tokenIndex + 1,
         UNCHANGED <<pc, at, postbuf>>
  PROVE  IInv'
<1> DEFINE L == Len(output)
<1>1. /\ WellFormed(input) /\ tokens' = tokens /\ nodes' = nodes
      /\ tokens \in Seq(Token) /\ nodes \in Seq(Node)
      /\ Len(tokens) \in Nat /\ DOMAIN tokens = 1 .. Len(tokens)
      /\ Len(nodes) \in Nat /\ DOMAIN nodes = 1 .. Len(nodes)
      /\ at \in Nat /\ tokenIndex \in Nat /\ at <= Len(nodes) + 1
      /\ output \in Seq(Text) /\ L \in Nat
  BY InputTypes DEF IInv, TypeOK, tokens, nodes
<1>2. HiddenText(tokenIndex) \in Text
  BY <1>1 DEF HiddenText, Text
<1>3. /\ DOMAIN output' = 1 .. L + 1 /\ DOMAIN output = 1 .. L /\ Len(output') = L + 1
      /\ \A p \in 1 .. L : output'[p] = output[p]
      /\ output'[L + 1] = [kind |-> "hidden", idx |-> tokenIndex]
  BY <1>1, <1>2, AppendText DEF HiddenText
<1>4. \A p \in DOMAIN output' : p \in DOMAIN output \/ p = L + 1
  <2>1. L \in Nat /\ DOMAIN output = 1 .. L /\ DOMAIN output' = 1 .. L + 1
    BY <1>1, <1>3
  <2> HIDE DEF L
  <2> QED
    BY <2>1
<1>5. Behind'
  <2>1. ASSUME NEW p \in DOMAIN output
        PROVE  p \in DOMAIN output' /\ output'[p] = output[p]
    BY <1>1, <1>3
  <2>2. \A i \in 1 .. tokenIndex - 1 : i \in 1 .. tokenIndex' - 1
    BY <1>1
  <2>3. tokenIndex \in 1 .. tokenIndex' - 1
    BY <1>1
  <2>4. Behind
    BY DEF IInv
  <2>5. \A p \in DOMAIN output : output[p].kind # "post"
    BY <2>4, <1>1 DEF Behind
  <2> HIDE DEF L
  <2> SUFFICES ASSUME NEW p \in DOMAIN output'
               PROVE  /\ output'[p].kind = "hidden" =>
                           /\ output'[p].idx \in 1 .. tokenIndex' - 1
                           /\ tokens[output'[p].idx].hidden
                      /\ output'[p].kind = "leaf" =>
                           /\ output'[p].idx \in 1 .. at' - 1
                           /\ nodes[output'[p].idx].kind = "leaf"
                      /\ output'[p].kind # "post"
    BY <1>1 DEF Behind
  <2>6. CASE p \in DOMAIN output
    BY <2>1, <2>2, <2>4, <2>5, <2>6, <1>1 DEF Behind
  <2>7. CASE p = L + 1
    BY <2>3, <2>7, <1>1, <1>3
  <2> QED
    BY <2>6, <2>7, <1>4
<1>6. Complete'
  <2>1. \A t : Printed(t) => Printed(t)'
    BY <1>1, <1>3 DEF Printed
  <2>2. ASSUME NEW i, i = tokenIndex PROVE Printed(HiddenText(i))'
    <3>1. L + 1 \in DOMAIN output' /\ output'[L + 1] = HiddenText(i)
      BY <2>2, <1>1, <1>3 DEF HiddenText
    <3> QED
      BY <3>1 DEF Printed, HiddenText
  <2>3. \A i \in 1 .. tokenIndex' - 1 : i \in 1 .. tokenIndex - 1 \/ i = tokenIndex
    BY <1>1
  <2>4. /\ \A i \in 1 .. tokenIndex - 1 : tokens[i].hidden => Printed(HiddenText(i))
        /\ \A n \in 1 .. at - 1 : nodes[n].kind = "leaf" => Printed(LeafText(n))
    BY DEF IInv, Complete
  <2> QED
    BY <2>1, <2>2, <2>3, <2>4, <1>1 DEF Complete, HiddenText, LeafText
<1>7. QueueWaits'
  BY DEF IInv, QueueWaits
<1>8. CaughtUp'
  BY <1>1, <1>3, <1>4 DEF IInv, CaughtUp
<1>9. StreamsInOrder'
  <2> SUFFICES ASSUME NEW p \in DOMAIN output', NEW q \in DOMAIN output', p < q,
                      output'[p].kind = output'[q].kind
               PROVE  output'[p].idx < output'[q].idx
    BY DEF StreamsInOrder
  <2>1. p \in DOMAIN output /\ p \in 1 .. L /\ output'[p] = output[p]
    BY <1>1, <1>3
  <2>2. CASE q \in DOMAIN output
    BY <2>1, <2>2, <1>3 DEF IInv, StreamsInOrder
  <2>3. CASE q = L + 1
    <3>1. output'[q].kind = "hidden" /\ output'[q].idx = tokenIndex
      BY <2>3, <1>3
    <3>2. output[p].idx \in 1 .. tokenIndex - 1
      BY <2>1, <3>1 DEF IInv, Behind
    <3> QED
      BY <2>1, <3>1, <3>2, <1>1
  <2> QED
    BY <2>2, <2>3, <1>4
<1>10. TriviaNotLate'
  BY <1>1, <1>3, <1>4 DEF IInv, TriviaNotLate, CaughtUp
<1>11. TriviaNotEarly'
  BY <1>1, <1>3, <1>4 DEF IInv, TriviaNotEarly
<1>12. NotAhead'
  <2> SUFFICES ASSUME pc = "walk", SingleLine(input), InSourceOrder(input),
                      NEW m \in at .. Len(nodes), NEW i \in 1 .. tokenIndex,
                      nodes[m].src > 0, tokens[i].hidden
               PROVE  i < nodes[m].src
    BY <1>1 DEF NotAhead
  <2>1. \A n \in at .. Len(nodes) : \A k \in 1 .. tokenIndex - 1 :
          nodes[n].src > 0 /\ tokens[k].hidden => k < nodes[n].src
    BY DEF IInv, NotAhead
  <2>2. tokenIndex < nodes[m].src
    BY <2>1, <1>1, AppendIsBefore
  <2>3. CASE i = tokenIndex
    BY <2>2, <2>3
  <2>4. CASE i # tokenIndex
    <3>1. i \in 1 .. tokenIndex - 1
      BY <2>4, <1>1
    <3> QED
      BY <2>1, <3>1
  <2> QED
    BY <2>3, <2>4
<1> QED
  BY <1>5, <1>6, <1>7, <1>8, <1>9, <1>10, <1>11, <1>12 DEF IInv

(* PrintLeaf appends a leaf.                                               *)
LEMMA AppendLeafStep == IInv /\ TypeOK' /\ PrintLeaf => IInv'
<1> SUFFICES ASSUME IInv, TypeOK', PrintLeaf PROVE IInv'
  OBVIOUS
<1> DEFINE L == Len(output)
<1>1. /\ WellFormed(input) /\ input' = input /\ tokens' = tokens /\ nodes' = nodes
      /\ tokens \in Seq(Token) /\ nodes \in Seq(Node)
      /\ Len(tokens) \in Nat /\ DOMAIN tokens = 1 .. Len(tokens)
      /\ Len(nodes) \in Nat /\ DOMAIN nodes = 1 .. Len(nodes)
      /\ at \in DOMAIN nodes /\ nodes[at].kind = "leaf" /\ pc = "walk" /\ at' = at + 1
      /\ tokenIndex \in Nat \ {0} /\ output \in Seq(Text) /\ L \in Nat
      /\ UNCHANGED <<pc, tokenIndex, postbuf>>
  BY InputTypes DEF IInv, TypeOK, tokens, nodes, PrintLeaf, AtLeaf
<1>2. LeafText(at) \in Text
  BY <1>1 DEF LeafText, Text
<1>3. /\ DOMAIN output' = 1 .. L + 1 /\ DOMAIN output = 1 .. L /\ Len(output') = L + 1
      /\ \A p \in 1 .. L : output'[p] = output[p]
      /\ output'[L + 1] = [kind |-> "leaf", idx |-> at]
  BY <1>1, <1>2, AppendText DEF LeafText, PrintLeaf
<1>4. \A p \in DOMAIN output' : p \in DOMAIN output \/ p = L + 1
  <2>1. L \in Nat /\ DOMAIN output = 1 .. L /\ DOMAIN output' = 1 .. L + 1
    BY <1>1, <1>3
  <2> HIDE DEF L
  <2> QED
    BY <2>1
(* The loop of advance stopped because every hidden token in front of the  *)
(* leaf is behind the cursor.                                              *)
<1>5. \A i \in DOMAIN tokens : tokens[i].hidden /\ i < nodes[at].src => i < tokenIndex
  <2> SUFFICES ASSUME NEW i \in DOMAIN tokens, i < nodes[at].src, ~(i < tokenIndex)
               PROVE  FALSE
    OBVIOUS
  <2>1. tokenIndex \in DOMAIN tokens /\ nodes[at].src \in Nat
    BY <1>1, InputTypes DEF Node
  <2>2. nodes[at].src < tokenIndex \/ nodes[at].src = 0
    BY <2>1, <1>1, BreakIsBehind DEF PrintLeaf, TokensLeft
  <2> QED
    BY <2>1, <2>2, <1>1
<1>6. Behind'
  <2>1. \A p \in DOMAIN output : p \in DOMAIN output' /\ output'[p] = output[p]
    BY <1>1, <1>3
  <2>2. \A i \in 1 .. at - 1 : i \in 1 .. at' - 1
    BY <1>1
  <2>3. at \in 1 .. at' - 1
    BY <1>1
  <2>4. Behind
    BY DEF IInv
  <2>5. \A p \in DOMAIN output : output[p].kind # "post"
    BY <2>4, <1>1 DEF Behind
  <2> HIDE DEF L
  <2> SUFFICES ASSUME NEW p \in DOMAIN output'
               PROVE  /\ output'[p].kind = "hidden" =>
                           /\ output'[p].idx \in 1 .. tokenIndex' - 1
                           /\ tokens[output'[p].idx].hidden
                      /\ output'[p].kind = "leaf" =>
                           /\ output'[p].idx \in 1 .. at' - 1
                           /\ nodes[output'[p].idx].kind = "leaf"
                      /\ output'[p].kind # "post"
    BY <1>1 DEF Behind
  <2>6. CASE p \in DOMAIN output
    BY <2>1, <2>2, <2>4, <2>5, <2>6, <1>1 DEF Behind
  <2>7. CASE p = L + 1
    BY <2>3, <2>7, <1>1, <1>3
  <2> QED
    BY <2>6, <2>7, <1>4
<1>7. Complete'
  <2>1. \A t : Printed(t) => Printed(t)'
    BY <1>1, <1>3 DEF Printed
  <2>2. ASSUME NEW n, n = at PROVE Printed(LeafText(n))'
    <3>1. L + 1 \in DOMAIN output' /\ output'[L + 1] = LeafText(n)
      BY <2>2, <1>1, <1>3 DEF LeafText
    <3> QED
      BY <3>1 DEF Printed, LeafText
  <2>3. \A n \in 1 .. at' - 1 : n \in 1 .. at - 1 \/ n = at
    BY <1>1
  <2>4. /\ \A i \in 1 .. tokenIndex - 1 : tokens[i].hidden => Printed(HiddenText(i))
        /\ \A n \in 1 .. at - 1 : nodes[n].kind = "leaf" => Printed(LeafText(n))
    BY DEF IInv, Complete
  <2> QED
    BY <2>1, <2>2, <2>3, <2>4, <1>1 DEF Complete, HiddenText, LeafText
<1>8. QueueWaits'
  BY <1>1 DEF IInv, QueueWaits
<1>9. CaughtUp'
  BY <1>1, <1>3, <1>4, <1>5 DEF IInv, CaughtUp
<1>10. NotAhead'
  BY <1>1 DEF IInv, NotAhead
<1>11. StreamsInOrder'
  <2> SUFFICES ASSUME NEW p \in DOMAIN output', NEW q \in DOMAIN output', p < q,
                      output'[p].kind = output'[q].kind
               PROVE  output'[p].idx < output'[q].idx
    BY DEF StreamsInOrder
  <2>1. p \in DOMAIN output /\ p \in 1 .. L /\ output'[p] = output[p]
    BY <1>1, <1>3
  <2>2. CASE q \in DOMAIN output
    BY <2>1, <2>2, <1>3 DEF IInv, StreamsInOrder
  <2>3. CASE q = L + 1
    <3>1. output'[q].kind = "leaf" /\ output'[q].idx = at
      BY <2>3, <1>3
    <3>2. output[p].idx \in 1 .. at - 1
      BY <2>1, <3>1 DEF IInv, Behind
    <3> QED
      BY <2>1, <3>1, <3>2, <1>1
  <2> QED
    BY <2>2, <2>3, <1>4
<1>12. TriviaNotLate'
  <2> SUFFICES ASSUME NEW p \in DOMAIN output', NEW q \in DOMAIN output',
                      output'[p].kind = "leaf", output'[q].kind = "hidden",
                      output'[q].idx < nodes[output'[p].idx].src
               PROVE  q < p
    BY <1>1 DEF TriviaNotLate
  <2>1. q \in DOMAIN output /\ q \in 1 .. L /\ output'[q] = output[q]
    BY <1>1, <1>3, <1>4
  <2>2. CASE p = L + 1
    BY <2>1, <2>2, <1>1
  <2>3. CASE p \in DOMAIN output
    BY <2>1, <2>3, <1>3 DEF IInv, TriviaNotLate
  <2> QED
    BY <2>2, <2>3, <1>4
<1>13. TriviaNotEarly'
  <2> SUFFICES ASSUME SingleLine(input), InSourceOrder(input),
                      NEW p \in DOMAIN output', NEW q \in DOMAIN output',
                      output'[p].kind = "leaf", output'[q].kind = "hidden",
                      nodes[output'[p].idx].src > 0, q < p
               PROVE  output'[q].idx < nodes[output'[p].idx].src
    BY <1>1 DEF TriviaNotEarly
  <2>1. q \in DOMAIN output /\ q \in 1 .. L /\ output'[q] = output[q]
    BY <1>1, <1>3, <1>4
  <2>2. CASE p = L + 1
    <3>1. output'[p].idx = at /\ at \in at .. Len(nodes)
      BY <2>2, <1>1, <1>3
    <3>2. output[q].idx \in 1 .. tokenIndex - 1 /\ tokens[output[q].idx].hidden
      BY <2>1 DEF IInv, Behind
    <3> QED
      BY <2>1, <3>1, <3>2, <1>1 DEF IInv, NotAhead
  <2>3. CASE p \in DOMAIN output
    BY <2>1, <2>3, <1>3 DEF IInv, TriviaNotEarly
  <2> QED
    BY <2>2, <2>3, <1>4
<1> QED
  BY <1>6, <1>7, <1>8, <1>9, <1>10, <1>11, <1>12, <1>13 DEF IInv

LEMMA NextInv == IInv /\ [Next]_vars => IInv'
<1> SUFFICES ASSUME IInv, [Next]_vars PROVE IInv'
  OBVIOUS
<1>1. TypeOK'
  BY TypeStep DEF IInv
<1>2. /\ WellFormed(input) /\ input' = input /\ tokens' = tokens /\ nodes' = nodes
      /\ Len(tokens) \in Nat /\ DOMAIN tokens = 1 .. Len(tokens)
      /\ Len(nodes) \in Nat /\ DOMAIN nodes = 1 .. Len(nodes)
      /\ at \in 1 .. Len(nodes) + 1 /\ tokenIndex \in 1 .. Len(tokens) + 1
      /\ output \in Seq(Text) /\ Len(output) \in Nat /\ DOMAIN output = 1 .. Len(output)
  BY InputTypes DEF IInv, TypeOK, Next, PassNode, SkipVisible, AdvanceHidden, PrintLeaf,
                    EndWalk, DrainHidden, Flush, vars, tokens, nodes
<1>3. CASE PassNode
  <2>1. /\ at \in DOMAIN nodes /\ nodes[at].kind # "leaf" /\ at' = at + 1
        /\ UNCHANGED <<pc, tokenIndex, output, postbuf>>
    BY <1>2, <1>3 DEF PassNode
  <2>2. Behind' /\ QueueWaits' /\ CaughtUp' /\ NotAhead'
    <3>1. Behind'
      <4>1. \A n \in 1 .. at - 1 : n \in 1 .. at' - 1
        BY <2>1, <1>2
      <4>2. Behind
        BY DEF IInv
      <4> QED
        BY <4>1, <4>2, <2>1, <1>2 DEF Behind
    <3>2. QueueWaits'
      BY <2>1, <1>2 DEF IInv, QueueWaits
    <3>3. CaughtUp'
      BY <2>1, <1>2 DEF IInv, CaughtUp
    <3>4. NotAhead'
      BY <2>1, <1>2 DEF IInv, NotAhead
    <3> QED
      BY <3>1, <3>2, <3>3, <3>4
  <2>3. Complete'
    <3>1. \A n \in 1 .. at' - 1 : n \in 1 .. at - 1 \/ n = at
      BY <2>1, <1>2
    <3> QED
      BY <3>1, <2>1, <1>2 DEF IInv, Complete, Printed, HiddenText, LeafText
  <2>4. StreamsInOrder' /\ TriviaNotLate' /\ TriviaNotEarly'
    BY <2>1, <1>2 DEF IInv, StreamsInOrder, TriviaNotLate, TriviaNotEarly
  <2> QED
    BY <1>1, <2>2, <2>3, <2>4 DEF IInv
<1>4. CASE SkipVisible
  <2>1. /\ tokenIndex \in DOMAIN tokens /\ ~tokens[tokenIndex].hidden
        /\ tokenIndex' = tokenIndex + 1
        /\ UNCHANGED <<pc, at, output, postbuf>>
    BY <1>2, <1>4 DEF SkipVisible, TokensLeft
  <2>2. \A i \in 1 .. tokenIndex' - 1 : i \in 1 .. tokenIndex - 1 \/ i = tokenIndex
    BY <2>1, <1>2
  <2>3. Behind' /\ QueueWaits' /\ CaughtUp' /\ NotAhead'
    <3>1. Behind'
      <4>1. \A i \in 1 .. tokenIndex - 1 : i \in 1 .. tokenIndex' - 1
        BY <2>1, <1>2
      <4>2. Behind
        BY DEF IInv
      <4> QED
        BY <4>1, <4>2, <2>1, <1>2 DEF Behind
    <3>2. QueueWaits'
      BY <2>1, <1>2 DEF IInv, QueueWaits
    <3>3. CaughtUp'
      BY <2>1, <1>2 DEF IInv, CaughtUp
    <3>4. NotAhead'
      BY <2>1, <2>2, <1>2 DEF IInv, NotAhead
    <3> QED
      BY <3>1, <3>2, <3>3, <3>4
  <2>4. Complete'
    BY <2>1, <2>2, <1>2 DEF IInv, Complete, Printed, HiddenText, LeafText
  <2>5. StreamsInOrder' /\ TriviaNotLate' /\ TriviaNotEarly'
    BY <2>1, <1>2 DEF IInv, StreamsInOrder, TriviaNotLate, TriviaNotEarly
  <2> QED
    BY <1>1, <2>3, <2>4, <2>5 DEF IInv
<1>5. CASE AdvanceHidden
  BY <1>1, <1>2, <1>5, AppendHiddenStep DEF AdvanceHidden, AtLeaf, TokensLeft
<1>6. CASE PrintLeaf
  BY <1>1, <1>6, AppendLeafStep
<1>7. CASE EndWalk
  <2>1. pc = "walk" /\ pc' = "drain" /\ UNCHANGED <<at, tokenIndex, output, postbuf>>
    BY <1>7 DEF EndWalk
  <2> QED
    BY <2>1, <1>1, <1>2
       DEF IInv, Behind, Complete, Printed, HiddenText, LeafText, QueueWaits, CaughtUp,
           NotAhead, StreamsInOrder, TriviaNotLate, TriviaNotEarly
<1>8. CASE DrainHidden
  BY <1>1, <1>2, <1>8, AppendHiddenStep DEF DrainHidden, TokensLeft
<1>9. CASE Flush
  <2> DEFINE L == Len(output)
  <2>1. /\ pc = "drain" /\ pc' = "done" /\ postbuf = input.post
        /\ UNCHANGED <<at, tokenIndex>> /\ input.post \in Nat
        /\ output' = IF postbuf > 0 THEN Append(output, PostText(postbuf)) ELSE output
    BY <1>9, <1>2, InputTypes DEF Flush, IInv, QueueWaits
  <2>2. CASE ~(postbuf > 0)
    BY <2>1, <2>2, <1>1, <1>2
       DEF IInv, Behind, Complete, Printed, HiddenText, LeafText, QueueWaits, CaughtUp,
           NotAhead, StreamsInOrder, TriviaNotLate, TriviaNotEarly
  <2>3. CASE postbuf > 0
    <3>1. PostText(postbuf) \in Text
      BY <2>1 DEF PostText, Text
    <3>2. /\ DOMAIN output' = 1 .. L + 1 /\ Len(output') = L + 1
          /\ \A p \in 1 .. L : output'[p] = output[p]
          /\ output'[L + 1] = [kind |-> "post", idx |-> postbuf]
          /\ output'[L + 1] = PostText(postbuf)
      BY <2>1, <2>3, <3>1, <1>2, AppendText DEF PostText
    <3>3. /\ \A p \in DOMAIN output' : p \in DOMAIN output \/ p = L + 1
          /\ \A p \in DOMAIN output : output[p].kind # "post"
      BY <3>2, <2>1, <1>2 DEF IInv, Behind
    <3>4. Behind'
      <4> SUFFICES ASSUME NEW p \in DOMAIN output'
                   PROVE  /\ output'[p].kind = "hidden" =>
                               /\ output'[p].idx \in 1 .. tokenIndex - 1
                               /\ tokens[output'[p].idx].hidden
                          /\ output'[p].kind = "leaf" =>
                               /\ output'[p].idx \in 1 .. at - 1
                               /\ nodes[output'[p].idx].kind = "leaf"
                          /\ output'[p].kind = "post" =>
                               pc' = "done" /\ input.post > 0 /\ p = Len(output')
        BY <2>1, <1>2 DEF Behind
      <4>1. CASE p \in DOMAIN output
        <5>1. p \in 1 .. L /\ output'[p] = output[p]
          BY <4>1, <3>2, <1>2
        <5> QED
          BY <4>1, <5>1, <3>3 DEF IInv, Behind
      <4>2. CASE p = L + 1
        BY <4>2, <3>2, <2>1, <2>3
      <4> QED
        BY <3>3, <4>1, <4>2
    <3>5. Complete'
      <4>1. \A t : Printed(t) => Printed(t)'
        BY <1>2, <3>2 DEF Printed
      <4> QED
        BY <4>1, <2>1, <1>2 DEF IInv, Complete, HiddenText, LeafText
    <3>6. QueueWaits'
      <4>1. output'[Len(output')] = PostText(input.post) /\ Len(output') # 0
        <5>1. Len(output') = L + 1 /\ L \in Nat
          BY <3>2, <1>2
        <5>2. output'[L + 1] = PostText(input.post)
          BY <3>2, <2>1
        <5> QED
          BY <5>1, <5>2
      <4>2. output' # << >>
        BY <4>1
      <4> QED
        BY <4>1, <4>2, <2>1, <1>2 DEF QueueWaits, PostText
    <3>7. CaughtUp' /\ NotAhead'
      <4>1. \A p \in DOMAIN output' :
              output'[p].kind = "leaf" => p \in DOMAIN output /\ output'[p] = output[p]
        BY <3>2, <3>3, <1>2
      <4>2. CaughtUp'
        BY <4>1, <2>1, <1>2 DEF IInv, CaughtUp
      <4>3. NotAhead'
        BY <2>1 DEF NotAhead
      <4> QED
        BY <4>2, <4>3
    <3>8. StreamsInOrder'
      BY <3>2, <3>3, <1>2 DEF IInv, StreamsInOrder
    <3>9. TriviaNotLate' /\ TriviaNotEarly'
      <4>1. \A p \in DOMAIN output' :
              output'[p].kind # "post" => p \in DOMAIN output /\ output'[p] = output[p]
        BY <3>2, <3>3, <1>2
      <4>2. TriviaNotLate'
        BY <4>1, <1>2 DEF IInv, TriviaNotLate
      <4>3. TriviaNotEarly'
        BY <4>1, <1>2 DEF IInv, TriviaNotEarly
      <4> QED
        BY <4>2, <4>3
    <3> QED
      BY <1>1, <3>4, <3>5, <3>6, <3>7, <3>8, <3>9 DEF IInv
  <2> QED
    BY <2>2, <2>3
<1>10. CASE UNCHANGED vars
  BY <1>1, <1>2, <1>10
     DEF vars, IInv, Behind, Complete, Printed, HiddenText, LeafText, PostText, QueueWaits,
         CaughtUp, NotAhead, StreamsInOrder, TriviaNotLate, TriviaNotEarly
<1> QED
  BY <1>3, <1>4, <1>5, <1>6, <1>7, <1>8, <1>9, <1>10 DEF Next

-----------------------------------------------------------------------------
(* The strengthening is an invariant.                                      *)
THEOREM Invariance == Spec => []IInv
  BY InitInv, NextInv, PTL DEF Spec

(* No comment, no blank and no leaf is lost, whatever the rewriting did to *)
(* the tree (advance, advance_all, print_postbuf).                         *)
THEOREM NothingIsLost == Spec => []NothingLost
<1>1. IInv => NothingLost
  <2> SUFFICES ASSUME IInv, pc = "done" PROVE
        /\ \A i \in DOMAIN tokens : tokens[i].hidden => Printed(HiddenText(i))
        /\ \A n \in DOMAIN nodes : nodes[n].kind = "leaf" => Printed(LeafText(n))
        /\ input.post > 0 => output # << >> /\ output[Len(output)] = PostText(input.post)
    BY DEF NothingLost
  <2>1. /\ DOMAIN tokens = 1 .. tokenIndex - 1
        /\ DOMAIN nodes = 1 .. at - 1
    BY InputTypes DEF IInv, TypeOK
  <2> QED
    BY <2>1 DEF IInv, Complete, QueueWaits
<1> QED
  BY <1>1, Invariance, PTL

(* Nothing is printed twice, and neither stream is reordered (the cursor   *)
(* that all the calls of advance share).                                   *)
THEOREM StreamsStayInOrder == Spec => []StreamsInOrder
<1>1. IInv => StreamsInOrder
  BY DEF IInv
<1> QED
  BY <1>1, Invariance, PTL

(* A comment in front of a token is never printed behind it, even when the *)
(* rewriting moved, dropped or invented tokens (advance).                  *)
THEOREM TriviaIsNotLate == Spec => []TriviaNotLate
<1>1. IInv => TriviaNotLate
  BY DEF IInv
<1> QED
  BY <1>1, Invariance, PTL

(* Where every visible token is on one line and the rewriting kept the     *)
(* order, a comment behind a token is never printed in front of it: there  *)
(* the comparison of lines and columns apart does no harm (advance).       *)
THEOREM TriviaIsNotEarly == Spec => []TriviaNotEarly
<1>1. IInv => TriviaNotEarly
  BY DEF IInv
<1> QED
  BY <1>1, Invariance, PTL

(* If no visible token spans lines, a statement that no pass rewrites is   *)
(* printed as it was written (advance, advance_all).                       *)
THEOREM OneLinePassThrough == Spec => []OneLinersUnchanged
<1>1. IInv => OneLinersUnchanged
  <2> SUFFICES ASSUME IInv, SingleLine(input), Untransformed(input),
                      NEW p \in DOMAIN output, NEW q \in DOMAIN output, p < q
               PROVE  Origin(output[p]) < Origin(output[q])
    BY DEF OneLinersUnchanged, PassThrough
  <2>1. /\ WellFormed(input) /\ output \in Seq(Text)
        /\ p \in Nat /\ q \in Nat /\ output[p] \in Text /\ output[q] \in Text
    BY DEF IInv, TypeOK
  <2>2. \A r \in DOMAIN output :
          /\ output[r].kind \in {"hidden", "leaf"}
          /\ output[r].kind = "hidden" =>
               /\ Origin(output[r]) = output[r].idx /\ output[r].idx \in DOMAIN tokens
               /\ tokens[output[r].idx].hidden
          /\ output[r].kind = "leaf" =>
               /\ Origin(output[r]) = nodes[output[r].idx].src
               /\ output[r].idx \in DOMAIN nodes /\ nodes[output[r].idx].kind = "leaf"
               /\ nodes[output[r].idx].src > 0
    <3> TAKE r \in DOMAIN output
    <3>1. output[r] \in Text /\ output[r].kind # "post" /\ input.post = 0
      BY <2>1, InputTypes DEF IInv, Behind, Untransformed
    <3>2. at \in 1 .. Len(nodes) + 1 /\ tokenIndex \in 1 .. Len(tokens) + 1
      BY DEF IInv, TypeOK
    <3>3. ASSUME output[r].kind = "hidden"
          PROVE  output[r].idx \in DOMAIN tokens /\ tokens[output[r].idx].hidden
      <4>1. output[r].idx \in 1 .. tokenIndex - 1 /\ tokens[output[r].idx].hidden
        BY <3>3 DEF IInv, Behind
      <4> QED
        BY <4>1, <3>2, <2>1, InputTypes
    <3>4. ASSUME output[r].kind = "leaf"
          PROVE  /\ output[r].idx \in DOMAIN nodes /\ nodes[output[r].idx].kind = "leaf"
                 /\ nodes[output[r].idx].src > 0
      <4>1. output[r].idx \in 1 .. at - 1 /\ nodes[output[r].idx].kind = "leaf"
        BY <3>4 DEF IInv, Behind
      <4>2. output[r].idx \in DOMAIN nodes
        BY <4>1, <3>2, <2>1, InputTypes
      <4> QED
        BY <4>1, <4>2 DEF Untransformed, nodes
    <3>5. output[r].kind \in {"hidden", "leaf"}
      BY <3>1 DEF Text
    <3> QED
      BY <3>3, <3>4, <3>5 DEF Origin
  <2>3. InSourceOrder(input)
    <3> SUFFICES ASSUME NEW m \in DOMAIN nodes, NEW n \in DOMAIN nodes, m < n,
                        nodes[m].src > 0, nodes[n].src > 0
                 PROVE  nodes[m].src <= nodes[n].src
      BY DEF InSourceOrder, nodes
    <3>1. nodes[m] \in Node /\ nodes[n] \in Node
      BY <2>1, InputTypes
    <3> QED
      BY <3>1 DEF Untransformed, nodes, Node
  <2>4. \A n \in DOMAIN nodes : nodes[n].src \in Nat /\ (nodes[n].src > 0 =>
           nodes[n].src \in DOMAIN tokens /\ ~tokens[nodes[n].src].hidden)
    BY <2>1, InputTypes DEF WellFormed, tokens, nodes, Node
  <2>5. CASE output[p].kind = output[q].kind
    <3>1. output[p].idx < output[q].idx
      BY <2>5 DEF IInv, StreamsInOrder
    <3> QED
      BY <3>1, <2>2, <2>5 DEF Untransformed, nodes
  <2>6. CASE output[p].kind = "leaf" /\ output[q].kind = "hidden"
    <3>1. ~(output[q].idx < nodes[output[p].idx].src)
      BY <2>1, <2>6 DEF IInv, TriviaNotLate
    <3>2. output[q].idx # nodes[output[p].idx].src
      BY <2>2, <2>4, <2>6
    <3> QED
      BY <3>1, <3>2, <2>1, <2>2, <2>4, <2>6, InputTypes
  <2>7. CASE output[p].kind = "hidden" /\ output[q].kind = "leaf"
    BY <2>2, <2>3, <2>7 DEF IInv, TriviaNotEarly
  <2> QED
    BY <2>2, <2>5, <2>6, <2>7
<1> QED
  BY <1>1, Invariance, PTL

(* The two cursors implement the weaving: every step adds a hidden token   *)
(* or a leaf that is due, and the last one the queue.                      *)
THEOREM ImplementsWeave == Spec => Weaves
<1>1. Init => W!Init
  BY DEF Init, W!Init
<1>2. IInv /\ [Next]_vars => [W!Next]_<<input, output, pc = "done">>
  <2> SUFFICES ASSUME IInv, [Next]_vars
               PROVE  [W!Next]_<<input, output, pc = "done">>
    OBVIOUS
  <2>1. /\ WellFormed(input) /\ input' = input
        /\ Len(tokens) \in Nat /\ DOMAIN tokens = 1 .. Len(tokens)
        /\ Len(nodes) \in Nat /\ DOMAIN nodes = 1 .. Len(nodes)
        /\ at \in 1 .. Len(nodes) + 1 /\ tokenIndex \in 1 .. Len(tokens) + 1
        /\ W!HiddenTokens = {i \in DOMAIN tokens : tokens[i].hidden}
        /\ W!Leaves = {n \in DOMAIN nodes : nodes[n].kind = "leaf"}
    BY InputTypes DEF IInv, TypeOK, Next, PassNode, SkipVisible, AdvanceHidden, PrintLeaf,
                      EndWalk, DrainHidden, Flush, vars, tokens, nodes,
                      W!HiddenTokens, W!Leaves
  <2>2. /\ \A i : W!Woven("hidden", i) => i < tokenIndex
        /\ \A n : W!Woven("leaf", n) => n < at
    BY <2>1 DEF IInv, Behind, W!Woven
  <2>3. /\ \A i \in W!HiddenTokens : i < tokenIndex => W!Woven("hidden", i)
        /\ \A n \in W!Leaves : n < at => W!Woven("leaf", n)
    BY <2>1 DEF IInv, Complete, Printed, HiddenText, LeafText, W!Woven
  <2>4. CASE AdvanceHidden \/ DrainHidden
    <3>1. /\ tokenIndex \in W!HiddenTokens /\ pc # "done" /\ pc' = pc
          /\ output' = Append(output, [kind |-> "hidden", idx |-> tokenIndex])
      BY <2>1, <2>4 DEF AdvanceHidden, DrainHidden, AtLeaf, TokensLeft, HiddenText
    <3>2. W!WeaveHidden(tokenIndex)
      BY <2>1, <2>2, <2>3, <3>1 DEF W!WeaveHidden, W!Add
    <3> QED
      BY <3>1, <3>2 DEF W!Next
  <2>5. CASE PrintLeaf
    <3>1. /\ at \in W!Leaves /\ pc # "done" /\ pc' = pc
          /\ output' = Append(output, [kind |-> "leaf", idx |-> at])
      BY <2>1, <2>5 DEF PrintLeaf, AtLeaf, LeafText
    <3>2. \A i \in W!HiddenTokens : i < input.nodes[at].src => i < tokenIndex
      <4> SUFFICES ASSUME NEW i \in DOMAIN tokens, tokens[i].hidden, i < nodes[at].src,
                          ~(i < tokenIndex)
                   PROVE  FALSE
        BY <2>1 DEF nodes
      <4>1. tokenIndex \in DOMAIN tokens /\ nodes[at].src \in Nat /\ at \in DOMAIN nodes
        BY <2>1, <3>1, InputTypes DEF Node
      <4>2. nodes[at].src < tokenIndex \/ nodes[at].src = 0
        BY <4>1, <2>1, <2>5, BreakIsBehind DEF PrintLeaf, TokensLeft
      <4> QED
        BY <4>1, <4>2, <2>1
    <3>3. W!WeaveLeaf(at)
      BY <2>1, <2>2, <2>3, <3>1, <3>2 DEF W!WeaveLeaf, W!Add
    <3> QED
      BY <3>1, <3>3 DEF W!Next
  <2>6. CASE Flush
    <3>1. /\ pc = "drain" /\ pc' = "done" /\ postbuf = input.post
          /\ ~(tokenIndex <= Len(tokens)) /\ at = Len(nodes) + 1
          /\ output' = IF postbuf > 0 THEN Append(output, PostText(postbuf)) ELSE output
      BY <2>6 DEF IInv, TypeOK, QueueWaits, Flush, TokensLeft
    <3>2. /\ \A i \in W!HiddenTokens : W!Woven("hidden", i)
          /\ \A n \in W!Leaves : W!Woven("leaf", n)
      BY <2>1, <2>3, <3>1
    <3>3. W!Finish
      BY <2>1, <3>1, <3>2 DEF W!Finish, W!Add, PostText
    <3> QED
      BY <3>3 DEF W!Next
  <2>7. CASE PassNode \/ SkipVisible \/ EndWalk \/ UNCHANGED vars
    BY <2>1, <2>7 DEF PassNode, SkipVisible, EndWalk, vars, AtLeaf
  <2> QED
    BY <2>4, <2>5, <2>6, <2>7 DEF Next
<1>3. Spec => W!Init /\ [][W!Next]_<<input, output, pc = "done">>
  BY <1>1, <1>2, Invariance, PTL DEF Spec
<1> QED
  BY <1>3 DEF Weaves, W!Spec
=============================================================================
