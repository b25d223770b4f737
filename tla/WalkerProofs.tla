---------------------------- MODULE WalkerProofs ----------------------------
(***************************************************************************)
(* Proofs about the tree walk, for every tree that is well formed.         *)
(*                                                                         *)
(* WalkInv is about the walk alone: the calls that run are a path of the   *)
(* tree, a handler has seen nothing of what is in front of a call's child  *)
(* and all of what is behind it, and a list is as parsed until its node is *)
(* handled.  It is kept by three kinds of steps: a descent, a return, and  *)
(* the passing of a child, with or without a handler (Passes).             *)
(*                                                                         *)
(* RewriteInv is about the tree: what a handler has left of a list, whose  *)
(* text may have changed, and what a SHOW and a USE were made of.  Rewrote *)
(* is what all handlers have in common, that they keep to their child and  *)
(* its children; it is shown of each of them.                              *)
(***************************************************************************)
EXTENDS Walker, SequenceTheorems, FiniteSetTheorems, WellFoundedInduction, TLAPS

-----------------------------------------------------------------------------
(* The tree as parsed, first-order.                                        *)
Nodes     == 1 .. Len(source)
Type(n)   == source[n].type
Kids(n)   == source[n].kids
Parent(n) == source[n].parent
End(n)    == source[n].last
Under(m, n) == n < m /\ m <= End(n)

(* What WellFormed says of a node.                                         *)
LEMMA NodeFacts ==
  ASSUME WellFormed(source), NEW n \in Nodes
  PROVE  /\ n \in DOMAIN source /\ n \in Nat /\ 1 <= n /\ n <= Len(source) /\ Len(source) \in Nat
         /\ Parent(n) \in Nat /\ End(n) \in Nat /\ Kids(n) \in Seq(Nat)
         /\ Type(n) \in STRING /\ source[n].text \in Seq(STRING)
         /\ n <= End(n) /\ End(n) <= Len(source)
         /\ n > 1 => /\ Parent(n) >= 1 /\ Parent(n) < n /\ Parent(n) \in Nodes
                     /\ n <= End(Parent(n))
         /\ \A m \in Nodes : Under(m, n) => End(m) <= End(n) /\ n <= Parent(m)
         /\ \A p, q \in DOMAIN Kids(n) : p < q => Kids(n)[p] < Kids(n)[q]
         /\ Grammatical(source, n)
<1>1. DOMAIN source = 1 .. Len(source) /\ Len(source) \in Nat /\ source \in Seq(Node)
  BY DEF WellFormed
<1>2. source[n] \in Node /\ InOrder(source, n) /\ Grammatical(source, n)
  BY <1>1 DEF WellFormed, Nodes
<1>3. /\ Parent(n) \in Nat /\ End(n) \in Nat /\ Kids(n) \in Seq(Nat)
      /\ Type(n) \in STRING /\ source[n].text \in Seq(STRING)
  BY <1>2 DEF Node, Parent, End, Kids, Type
<1>4. n <= End(n) /\ End(n) <= Len(source)
  BY <1>1, <1>2, <1>3 DEF InOrder, End, Nodes
<1>5. n > 1 => /\ Parent(n) >= 1 /\ Parent(n) < n /\ Parent(n) \in Nodes
               /\ n <= End(Parent(n))
  BY <1>1, <1>2, <1>3 DEF InOrder, End, Nodes, Parent, Below
<1>6. \A m \in Nodes : Under(m, n) => End(m) <= End(n) /\ n <= Parent(m)
  BY <1>1, <1>2 DEF InOrder, End, Nodes, Parent, Below, Under
<1>7. \A p, q \in DOMAIN Kids(n) : p < q => Kids(n)[p] < Kids(n)[q]
  BY <1>2 DEF InOrder, Kids
<1>8. QED BY <1>1, <1>2, <1>3, <1>4, <1>5, <1>6, <1>7 DEF Nodes

(* The children of a node are those whose parent it is, and stand below    *)
(* it.                                                                     *)
LEMMA KidFacts ==
  ASSUME WellFormed(source), NEW n \in Nodes
  PROVE  /\ DOMAIN Kids(n) = 1 .. Len(Kids(n)) /\ Len(Kids(n)) \in Nat
         /\ \A p \in DOMAIN Kids(n) :
              /\ Kids(n)[p] \in Nodes /\ Parent(Kids(n)[p]) = n /\ Under(Kids(n)[p], n)
              /\ Kids(n)[p] # 1
         /\ \A m \in Nodes : Parent(m) = n => \E p \in DOMAIN Kids(n) : m = Kids(n)[p]
<1>1. DOMAIN source = Nodes
  BY NodeFacts DEF WellFormed, Nodes
<1>2. Kids(n) \in Seq(Nat)
  BY NodeFacts
<1>3. Range(Kids(n)) = {m \in Nodes : Parent(m) = n}
  BY <1>1 DEF WellFormed, InOrder, Kids, Parent, Nodes
<1>4. \A p \in DOMAIN Kids(n) : Kids(n)[p] \in Nodes /\ Parent(Kids(n)[p]) = n
  BY <1>3 DEF Range
<1>5. ASSUME NEW p \in DOMAIN Kids(n)
      PROVE  Under(Kids(n)[p], n) /\ Kids(n)[p] # 1
  <2> DEFINE m == Kids(n)[p]
  <2>1. m \in Nodes /\ Parent(m) = n
    BY <1>4
  <2>2. n >= 1 /\ n \in Nat
    BY NodeFacts
  <2> HIDE DEF m
  <2>3. m # 1
    BY <2>1, <2>2 DEF WellFormed, Parent
  <2>4. m > 1 => Parent(m) < m /\ m <= End(Parent(m))
    BY <2>1, NodeFacts
  <2>5. m > 1
    BY <2>1, <2>3 DEF Nodes
  <2>6. n < m /\ m <= End(n)
    BY <2>4, <2>5, <2>1
  <2>7. Under(m, n) /\ m # 1
    BY <2>6, <2>3 DEF Under
  <2>8. QED BY <2>7 DEF m
<1>6. \A m \in Nodes : Parent(m) = n => \E p \in DOMAIN Kids(n) : m = Kids(n)[p]
  BY <1>3 DEF Range
<1>7. QED BY <1>2, <1>4, <1>5, <1>6

(* Subtrees lie in each other or apart.                                    *)
LEMMA UnderUnder ==
  ASSUME WellFormed(source), NEW n \in Nodes, NEW m \in Nodes, NEW k \in Nodes,
         Under(m, n), Under(k, m)
  PROVE  Under(k, n)
<1>1. /\ End(m) <= End(n) /\ End(m) \in Nat /\ End(n) \in Nat
      /\ n \in Nat /\ m \in Nat /\ k \in Nat
  BY NodeFacts
<1>2. QED BY <1>1 DEF Under

(* A node that is not the first below another has a sibling before it.     *)
LEMMA NextSubtree ==
  ASSUME WellFormed(source), NEW n \in Nodes, NEW k \in Nodes,
         Parent(k) = n \/ k = n, IF k = n THEN TRUE ELSE n < k
  PROVE  LET q == IF k = n THEN n + 1 ELSE End(k) + 1
         IN  q <= End(n) => q \in Nodes /\ Parent(q) = n
<1> DEFINE q == IF k = n THEN n + 1 ELSE End(k) + 1
<1> SUFFICES ASSUME q <= End(n) PROVE q \in Nodes /\ Parent(q) = n
  OBVIOUS
<1>1. /\ n \in Nat /\ k \in Nat /\ End(k) \in Nat /\ End(n) \in Nat /\ End(n) <= Len(source)
      /\ k <= End(k) /\ Len(source) \in Nat /\ n >= 1
  BY NodeFacts
<1>2. q \in Nodes /\ n < q /\ q > 1
  BY <1>1 DEF Nodes
<1> DEFINE a == Parent(q)
<1>3. a \in Nodes /\ a < q /\ q <= End(a)
  <2> HIDE DEF q
  <2> QED BY <1>2, NodeFacts
<1>4. n <= a
  <2>1. Under(q, n)
    BY <1>2 DEF Under
  <2> HIDE DEF q
  <2> QED BY <2>1, <1>2, NodeFacts
<1>5. a \in Nat /\ End(a) \in Nat
  BY <1>3, NodeFacts
<1>6. CASE k = n
  BY <1>6, <1>3, <1>4, <1>5, <1>2, <1>1
<1>7. CASE k # n
  <2>1. q = End(k) + 1 /\ Parent(k) = n
    BY <1>7
  <2>2. a > n => a < k
    <3>1. SUFFICES ASSUME a > n, a >= k PROVE FALSE
      BY <1>5, <1>1
    <3>2. a <= End(k)
      BY <1>3, <2>1, <1>5, <1>1
    <3>3. End(a) <= End(k)
      <4>1. CASE a = k
        BY <4>1, <1>1
      <4>2. CASE a # k
        <5>1. Under(a, k)
          BY <4>2, <3>1, <3>2, <1>5, <1>1 DEF Under
        <5> HIDE DEF a
        <5> QED BY <5>1, <1>3, NodeFacts
      <4> QED BY <4>1, <4>2
    <3> QED BY <3>3, <2>1, <1>3, <1>5, <1>1
  <2>3. ~ (a > n /\ a < k)
    <3>1. SUFFICES ASSUME a > n, a < k PROVE FALSE
      OBVIOUS
    <3>2. Under(k, a)
      BY <3>1, <1>3, <2>1, <1>1, <1>5 DEF Under
    <3>3. a <= Parent(k)
      <4> HIDE DEF a
      <4> QED BY <3>2, <1>3, NodeFacts
    <3> QED BY <3>3, <3>1, <2>1, <1>1, <1>5
  <2> QED BY <2>2, <2>3, <1>2, <1>3, <1>4, <1>5, <1>1
<1>8. QED BY <1>6, <1>7

(* The subtrees of the children of a node fill it, in their order.         *)
LEMMA Tiles ==
  ASSUME WellFormed(source), NEW n \in Nodes
  PROVE  /\ Kids(n) = << >> => End(n) = n
         /\ Kids(n) # << >> => 1 \in DOMAIN Kids(n) /\ Kids(n)[1] = n + 1
         /\ \A p \in DOMAIN Kids(n) :
              /\ p + 1 \in DOMAIN Kids(n) => Kids(n)[p + 1] = End(Kids(n)[p]) + 1
              /\ p + 1 \notin DOMAIN Kids(n) => End(Kids(n)[p]) = End(n)
<1>1. /\ n \in Nat /\ End(n) \in Nat /\ n <= End(n) /\ Kids(n) \in Seq(Nat)
      /\ \A p, q \in DOMAIN Kids(n) : p < q => Kids(n)[p] < Kids(n)[q]
  BY NodeFacts
<1>2. /\ DOMAIN Kids(n) = 1 .. Len(Kids(n)) /\ Len(Kids(n)) \in Nat
      /\ \A p \in DOMAIN Kids(n) : Kids(n)[p] \in Nodes /\ Parent(Kids(n)[p]) = n
                                   /\ Under(Kids(n)[p], n)
      /\ \A m \in Nodes : Parent(m) = n => \E p \in DOMAIN Kids(n) : m = Kids(n)[p]
  BY KidFacts
<1>3. n + 1 <= End(n) => \E p \in DOMAIN Kids(n) : n + 1 = Kids(n)[p]
  <2>1. n + 1 <= End(n) => n + 1 \in Nodes /\ Parent(n + 1) = n
    BY NextSubtree
  <2> QED BY <2>1, <1>2
<1>4. Kids(n) = << >> => End(n) = n
  BY <1>1, <1>3
<1>5. ASSUME Kids(n) # << >>
      PROVE  1 \in DOMAIN Kids(n) /\ Kids(n)[1] = n + 1
  <2>1. 1 \in DOMAIN Kids(n)
    BY <1>5, <1>1, <1>2
  <2>2. n < Kids(n)[1] /\ Kids(n)[1] <= End(n) /\ Kids(n)[1] \in Nat
    BY <2>1, <1>2, <1>1 DEF Under
  <2>3. PICK p \in DOMAIN Kids(n) : n + 1 = Kids(n)[p]
    BY <2>2, <1>1, <1>3
  <2>4. p = 1 \/ Kids(n)[1] < Kids(n)[p]
    BY <2>1, <1>1, <1>2
  <2> QED BY <2>1, <2>2, <2>3, <2>4, <1>1
<1>6. ASSUME NEW p \in DOMAIN Kids(n)
      PROVE  /\ p + 1 \in DOMAIN Kids(n) => Kids(n)[p + 1] = End(Kids(n)[p]) + 1
             /\ p + 1 \notin DOMAIN Kids(n) => End(Kids(n)[p]) = End(n)
  <2> DEFINE k == Kids(n)[p]
  <2>1. k \in Nodes /\ Parent(k) = n /\ Under(k, n) /\ n < k
    BY <1>2 DEF Under
  <2>0. p \in Nat /\ k \in Nat
    BY <1>2, <2>1 DEF Nodes
  <2> HIDE DEF k
  <2>2. End(k) \in Nat /\ k <= End(k) /\ End(k) <= End(n)
    BY <2>1, NodeFacts
  <2>3. End(k) + 1 <= End(n) => End(k) + 1 \in Nodes /\ Parent(End(k) + 1) = n
    BY <2>1, NextSubtree, <1>1
  <2>4. End(k) + 1 <= End(n) => \E q \in DOMAIN Kids(n) : End(k) + 1 = Kids(n)[q]
    BY <2>3, <1>2
  <2>5. \A q \in DOMAIN Kids(n) : p < q => Kids(n)[q] > End(k)
    <3>1. SUFFICES ASSUME NEW q \in DOMAIN Kids(n), p < q, Kids(n)[q] <= End(k) PROVE FALSE
      BY <1>1, <1>2, <2>2 DEF Nodes
    <3>2. Kids(n)[q] \in Nodes /\ Parent(Kids(n)[q]) = n /\ k < Kids(n)[q]
      BY <1>1, <1>2, <3>1 DEF k
    <3>3. Under(Kids(n)[q], k)
      BY <3>1, <3>2 DEF Under
    <3>4. k <= Parent(Kids(n)[q])
      BY <3>2, <3>3, <2>1, NodeFacts
    <3> QED BY <3>2, <3>4, <2>0, <2>1, <1>1
  <2>6. \A q \in DOMAIN Kids(n) : End(k) + 1 = Kids(n)[q] => p < q
    <3>1. SUFFICES ASSUME NEW q \in DOMAIN Kids(n), End(k) + 1 = Kids(n)[q], q <= p PROVE FALSE
      BY <1>2, <2>0
    <3>2. Kids(n)[q] <= k
      <4>1. q = p \/ q < p
        BY <3>1, <1>2, <2>0
      <4>2. q < p => Kids(n)[q] < Kids(n)[p]
        BY <1>1
      <4>3. Kids(n)[q] \in Nat
        BY <1>2 DEF Nodes
      <4> QED BY <4>1, <4>2, <4>3, <2>0 DEF k
    <3> QED BY <3>1, <3>2, <2>2, <2>0
  <2>7. p + 1 \notin DOMAIN Kids(n) => End(k) = End(n)
    <3>1. p + 1 \notin DOMAIN Kids(n) => \A q \in DOMAIN Kids(n) : ~ (p < q)
      BY <1>2
    <3> QED BY <3>1, <2>4, <2>6, <2>2, <1>1
  <2>8. ASSUME p + 1 \in DOMAIN Kids(n) PROVE Kids(n)[p + 1] = End(k) + 1
    <3>1. Kids(n)[p + 1] > End(k) /\ Kids(n)[p + 1] \in Nat /\ Kids(n)[p + 1] <= End(n)
      BY <2>8, <2>5, <2>0, <1>2, <1>1 DEF Under
    <3>2. PICK q \in DOMAIN Kids(n) : End(k) + 1 = Kids(n)[q]
      BY <3>1, <2>4, <2>2, <1>1
    <3>3. p < q
      BY <3>2, <2>6
    <3>4. q = p + 1 \/ Kids(n)[p + 1] < Kids(n)[q]
      BY <3>3, <2>8, <1>1, <1>2
    <3> QED BY <3>1, <3>2, <3>4, <2>2
  <2> QED BY <2>7, <2>8 DEF k
<1>7. QED BY <1>4, <1>5, <1>6

-----------------------------------------------------------------------------
(* The walk: the calls that run are a path of nodes that no handler has    *)
(* been called for; everything handled lies behind the cursor of each      *)
(* call, everything else that has a handler in front of one.               *)
FrameSet == [node : Nat, c : Nat, walked : BOOLEAN]
IsHandled(m) == \E j \in DOMAIN handled : handled[j] = m

Typed ==
  /\ WellFormed(source)
  /\ stack \in Seq(FrameSet)
  /\ DOMAIN kids = Nodes /\ DOMAIN text = Nodes
  /\ handled \in Seq(Nat)
  /\ \A j \in DOMAIN handled : handled[j] \in Nodes /\ Type(handled[j]) \in Rewritten
Path ==
  /\ stack # << >> => stack[1].node = 1
  /\ \A i \in DOMAIN stack :
       /\ stack[i].node \in Nodes /\ ~IsHandled(stack[i].node)
       /\ stack[i].c \in 1 .. Len(Kids(stack[i].node)) + 1
       /\ i + 1 \in DOMAIN stack =>
            /\ stack[i].walked /\ stack[i].c \in DOMAIN Kids(stack[i].node)
            /\ stack[i + 1].node = Kids(stack[i].node)[stack[i].c]
       /\ \A j \in DOMAIN stack : i < j => Under(stack[j].node, stack[i].node)
Lists  == \A n \in Nodes : ~IsHandled(n) => kids[n] = Kids(n)
Behind ==
  \A m \in Nodes : IsHandled(m) =>
    \A i \in DOMAIN stack :
      /\ End(m) < stack[i].node \/ Under(m, stack[i].node)
      /\ stack[i].c \in DOMAIN Kids(stack[i].node) =>
           LET k == Kids(stack[i].node)[stack[i].c]
           IN  End(m) < k \/ (stack[i].walked /\ Under(m, k))
Awaits(frame, m) ==
  LET k == Kids(frame.node)[frame.c]
  IN  /\ frame.c \in DOMAIN Kids(frame.node)
      /\ \/ m = k
         \/ End(k) < m /\ m <= End(frame.node)
         \/ ~frame.walked /\ Under(m, k)
InFront ==
  \A m \in Nodes :
    Type(m) \in Rewritten /\ ~IsHandled(m) => \E i \in DOMAIN stack : Awaits(stack[i], m)
InsideOut ==
  \A i, j \in DOMAIN handled :
    i < j => Under(handled[i], handled[j])
             \/ (handled[i] < handled[j] /\ ~Under(handled[j], handled[i]))
WalkInv == Typed /\ Path /\ Lists /\ Behind /\ InFront /\ InsideOut

(* Where the top call is.                                                  *)
LEMMA TopFacts ==
  ASSUME WalkInv, stack # << >>
  PROVE  /\ Len(stack) \in DOMAIN stack /\ Len(stack) \in Nat \ {0} /\ Top \in FrameSet
         /\ DOMAIN stack = 1 .. Len(stack)
         /\ Top.node \in Nodes /\ kids[Top.node] = Kids(Top.node)
         /\ Top.c \in 1 .. Len(Kids(Top.node)) + 1
         /\ AtChild <=> Top.c \in DOMAIN Kids(Top.node)
         /\ AtChild => /\ child = Kids(Top.node)[Top.c] /\ child \in Nodes
                       /\ Under(child, Top.node) /\ Parent(child) = Top.node
                       /\ ~IsHandled(child) /\ kids[child] = Kids(child)
                       /\ \A i \in DOMAIN stack : Under(child, stack[i].node)
                                                  /\ child # stack[i].node
<1>1. Len(stack) \in DOMAIN stack /\ Len(stack) \in Nat \ {0} /\ Top \in FrameSet
      /\ DOMAIN stack = 1 .. Len(stack)
  BY DEF WalkInv, Typed, Top
<1>2. /\ Top.node \in Nodes /\ ~IsHandled(Top.node)
      /\ Top.c \in 1 .. Len(Kids(Top.node)) + 1
  BY <1>1 DEF WalkInv, Path, Top
<1>3. kids[Top.node] = Kids(Top.node)
  BY <1>2 DEF WalkInv, Lists
<1>4. /\ DOMAIN Kids(Top.node) = 1 .. Len(Kids(Top.node)) /\ Len(Kids(Top.node)) \in Nat
      /\ \A p \in DOMAIN Kids(Top.node) :
           /\ Kids(Top.node)[p] \in Nodes /\ Under(Kids(Top.node)[p], Top.node)
           /\ Parent(Kids(Top.node)[p]) = Top.node
  BY <1>2, KidFacts DEF WalkInv, Typed
<1>5. AtChild <=> Top.c \in DOMAIN Kids(Top.node)
  BY <1>2, <1>3, <1>4 DEF AtChild
<1>6. ASSUME AtChild
      PROVE  /\ child = Kids(Top.node)[Top.c] /\ child \in Nodes
             /\ Under(child, Top.node) /\ Parent(child) = Top.node
  BY <1>3, <1>4, <1>5, <1>6 DEF child
<1>7. ASSUME AtChild PROVE ~IsHandled(child)
  <2>1. child \in Nodes /\ child <= End(child) /\ child \in Nat /\ End(child) \in Nat
    BY <1>6, <1>7, NodeFacts DEF WalkInv, Typed
  <2>2. IsHandled(child) => End(child) < child \/ Under(child, child)
    BY <1>1, <1>5, <1>6, <1>7, <2>1 DEF WalkInv, Behind, Top
  <2> QED BY <2>1, <2>2 DEF Under
<1>8. ASSUME AtChild, NEW i \in DOMAIN stack
      PROVE  Under(child, stack[i].node) /\ child # stack[i].node
  <2>1. stack[i].node \in Nodes /\ child \in Nodes /\ Top.node \in Nodes /\ Under(child, Top.node)
    BY <1>2, <1>6, <1>8 DEF WalkInv, Path
  <2>2. i = Len(stack) \/ i < Len(stack)
    BY <1>1
  <2>3. CASE i = Len(stack)
    BY <2>3, <2>1 DEF Top, Under, Nodes
  <2>4. CASE i < Len(stack)
    <3>1. Under(Top.node, stack[i].node)
      BY <2>4, <1>1 DEF WalkInv, Path, Top
    <3>2. Under(child, stack[i].node)
      BY <3>1, <2>1, UnderUnder DEF WalkInv, Typed
    <3> QED BY <3>2, <2>1 DEF Under, Nodes
  <2> QED BY <2>2, <2>3, <2>4
<1>9. AtChild => kids[child] = Kids(child)
  BY <1>6, <1>7 DEF WalkInv, Lists
<1>10. QED BY <1>1, <1>2, <1>3, <1>5, <1>6, <1>7, <1>8, <1>9

(* What the three kinds of steps do to the stack.                          *)
LEMMA Pushed ==
  ASSUME stack \in Seq(FrameSet), stack # << >>, NEW n \in Nat,
         stack' = Append([stack EXCEPT ![Len(stack)].walked = TRUE], Frame(n))
  PROVE  /\ stack' \in Seq(FrameSet) /\ Len(stack') = Len(stack) + 1
         /\ DOMAIN stack' = 1 .. Len(stack) + 1
         /\ \A i \in 1 .. Len(stack) : /\ stack'[i].node = stack[i].node
                                       /\ stack'[i].c = stack[i].c
                                       /\ i = Len(stack) => stack'[i].walked = TRUE
                                       /\ i # Len(stack) => stack'[i] = stack[i]
         /\ stack'[Len(stack) + 1].node = n /\ stack'[Len(stack) + 1].c = 1
         /\ stack'[Len(stack) + 1].walked = FALSE
<1> DEFINE L == Len(stack)
           below == [stack EXCEPT ![L].walked = TRUE]
<1>1. L \in Nat \ {0} /\ DOMAIN stack = 1 .. L /\ \A i \in 1 .. L : stack[i] \in FrameSet
  OBVIOUS
<1>2. Frame(n) \in FrameSet /\ Frame(n).node = n /\ Frame(n).c = 1 /\ Frame(n).walked = FALSE
  BY DEF Frame, FrameSet
<1>3. \A f \in FrameSet : /\ [f EXCEPT !.walked = TRUE] \in FrameSet
                          /\ [f EXCEPT !.walked = TRUE].node = f.node
                          /\ [f EXCEPT !.walked = TRUE].c = f.c
                          /\ [f EXCEPT !.walked = TRUE].walked = TRUE
  BY DEF FrameSet
<1>4. /\ DOMAIN below = 1 .. L /\ below[L] = [stack[L] EXCEPT !.walked = TRUE]
      /\ \A i \in 1 .. L : i # L => below[i] = stack[i]
  <2>1. L \in DOMAIN stack
    BY <1>1
  <2>2. DOMAIN below = DOMAIN stack
    OBVIOUS
  <2>3. below[L] = [stack[L] EXCEPT !.walked = TRUE]
    BY <2>1
  <2>4. \A i \in DOMAIN stack : i # L => below[i] = stack[i]
    OBVIOUS
  <2> QED BY <2>2, <2>3, <2>4, <1>1
<1> HIDE DEF below
<1>5. \A i \in 1 .. L : below[i] \in FrameSet
  BY <1>1, <1>3, <1>4
<1>6. below \in Seq(FrameSet) /\ Len(below) = L
  <2>1. below = [i \in 1 .. L |-> below[i]]
    BY <1>1, <1>4 DEF below
  <2> QED BY <2>1, <1>5, <1>1
<1>7. stack' = Append(below, Frame(n))
  BY DEF below
<1>8. /\ stack' \in Seq(FrameSet) /\ Len(stack') = L + 1 /\ DOMAIN stack' = 1 .. L + 1
      /\ \A i \in 1 .. L : stack'[i] = below[i]
      /\ stack'[L + 1] = Frame(n)
  <2>1. /\ Append(below, Frame(n)) \in Seq(FrameSet)
        /\ Len(Append(below, Frame(n))) = L + 1
        /\ \A i \in 1 .. L : Append(below, Frame(n))[i] = below[i]
        /\ Append(below, Frame(n))[L + 1] = Frame(n)
    <3> HIDE DEF L
    <3> QED BY <1>2, <1>6, AppendProperties
  <2>2. Len(stack') = L + 1 /\ stack' \in Seq(FrameSet)
    BY <2>1, <1>7
  <2> HIDE DEF L
  <2>3. DOMAIN stack' = 1 .. L + 1
    BY <2>2
  <2> QED BY <2>1, <2>2, <2>3, <1>7
<1>9. ASSUME NEW i \in 1 .. L
      PROVE  /\ stack'[i].node = stack[i].node /\ stack'[i].c = stack[i].c
             /\ i = L => stack'[i].walked = TRUE
             /\ i # L => stack'[i] = stack[i]
  <2>2. stack[i] \in FrameSet /\ stack'[i] = below[i]
    BY <1>1, <1>8
  <2>3. ASSUME i = L
        PROVE  stack'[i].node = stack[i].node /\ stack'[i].c = stack[i].c
               /\ stack'[i].walked = TRUE
    <3>1. stack'[i] = [stack[i] EXCEPT !.walked = TRUE]
      BY <2>3, <2>2, <1>4
    <3> QED BY <3>1, <2>2, <1>3
  <2>4. i # L => stack'[i] = stack[i]
    BY <2>2, <1>4
  <2> QED BY <2>3, <2>4
<1>10. QED BY <1>2, <1>8, <1>9

(* A return takes the top call off.                                        *)
LEMMA Popped ==
  ASSUME stack \in Seq(FrameSet), stack # << >>, stack' = Front(stack)
  PROVE  /\ stack' \in Seq(FrameSet) /\ Len(stack') = Len(stack) - 1
         /\ DOMAIN stack' = 1 .. Len(stack) - 1
         /\ \A i \in 1 .. Len(stack) - 1 : stack'[i] = stack[i]
<1>1. Len(stack) \in Nat \ {0} /\ stack' = SubSeq(stack, 1, Len(stack) - 1)
  BY DEF Front
<1>2. 1 .. Len(stack) - 1 \subseteq 1 .. Len(stack)
  BY <1>1
<1>3. \A i \in 1 .. Len(stack) - 1 : stack[i] \in FrameSet
  BY <1>1
<1>4. /\ stack' \in Seq(FrameSet) /\ Len(stack') = Len(stack) - 1
      /\ \A i \in 1 .. Len(stack) - 1 : stack'[i] = stack[i]
  <2>1. 1 \in Int /\ Len(stack) - 1 \in Int
    BY <1>1
  <2>2. /\ SubSeq(stack, 1, Len(stack) - 1) \in Seq(FrameSet)
        /\ Len(SubSeq(stack, 1, Len(stack) - 1))
           = IF 1 <= Len(stack) - 1 THEN Len(stack) - 1 - 1 + 1 ELSE 0
        /\ \A i \in 1 .. Len(stack) - 1 - 1 + 1 :
              SubSeq(stack, 1, Len(stack) - 1)[i] = stack[1 + i - 1]
    BY <2>1, <1>3, SubSeqProperties
  <2>3. stack' \in Seq(FrameSet) /\ Len(stack') = Len(stack) - 1
    <3>1. stack' \in Seq(FrameSet)
      BY <2>2, <1>1
    <3>2. PICK l \in Nat \ {0} : l = Len(stack)
      BY <1>1
    <3>3. Len(stack') = IF 1 <= l - 1 THEN l - 1 - 1 + 1 ELSE 0
      BY <2>2, <1>1, <3>2
    <3>4. Len(stack') = l - 1
      BY ONLY <3>2, <3>3, l \in Nat \ {0}
    <3> QED BY <3>1, <3>2, <3>4
  <2>4. ASSUME NEW i \in 1 .. Len(stack) - 1
        PROVE  stack'[i] = stack[i]
    <3>1. 1 + i - 1 = i /\ i \in 1 .. Len(stack) - 1 - 1 + 1
      BY <1>1
    <3>2. SubSeq(stack, 1, Len(stack) - 1)[i] = stack[1 + i - 1]
      BY <3>1, <2>2
    <3> QED BY <3>1, <3>2, <1>1
  <2> QED BY <2>3, <2>4
<1>5. DOMAIN stack' = 1 .. Len(stack')
  BY <1>4
<1>6. QED BY <1>4, <1>5

(* NextChild changes the top call alone.                                   *)
LEMMA Moved ==
  ASSUME stack \in Seq(FrameSet), stack # << >>, NextChild
  PROVE  /\ stack' \in Seq(FrameSet) /\ Len(stack') = Len(stack)
         /\ DOMAIN stack' = 1 .. Len(stack)
         /\ \A i \in 1 .. Len(stack) :
              /\ stack'[i].node = stack[i].node
              /\ i # Len(stack) => stack'[i] = stack[i]
         /\ stack'[Len(stack)].c = Top.c + 1 /\ stack'[Len(stack)].walked = FALSE
<1> DEFINE L == Len(stack)
           f == stack[L]
           h == [f EXCEPT !.c = f.c + 1]
           g == [h EXCEPT !.walked = FALSE]
<1>1. L \in Nat \ {0} /\ DOMAIN stack = 1 .. L /\ \A i \in 1 .. L : stack[i] \in FrameSet
  OBVIOUS
<1>2. stack' = [stack EXCEPT ![L] = g]
  BY <1>1 DEF NextChild
<1>3. f \in FrameSet
  BY <1>1
<1>4. g \in FrameSet /\ g.node = f.node /\ g.c = f.c + 1 /\ g.walked = FALSE
  <2>1. h \in FrameSet /\ h.node = f.node /\ h.c = f.c + 1
    BY <1>3 DEF FrameSet
  <2> HIDE DEF h
  <2>2. QED BY <2>1 DEF FrameSet
<1> HIDE DEF g
<1>5. /\ DOMAIN stack' = 1 .. L /\ stack'[L] = g
      /\ \A i \in 1 .. L : i # L => stack'[i] = stack[i]
  <2>1. L \in DOMAIN stack
    BY <1>1
  <2>2. DOMAIN stack' = DOMAIN stack
    BY <1>2
  <2>3. stack'[L] = g
    BY <1>2, <2>1
  <2>4. \A i \in DOMAIN stack : i # L => stack'[i] = stack[i]
    BY <1>2
  <2> QED BY <2>2, <2>3, <2>4, <1>1
<1>6. stack' \in Seq(FrameSet) /\ Len(stack') = L
  BY <1>1, <1>2, <1>4
<1>7. QED BY <1>4, <1>5, <1>6 DEF Top

-----------------------------------------------------------------------------
(* While the source stays the same, so does all that is said of it.        *)
LEMMA SameTree ==
  ASSUME source' = source
  PROVE  /\ Nodes' = Nodes
         /\ \A n : Type(n)' = Type(n) /\ Kids(n)' = Kids(n) /\ End(n)' = End(n)
                   /\ Parent(n)' = Parent(n)
         /\ \A m, n : Under(m, n)' = Under(m, n)
         /\ \A f, m : Awaits(f, m)' = Awaits(f, m)
         /\ WellFormed(source') = WellFormed(source)
BY DEF Awaits, Nodes, Type, Kids, End, Parent, Under

(* The same of what is handled,                                            *)
LEMMA SameHandled ==
  ASSUME handled' = handled
  PROVE  \A m : IsHandled(m)' = IsHandled(m)
BY DEF IsHandled

(* and what one more call of a handler changes.                            *)
LEMMA MoreHandled ==
  ASSUME handled \in Seq(Nat), NEW n \in Nat, handled' = Append(handled, n)
  PROVE  /\ handled' \in Seq(Nat) /\ Len(handled') = Len(handled) + 1 /\ Len(handled) \in Nat
         /\ DOMAIN handled = 1 .. Len(handled) /\ DOMAIN handled' = 1 .. Len(handled) + 1
         /\ \A i \in 1 .. Len(handled) : handled'[i] = handled[i]
         /\ handled'[Len(handled) + 1] = n
         /\ \A m : IsHandled(m)' <=> (IsHandled(m) \/ m = n)
<1>1. /\ handled' \in Seq(Nat) /\ Len(handled') = Len(handled) + 1 /\ Len(handled) \in Nat
      /\ \A i \in 1 .. Len(handled) : handled'[i] = handled[i]
      /\ handled'[Len(handled) + 1] = n
  BY AppendProperties
<1>2. DOMAIN handled = 1 .. Len(handled) /\ DOMAIN handled' = 1 .. Len(handled) + 1
  BY <1>1
<1>3. \A m : IsHandled(m)' <=> (IsHandled(m) \/ m = n)
  <2>1. \A m : IsHandled(m)' <=> \E j \in DOMAIN handled' : handled'[j] = m
    BY DEF IsHandled
  <2>2. \A m : IsHandled(m) <=> \E j \in DOMAIN handled : handled[j] = m
    BY DEF IsHandled
  <2> QED BY <2>1, <2>2, <1>1, <1>2
<1>4. QED BY <1>1, <1>2, <1>3

(* A step that moves the top call to its next child, whose subtree is      *)
(* behind it, and calls its handler if it has one.                         *)
Passes ==
  /\ AtChild /\ WalkedBelow /\ NextChild /\ source' = source
  /\ DOMAIN kids' = DOMAIN kids /\ DOMAIN text' = DOMAIN text
  /\ \A n \in Nodes : n # child => kids'[n] = kids[n]
  /\ \/ /\ Type(child) \notin Rewritten /\ handled' = handled /\ kids' = kids
     \/ /\ Type(child) \in Rewritten /\ handled' = Append(handled, child)

(* A descent: the new call begins at the first child, and what was below   *)
(* the child in front of the old call is now in front of the new one.      *)
LEMMA DescendWalks ==
  ASSUME WalkInv, Descend
  PROVE  WalkInv'
<1> DEFINE L == Len(stack)
<1>1. /\ stack # << >> /\ AtChild /\ Top.walked = FALSE /\ kids[child] # << >>
      /\ source' = source /\ handled' = handled /\ kids' = kids /\ text' = text
      /\ stack' = Append([stack EXCEPT ![Len(stack)].walked = TRUE], Frame(child))
  BY TopFacts DEF Descend, AtChild, vars, FrameSet
<1>2. /\ L \in DOMAIN stack /\ L \in Nat \ {0} /\ DOMAIN stack = 1 .. L
      /\ Top.node \in Nodes /\ Top.c \in DOMAIN Kids(Top.node)
      /\ child = Kids(Top.node)[Top.c] /\ child \in Nodes /\ child \in Nat
      /\ Under(child, Top.node) /\ ~IsHandled(child) /\ kids[child] = Kids(child)
      /\ \A i \in DOMAIN stack : Under(child, stack[i].node) /\ child # stack[i].node
  BY <1>1, TopFacts DEF Nodes
<1>3. /\ stack' \in Seq(FrameSet) /\ Len(stack') = L + 1 /\ DOMAIN stack' = 1 .. L + 1
      /\ \A i \in 1 .. L : /\ stack'[i].node = stack[i].node
                           /\ stack'[i].c = stack[i].c
                           /\ i = L => stack'[i].walked = TRUE
                           /\ i # L => stack'[i] = stack[i]
      /\ stack'[L + 1].node = child /\ stack'[L + 1].c = 1
      /\ stack'[L + 1].walked = FALSE
  BY <1>1, <1>2, Pushed DEF WalkInv, Typed
<1>4. /\ Nodes' = Nodes
      /\ \A n : Type(n)' = Type(n) /\ Kids(n)' = Kids(n) /\ End(n)' = End(n)
      /\ \A m, n : Under(m, n)' = Under(m, n)
      /\ WellFormed(source') = WellFormed(source)
      /\ \A m : IsHandled(m)' = IsHandled(m)
  BY <1>1, SameTree, SameHandled
<1>5. /\ Kids(child) # << >> /\ 1 \in DOMAIN Kids(child) /\ Kids(child)[1] = child + 1
      /\ Len(Kids(child)) \in Nat /\ DOMAIN Kids(child) = 1 .. Len(Kids(child))
  BY <1>1, <1>2, Tiles, KidFacts DEF WalkInv, Typed
<1> HIDE DEF L
<1>6. Typed'
  BY <1>1, <1>3, <1>4 DEF WalkInv, Typed
<1>7. Path'
  <2>1. stack'[1].node = 1
    BY <1>1, <1>2, <1>3 DEF WalkInv, Path
  <2>2. ASSUME NEW i \in 1 .. L + 1
        PROVE  /\ stack'[i].node \in Nodes /\ ~IsHandled(stack'[i].node)
               /\ stack'[i].c \in 1 .. Len(Kids(stack'[i].node)) + 1
    <3>1. CASE i = L + 1
      BY <3>1, <1>2, <1>3, <1>5
    <3>2. CASE i \in 1 .. L
      BY <3>2, <1>2, <1>3 DEF WalkInv, Path
    <3> QED BY <3>1, <3>2, <1>2
  <2>3. ASSUME NEW i \in 1 .. L + 1, i + 1 \in 1 .. L + 1
        PROVE  /\ stack'[i].walked /\ stack'[i].c \in DOMAIN Kids(stack'[i].node)
               /\ stack'[i + 1].node = Kids(stack'[i].node)[stack'[i].c]
    <3>1. CASE i = L
      BY <3>1, <1>2, <1>3 DEF Top
    <3>2. CASE i \in 1 .. L - 1
      <4>1. i \in 1 .. L /\ i + 1 \in 1 .. L /\ i + 1 \in DOMAIN stack
        BY <3>2, <1>2
      <4>2. /\ stack[i].walked /\ stack[i].c \in DOMAIN Kids(stack[i].node)
            /\ stack[i + 1].node = Kids(stack[i].node)[stack[i].c]
        BY <4>1, <1>2 DEF WalkInv, Path
      <4> QED BY <4>1, <4>2, <1>3
    <3> QED BY <2>3, <3>1, <3>2, <1>2
  <2>4. ASSUME NEW i \in 1 .. L + 1, NEW j \in 1 .. L + 1, i < j
        PROVE  Under(stack'[j].node, stack'[i].node)
    <3>1. CASE j = L + 1
      <4>1. i \in 1 .. L
        BY <2>4, <3>1, <1>2
      <4> QED BY <4>1, <3>1, <1>2, <1>3
    <3>2. CASE j \in 1 .. L
      <4>1. i \in 1 .. L
        BY <2>4, <3>2, <1>2
      <4> QED BY <4>1, <3>2, <2>4, <1>2, <1>3 DEF WalkInv, Path
    <3> QED BY <3>1, <3>2, <1>2
  <2> QED BY <2>1, <2>2, <2>3, <2>4, <1>3, <1>4 DEF Path
<1>8. Lists'
  BY <1>1, <1>4 DEF WalkInv, Lists
<1>9. Behind'
  <2>1. ASSUME NEW m \in Nodes, IsHandled(m), NEW i \in 1 .. L + 1
        PROVE  /\ End(m) < stack'[i].node \/ Under(m, stack'[i].node)
               /\ stack'[i].c \in DOMAIN Kids(stack'[i].node) =>
                    LET k == Kids(stack'[i].node)[stack'[i].c]
                    IN  End(m) < k \/ (stack'[i].walked /\ Under(m, k))
    <3>1. End(m) < child \/ (Top.walked /\ Under(m, child))
      <4>1. L \in DOMAIN stack /\ stack[L] = Top
        BY <1>2 DEF Top, L
      <4> QED BY <4>1, <2>1, <1>2 DEF WalkInv, Behind
    <3>2. End(m) < child
      BY <3>1, <1>1
    <3>3. CASE i = L + 1
      <4>1. End(m) \in Nat /\ child \in Nat
        BY <1>2, NodeFacts DEF WalkInv, Typed
      <4> QED BY <4>1, <3>2, <3>3, <1>3, <1>5
    <3>4. CASE i \in 1 .. L
      <4>1. stack[i].walked => stack'[i].walked
        BY <3>4, <1>3
      <4>2. /\ End(m) < stack[i].node \/ Under(m, stack[i].node)
            /\ stack[i].c \in DOMAIN Kids(stack[i].node) =>
                 LET k == Kids(stack[i].node)[stack[i].c]
                 IN  End(m) < k \/ (stack[i].walked /\ Under(m, k))
        BY <3>4, <2>1, <1>2 DEF WalkInv, Behind
      <4> QED BY <4>1, <4>2, <3>4, <1>3
    <3> QED BY <3>3, <3>4, <1>2
  <2> QED BY <2>1, <1>3, <1>4 DEF Behind
<1>10. InFront'
  <2>1. ASSUME NEW m \in Nodes, Type(m) \in Rewritten, ~IsHandled(m)
        PROVE  \E i \in 1 .. L + 1 : Awaits(stack'[i], m)
    <3>1. PICK i \in 1 .. L : Awaits(stack[i], m)
      BY <2>1, <1>2 DEF WalkInv, InFront
    <3>2. CASE i = L /\ Under(m, child)
      <4>1. m \in Nat /\ child + 1 \in Nat /\ End(child) \in Nat /\ End(child + 1) \in Nat
        <5>1. child + 1 \in Nodes
          BY <1>2, <1>5, KidFacts DEF WalkInv, Typed
        <5> QED BY <2>1, <5>1, <1>2, NodeFacts DEF WalkInv, Typed
      <4>2. m = child + 1 \/ (End(child + 1) < m /\ m <= End(child)) \/ Under(m, child + 1)
        BY <3>2, <4>1, <1>2 DEF Under
      <4>3. Awaits(stack'[L + 1], m)
        BY <4>2, <1>3, <1>5 DEF Awaits
      <4> QED BY <4>3, <1>2
    <3>3. CASE ~ (i = L /\ Under(m, child))
      <4>3. i = L => stack[i] = Top
        BY DEF Top, L
      <4>4. Awaits(stack'[i], m)
        <5>1. CASE i = L
          BY <5>1, <3>1, <3>3, <4>3, <1>2, <1>3 DEF Awaits
        <5>2. CASE i # L
          BY <5>2, <3>1, <1>3
        <5> QED BY <5>1, <5>2
      <4> QED BY <4>4, <1>2
    <3> QED BY <3>2, <3>3
  <2>2. \A f, m : Awaits(f, m)' = Awaits(f, m)
    BY <1>1, SameTree
  <2> QED BY <2>1, <2>2, <1>3, <1>4 DEF InFront
<1>11. InsideOut'
  BY <1>1, <1>4 DEF WalkInv, InsideOut
<1>12. QED BY <1>6, <1>7, <1>8, <1>9, <1>10, <1>11 DEF WalkInv

(* A return: the call that ends has nothing in front of it.                *)
LEMMA ReturnWalks ==
  ASSUME WalkInv, Return
  PROVE  WalkInv'
<1> DEFINE L == Len(stack)
<1>1. /\ stack # << >> /\ ~AtChild /\ stack' = Front(stack)
      /\ source' = source /\ handled' = handled /\ kids' = kids /\ text' = text
  BY DEF Return, Done
<1>2. /\ L \in DOMAIN stack /\ L \in Nat \ {0} /\ DOMAIN stack = 1 .. L
      /\ Top.c \notin DOMAIN Kids(Top.node) /\ stack[L] = Top
  BY <1>1, TopFacts DEF Top
<1>3. /\ stack' \in Seq(FrameSet) /\ Len(stack') = L - 1 /\ DOMAIN stack' = 1 .. L - 1
      /\ \A i \in 1 .. L - 1 : stack'[i] = stack[i]
  BY <1>1, Popped DEF WalkInv, Typed
<1>4. /\ Nodes' = Nodes
      /\ \A n : Type(n)' = Type(n) /\ Kids(n)' = Kids(n) /\ End(n)' = End(n)
      /\ \A m, n : Under(m, n)' = Under(m, n)
      /\ \A f, m : Awaits(f, m)' = Awaits(f, m)
      /\ WellFormed(source') = WellFormed(source)
      /\ \A m : IsHandled(m)' = IsHandled(m)
  BY <1>1, SameTree, SameHandled
<1> HIDE DEF L
<1>5. \A i \in 1 .. L - 1 : i \in DOMAIN stack
  BY <1>2
<1>6. Typed'
  BY <1>1, <1>3, <1>4 DEF WalkInv, Typed
<1>7. Path'
  <2>1. stack' # << >> => stack'[1].node = 1
    <3>1. stack' # << >> => 1 \in 1 .. L - 1
      BY <1>2, <1>3
    <3> QED BY <3>1, <1>1, <1>3 DEF WalkInv, Path
  <2>2. ASSUME NEW i \in 1 .. L - 1
        PROVE  /\ stack'[i].node \in Nodes /\ ~IsHandled(stack'[i].node)
               /\ stack'[i].c \in 1 .. Len(Kids(stack'[i].node)) + 1
    BY <1>3, <1>5 DEF WalkInv, Path
  <2>3. ASSUME NEW i \in 1 .. L - 1, i + 1 \in 1 .. L - 1
        PROVE  /\ stack'[i].walked /\ stack'[i].c \in DOMAIN Kids(stack'[i].node)
               /\ stack'[i + 1].node = Kids(stack'[i].node)[stack'[i].c]
    BY <2>3, <1>3, <1>5 DEF WalkInv, Path
  <2>4. ASSUME NEW i \in 1 .. L - 1, NEW j \in 1 .. L - 1, i < j
        PROVE  Under(stack'[j].node, stack'[i].node)
    BY <2>4, <1>3, <1>5 DEF WalkInv, Path
  <2> QED BY <2>1, <2>2, <2>3, <2>4, <1>3, <1>4 DEF Path
<1>8. Lists'
  BY <1>1, <1>4 DEF WalkInv, Lists
<1>9. Behind'
  <2>1. ASSUME NEW m \in Nodes, IsHandled(m), NEW i \in 1 .. L - 1
        PROVE  /\ End(m) < stack'[i].node \/ Under(m, stack'[i].node)
               /\ stack'[i].c \in DOMAIN Kids(stack'[i].node) =>
                    LET k == Kids(stack'[i].node)[stack'[i].c]
                    IN  End(m) < k \/ (stack'[i].walked /\ Under(m, k))
    BY <2>1, <1>3, <1>5 DEF WalkInv, Behind
  <2> QED BY <2>1, <1>3, <1>4 DEF Behind
<1>10. InFront'
  <2>1. ASSUME NEW m \in Nodes, Type(m) \in Rewritten, ~IsHandled(m)
        PROVE  \E i \in 1 .. L - 1 : Awaits(stack'[i], m)
    <3>1. PICK i \in 1 .. L : Awaits(stack[i], m)
      BY <2>1, <1>2 DEF WalkInv, InFront
    <3>2. ~Awaits(Top, m)
      BY <1>2 DEF Awaits
    <3>3. i \in 1 .. L - 1
      BY <3>1, <3>2, <1>2
    <3> QED BY <3>1, <3>3, <1>3
  <2> QED BY <2>1, <1>3, <1>4 DEF InFront
<1>11. InsideOut'
  BY <1>1, <1>4 DEF WalkInv, InsideOut
<1>12. QED BY <1>6, <1>7, <1>8, <1>9, <1>10, <1>11 DEF WalkInv

(* Passing a child: all of its subtree is behind the call, and the next    *)
(* subtree begins where it ends (Tiles), so that nothing lies between.     *)
LEMMA PassWalks ==
  ASSUME WalkInv, Passes
  PROVE  WalkInv'
<1> DEFINE L == Len(stack)
<1>1. /\ stack # << >> /\ AtChild /\ WalkedBelow /\ NextChild /\ source' = source
      /\ DOMAIN kids' = DOMAIN kids /\ DOMAIN text' = DOMAIN text
      /\ \A n \in Nodes : n # child => kids'[n] = kids[n]
  BY DEF Passes, AtChild
<1>2. /\ L \in DOMAIN stack /\ L \in Nat \ {0} /\ DOMAIN stack = 1 .. L
      /\ Top.node \in Nodes /\ Top.c \in DOMAIN Kids(Top.node) /\ stack[L] = Top
      /\ child = Kids(Top.node)[Top.c] /\ child \in Nodes /\ child \in Nat
      /\ Under(child, Top.node) /\ ~IsHandled(child) /\ kids[child] = Kids(child)
      /\ \A i \in DOMAIN stack : Under(child, stack[i].node) /\ child # stack[i].node
  BY <1>1, TopFacts DEF Nodes, Top
<1>3. /\ stack' \in Seq(FrameSet) /\ Len(stack') = L /\ DOMAIN stack' = 1 .. L
      /\ \A i \in 1 .. L : /\ stack'[i].node = stack[i].node
                           /\ i # L => stack'[i] = stack[i]
      /\ stack'[L].c = Top.c + 1 /\ stack'[L].walked = FALSE
  BY <1>1, Moved DEF WalkInv, Typed
<1>4. /\ Nodes' = Nodes
      /\ \A m : Type(m)' = Type(m) /\ Kids(m)' = Kids(m) /\ End(m)' = End(m)
      /\ \A m, q : Under(m, q)' = Under(m, q)
      /\ \A f, m : Awaits(f, m)' = Awaits(f, m)
      /\ WellFormed(source') = WellFormed(source)
  BY <1>1, SameTree
<1>4a. \/ Type(child) \notin Rewritten /\ handled' = handled /\ kids' = kids
       \/ Type(child) \in Rewritten /\ handled' = Append(handled, child)
  BY DEF Passes
<1>4b. /\ handled \in Seq(Nat) /\ WellFormed(source)
       /\ \A j \in DOMAIN handled : handled[j] \in Nodes /\ Type(handled[j]) \in Rewritten
  BY DEF WalkInv, Typed
<1>5. /\ handled' \in Seq(Nat)
      /\ \A m : IsHandled(m)' => IsHandled(m) \/ (m = child /\ Type(child) \in Rewritten)
      /\ \A m : IsHandled(m) => IsHandled(m)'
      /\ \A m : m = child /\ Type(child) \in Rewritten => IsHandled(m)'
      /\ \A j \in DOMAIN handled' : handled'[j] \in Nodes /\ Type(handled'[j]) \in Rewritten
  <2>1. CASE handled' = handled /\ Type(child) \notin Rewritten
    <3>1. \A m : IsHandled(m)' = IsHandled(m)
      BY <2>1, SameHandled
    <3> QED BY <2>1, <3>1, <1>4b
  <2>2. CASE handled' = Append(handled, child) /\ Type(child) \in Rewritten
    <3>1. /\ handled' \in Seq(Nat) /\ Len(handled) \in Nat
          /\ DOMAIN handled = 1 .. Len(handled) /\ DOMAIN handled' = 1 .. Len(handled) + 1
          /\ \A i \in 1 .. Len(handled) : handled'[i] = handled[i]
          /\ handled'[Len(handled) + 1] = child
          /\ \A m : IsHandled(m)' <=> (IsHandled(m) \/ m = child)
      BY <2>2, <1>2, <1>4b, MoreHandled
    <3>2. ASSUME NEW j \in DOMAIN handled'
          PROVE  handled'[j] \in Nodes /\ Type(handled'[j]) \in Rewritten
      <4>1. j = Len(handled) + 1 \/ j \in DOMAIN handled
        BY <3>1
      <4> QED BY <4>1, <3>1, <2>2, <1>2, <1>4b
    <3>3. \A m : m = child => IsHandled(m)'
      BY <3>1
    <3>4. \A m : /\ IsHandled(m)' => IsHandled(m) \/ (m = child /\ Type(child) \in Rewritten)
                 /\ IsHandled(m) => IsHandled(m)'
      BY <3>1, <2>2
    <3> QED BY ONLY <3>1, <3>2, <3>3, <3>4
  <2> QED BY <2>1, <2>2, <1>4a
<1> DEFINE n == Top.node
           k == child
<1>6. /\ Len(Kids(n)) \in Nat /\ DOMAIN Kids(n) = 1 .. Len(Kids(n))
      /\ Top.c + 1 \in DOMAIN Kids(n) => Kids(n)[Top.c + 1] = End(k) + 1
      /\ Top.c + 1 \notin DOMAIN Kids(n) => End(k) = End(n)
      /\ Top.c + 1 \in 1 .. Len(Kids(n)) + 1
  <2>1. PICK a \in Nodes : a = Top.node
    BY <1>2
  <2>2. PICK p \in DOMAIN Kids(a) : p = Top.c
    BY <2>1, <1>2
  <2>3. /\ p + 1 \in DOMAIN Kids(a) => Kids(a)[p + 1] = End(Kids(a)[p]) + 1
        /\ p + 1 \notin DOMAIN Kids(a) => End(Kids(a)[p]) = End(a)
    BY <1>4b, Tiles
  <2>4. Len(Kids(a)) \in Nat /\ DOMAIN Kids(a) = 1 .. Len(Kids(a))
    BY <1>4b, KidFacts
  <2>5. p + 1 \in 1 .. Len(Kids(a)) + 1
    BY <2>4
  <2> QED BY <2>1, <2>2, <2>3, <2>4, <2>5, <1>2
<1>7. /\ End(k) \in Nat /\ End(n) \in Nat /\ k <= End(k) /\ n \in Nat
      /\ \A m \in Nodes : Under(m, k) => End(m) <= End(k)
      /\ \A m \in Nodes : m \in Nat /\ End(m) \in Nat /\ m <= End(m)
  <2>1. \A m \in Nodes : m \in Nat /\ End(m) \in Nat /\ m <= End(m)
    BY <1>4b, NodeFacts
  <2>2. \A q \in Nodes : \A m \in Nodes : Under(m, q) => End(m) <= End(q)
    BY <1>4b, NodeFacts
  <2> QED BY <2>1, <2>2, <1>2
<1> HIDE DEF L, n, k
<1>8. Typed'
  BY <1>1, <1>3, <1>4, <1>5 DEF WalkInv, Typed
<1>9. Path'
  <2>1. stack' # << >> => stack'[1].node = 1
    BY <1>1, <1>2, <1>3 DEF WalkInv, Path
  <2>2. ASSUME NEW i \in 1 .. L
        PROVE  /\ stack'[i].node \in Nodes /\ (\A m : m = stack'[i].node => ~IsHandled(m)')
               /\ stack'[i].c \in 1 .. Len(Kids(stack'[i].node)) + 1
    <3>1. stack[i].node \in Nodes /\ ~IsHandled(stack[i].node) /\ child # stack[i].node
          /\ stack[i].c \in 1 .. Len(Kids(stack[i].node)) + 1
      BY <1>2 DEF WalkInv, Path
    <3>2. stack'[i].node = stack[i].node
      BY <1>3
    <3>3. \A m : ~IsHandled(m) /\ m # child => ~IsHandled(m)'
      BY <1>5
    <3>4. stack'[i].c \in 1 .. Len(Kids(stack'[i].node)) + 1
      BY <3>1, <3>2, <1>2, <1>3, <1>6 DEF n
    <3>5. \A m : m = stack'[i].node => ~IsHandled(m)'
      BY <3>1, <3>2, <3>3
    <3> QED BY <3>1, <3>2, <3>4, <3>5
  <2>3. ASSUME NEW i \in 1 .. L, i + 1 \in 1 .. L
        PROVE  /\ stack'[i].walked /\ stack'[i].c \in DOMAIN Kids(stack'[i].node)
               /\ stack'[i + 1].node = Kids(stack'[i].node)[stack'[i].c]
    <3>1. i # L
      BY <2>3, <1>2
    <3>2. i \in DOMAIN stack /\ i + 1 \in DOMAIN stack /\ stack'[i] = stack[i]
          /\ stack'[i + 1].node = stack[i + 1].node
      BY <3>1, <2>3, <1>2, <1>3
    <3>3. /\ stack[i].walked /\ stack[i].c \in DOMAIN Kids(stack[i].node)
          /\ stack[i + 1].node = Kids(stack[i].node)[stack[i].c]
      BY <3>2 DEF WalkInv, Path
    <3> QED BY <3>2, <3>3
  <2>4. ASSUME NEW i \in 1 .. L, NEW j \in 1 .. L, i < j
        PROVE  Under(stack'[j].node, stack'[i].node)
    BY <2>4, <1>2, <1>3 DEF WalkInv, Path
  <2> QED BY <2>1, <2>2, <2>3, <2>4, <1>3, <1>4 DEF Path
<1>10. Lists'
  <2>1. ASSUME NEW m \in Nodes, ~IsHandled(m)'
        PROVE  kids'[m] = Kids(m)
    <3>1. ~IsHandled(m)
      BY <2>1, <1>5
    <3>2. CASE m # child
      BY <3>1, <3>2, <1>1 DEF WalkInv, Lists
    <3>3. CASE m = child
      <4>1. Type(child) \notin Rewritten
        BY <3>3, <2>1, <1>5
      <4> QED BY <4>1, <3>3, <1>2, <1>4a
    <3> QED BY <3>2, <3>3
  <2> QED BY <2>1, <1>4 DEF Lists
<1>11. Behind'
  <2>1. ASSUME NEW m \in Nodes, IsHandled(m)', NEW i \in 1 .. L
        PROVE  /\ End(m) < stack'[i].node \/ Under(m, stack'[i].node)
               /\ stack'[i].c \in DOMAIN Kids(stack'[i].node) =>
                    LET q == Kids(stack'[i].node)[stack'[i].c]
                    IN  End(m) < q \/ (stack'[i].walked /\ Under(m, q))
    <3>1. IsHandled(m) =>
            /\ End(m) < stack[i].node \/ Under(m, stack[i].node)
            /\ stack[i].c \in DOMAIN Kids(stack[i].node) =>
                 LET q == Kids(stack[i].node)[stack[i].c]
                 IN  End(m) < q \/ (stack[i].walked /\ Under(m, q))
      BY <1>2 DEF WalkInv, Behind
    <3>2. IsHandled(m) \/ m = child
      BY <2>1, <1>5
    <3>3. End(m) < stack'[i].node \/ Under(m, stack'[i].node)
      BY <3>1, <3>2, <1>2, <1>3
    <3>4. CASE i = L
      <4>1. IsHandled(m) => End(m) < child \/ Under(m, child)
        BY <3>1, <3>4, <1>2
      <4>2. End(m) <= End(child)
        <5>1. IsHandled(m) => End(m) < child \/ End(m) <= End(child)
          BY <4>1, <1>7 DEF k
        <5>2. End(m) \in Nat /\ End(child) \in Nat /\ child <= End(child)
          BY <1>2, <1>7
        <5> QED BY <5>1, <5>2, <3>2, <1>2
      <4>3. stack'[i].c \in DOMAIN Kids(stack'[i].node)
            => Kids(stack'[i].node)[stack'[i].c] = End(child) + 1
        BY <3>4, <1>2, <1>3, <1>6 DEF n, k
      <4>4. End(m) \in Nat /\ End(child) \in Nat
        BY <1>2, <1>7
      <4>5. End(m) < End(child) + 1
        BY <4>2, <4>4
      <4> QED BY <3>3, <4>3, <4>5
    <3>5. CASE i # L
      <4>1. /\ stack'[i] = stack[i] /\ i + 1 \in DOMAIN stack /\ i \in DOMAIN stack
            /\ i + 1 \in 1 .. L
        BY <3>5, <1>2, <1>3
      <4>2. stack[i].walked /\ stack[i + 1].node = Kids(stack[i].node)[stack[i].c]
        BY <4>1 DEF WalkInv, Path
      <4>3. Under(child, stack[i + 1].node)
        BY <4>1, <1>2
      <4> QED BY <3>1, <3>2, <3>3, <4>1, <4>2, <4>3
    <3> QED BY <3>4, <3>5
  <2> QED BY <2>1, <1>3, <1>4 DEF Behind
<1>12. InFront'
  <2>1. ASSUME NEW m \in Nodes, Type(m) \in Rewritten, ~IsHandled(m)'
        PROVE  \E i \in 1 .. L : Awaits(stack'[i], m)
    <3>0. ~IsHandled(m) /\ m # child
      BY <2>1, <1>5
    <3>1. PICK i \in 1 .. L : Awaits(stack[i], m)
      BY <2>1, <3>0, <1>2 DEF WalkInv, InFront
    <3>2. CASE i # L
      BY <3>1, <3>2, <1>3
    <3>3. CASE i = L
      <4>1. (End(k) < m /\ m <= End(n)) \/ (~Top.walked /\ Under(m, k))
        BY <3>0, <3>1, <3>3, <1>2 DEF Awaits, n, k
      <4>2. ~ (~Top.walked /\ Under(m, k))
        <5>1. SUFFICES ASSUME ~Top.walked, Under(m, child) PROVE FALSE
          BY DEF k
        <5>2. Kids(child) = << >>
          BY <5>1, <1>1, <1>2 DEF WalkedBelow
        <5>3. End(child) = child
          BY <5>2, <1>2, Tiles DEF WalkInv, Typed
        <5> QED BY <5>1, <5>3, <1>2, <1>7 DEF Under
      <4>3. End(k) < m /\ m <= End(n)
        BY <4>1, <4>2
      <4>4. Top.c + 1 \in DOMAIN Kids(n) /\ Kids(n)[Top.c + 1] = End(k) + 1
        BY <4>3, <1>6, <1>7
      <4>5. End(k) + 1 \in Nodes
        <5>1. n \in Nodes
          BY <1>2 DEF n
        <5>2. \A p \in DOMAIN Kids(n) : Kids(n)[p] \in Nodes
          BY <5>1, <1>4b, KidFacts
        <5> QED BY <5>2, <4>4
      <4>6. m = End(k) + 1 \/ (End(End(k) + 1) < m /\ m <= End(n)) \/ Under(m, End(k) + 1)
        BY <4>3, <4>5, <1>7 DEF Under
      <4>7. Awaits(stack'[L], m)
        BY <4>4, <4>6, <1>2, <1>3 DEF Awaits, n
      <4> QED BY <4>7, <1>2
    <3> QED BY <3>2, <3>3
  <2> QED BY <2>1, <1>3, <1>4 DEF InFront
<1>13. InsideOut'
  <2>1. CASE handled' = handled
    BY <2>1, <1>4 DEF WalkInv, InsideOut
  <2>2. CASE handled' = Append(handled, child)
    <3>1. /\ Len(handled) \in Nat
          /\ DOMAIN handled = 1 .. Len(handled) /\ DOMAIN handled' = 1 .. Len(handled) + 1
          /\ \A i \in 1 .. Len(handled) : handled'[i] = handled[i]
          /\ handled'[Len(handled) + 1] = child
      BY <2>2, <1>2, <1>4b, MoreHandled
    <3>2. ASSUME NEW i \in DOMAIN handled', NEW j \in DOMAIN handled', i < j
          PROVE  Under(handled'[i], handled'[j])
                 \/ (handled'[i] < handled'[j] /\ ~Under(handled'[j], handled'[i]))
      <4>1. CASE j \in DOMAIN handled
        <5>1. i \in DOMAIN handled
          BY <4>1, <3>2, <3>1
        <5> QED BY <5>1, <4>1, <3>1, <3>2 DEF WalkInv, InsideOut
      <4>2. CASE j = Len(handled) + 1
        <5>1. i \in DOMAIN handled /\ handled'[j] = child /\ handled'[i] = handled[i]
          BY <4>2, <3>2, <3>1
        <5>2. handled[i] \in Nodes /\ IsHandled(handled[i])
          BY <5>1 DEF WalkInv, Typed, IsHandled
        <5>3. End(handled[i]) < child \/ Under(handled[i], child)
          BY <5>2, <1>2 DEF WalkInv, Behind
        <5>4. End(handled[i]) < child => handled[i] < child /\ ~Under(child, handled[i])
          <6>1. PICK q \in Nodes : q = handled[i]
            BY <5>2
          <6>2. End(q) \in Nat /\ q \in Nat /\ q <= End(q)
            BY <1>7
          <6>3. End(q) < child => q < child /\ ~Under(child, q)
            BY <6>2, <1>2 DEF Under
          <6> QED BY <6>1, <6>3
        <5> QED BY <5>1, <5>3, <5>4
      <4> QED BY <4>1, <4>2, <3>1
    <3> QED BY <3>2, <1>4 DEF InsideOut
  <2> QED BY <2>1, <2>2, <1>4a
<1>14. QED BY <1>8, <1>9, <1>10, <1>11, <1>12, <1>13 DEF WalkInv

-----------------------------------------------------------------------------
(* What a handler that keeps to its child does to the walk.                *)
LEMMA HandlePasses ==
  ASSUME WalkInv, NEW type \in Rewritten, Handle(type),
         DOMAIN kids' = DOMAIN kids, DOMAIN text' = DOMAIN text,
         \A n \in Nodes : n # child => kids'[n] = kids[n]
  PROVE  Passes
<1>1. /\ AtChild /\ WalkedBelow /\ NextChild /\ source' = source
      /\ handled' = Append(handled, child) /\ source[child].type = type
  BY DEF Handle
<1>2. QED BY <1>1 DEF Passes, Type

(* The child that has no handler.                                          *)
LEMMA PassChildPasses ==
  ASSUME WalkInv, PassChild
  PROVE  Passes
BY DEF PassChild, Passes, Type

(* A step is a descent, a return, or a child that is passed.               *)
LEMMA HandlersPass ==
  ASSUME WalkInv,
         \/ UseDatabase \/ LockTables \/ ServerVariable \/ ShowTables \/ ShowColumns
         \/ FunctionIf \/ FoundRows
  PROVE  Passes
<1>1. {"USE_DATABASE", "LOCK_TABLE", "SERVER_VARIABLE", "SHOW_TABLES",
       "SHOW_COLUMNS", "FUNCTION_IF", "FOUND_ROWS"} \subseteq Rewritten
  BY DEF Rewritten
<1>2. CASE UseDatabase
  <2>1. Handle("USE_DATABASE") /\ kids' = kids
    BY <1>2 DEF UseDatabase
  <2>2. DOMAIN text' = DOMAIN text
    BY <1>2 DEF UseDatabase
  <2>3. "USE_DATABASE" \in Rewritten
    BY <1>1
  <2> QED BY <2>1, <2>2, <2>3, HandlePasses
<1>3. CASE LockTables
  <2>1. Handle("LOCK_TABLE") /\ kids' = [kids EXCEPT ![child] = << >>]
    BY <1>3 DEF LockTables
  <2>2. DOMAIN text' = DOMAIN text
    BY <1>3 DEF LockTables
  <2>3. "LOCK_TABLE" \in Rewritten
    BY <1>1
  <2>4. DOMAIN kids' = DOMAIN kids /\ \A n \in Nodes : n # child => kids'[n] = kids[n]
    BY <2>1 DEF WalkInv, Typed
  <2> QED BY <2>1, <2>2, <2>3, <2>4, HandlePasses
<1>4. CASE ServerVariable
  <2>1. Handle("SERVER_VARIABLE") /\ kids' = kids
    BY <1>4 DEF ServerVariable
  <2>2. DOMAIN text' = DOMAIN text
    BY <1>4 DEF ServerVariable
  <2>3. "SERVER_VARIABLE" \in Rewritten
    BY <1>1
  <2> QED BY <2>1, <2>2, <2>3, HandlePasses
<1>5. CASE ShowTables
  <2>1. Handle("SHOW_TABLES")
        /\ \E X : kids' = [kids EXCEPT ![child] = X]
    BY <1>5 DEF ShowTables
  <2>2. DOMAIN text' = DOMAIN text
    BY <1>5 DEF ShowTables
  <2>3. "SHOW_TABLES" \in Rewritten
    BY <1>1
  <2>4. DOMAIN kids' = DOMAIN kids /\ \A n \in Nodes : n # child => kids'[n] = kids[n]
    BY <2>1 DEF WalkInv, Typed
  <2> QED BY <2>1, <2>2, <2>3, <2>4, HandlePasses
<1>6. CASE ShowColumns
  <2>1. Handle("SHOW_COLUMNS")
        /\ \E X : kids' = [kids EXCEPT ![child] = X]
    BY <1>6 DEF ShowColumns
  <2>2. DOMAIN text' = DOMAIN text
    BY <1>6 DEF ShowColumns
  <2>3. "SHOW_COLUMNS" \in Rewritten
    BY <1>1
  <2>4. DOMAIN kids' = DOMAIN kids /\ \A n \in Nodes : n # child => kids'[n] = kids[n]
    BY <2>1 DEF WalkInv, Typed
  <2> QED BY <2>1, <2>2, <2>3, <2>4, HandlePasses
<1>7. CASE FunctionIf
  <2>1. Handle("FUNCTION_IF")
        /\ \E X : kids' = [kids EXCEPT ![child] = X]
    BY <1>7 DEF FunctionIf
  <2>2. DOMAIN text' = DOMAIN text
    BY <1>7 DEF FunctionIf
  <2>3. "FUNCTION_IF" \in Rewritten
    BY <1>1
  <2>4. DOMAIN kids' = DOMAIN kids /\ \A n \in Nodes : n # child => kids'[n] = kids[n]
    BY <2>1 DEF WalkInv, Typed
  <2> QED BY <2>1, <2>2, <2>3, <2>4, HandlePasses
<1>8. CASE FoundRows
  <2>1. Handle("FOUND_ROWS") /\ kids' = kids
    BY <1>8 DEF FoundRows
  <2>2. DOMAIN text' = DOMAIN text
    BY <1>8 DEF FoundRows
  <2>3. "FOUND_ROWS" \in Rewritten
    BY <1>1
  <2> QED BY <2>1, <2>2, <2>3, HandlePasses
<1>9. QED BY <1>2, <1>3, <1>4, <1>5, <1>6, <1>7, <1>8

(* At the start everything is in front of the first call.                  *)
LEMMA InitWalks ==
  ASSUME Init
  PROVE  WalkInv
<1>1. WellFormed(source) /\ source \in Sources
  BY SourcesAssumption DEF Init
<1>2. /\ 1 \in Nodes /\ Len(source) \in Nat /\ End(1) = Len(source)
      /\ source[1].type = "nil" /\ DOMAIN source = Nodes
  BY <1>1 DEF WellFormed, Nodes, End
<1>3. /\ stack = <<Frame(1)>> /\ handled = << >>
      /\ kids = [n \in DOMAIN source |-> source[n].kids]
      /\ text = [n \in DOMAIN source |-> source[n].text]
  BY DEF Init
<1>4. /\ Frame(1) \in FrameSet /\ Frame(1).node = 1 /\ Frame(1).c = 1
      /\ Frame(1).walked = FALSE
  BY DEF Frame, FrameSet
<1>5. /\ stack \in Seq(FrameSet) /\ DOMAIN stack = {1} /\ stack[1] = Frame(1)
      /\ handled \in Seq(Nat) /\ DOMAIN handled = {}
  BY <1>3, <1>4
<1>6. Typed
  BY <1>1, <1>2, <1>3, <1>5 DEF Typed
<1>7. \A m : ~IsHandled(m)
  BY <1>5 DEF IsHandled
<1>8. Len(Kids(1)) \in Nat /\ DOMAIN Kids(1) = 1 .. Len(Kids(1))
  BY <1>1, <1>2, KidFacts
<1>9. Path
  BY <1>2, <1>4, <1>5, <1>7, <1>8 DEF Path
<1>10. Lists
  BY <1>2, <1>3 DEF Lists, Kids
<1>11. Behind /\ InsideOut
  BY <1>5, <1>7 DEF Behind, InsideOut
<1>12. InFront
  <2>1. ASSUME NEW m \in Nodes, Type(m) \in Rewritten
        PROVE  Awaits(Frame(1), m)
    <3>1. m # 1
      BY <2>1, <1>2 DEF Type, Rewritten
    <3>2. m \in Nat /\ 1 < m /\ m <= End(1)
      BY <3>1, <1>2 DEF Nodes
    <3>3. Kids(1) # << >> /\ 1 \in DOMAIN Kids(1) /\ Kids(1)[1] = 2
      BY <1>1, <1>2, <3>2, Tiles
    <3>4. 2 \in Nodes
      BY <3>2, <1>2 DEF Nodes
    <3>5. End(2) \in Nat
      BY <3>4, <1>1, NodeFacts
    <3> QED BY <3>2, <3>3, <3>5, <1>4 DEF Awaits, Under
  <2> QED BY <2>1, <1>5 DEF InFront
<1>13. QED BY <1>6, <1>9, <1>10, <1>11, <1>12 DEF WalkInv

(* Nothing happens.                                                        *)
LEMMA StutterWalks ==
  ASSUME WalkInv, UNCHANGED vars
  PROVE  WalkInv'
<1>1. /\ source' = source /\ kids' = kids /\ text' = text /\ stack' = stack
      /\ handled' = handled
  BY DEF vars
<1>2. /\ Nodes' = Nodes
      /\ \A n : Type(n)' = Type(n) /\ Kids(n)' = Kids(n) /\ End(n)' = End(n)
      /\ \A m, n : Under(m, n)' = Under(m, n)
      /\ \A f, m : Awaits(f, m)' = Awaits(f, m)
      /\ WellFormed(source') = WellFormed(source)
      /\ \A m : IsHandled(m)' = IsHandled(m)
  BY <1>1, SameTree, SameHandled
<1>3. Typed'
  BY <1>1, <1>2 DEF WalkInv, Typed
<1>4. Path'
  BY <1>1, <1>2 DEF WalkInv, Path
<1>5. Lists'
  BY <1>1, <1>2 DEF WalkInv, Lists
<1>6. Behind'
  BY <1>1, <1>2 DEF WalkInv, Behind
<1>7. InFront'
  BY <1>1, <1>2 DEF WalkInv, InFront
<1>8. InsideOut'
  BY <1>1, <1>2 DEF WalkInv, InsideOut
<1>9. QED BY <1>3, <1>4, <1>5, <1>6, <1>7, <1>8 DEF WalkInv

(* The walk is kept by every step,                                         *)
LEMMA StepWalks ==
  ASSUME WalkInv, [Next]_vars
  PROVE  WalkInv'
BY DescendWalks, ReturnWalks, PassWalks, PassChildPasses, HandlersPass, StutterWalks DEF Next

(* and so it always holds.                                                 *)
LEMMA Walks == Spec => []WalkInv
<1>1. Init => WalkInv
  BY InitWalks
<1>2. WalkInv /\ [Next]_vars => WalkInv'
  BY StepWalks
<1>3. QED BY <1>1, <1>2, PTL DEF Spec

(* The handlers run from the inside out and from left to right, each once, *)
(* and none is missed (TreeWalkWorker over lists that the handlers         *)
(* shorten).                                                               *)
THEOREM EveryHandlerInTurn == Spec => []HandledBottomUp
<1>1. WalkInv => HandledBottomUp
  <2> SUFFICES ASSUME WalkInv PROVE HandledBottomUp
    OBVIOUS
  <2>1. \A m, n : Below(source, m, n) <=> Under(m, n)
    BY DEF Below, Under, End
  <2>2. ASSUME NEW i \in DOMAIN handled, NEW j \in DOMAIN handled, i < j
        PROVE  IF Below(source, handled[i], handled[j]) THEN TRUE
               ELSE handled[i] < handled[j] /\ ~Below(source, handled[j], handled[i])
    <3>1. Under(handled[i], handled[j])
          \/ (handled[i] < handled[j] /\ ~Under(handled[j], handled[i]))
      BY <2>2 DEF WalkInv, InsideOut
    <3> QED BY <2>1, <3>1
  <2>3. ASSUME Done
        PROVE  Range(handled) = {n \in DOMAIN source : source[n].type \in Rewritten}
    <3>1. stack = << >> /\ DOMAIN stack = {}
      BY <2>3 DEF Done
    <3>2. \A m \in Nodes : Type(m) \in Rewritten => IsHandled(m)
      BY <3>1 DEF WalkInv, InFront
    <3>3. \A m \in Nodes : IsHandled(m) => Type(m) \in Rewritten
      BY DEF WalkInv, Typed, IsHandled
    <3>4. DOMAIN source = Nodes
      BY DEF WalkInv, Typed, WellFormed, Nodes
    <3>5. \A m : m \in Range(handled) <=> IsHandled(m)
      BY DEF Range, IsHandled
    <3>6. \A m : IsHandled(m) => m \in Nodes
      BY DEF WalkInv, Typed, IsHandled
    <3> QED BY <3>2, <3>3, <3>4, <3>5, <3>6 DEF Type
  <2> QED BY <2>2, <2>3 DEF HandledBottomUp
<1>2. QED BY <1>1, Walks, PTL

(* A set of positions has a first one: the intervals that end in it are    *)
(* well-founded by inclusion.                                              *)
LEMMA FirstExists ==
  ASSUME NEW T \in SUBSET Nat, T # {}
  PROVE  \E x \in T : \A y \in T : x <= y
<1> DEFINE R == StrictSubsetOrdering(Nat)
           U == {1 .. x : x \in T}
<1>1. U \subseteq FiniteSubsetsOf(Nat) /\ U # {}
  <2>1. \A x \in T : 1 .. x \in FiniteSubsetsOf(Nat)
    BY FS_Interval DEF FiniteSubsetsOf
  <2> QED
    BY <2>1
<1>2. PICK u \in U : \A v \in U : ~ (<<v, u>> \in R)
  <2>1. IsWellFoundedOn(R, FiniteSubsetsOf(Nat))
    BY FS_StrictSubsetOrderingWellFounded
  <2> HIDE DEF R, U
  <2> QED
    BY <1>1, <2>1, WFMin
<1>3. PICK x \in T : u = 1 .. x
  OBVIOUS
<1>4. ASSUME NEW y \in T, y < x
      PROVE  FALSE
  <2>1. 1 .. y \subseteq 1 .. x /\ x \in 1 .. x /\ x \notin 1 .. y
    BY <1>4
  <2>2. <<1 .. y, 1 .. x>> \in R
    BY <2>1 DEF StrictSubsetOrdering
  <2> QED
    BY <1>2, <1>3, <2>2
<1> QED
  BY <1>4

(* RemoveAt takes one element out, and the ones behind it move up.         *)
LEMMA RemoveAtOne ==
  ASSUME NEW S, NEW s \in Seq(S), NEW i \in 1 .. Len(s)
  PROVE  /\ RemoveAt(s, i) \in Seq(S)
         /\ Len(RemoveAt(s, i)) = Len(s) - 1
         /\ \A k \in 1 .. Len(s) - 1 : RemoveAt(s, i)[k] = IF k < i THEN s[k] ELSE s[k + 1]
<1> DEFINE a == SubSeq(s, 1, i - 1)
           b == SubSeq(s, i + 1, Len(s))
<1>1. /\ a \in Seq(S) /\ Len(a) = i - 1
      /\ \A k \in 1 .. i - 1 : a[k] = s[k]
  BY SubSeqProperties
<1>2. /\ b \in Seq(S) /\ Len(b) = Len(s) - i
      /\ \A k \in 1 .. Len(s) - i : b[k] = s[i + k]
  BY SubSeqProperties
<1>3. RemoveAt(s, i) = a \o b
  BY DEF RemoveAt
<1> HIDE DEF a, b
<1>4. /\ a \o b \in Seq(S) /\ Len(a \o b) = Len(a) + Len(b)
      /\ \A k \in 1 .. Len(a) + Len(b) :
           (a \o b)[k] = IF k <= Len(a) THEN a[k] ELSE b[k - Len(a)]
  BY <1>1, <1>2, ConcatProperties
<1>5. Len(s) \in Nat /\ Len(a) + Len(b) = Len(s) - 1
  BY <1>1, <1>2
<1>6. ASSUME NEW k \in 1 .. Len(s) - 1
      PROVE  (a \o b)[k] = IF k < i THEN s[k] ELSE s[k + 1]
  <2>1. CASE k < i
    BY <1>1, <1>4, <1>5, <2>1
  <2>2. CASE ~(k < i)
    <3>1. k - (i - 1) \in 1 .. Len(s) - i /\ i + (k - (i - 1)) = k + 1
      BY <1>5, <2>2
    <3> QED
      BY <1>1, <1>2, <1>4, <1>5, <2>2, <3>1
  <2> QED
    BY <2>1, <2>2
<1> QED
  BY <1>3, <1>4, <1>5, <1>6


(* Lists of nodes in the order of the source.                              *)
Rising(list) == /\ list \in Seq(Nat)
                /\ \A p, q \in DOMAIN list : p < q => list[p] < list[q]
In(m, list)  == \E p \in DOMAIN list : list[p] = m

(* What is found is the first of its type.                                 *)
LEMMA FindFacts ==
  ASSUME NEW list, Rising(list), NEW type
  PROVE  /\ Has(list, type) <=> \E p \in DOMAIN list : Type(list[p]) = type
         /\ Has(list, type) =>
              /\ Find(list, type) \in DOMAIN list /\ Find(list, type) \in 1 .. Len(list)
              /\ Type(list[Find(list, type)]) = type
              /\ \A q \in DOMAIN list : Type(list[q]) = type => list[Find(list, type)] <= list[q]
<1> DEFINE T == {p \in 1 .. Len(list) : Type(list[p]) = type}
<1>1. DOMAIN list = 1 .. Len(list) /\ Len(list) \in Nat /\ \A p \in DOMAIN list : list[p] \in Nat
  BY DEF Rising
<1>2. T \in SUBSET Nat
  BY <1>1
<1>3. Find(list, type) = IF T # {} THEN Min(T) ELSE 0
  BY DEF Find, SelectInSeq, Type
<1>4. CASE T = {}
  <2>1. ~Has(list, type)
    BY <1>3, <1>4 DEF Has
  <2>2. ~ \E p \in DOMAIN list : Type(list[p]) = type
    BY <1>1, <1>4
  <2> QED BY <2>1, <2>2
<1>5. CASE T # {}
  <2>1. \E x \in T : \A y \in T : x <= y
    <3> HIDE DEF T
    <3> QED BY <1>2, <1>5, FirstExists
  <2>2. Min(T) \in T /\ \A y \in T : Min(T) <= y
    <3> HIDE DEF T
    <3> QED BY <2>1 DEF Min
  <2>3. PICK f : f = Find(list, type)
    OBVIOUS
  <2>4. f \in T /\ \A y \in T : f <= y
    BY <1>3, <1>5, <2>2, <2>3
  <2>5. f \in 1 .. Len(list) /\ Type(list[f]) = type /\ f > 0 /\ f \in DOMAIN list
    BY <2>4, <1>1
  <2>6. ASSUME NEW q \in DOMAIN list, Type(list[q]) = type
        PROVE  list[f] <= list[q]
    <3>1. q \in T
      BY <2>6, <1>1
    <3>2. f = q \/ f < q
      BY <3>1, <2>4, <1>1, <2>5
    <3> QED BY <3>2, <2>5, <2>6, <1>1 DEF Rising
  <2> QED BY <2>3, <2>5, <2>6 DEF Has
<1>6. QED BY <1>4, <1>5

(* A list in order stays so when one node is taken out.                    *)
LEMMA RemovedFacts ==
  ASSUME NEW list, Rising(list), NEW i \in 1 .. Len(list)
  PROVE  /\ Rising(RemoveAt(list, i)) /\ Len(RemoveAt(list, i)) = Len(list) - 1
         /\ \A k \in 1 .. Len(list) - 1 :
              RemoveAt(list, i)[k] = IF k < i THEN list[k] ELSE list[k + 1]
         /\ \A m : In(m, RemoveAt(list, i)) <=> In(m, list) /\ m # list[i]
<1> DEFINE new == RemoveAt(list, i)
<1>1. /\ new \in Seq(Nat) /\ Len(new) = Len(list) - 1
      /\ \A k \in 1 .. Len(list) - 1 : new[k] = IF k < i THEN list[k] ELSE list[k + 1]
  BY RemoveAtOne DEF Rising
<1>2. /\ DOMAIN list = 1 .. Len(list) /\ Len(list) \in Nat
      /\ \A p \in DOMAIN list : list[p] \in Nat
      /\ \A p, q \in DOMAIN list : p < q => list[p] < list[q]
  BY DEF Rising
<1> HIDE DEF new
<1>3. DOMAIN new = 1 .. Len(list) - 1
  BY <1>1, <1>2
<1>4. ASSUME NEW p \in DOMAIN new, NEW q \in DOMAIN new, p < q
      PROVE  new[p] < new[q]
  <2>1. p \in 1 .. Len(list) - 1 /\ q \in 1 .. Len(list) - 1
    BY <1>3
  <2>2. PICK a \in 1 .. Len(list) : a = (IF p < i THEN p ELSE p + 1)
    BY <2>1, <1>2
  <2>3. PICK b \in 1 .. Len(list) : b = (IF q < i THEN q ELSE q + 1)
    BY <2>1, <1>2
  <2>4. a < b
    BY <2>1, <2>2, <2>3, <1>4, <1>2
  <2>5. new[p] = list[a] /\ new[q] = list[b]
    BY <1>1, <2>1, <2>2, <2>3
  <2> QED BY <2>4, <2>5, <1>2
<1>5. ASSUME NEW m, In(m, new)
      PROVE  In(m, list) /\ m # list[i]
  <2>1. PICK p \in 1 .. Len(list) - 1 : new[p] = m
    BY <1>5, <1>3 DEF In
  <2>2. PICK a \in 1 .. Len(list) : a = (IF p < i THEN p ELSE p + 1)
    BY <2>1, <1>2
  <2>3. m = list[a]
    BY <1>1, <2>1, <2>2
  <2>4. a < i \/ i < a
    BY <2>1, <2>2
  <2>5. list[a] # list[i]
    BY <2>4, <1>2
  <2> QED BY <2>3, <2>5, <1>2 DEF In
<1>6. ASSUME NEW m, In(m, list), m # list[i]
      PROVE  In(m, new)
  <2>1. PICK a \in 1 .. Len(list) : list[a] = m
    BY <1>6, <1>2 DEF In
  <2>2. a # i
    BY <2>1, <1>6
  <2>3. PICK p \in 1 .. Len(list) - 1 : a = (IF p < i THEN p ELSE p + 1)
    <3>1. CASE a < i
      BY <3>1, <1>2
    <3>2. CASE a > i
      <4>1. a - 1 \in 1 .. Len(list) - 1 /\ ~(a - 1 < i) /\ a = (a - 1) + 1
        BY <3>2, <1>2
      <4> QED BY <4>1
    <3> QED BY <3>1, <3>2, <2>2
  <2>4. new[p] = m
    BY <2>1, <2>3, <1>1
  <2> QED BY <2>4, <1>3 DEF In
<1>7. QED BY <1>1, <1>4, <1>5, <1>6 DEF Rising, new

(* Deleting what is found takes out that node and no other.                *)
LEMMA WithoutFacts ==
  ASSUME NEW list, Rising(list), NEW type
  PROVE  /\ Rising(Without(list, type))
         /\ \A m : In(m, Without(list, type)) <=>
                     In(m, list) /\ ~(Has(list, type) /\ m = list[Find(list, type)])
<1>1. CASE Has(list, type)
  <2>1. Without(list, type) = RemoveAt(list, Find(list, type))
    BY <1>1 DEF Without
  <2>2. Find(list, type) \in 1 .. Len(list)
    BY <1>1, FindFacts
  <2>3. /\ Rising(RemoveAt(list, Find(list, type)))
        /\ \A m : In(m, RemoveAt(list, Find(list, type)))
                    <=> In(m, list) /\ m # list[Find(list, type)]
    BY <2>2, RemovedFacts
  <2> QED BY <1>1, <2>1, <2>3
<1>2. CASE ~Has(list, type)
  BY <1>2 DEF Without
<1>3. QED BY <1>1, <1>2

(* At most one of the type: none is left.                                  *)
Once(list, type) ==
  \A m, q \in Nat : In(m, list) /\ In(q, list) /\ Type(m) = type /\ Type(q) = type => m = q
(* At most two.                                                            *)
Twice(list, type) ==
  \A m, q, r \in Nat :
    /\ In(m, list) /\ In(q, list) /\ In(r, list)
    /\ Type(m) = type /\ Type(q) = type /\ Type(r) = type
    => m = q \/ m = r \/ q = r

(* Of a type that is there once, nothing is left; of one that is there     *)
(* twice, one; the other types are not touched.                            *)
LEMMA FirstGone ==
  ASSUME NEW list, Rising(list), NEW type
  PROVE  /\ Has(list, type) <=> \E m \in Nat : In(m, list) /\ Type(m) = type
         /\ \A m \in Nat : In(m, list) /\ Type(m) # type => In(m, Without(list, type))
         /\ \A m : In(m, Without(list, type)) => m \in Nat /\ In(m, list)
         /\ Once(list, type) => ~Has(Without(list, type), type)
         /\ Twice(list, type) => Once(Without(list, type), type)
         /\ \A other : Once(list, other) => Once(Without(list, type), other)
         /\ \A other : Twice(list, other) => Twice(Without(list, type), other)
<1> DEFINE new == Without(list, type)
           f == list[Find(list, type)]
<1>1. Rising(new) /\ \A m : In(m, new) <=> In(m, list) /\ ~(Has(list, type) /\ m = f)
  BY WithoutFacts
<1>2. \A m : In(m, list) => m \in Nat
  BY DEF In, Rising
<1>3. /\ Has(list, type) <=> \E m \in Nat : In(m, list) /\ Type(m) = type
      /\ Has(list, type) => f \in Nat /\ In(f, list) /\ Type(f) = type
  <2>1. /\ Has(list, type) <=> \E p \in DOMAIN list : Type(list[p]) = type
        /\ Has(list, type) => Find(list, type) \in DOMAIN list /\ Type(f) = type
    BY FindFacts
  <2> HIDE DEF f
  <2>2. Has(list, type) <=> \E m \in Nat : In(m, list) /\ Type(m) = type
    BY <2>1, <1>2 DEF In
  <2>3. Has(list, type) => In(f, list)
    BY <2>1 DEF In, f
  <2> QED BY <2>1, <2>2, <2>3, <1>2
<1>4. Has(new, type) <=> \E m \in Nat : In(m, new) /\ Type(m) = type
  <2>1. Has(new, type) <=> \E p \in DOMAIN new : Type(new[p]) = type
    <3> HIDE DEF new
    <3> QED BY <1>1, FindFacts
  <2>2. \A p \in DOMAIN new : new[p] \in Nat
    BY <1>1 DEF Rising
  <2> HIDE DEF new
  <2> QED BY <2>1, <2>2 DEF In
<1> HIDE DEF new, f
<1>5. Once(list, type) => ~Has(new, type)
  BY <1>1, <1>2, <1>3, <1>4 DEF Once
<1>6. Twice(list, type) => Once(new, type)
  BY <1>1, <1>2, <1>3, <1>4 DEF Once, Twice
<1>7. \A other : Once(list, other) => Once(new, other)
  BY <1>1 DEF Once
<1>8. \A other : Twice(list, other) => Twice(new, other)
  BY <1>1 DEF Twice
<1>9. /\ \A m \in Nat : In(m, list) /\ Type(m) # type => In(m, new)
      /\ \A m : In(m, new) => m \in Nat /\ In(m, list)
  BY <1>1, <1>2, <1>3
<1>10. QED BY <1>3, <1>5, <1>6, <1>7, <1>8, <1>9 DEF new

(* The first of a type is the least node of it.                            *)
LEMMA FoundIsLeast ==
  ASSUME NEW list, Rising(list), NEW type, Has(list, type)
  PROVE  LET S == {m \in Range(list) : Type(m) = type}
             f == list[Find(list, type)]
         IN  /\ f \in S /\ f \in Nat /\ In(f, list) /\ Type(f) = type
             /\ Min(S) = f
<1> DEFINE S == {m \in Range(list) : Type(m) = type}
           f == list[Find(list, type)]
<1>1. /\ Find(list, type) \in DOMAIN list /\ Type(f) = type
      /\ \A q \in DOMAIN list : Type(list[q]) = type => f <= list[q]
  BY FindFacts
<1>2. \A p \in DOMAIN list : list[p] \in Nat
  BY DEF Rising
<1>3. f \in Nat /\ In(f, list) /\ f \in S
  BY <1>1, <1>2 DEF In, Range
<1>4. \A y \in S : f <= y /\ y \in Nat
  BY <1>1, <1>2 DEF Range
<1> HIDE DEF S, f
<1>5. \A x \in S : (\A y \in S : x <= y) => x = f
  BY <1>3, <1>4
<1>6. \A y \in S : f <= y
  BY <1>4
<1>7. Min(S) = f
  <2>1. Min(S) \in S /\ \A y \in S : Min(S) <= y
    BY <1>3, <1>6 DEF Min
  <2> QED BY <2>1, <1>5
<1>8. QED BY <1>1, <1>3, <1>7 DEF S, f

-----------------------------------------------------------------------------
(* What the grammar's counts say of a list.                                *)
CountOf(list, type) == Cardinality({p \in DOMAIN list : Type(list[p]) = type})

(* A count of zero, one or two, in terms of the nodes.                     *)
LEMMA Counted ==
  ASSUME NEW list, Rising(list), NEW type
  PROVE  /\ CountOf(list, type) \in Nat
         /\ CountOf(list, type) = 0 <=> ~Has(list, type)
         /\ CountOf(list, type) <= 1 => Once(list, type)
         /\ CountOf(list, type) <= 2 => Twice(list, type)
<1> DEFINE S == {p \in DOMAIN list : Type(list[p]) = type}
<1>1. /\ DOMAIN list = 1 .. Len(list) /\ Len(list) \in Nat
      /\ \A p, q \in DOMAIN list : list[p] = list[q] => p = q
  <2>1. DOMAIN list = 1 .. Len(list) /\ Len(list) \in Nat
    BY DEF Rising
  <2>2. ASSUME NEW p \in DOMAIN list, NEW q \in DOMAIN list, list[p] = list[q]
        PROVE  p = q
    <3>1. p < q \/ q < p \/ p = q
      BY <2>1
    <3>2. list[p] \in Nat /\ list[q] \in Nat
      BY DEF Rising
    <3>3. (p < q => list[p] < list[q]) /\ (q < p => list[q] < list[p])
      BY DEF Rising
    <3> QED BY <3>1, <3>2, <3>3, <2>2
  <2> QED BY <2>1, <2>2
<1>2. IsFiniteSet(S) /\ Cardinality(S) \in Nat
  <2>1. IsFiniteSet(1 .. Len(list))
    BY <1>1, FS_Interval
  <2>2. S \in SUBSET (1 .. Len(list))
    BY <1>1
  <2> HIDE DEF S
  <2>3. IsFiniteSet(S)
    BY <2>1, <2>2, FS_Subset
  <2> QED BY <2>3, FS_CardinalityType
<1>3. CountOf(list, type) = Cardinality(S)
  BY DEF CountOf
<1>4. Cardinality(S) = 0 <=> S = {}
  <2> HIDE DEF S
  <2> QED BY <1>2, FS_EmptySet
<1>5. Has(list, type) <=> S # {}
  BY FindFacts
<1>6. \A m : In(m, list) /\ Type(m) = type => \E p \in S : list[p] = m
  BY DEF In
<1> HIDE DEF S
<1>7. ASSUME NEW p \in S
      PROVE  /\ IsFiniteSet(S \ {p}) /\ Cardinality(S \ {p}) = Cardinality(S) - 1
             /\ \A q \in S \ {p} : /\ Cardinality(S \ {p}) >= 1
                                   /\ \A r \in (S \ {p}) \ {q} : Cardinality(S) >= 3
  <2>1. IsFiniteSet(S \ {p}) /\ Cardinality(S \ {p}) = Cardinality(S) - 1
    BY <1>2, FS_RemoveElement
  <2>2. Cardinality(S \ {p}) \in Nat
    BY <2>1, FS_CardinalityType
  <2>3. ASSUME NEW q \in S \ {p}
        PROVE  /\ Cardinality(S \ {p}) >= 1
               /\ \A r \in (S \ {p}) \ {q} : Cardinality(S) >= 3
    <3>1. IsFiniteSet((S \ {p}) \ {q})
          /\ Cardinality((S \ {p}) \ {q}) = Cardinality(S \ {p}) - 1
      BY <2>1, FS_RemoveElement
    <3>2. Cardinality((S \ {p}) \ {q}) \in Nat
      BY <3>1, FS_CardinalityType
    <3>3. (S \ {p}) \ {q} # {} => Cardinality((S \ {p}) \ {q}) # 0
      BY <3>1, FS_EmptySet
    <3> QED BY <2>1, <2>2, <3>1, <3>2, <3>3, <1>2
  <2> QED BY <2>1, <2>3
<1>8. Cardinality(S) <= 1 => \A p, q \in S : p = q
  <2>1. SUFFICES ASSUME Cardinality(S) <= 1, NEW p \in S, NEW q \in S, p # q PROVE FALSE
    OBVIOUS
  <2>2. Cardinality(S \ {p}) >= 1 /\ Cardinality(S \ {p}) = Cardinality(S) - 1
    BY <2>1, <1>7
  <2> QED BY <2>1, <2>2, <1>2
<1>9. Cardinality(S) <= 2 => \A p, q, r \in S : p = q \/ p = r \/ q = r
  <2>1. SUFFICES ASSUME Cardinality(S) <= 2, NEW p \in S, NEW q \in S, NEW r \in S,
                        p # q, p # r, q # r
                 PROVE  FALSE
    OBVIOUS
  <2>2. Cardinality(S) >= 3
    BY <2>1, <1>7
  <2> QED BY <2>1, <2>2, <1>2
<1>10. Cardinality(S) <= 1 => Once(list, type)
  BY <1>6, <1>8 DEF Once
<1>11. Cardinality(S) <= 2 => Twice(list, type)
  <2>1. SUFFICES ASSUME Cardinality(S) <= 2, NEW m \in Nat, NEW q \in Nat, NEW r \in Nat,
                        In(m, list), In(q, list), In(r, list),
                        Type(m) = type, Type(q) = type, Type(r) = type
                 PROVE  m = q \/ m = r \/ q = r
    BY DEF Twice
  <2>2. PICK a \in S : list[a] = m
    BY <2>1, <1>6
  <2>3. PICK b \in S : list[b] = q
    BY <2>1, <1>6
  <2>4. PICK c \in S : list[c] = r
    BY <2>1, <1>6
  <2>5. a = b \/ a = c \/ b = c
    BY <2>1, <1>9
  <2> QED BY <2>2, <2>3, <2>4, <2>5
<1>12. QED BY <1>2, <1>3, <1>4, <1>5, <1>10, <1>11

(* The lists of the tree as parsed.                                        *)
LEMMA ParsedLists ==
  ASSUME WellFormed(source), NEW n \in Nodes
  PROVE  /\ Rising(Kids(n)) /\ \A m \in Nodes : In(m, Kids(n)) <=> Parent(m) = n
         /\ \A m : In(m, Kids(n)) => m \in Nodes /\ m > 1
<1>1. /\ Kids(n) \in Seq(Nat) /\ n >= 1 /\ n \in Nat
      /\ \A p, q \in DOMAIN Kids(n) : p < q => Kids(n)[p] < Kids(n)[q]
  BY NodeFacts
<1>2. /\ \A p \in DOMAIN Kids(n) : Kids(n)[p] \in Nodes /\ Parent(Kids(n)[p]) = n
                                   /\ Under(Kids(n)[p], n)
      /\ \A m \in Nodes : Parent(m) = n => \E p \in DOMAIN Kids(n) : m = Kids(n)[p]
  BY KidFacts
<1>3. Rising(Kids(n))
  BY <1>1 DEF Rising
<1>4. \A m : In(m, Kids(n)) => m \in Nodes /\ m > 1 /\ Parent(m) = n
  BY <1>1, <1>2 DEF In, Under, Nodes
<1>5. QED BY <1>2, <1>3, <1>4 DEF In

(* What the grammar makes of each statement that is rewritten.             *)
LEMMA Shapes ==
  ASSUME WellFormed(source), NEW n \in Nodes
  PROVE  /\ Type(n) = "FOUND_ROWS" => Kids(n) = << >>
         /\ Type(n) \in {"SHOW_TABLES", "SHOW_COLUMNS"} =>
              /\ Kids(n) # << >> /\ Type(Kids(n)[1]) = "SHOW" /\ Once(Kids(n), "FULL")
         /\ Type(n) = "SHOW_TABLES" => Once(Kids(n), "TABLES") /\ Once(Kids(n), "SHOW_FROM")
         /\ Type(n) = "SHOW_COLUMNS" =>
              /\ ~Has(Kids(n), "TABLES") /\ Has(Kids(n), "SHOW_FROM")
              /\ Twice(Kids(n), "SHOW_FROM")
         /\ Type(n) = "SHOW_FROM" =>
              /\ 1 \in DOMAIN Kids(n) /\ Type(Kids(n)[1]) \in {"ID", "FOUND_ROWS"}
              /\ source[Kids(n)[1]].text # << >> /\ source[Kids(n)[1]].text[1] \in DOMAIN Bare
         /\ Type(n) = "USE_DATABASE" =>
              /\ Has(Kids(n), "USE") /\ Has(Kids(n), "ID")
              /\ Once(Kids(n), "USE") /\ Once(Kids(n), "ID")
         /\ Type(n) = "SERVER_VARIABLE" =>
              /\ DOMAIN Kids(n) = {1} /\ Type(Kids(n)[1]) = "ID"
              /\ source[Kids(n)[1]].text # << >> /\ source[Kids(n)[1]].text[1] \in DOMAIN Bare
         /\ Type(n) = "FUNCTION_IF" =>
              /\ Len(Kids(n)) = 3 /\ \A p \in 1 .. 3 : Type(Kids(n)[p]) = "CALL_PARAMETER"
         /\ Type(n) = "CALL_PARAMETER" => Kids(n) # << >>
<1>1. Grammatical(source, n) /\ Kids(n) \in Seq(Nat)
  BY NodeFacts
<1>2. Rising(Kids(n))
  BY ParsedLists
<1>3. /\ \A type : CountOf(Kids(n), type) \in Nat
      /\ \A type : CountOf(Kids(n), type) = 0 <=> ~Has(Kids(n), type)
      /\ \A type : CountOf(Kids(n), type) <= 1 => Once(Kids(n), type)
      /\ \A type : CountOf(Kids(n), type) <= 2 => Twice(Kids(n), type)
  BY <1>2, Counted
<1>4. /\ Type(n) = "FOUND_ROWS" => Kids(n) = << >>
      /\ Type(n) \in {"SHOW_TABLES", "SHOW_COLUMNS"} =>
           Kids(n) # << >> /\ Type(Kids(n)[1]) = "SHOW"
      /\ Type(n) = "SHOW_FROM" =>
           /\ Len(Kids(n)) = 1 /\ Type(Kids(n)[1]) \in {"ID", "FOUND_ROWS"}
           /\ source[Kids(n)[1]].text # << >> /\ source[Kids(n)[1]].text[1] \in DOMAIN Bare
      /\ Type(n) = "SERVER_VARIABLE" =>
           /\ Len(Kids(n)) = 1 /\ Type(Kids(n)[1]) = "ID"
           /\ source[Kids(n)[1]].text # << >> /\ source[Kids(n)[1]].text[1] \in DOMAIN Bare
      /\ Type(n) = "FUNCTION_IF" =>
           /\ Len(Kids(n)) = 3 /\ \A p \in 1 .. 3 : Type(Kids(n)[p]) = "CALL_PARAMETER"
      /\ Type(n) = "CALL_PARAMETER" => Kids(n) # << >>
  BY <1>1 DEF Grammatical, Type, Kids
<1>5. /\ Type(n) \in {"SHOW_TABLES", "SHOW_COLUMNS"} => CountOf(Kids(n), "FULL") <= 1
      /\ Type(n) = "SHOW_TABLES" => CountOf(Kids(n), "TABLES") = 1
                                    /\ CountOf(Kids(n), "SHOW_FROM") <= 1
      /\ Type(n) = "SHOW_COLUMNS" => CountOf(Kids(n), "TABLES") = 0
                                     /\ CountOf(Kids(n), "SHOW_FROM") \in {1, 2}
      /\ Type(n) = "USE_DATABASE" => CountOf(Kids(n), "USE") = 1 /\ CountOf(Kids(n), "ID") = 1
  BY <1>1 DEF Grammatical, Type, Kids, CountOf
<1>6. DOMAIN Kids(n) = 1 .. Len(Kids(n))
  BY <1>1
<1>7. Len(Kids(n)) = 1 => DOMAIN Kids(n) = {1} /\ 1 \in DOMAIN Kids(n)
  BY <1>6
<1>8. /\ Type(n) \in {"SHOW_TABLES", "SHOW_COLUMNS"} => Once(Kids(n), "FULL")
      /\ Type(n) = "SHOW_TABLES" => Once(Kids(n), "TABLES") /\ Once(Kids(n), "SHOW_FROM")
  BY <1>3, <1>5
<1>9. Type(n) = "SHOW_COLUMNS" =>
        ~Has(Kids(n), "TABLES") /\ Has(Kids(n), "SHOW_FROM") /\ Twice(Kids(n), "SHOW_FROM")
  <2>1. ASSUME Type(n) = "SHOW_COLUMNS"
        PROVE  CountOf(Kids(n), "SHOW_FROM") # 0 /\ CountOf(Kids(n), "SHOW_FROM") <= 2
    BY <1>5, <2>1
  <2> QED BY <2>1, <1>3, <1>5
<1>10. Type(n) = "USE_DATABASE" =>
         /\ Has(Kids(n), "USE") /\ Has(Kids(n), "ID")
         /\ Once(Kids(n), "USE") /\ Once(Kids(n), "ID")
  <2>1. ASSUME Type(n) = "USE_DATABASE"
        PROVE  /\ CountOf(Kids(n), "USE") # 0 /\ CountOf(Kids(n), "USE") <= 1
               /\ CountOf(Kids(n), "ID") # 0 /\ CountOf(Kids(n), "ID") <= 1
    BY <1>5, <2>1
  <2> QED BY <2>1, <1>3
<1>11. QED BY <1>4, <1>7, <1>8, <1>9, <1>10

-----------------------------------------------------------------------------
(* The nodes of a type in a list, and what deleting does to them.          *)
Of(list, type) == {m \in Range(list) : Type(m) = type}

(* The same in terms of sets: what is found is the least of its type, and  *)
(* deleting takes the least of one type and nothing of another.            *)
LEMMA OfFacts ==
  ASSUME NEW list, Rising(list), NEW type
  PROVE  /\ Has(list, type) <=> Of(list, type) # {}
         /\ Has(list, type) => /\ Find(list, type) \in DOMAIN list
                               /\ Min(Of(list, type)) = list[Find(list, type)]
                               /\ In(list[Find(list, type)], list)
                               /\ Type(list[Find(list, type)]) = type
         /\ Has(list, type) =>
              Of(Without(list, type), type) = Of(list, type) \ {Min(Of(list, type))}
         /\ \A other : other # type => Of(Without(list, type), other) = Of(list, other)
<1>1. \A l, t, m : m \in Of(l, t) <=> In(m, l) /\ Type(m) = t
  BY DEF Of, In, Range
<1>2. Has(list, type) <=> Of(list, type) # {}
  <2>1. Has(list, type) <=> \E p \in DOMAIN list : Type(list[p]) = type
    BY FindFacts
  <2> QED BY <2>1 DEF Of, Range
<1>3. ASSUME Has(list, type)
      PROVE  /\ Find(list, type) \in DOMAIN list
             /\ Min(Of(list, type)) = list[Find(list, type)]
             /\ In(list[Find(list, type)], list)
             /\ Type(list[Find(list, type)]) = type
  <2>1. Find(list, type) \in DOMAIN list
    BY <1>3, FindFacts
  <2>2. Min({m \in Range(list) : Type(m) = type}) = list[Find(list, type)]
    BY <1>3, FoundIsLeast
  <2>3. In(list[Find(list, type)], list) /\ Type(list[Find(list, type)]) = type
    BY <1>3, FoundIsLeast
  <2> QED BY <2>1, <2>2, <2>3 DEF Of
<1>4. \A m : In(m, Without(list, type)) <=>
               In(m, list) /\ ~(Has(list, type) /\ m = list[Find(list, type)])
  BY WithoutFacts
<1>5. ASSUME Has(list, type)
      PROVE  Of(Without(list, type), type) = Of(list, type) \ {Min(Of(list, type))}
  <2>1. \A m : m \in Of(Without(list, type), type) <=>
                 m \in Of(list, type) /\ m # list[Find(list, type)]
    BY <1>1, <1>4, <1>5
  <2> QED BY <2>1, <1>3, <1>5
<1>6. ASSUME NEW other, other # type
      PROVE  Of(Without(list, type), other) = Of(list, other)
  <2>1. \A m : m \in Of(Without(list, type), other) <=> m \in Of(list, other)
    BY <1>1, <1>3, <1>4, <1>6
  <2> QED BY <2>1
<1>7. QED BY <1>2, <1>3, <1>5, <1>6

-----------------------------------------------------------------------------
(* What is left of the lists, and what the texts have become.              *)
ListInv ==
  \A n \in Nodes :
    /\ Rising(kids[n])
    /\ \A m : In(m, kids[n]) => m \in Nodes /\ Parent(m) = n
    /\ IsHandled(n) => \A m \in Nodes : Parent(m) = n => (In(m, kids[n]) <=> ~TakenOut(m))

Touchable == {"USE", "ID", "SHOW", "CALL_PARAMETER"}
TextInv ==
  \A m \in Nodes :
    /\ text[m] \in Seq(STRING)
    /\ \/ text[m] = source[m].text
       \/ IsHandled(m) /\ Type(m) \in {"LOCK_TABLE", "FOUND_ROWS"}
       \/ /\ Type(m) \in Touchable /\ IsHandled(Parent(m))
          /\ Renamed(m) \/ Type(Parent(m)) = "FUNCTION_IF"
    /\ IsHandled(m) /\ Type(m) = "LOCK_TABLE" => text[m] = << >>
    /\ IsHandled(m) /\ Type(m) = "FOUND_ROWS" => text[m] = <<"ws->found_rows", "AS">>

(* The answer to a SHOW in the texts t.                                    *)
Answered(t, n) ==
  LET show    == source[n].kids[1]
      froms   == Asked(n, "SHOW_FROM")
      columns == IF Asked(n, "FULL") = {} THEN "normal" ELSE "full"
      where   == IF Asked(n, "SHOW_LIKE") = {} THEN "" ELSE "WHERE"
      Said(set) == IF set = {} THEN "current_schema()" ELSE Bare[NameIn(Min(set)).text[1]]
  IN  (\A from \in froms : NameIn(from).type # "FOUND_ROWS") =>
        /\ source[n].type = "SHOW_TABLES" => t[show] = Tables(columns, Said(froms), where)
        /\ source[n].type = "SHOW_COLUMNS" =>
             t[show] = Columns(columns, Said(froms), Said(froms \ {Min(froms)}), where)
AnswerInv == \A n \in Nodes : IsHandled(n) => Answered(text, n)

RewriteInv == ListInv /\ TextInv /\ AnswerInv /\ PrefixLeadsThePath

(* What a handler does to the tree, all of it to its child c or to the     *)
(* children of c.                                                          *)
Rewrote(c) ==
  /\ DOMAIN text' = Nodes
  /\ Rising(kids'[c]) /\ \A m : In(m, kids'[c]) => m \in Nodes /\ Parent(m) = c
  /\ \A m \in Nodes : Parent(m) = c => (In(m, kids'[c]) <=> ~TakenOut(m))
  /\ \A m \in Nodes :
       /\ text'[m] \in Seq(STRING)
       /\ \/ text'[m] = text[m]
          \/ m = c /\ Type(c) \in {"LOCK_TABLE", "FOUND_ROWS"}
          \/ /\ Parent(m) = c /\ Type(m) \in Touchable
             /\ Renamed(m) \/ Type(c) = "FUNCTION_IF"
  /\ Type(c) = "LOCK_TABLE" => text'[c] = << >>
  /\ Type(c) = "FOUND_ROWS" => text'[c] = <<"ws->found_rows", "AS">>
  /\ Type(c) # "USE_DATABASE" => schemaName' = schemaName
  /\ Type(c) = "USE_DATABASE" =>
       \A id \in Nodes : Parent(id) = c /\ Type(id) = "ID" =>
         /\ text'[id] = source[id].text \o <<",public">>
         /\ schemaName' = source[id].text \o <<".">>
  /\ Answered(text', c)

(* What a handler finds.                                                   *)
LEMMA AtHandler ==
  ASSUME WalkInv, RewriteInv, AtChild, NEW c, c = child
  PROVE  /\ WellFormed(source) /\ c \in Nodes /\ c > 1 /\ ~IsHandled(c)
         /\ kids[c] = Kids(c) /\ Rising(Kids(c))
         /\ DOMAIN text = Nodes /\ DOMAIN kids = Nodes
         /\ \A m \in Nodes : text[m] \in Seq(STRING)
         /\ \A m : In(m, Kids(c)) => m \in Nodes /\ Parent(m) = c /\ m # c
         /\ \A m \in Nodes : Parent(m) = c => In(m, Kids(c))
         /\ \A m \in Nodes : Parent(m) = c /\ Type(m) \notin {"LOCK_TABLE", "FOUND_ROWS"}
                               => text[m] = source[m].text
<1>1. stack # << >>
  BY DEF AtChild
<1>2. /\ WellFormed(source) /\ c \in Nodes /\ ~IsHandled(c) /\ kids[c] = Kids(c)
      /\ c # 1
  <2>1. /\ child \in Nodes /\ ~IsHandled(child) /\ kids[child] = Kids(child)
        /\ Under(child, Top.node) /\ Top.node \in Nodes
    BY <1>1, TopFacts
  <2>2. child # 1
    BY <2>1 DEF Under, Nodes
  <2> QED BY <2>1, <2>2 DEF WalkInv, Typed
<1>3. /\ Rising(Kids(c)) /\ \A m \in Nodes : In(m, Kids(c)) <=> Parent(m) = c
      /\ \A m : In(m, Kids(c)) => m \in Nodes /\ m > 1
  BY <1>2, ParsedLists
<1>4. \A m \in Nodes : m > 1 => Parent(m) < m
  BY <1>2, NodeFacts
<1>5. \A m : In(m, Kids(c)) => m \in Nodes /\ Parent(m) = c /\ m # c
  BY <1>2, <1>3, <1>4 DEF Nodes
<1>6. \A m \in Nodes : Parent(m) = c /\ Type(m) \notin {"LOCK_TABLE", "FOUND_ROWS"}
                         => text[m] = source[m].text
  BY <1>2 DEF RewriteInv, TextInv
<1>7. QED BY <1>2, <1>3, <1>5, <1>6 DEF WalkInv, Typed, RewriteInv, TextInv, Nodes

(* The name in a FROM of the statement that is handled.                    *)
LEMMA NameFacts ==
  ASSUME WalkInv, RewriteInv, AtChild, NEW c, c = child,
         NEW from, In(from, Kids(c)), Type(from) = "SHOW_FROM"
  PROVE  /\ Name(from) \in STRING
         /\ NameIn(from).type # "FOUND_ROWS" => Name(from) = Bare[NameIn(from).text[1]]
<1>1. /\ WellFormed(source) /\ from \in Nodes
  BY AtHandler
<1>2. ~IsHandled(from) /\ kids[from] = Kids(from)
  <2>1. \A m : IsHandled(m) => Type(m) \in Rewritten
    BY DEF WalkInv, Typed, IsHandled
  <2>2. "SHOW_FROM" \notin Rewritten
    BY DEF Rewritten
  <2>3. ~IsHandled(from)
    BY <2>1, <2>2
  <2> QED BY <1>1, <2>3 DEF WalkInv, Lists
<1> DEFINE k == Kids(from)[1]
<1>3. /\ 1 \in DOMAIN Kids(from) /\ Type(k) \in {"ID", "FOUND_ROWS"}
      /\ source[k].text # << >> /\ source[k].text[1] \in DOMAIN Bare
  BY <1>1, Shapes
<1>4. k \in Nodes /\ Parent(k) = from
  BY <1>1, <1>3, KidFacts
<1>5. Name(from) = Bare[text[k][1]]
  BY <1>2 DEF Name
<1>6. NameIn(from) = source[k]
  BY DEF NameIn, Kids
<1> HIDE DEF k
<1>7. /\ \/ text[k] = source[k].text
         \/ IsHandled(k) /\ Type(k) \in {"LOCK_TABLE", "FOUND_ROWS"}
         \/ IsHandled(Parent(k))
      /\ IsHandled(k) /\ Type(k) = "FOUND_ROWS" => text[k] = <<"ws->found_rows", "AS">>
  BY <1>4 DEF RewriteInv, TextInv
<1>8. text[k] = source[k].text \/ (Type(k) = "FOUND_ROWS" /\ text[k][1] = "ws->found_rows")
  BY <1>2, <1>3, <1>4, <1>7
<1>9. text[k][1] \in DOMAIN Bare
  BY <1>3, <1>8, BareAssumption
<1>10. Name(from) \in STRING
  BY <1>5, <1>9, BareAssumption
<1>11. source[k].type # "FOUND_ROWS" => Name(from) = Bare[source[k].text[1]]
  BY <1>5, <1>8 DEF Type
<1>12. QED BY <1>6, <1>10, <1>11

-----------------------------------------------------------------------------
(* Texts of a few pieces.                                                  *)
LEMMA ShortLists ==
  ASSUME NEW S, NEW a \in S, NEW b \in S, NEW c \in S, NEW d \in S, NEW e \in S
  PROVE  /\ <<a>> \in Seq(S) /\ <<a, b>> \in Seq(S) /\ <<a, b, c, d>> \in Seq(S)
         /\ <<a, b, c, d, e>> \in Seq(S)
OBVIOUS

(* The words that are written are texts.                                   *)
LEMMA WrittenFacts ==
  /\ \A w \in Written : w \in STRING /\ <<w>> \in Seq(STRING)
  /\ \A s \in Seq(STRING), w \in Written : Append(s, w) \in Seq(STRING)
                                           /\ Append(s, w) = s \o <<w>>
<1>1. ASSUME NEW w \in Written
      PROVE  w \in STRING /\ <<w>> \in Seq(STRING)
  <2>1. w \in STRING
    BY WrittenAssumption
  <2> QED BY <2>1, ShortLists
<1>2. ASSUME NEW s \in Seq(STRING), NEW w \in Written
      PROVE  Append(s, w) \in Seq(STRING) /\ Append(s, w) = s \o <<w>>
  BY <1>1, AppendIsConcat, AppendProperties
<1>3. QED BY <1>1, <1>2

(* use_database_worker: the name is read before it is appended to, and the *)
(* two nodes that are written are the only ones of their types.            *)
LEMMA UseDatabaseRewrites ==
  ASSUME WalkInv, RewriteInv, UseDatabase, NEW c, c = child
  PROVE  Rewrote(c)
<1>0. AtChild /\ Type(c) = "USE_DATABASE" /\ kids' = kids
  BY DEF UseDatabase, Handle, Type
<1>1. /\ WellFormed(source) /\ c \in Nodes /\ c > 1 /\ ~IsHandled(c)
      /\ kids[c] = Kids(c) /\ Rising(Kids(c))
      /\ DOMAIN text = Nodes /\ DOMAIN kids = Nodes
      /\ \A m \in Nodes : text[m] \in Seq(STRING)
      /\ \A m : In(m, Kids(c)) => m \in Nodes /\ Parent(m) = c /\ m # c
      /\ \A m \in Nodes : Parent(m) = c => In(m, Kids(c))
      /\ \A m \in Nodes : Parent(m) = c /\ Type(m) \notin {"LOCK_TABLE", "FOUND_ROWS"}
                            => text[m] = source[m].text
  BY <1>0, AtHandler
<1>2. /\ Has(Kids(c), "USE") /\ Has(Kids(c), "ID")
      /\ Once(Kids(c), "USE") /\ Once(Kids(c), "ID")
  BY <1>0, <1>1, Shapes
<1> DEFINE use == Kids(c)[Find(Kids(c), "USE")]
           id  == Kids(c)[Find(Kids(c), "ID")]
<1>3. /\ In(use, Kids(c)) /\ Type(use) = "USE" /\ In(id, Kids(c)) /\ Type(id) = "ID"
  BY <1>1, <1>2, OfFacts
<1>4. /\ text' = [text EXCEPT ![use] = <<"SET_search_path">>, ![id] = Append(@, ",public")]
      /\ schemaName' = Append(text[id], ".")
  BY <1>1 DEF UseDatabase
<1> HIDE DEF use, id
<1>5. use \in Nodes /\ id \in Nodes /\ use # id /\ Parent(use) = c /\ Parent(id) = c
      /\ use # c /\ id # c
  BY <1>1, <1>3
<1>6. /\ DOMAIN text' = Nodes /\ text'[use] = <<"SET_search_path">>
      /\ text'[id] = Append(text[id], ",public")
      /\ \A m \in Nodes : m # use /\ m # id => text'[m] = text[m]
  BY <1>1, <1>4, <1>5
<1>7. /\ <<"SET_search_path">> \in Seq(STRING)
      /\ \A s \in Seq(STRING) : /\ Append(s, ",public") \in Seq(STRING)
                                /\ Append(s, ",public") = s \o <<",public">>
                                /\ Append(s, ".") = s \o <<".">>
  BY WrittenFacts DEF Written
<1>8. text[id] = source[id].text
  BY <1>1, <1>3, <1>5
<1>9. Renamed(use) /\ Renamed(id)
  <2>1. c > 0 /\ source[c].type = "USE_DATABASE"
    BY <1>0, <1>1 DEF Type, Nodes
  <2> QED BY <2>1, <1>5 DEF Renamed, Parent
<1>10. \A m \in Nodes :
         /\ text'[m] \in Seq(STRING)
         /\ \/ text'[m] = text[m]
            \/ m = c /\ Type(c) \in {"LOCK_TABLE", "FOUND_ROWS"}
            \/ /\ Parent(m) = c /\ Type(m) \in Touchable
               /\ Renamed(m) \/ Type(c) = "FUNCTION_IF"
  BY <1>1, <1>3, <1>5, <1>6, <1>7, <1>9 DEF Touchable
<1>11. \A i \in Nodes : Parent(i) = c /\ Type(i) = "ID" =>
         /\ text'[i] = source[i].text \o <<",public">>
         /\ schemaName' = source[i].text \o <<".">>
  <2>1. \A i \in Nodes : Parent(i) = c /\ Type(i) = "ID" => i = id
    BY <1>1, <1>2, <1>3, <1>5 DEF Once, Nodes
  <2>2. text[id] \in Seq(STRING)
    BY <1>1, <1>5
  <2>3. text'[id] = source[id].text \o <<",public">> /\ schemaName' = source[id].text \o <<".">>
    BY <2>2, <1>4, <1>6, <1>7, <1>8
  <2> QED BY <2>1, <2>3
<1>12. /\ Rising(kids'[c]) /\ \A m : In(m, kids'[c]) => m \in Nodes /\ Parent(m) = c
       /\ \A m \in Nodes : Parent(m) = c => (In(m, kids'[c]) <=> ~TakenOut(m))
  <2>1. \A m \in Nodes : Parent(m) = c => ~TakenOut(m)
    BY <1>0 DEF TakenOut, Parent, Type
  <2> QED BY <2>1, <1>0, <1>1
<1>13. Answered(text', c)
  BY <1>0 DEF Answered, Type
<1>14. QED BY <1>0, <1>6, <1>10, <1>11, <1>12, <1>13 DEF Rewrote

(* lock_tables_worker                                                      *)
LEMMA LockTablesRewrites ==
  ASSUME WalkInv, RewriteInv, LockTables, NEW c, c = child
  PROVE  Rewrote(c)
<1>0. /\ AtChild /\ Type(c) = "LOCK_TABLE" /\ schemaName' = schemaName
      /\ kids' = [kids EXCEPT ![c] = << >>] /\ text' = [text EXCEPT ![c] = << >>]
  BY DEF LockTables, Handle, Type
<1>1. /\ WellFormed(source) /\ c \in Nodes /\ c > 1
      /\ DOMAIN text = Nodes /\ DOMAIN kids = Nodes
      /\ \A m \in Nodes : text[m] \in Seq(STRING)
  BY <1>0, AtHandler
<1>2. /\ DOMAIN text' = Nodes /\ text'[c] = << >> /\ kids'[c] = << >>
      /\ \A m \in Nodes : m # c => text'[m] = text[m]
  BY <1>0, <1>1
<1>3. Rising(<< >>) /\ \A m : ~In(m, << >>)
  BY DEF Rising, In
<1>4. \A m \in Nodes : Parent(m) = c => TakenOut(m)
  BY <1>0, <1>1 DEF TakenOut, Parent, Type
<1>5. Answered(text', c)
  BY <1>0 DEF Answered, Type
<1>6. \A m \in Nodes : text'[m] \in Seq(STRING)
                      /\ (text'[m] = text[m] \/ (m = c /\ Type(c) \in {"LOCK_TABLE", "FOUND_ROWS"}))
  <2>1. << >> \in Seq(STRING)
    OBVIOUS
  <2> QED BY <1>0, <1>1, <1>2, <2>1
<1>7. QED BY <1>0, <1>2, <1>3, <1>4, <1>5, <1>6 DEF Rewrote

(* rewrite_found_rows                                                      *)
LEMMA FoundRowsRewrites ==
  ASSUME WalkInv, RewriteInv, FoundRows, NEW c, c = child
  PROVE  Rewrote(c)
<1>0. /\ AtChild /\ Type(c) = "FOUND_ROWS" /\ schemaName' = schemaName
      /\ kids' = kids /\ text' = [text EXCEPT ![c] = <<"ws->found_rows", "AS">>]
  BY DEF FoundRows, Handle, Type
<1>1. /\ WellFormed(source) /\ c \in Nodes /\ c > 1 /\ kids[c] = Kids(c) /\ Rising(Kids(c))
      /\ DOMAIN text = Nodes /\ DOMAIN kids = Nodes
      /\ \A m \in Nodes : text[m] \in Seq(STRING)
      /\ \A m : In(m, Kids(c)) => m \in Nodes /\ Parent(m) = c /\ m # c
      /\ \A m \in Nodes : Parent(m) = c => In(m, Kids(c))
  BY <1>0, AtHandler
<1>2. /\ DOMAIN text' = Nodes /\ text'[c] = <<"ws->found_rows", "AS">>
      /\ \A m \in Nodes : m # c => text'[m] = text[m]
  BY <1>0, <1>1
<1>3. <<"ws->found_rows", "AS">> \in Seq(STRING)
  <2>1. "ws->found_rows" \in STRING /\ "AS" \in STRING
    BY WrittenAssumption DEF Written
  <2> QED BY <2>1, ShortLists
<1>4. \A m \in Nodes : Parent(m) = c => ~TakenOut(m)
  BY <1>0 DEF TakenOut, Parent, Type
<1>5. Answered(text', c)
  BY <1>0 DEF Answered, Type
<1>6. QED BY <1>0, <1>1, <1>2, <1>3, <1>4, <1>5 DEF Rewrote

(* rewrite_server_variables, wherever its search begins: it writes the one *)
(* child or none, and that only if the name as parsed is a version.        *)
LEMMA ServerVariableRewrites ==
  ASSUME WalkInv, RewriteInv, ServerVariable, NEW c, c = child
  PROVE  Rewrote(c)
<1>0. AtChild /\ Type(c) = "SERVER_VARIABLE" /\ kids' = kids /\ schemaName' = schemaName
  BY DEF ServerVariable, Handle, Type
<1>1. /\ WellFormed(source) /\ c \in Nodes /\ c > 1 /\ kids[c] = Kids(c) /\ Rising(Kids(c))
      /\ DOMAIN text = Nodes /\ DOMAIN kids = Nodes
      /\ \A m \in Nodes : text[m] \in Seq(STRING)
      /\ \A m : In(m, Kids(c)) => m \in Nodes /\ Parent(m) = c /\ m # c
      /\ \A m \in Nodes : Parent(m) = c => In(m, Kids(c))
      /\ \A m \in Nodes : Parent(m) = c /\ Type(m) \notin {"LOCK_TABLE", "FOUND_ROWS"}
                            => text[m] = source[m].text
  BY <1>0, AtHandler
<1>2. DOMAIN Kids(c) = {1} /\ Type(Kids(c)[1]) = "ID"
  BY <1>0, <1>1, Shapes
<1> DEFINE id == Kids(c)[1]
<1>3. In(id, Kids(c)) /\ id \in Nodes /\ Parent(id) = c /\ id # c /\ Type(id) = "ID"
  BY <1>1, <1>2 DEF In
<1>4. text' = text \/ (text' = [text EXCEPT ![id] = <<"VERSION_SQL">>] /\ IsVersion(text[id]))
  <2>1. PICK pos \in {1, 2} :
          text' = IF pos \in DOMAIN kids[child] /\ IsVersion(text[kids[child][pos]])
                  THEN [text EXCEPT ![kids[child][pos]] = <<"VERSION_SQL">>] ELSE text
    BY DEF ServerVariable
  <2>2. kids[child] = Kids(c)
    BY <1>1
  <2>3. pos \in DOMAIN Kids(c) => pos = 1
    BY <1>2
  <2> QED BY <2>1, <2>2, <2>3
<1>5. text[id] = source[id].text
  BY <1>1, <1>3
<1>6. IsVersion(text[id]) => Renamed(id)
  <2>1. c > 0 /\ source[c].type = "SERVER_VARIABLE" /\ source[id].parent = c
    BY <1>0, <1>1, <1>3 DEF Type, Parent, Nodes
  <2>2. IsVersion(text[id]) => IsVersion(source[id].text)
    BY <1>5
  <2> HIDE DEF id
  <2> QED BY <2>1, <2>2 DEF Renamed
<1> HIDE DEF id
<1>7. /\ DOMAIN text' = Nodes /\ \A m \in Nodes : m # id => text'[m] = text[m]
      /\ text'[id] = text[id] \/ (text'[id] = <<"VERSION_SQL">> /\ Renamed(id))
  BY <1>1, <1>3, <1>4, <1>6
<1>8. <<"VERSION_SQL">> \in Seq(STRING)
  BY WrittenFacts DEF Written
<1>9. \A m \in Nodes : Parent(m) = c => ~TakenOut(m)
  BY <1>0 DEF TakenOut, Parent, Type
<1>10. Answered(text', c)
  BY <1>0 DEF Answered, Type
<1>11. \A m \in Nodes :
         /\ text'[m] \in Seq(STRING)
         /\ \/ text'[m] = text[m]
            \/ m = c /\ Type(c) \in {"LOCK_TABLE", "FOUND_ROWS"}
            \/ /\ Parent(m) = c /\ Type(m) \in Touchable
               /\ Renamed(m) \/ Type(c) = "FUNCTION_IF"
  BY <1>1, <1>3, <1>7, <1>8 DEF Touchable
<1>12. QED BY <1>0, <1>1, <1>7, <1>9, <1>10, <1>11 DEF Rewrote

(* rewrite_if_function: of three parameters the first is left.             *)
LEMMA FunctionIfRewrites ==
  ASSUME WalkInv, RewriteInv, FunctionIf, NEW c, c = child
  PROVE  Rewrote(c)
<1>0. AtChild /\ Type(c) = "FUNCTION_IF" /\ schemaName' = schemaName
  BY DEF FunctionIf, Handle, Type
<1>1. /\ WellFormed(source) /\ c \in Nodes /\ c > 1 /\ kids[c] = Kids(c) /\ Rising(Kids(c))
      /\ DOMAIN text = Nodes /\ DOMAIN kids = Nodes
      /\ \A m \in Nodes : text[m] \in Seq(STRING)
      /\ \A m : In(m, Kids(c)) => m \in Nodes /\ Parent(m) = c /\ m # c
      /\ \A m \in Nodes : Parent(m) = c => In(m, Kids(c))
  BY <1>0, AtHandler
<1>2. Len(Kids(c)) = 3 /\ \A p \in 1 .. 3 : Type(Kids(c)[p]) = "CALL_PARAMETER"
  BY <1>0, <1>1, Shapes
<1> DEFINE list  == Kids(c)
           one   == RemoveAt(list, 2)
           left  == RemoveAt(one, 2)
           first == list[1]
<1>3. DOMAIN list = 1 .. 3
  BY <1>1, <1>2 DEF Rising
<1>4. \A p \in 1 .. 3 : In(list[p], list) /\ list[p] \in Nodes
  BY <1>1, <1>3 DEF In
<1>5. /\ text' = [text EXCEPT ![first] = Case(list)] /\ kids' = [kids EXCEPT ![c] = left]
  BY <1>1 DEF FunctionIf
<1>6. /\ Rising(one) /\ Len(one) = 2 /\ one[1] = list[1] /\ one[2] = list[3]
      /\ \A m : In(m, one) <=> In(m, list) /\ m # list[2]
  <2>1. Rising(list) /\ 2 \in 1 .. Len(list) /\ Len(list) = 3
    BY <1>1, <1>2
  <2> HIDE DEF list
  <2>2. /\ Rising(one) /\ Len(one) = Len(list) - 1
        /\ \A k \in 1 .. Len(list) - 1 : one[k] = IF k < 2 THEN list[k] ELSE list[k + 1]
        /\ \A m : In(m, one) <=> In(m, list) /\ m # list[2]
    BY <2>1, RemovedFacts
  <2> HIDE DEF one
  <2>3. 1 \in 1 .. Len(list) - 1 /\ 2 \in 1 .. Len(list) - 1
    BY <2>1
  <2> QED BY <2>1, <2>2, <2>3
<1>7. /\ Rising(left) /\ \A m : In(m, left) <=> In(m, one) /\ m # list[3]
  <2> HIDE DEF one
  <2>1. 2 \in 1 .. Len(one)
    BY <1>6
  <2>2. Rising(left) /\ \A m : In(m, left) <=> In(m, one) /\ m # one[2]
    BY <1>6, <2>1, RemovedFacts
  <2> QED BY <1>6, <2>2
<1> HIDE DEF left, one
<1>8. \A m : In(m, list) => m = list[1] \/ m = list[2] \/ m = list[3]
  BY <1>3 DEF In
<1>9. list[1] # list[2] /\ list[1] # list[3]
  <2>1. list[1] < list[2] /\ list[1] < list[3]
    BY <1>1, <1>3 DEF Rising
  <2>2. list[1] \in Nat
    BY <1>4 DEF Nodes
  <2> QED BY <2>1, <2>2
<1>10. \A m : In(m, left) <=> m = first
  BY <1>4, <1>6, <1>7, <1>8, <1>9
<1>11. \A m \in Nodes : Parent(m) = c => (TakenOut(m) <=> m # first)
  <2>1. c > 0 /\ source[c].type = "FUNCTION_IF" /\ first = source[c].kids[1]
    BY <1>0, <1>1 DEF Type, Kids, Nodes
  <2> HIDE DEF first
  <2> QED BY <2>1 DEF TakenOut, Parent
<1>12. /\ text[list[1]] \in Seq(STRING) /\ text[list[2]] \in Seq(STRING)
       /\ text[list[3]] \in Seq(STRING) /\ <<"CASE">> \in Seq(STRING)
  <2>1. <<"CASE">> \in Seq(STRING)
    BY WrittenFacts DEF Written
  <2>2. list[1] \in Nodes /\ list[2] \in Nodes /\ list[3] \in Nodes
    BY <1>4
  <2> HIDE DEF list
  <2> QED BY <1>1, <2>1, <2>2
<1>13. Case(list) \in Seq(STRING)
  <2>1. \A a, b \in Seq(STRING) : a \o b \in Seq(STRING)
    OBVIOUS
  <2> QED BY <1>12, <2>1 DEF Case
<1>14. In(first, list) /\ first \in Nodes /\ Parent(first) = c /\ first # c
       /\ Type(first) = "CALL_PARAMETER"
  BY <1>1, <1>2, <1>4
<1> HIDE DEF first, list
<1>15. /\ DOMAIN text' = Nodes /\ text'[first] = Case(list)
       /\ \A m \in Nodes : m # first => text'[m] = text[m]
       /\ kids'[c] = left
  BY <1>1, <1>5, <1>14
<1>16. Answered(text', c)
  BY <1>0 DEF Answered, Type
<1>17. \A m \in Nodes :
         /\ text'[m] \in Seq(STRING)
         /\ \/ text'[m] = text[m]
            \/ m = c /\ Type(c) \in {"LOCK_TABLE", "FOUND_ROWS"}
            \/ /\ Parent(m) = c /\ Type(m) \in Touchable
               /\ Renamed(m) \/ Type(c) = "FUNCTION_IF"
  BY <1>0, <1>1, <1>13, <1>14, <1>15 DEF Touchable
<1>18. \A m : In(m, kids'[c]) => m \in Nodes /\ Parent(m) = c
  BY <1>10, <1>14, <1>15
<1>19. QED BY <1>0, <1>7, <1>10, <1>11, <1>15, <1>16, <1>17, <1>18 DEF Rewrote

-----------------------------------------------------------------------------
(* The first word of a SHOW is the first child of its type, whatever was   *)
(* deleted behind it.                                                      *)
LEMMA ShowIsFirst ==
  ASSUME NEW list, Rising(list), list # << >>, Type(list[1]) = "SHOW",
         NEW left, Rising(left), Of(left, "SHOW") = Of(list, "SHOW")
  PROVE  Has(left, "SHOW") /\ left[Find(left, "SHOW")] = list[1]
<1>1. /\ DOMAIN list = 1 .. Len(list) /\ 1 \in DOMAIN list
      /\ \A p \in DOMAIN list : list[p] \in Nat
      /\ \A p, q \in DOMAIN list : p < q => list[p] < list[q]
  <2>1. list \in Seq(Nat)
    BY DEF Rising
  <2> QED BY <2>1 DEF Rising
<1>2. list[1] \in Of(list, "SHOW") /\ \A m \in Of(list, "SHOW") : list[1] <= m /\ m \in Nat
  BY <1>1 DEF Of, Range
<1>3. Has(left, "SHOW")
  BY <1>2, OfFacts
<1>4. left[Find(left, "SHOW")] = Min(Of(list, "SHOW"))
  BY <1>3, OfFacts
<1>5. Min(Of(list, "SHOW")) = list[1]
  <2> DEFINE S == Of(list, "SHOW")
             f == list[1]
  <2>1. f \in S /\ \A m \in S : f <= m /\ m \in Nat
    BY <1>2
  <2> HIDE DEF S, f
  <2>2. Min(S) \in S /\ \A y \in S : Min(S) <= y
    BY <2>1 DEF Min
  <2>3. Min(S) = f
    BY <2>1, <2>2
  <2> QED BY <2>3 DEF S, f
<1>6. QED BY <1>3, <1>4, <1>5

(* What a statement asks for, as a set of its list.                        *)
LEMMA AskedIsOf ==
  ASSUME WellFormed(source), NEW n \in Nodes, NEW type
  PROVE  Asked(n, type) = Of(Kids(n), type)
BY DEF Asked, Of, Kids, Type

(* show_tables_rewrite: the query takes the place of the first word, and   *)
(* is made of what the statement asked for before it was deleted.          *)
LEMMA ShowTablesRewrites ==
  ASSUME WalkInv, RewriteInv, ShowTables, NEW c, c = child
  PROVE  Rewrote(c)
<1>0. AtChild /\ Type(c) = "SHOW_TABLES" /\ schemaName' = schemaName
  BY DEF ShowTables, Handle, Type
<1>1. /\ WellFormed(source) /\ c \in Nodes /\ c > 1 /\ kids[c] = Kids(c) /\ Rising(Kids(c))
      /\ DOMAIN text = Nodes /\ DOMAIN kids = Nodes
      /\ \A m \in Nodes : text[m] \in Seq(STRING)
      /\ \A m : In(m, Kids(c)) => m \in Nodes /\ Parent(m) = c /\ m # c
      /\ \A m \in Nodes : Parent(m) = c => In(m, Kids(c))
  BY <1>0, AtHandler
<1>2. /\ Kids(c) # << >> /\ Type(Kids(c)[1]) = "SHOW" /\ Once(Kids(c), "FULL")
      /\ Once(Kids(c), "TABLES") /\ Once(Kids(c), "SHOW_FROM")
  BY <1>0, <1>1, Shapes
<1> DEFINE list    == Kids(c)
           froms   == Of(list, "SHOW_FROM")
           one     == Without(list, "SHOW_FROM")
           two     == Without(one, "FULL")
           left    == Without(two, "TABLES")
           show    == list[1]
           schema  == IF Has(list, "SHOW_FROM") THEN Name(list[Find(list, "SHOW_FROM")])
                      ELSE "current_schema()"
           where   == IF Has(list, "SHOW_LIKE") THEN "WHERE" ELSE ""
           columns == IF Has(list, "FULL") THEN "full" ELSE "normal"
<1>3. show = list[Find(list, "SHOW")]
  BY <1>1, <1>2, ShowIsFirst
<1>4. /\ text' = [text EXCEPT ![list[Find(list, "SHOW")]] = Tables(columns, schema, where)]
      /\ kids' = [kids EXCEPT ![c] = left]
  BY <1>1 DEF ShowTables
<1>5. In(show, list) /\ show \in Nodes /\ Parent(show) = c /\ show # c /\ Type(show) = "SHOW"
  <2>1. 1 \in DOMAIN list
    <3>1. list \in Seq(Nat) /\ list # << >>
      BY <1>1, <1>2 DEF Rising
    <3> HIDE DEF list
    <3> QED BY <3>1
  <2>2. In(show, list)
    BY <2>1 DEF In
  <2> QED BY <2>2, <1>1, <1>2
<1>6. Renamed(show)
  <2>1. c > 0 /\ source[c].type = "SHOW_TABLES" /\ source[show].parent = c
        /\ source[show].type = "SHOW"
    BY <1>0, <1>1, <1>5 DEF Type, Parent, Nodes
  <2> HIDE DEF show
  <2> QED BY <2>1 DEF Renamed
(* The answer.                                                             *)
<1>7. columns \in STRING /\ where \in STRING /\ "current_schema()" \in STRING
      /\ "TABLES" \in STRING
  BY WrittenFacts DEF Written
<1>8. /\ Has(list, "SHOW_FROM") <=> froms # {}
      /\ Has(list, "SHOW_FROM") => /\ In(list[Find(list, "SHOW_FROM")], list)
                                   /\ Type(list[Find(list, "SHOW_FROM")]) = "SHOW_FROM"
                                   /\ Min(froms) = list[Find(list, "SHOW_FROM")]
                                   /\ list[Find(list, "SHOW_FROM")] \in froms
  <2> HIDE DEF list
  <2>1. Rising(list)
    BY <1>1 DEF list
  <2>2. /\ Has(list, "SHOW_FROM") <=> froms # {}
        /\ Has(list, "SHOW_FROM") => /\ In(list[Find(list, "SHOW_FROM")], list)
                                     /\ Type(list[Find(list, "SHOW_FROM")]) = "SHOW_FROM"
                                     /\ Min(froms) = list[Find(list, "SHOW_FROM")]
    BY <2>1, OfFacts
  <2>3. \A m : In(m, list) /\ Type(m) = "SHOW_FROM" => m \in froms
    BY DEF In, Of, Range
  <2> QED BY <2>2, <2>3
<1>9. Has(list, "SHOW_FROM") =>
        LET from == list[Find(list, "SHOW_FROM")]
        IN  /\ Name(from) \in STRING
            /\ NameIn(from).type # "FOUND_ROWS" => Name(from) = Bare[NameIn(from).text[1]]
  <2>1. \A from : In(from, list) /\ Type(from) = "SHOW_FROM" =>
          /\ Name(from) \in STRING
          /\ NameIn(from).type # "FOUND_ROWS" => Name(from) = Bare[NameIn(from).text[1]]
    BY <1>0, NameFacts
  <2> HIDE DEF list
  <2> QED BY <1>8, <2>1
<1>10. /\ schema \in STRING
       /\ (\A from \in froms : NameIn(from).type # "FOUND_ROWS") =>
             schema = IF froms = {} THEN "current_schema()" ELSE Bare[NameIn(Min(froms)).text[1]]
  <2> HIDE DEF list, froms
  <2> QED BY <1>7, <1>8, <1>9
<1>11. /\ Has(list, "FULL") <=> Asked(c, "FULL") # {}
       /\ Has(list, "SHOW_LIKE") <=> Asked(c, "SHOW_LIKE") # {}
       /\ froms = Asked(c, "SHOW_FROM")
  BY <1>1, OfFacts, AskedIsOf
<1>12. Tables(columns, schema, where) \in Seq(STRING)
  <2> HIDE DEF columns, schema, where
  <2> QED BY <1>7, <1>10, ShortLists DEF Tables
<1>13. /\ DOMAIN text' = Nodes /\ text'[show] = Tables(columns, schema, where)
       /\ \A m \in Nodes : m # show => text'[m] = text[m]
       /\ kids'[c] = left
  <2> DEFINE answer == Tables(columns, schema, where)
  <2>1. text' = [text EXCEPT ![show] = answer]
    BY <1>3, <1>4
  <2> HIDE DEF show, answer, left
  <2>2. /\ DOMAIN text' = Nodes /\ text'[show] = answer
        /\ \A m \in Nodes : m # show => text'[m] = text[m]
    BY <2>1, <1>1, <1>5
  <2> QED BY <2>2, <1>1, <1>4 DEF answer
<1>14. Answered(text', c)
  <2>1. ASSUME \A from \in froms : NameIn(from).type # "FOUND_ROWS"
        PROVE  text'[source[c].kids[1]] =
                 Tables(IF Asked(c, "FULL") = {} THEN "normal" ELSE "full",
                        IF froms = {} THEN "current_schema()" ELSE Bare[NameIn(Min(froms)).text[1]],
                        IF Asked(c, "SHOW_LIKE") = {} THEN "" ELSE "WHERE")
    <3>1. columns = IF Asked(c, "FULL") = {} THEN "normal" ELSE "full"
      BY <1>11
    <3>2. where = IF Asked(c, "SHOW_LIKE") = {} THEN "" ELSE "WHERE"
      BY <1>11
    <3>3. schema = IF froms = {} THEN "current_schema()" ELSE Bare[NameIn(Min(froms)).text[1]]
      BY <1>10, <2>1
    <3>4. source[c].kids[1] = show
      BY DEF Kids
    <3> HIDE DEF columns, where, schema, froms, show
    <3> QED BY <3>1, <3>2, <3>3, <3>4, <1>13
  <2> HIDE DEF froms
  <2>2. source[c].type = "SHOW_TABLES"
    BY <1>0 DEF Type
  <2> QED BY <2>1, <2>2, <1>11 DEF Answered
(* The list.                                                               *)
<1>15. /\ Rising(left)
       /\ \A m : In(m, left) => In(m, list) /\ Type(m) \notin {"SHOW_FROM", "FULL", "TABLES"}
       /\ \A m : In(m, list) /\ Type(m) \notin {"SHOW_FROM", "FULL", "TABLES"} => In(m, left)
  <2>1. Rising(list)
    BY <1>1
  <2>2. /\ Rising(one) /\ ~Has(one, "SHOW_FROM") /\ Once(one, "FULL") /\ Once(one, "TABLES")
        /\ \A m \in Nat : In(m, list) /\ Type(m) # "SHOW_FROM" => In(m, one)
        /\ \A m : In(m, one) => m \in Nat /\ In(m, list)
        /\ Has(one, "SHOW_FROM") <=> \E m \in Nat : In(m, one) /\ Type(m) = "SHOW_FROM"
    <3>1. Rising(one)
      BY <2>1, WithoutFacts
    <3> HIDE DEF list
    <3>2. Once(list, "SHOW_FROM") /\ Once(list, "FULL") /\ Once(list, "TABLES")
      BY <1>2 DEF list
    <3>3. /\ ~Has(one, "SHOW_FROM") /\ Once(one, "FULL") /\ Once(one, "TABLES")
          /\ \A m \in Nat : In(m, list) /\ Type(m) # "SHOW_FROM" => In(m, one)
          /\ \A m : In(m, one) => m \in Nat /\ In(m, list)
      BY <2>1, <3>2, FirstGone
    <3> HIDE DEF one
    <3>4. Has(one, "SHOW_FROM") <=> \E m \in Nat : In(m, one) /\ Type(m) = "SHOW_FROM"
      BY <3>1, FirstGone
    <3> QED BY <3>1, <3>3, <3>4
  <2> HIDE DEF list, one
  <2>3. /\ Rising(two) /\ ~Has(two, "FULL") /\ Once(two, "TABLES")
        /\ \A m \in Nat : In(m, one) /\ Type(m) # "FULL" => In(m, two)
        /\ \A m : In(m, two) => m \in Nat /\ In(m, one)
        /\ Has(two, "FULL") <=> \E m \in Nat : In(m, two) /\ Type(m) = "FULL"
    <3>1. Rising(two)
      BY <2>2, WithoutFacts
    <3>3. /\ ~Has(two, "FULL") /\ Once(two, "TABLES")
          /\ \A m \in Nat : In(m, one) /\ Type(m) # "FULL" => In(m, two)
          /\ \A m : In(m, two) => m \in Nat /\ In(m, one)
      BY <2>2, FirstGone
    <3> HIDE DEF two
    <3>4. Has(two, "FULL") <=> \E m \in Nat : In(m, two) /\ Type(m) = "FULL"
      BY <3>1, FirstGone
    <3> QED BY <3>1, <3>3, <3>4
  <2> HIDE DEF two
  <2>4. /\ Rising(left) /\ ~Has(left, "TABLES")
        /\ \A m \in Nat : In(m, two) /\ Type(m) # "TABLES" => In(m, left)
        /\ \A m : In(m, left) => m \in Nat /\ In(m, two)
        /\ Has(left, "TABLES") <=> \E m \in Nat : In(m, left) /\ Type(m) = "TABLES"
    <3>1. Rising(left)
      BY <2>3, WithoutFacts
    <3>3. /\ ~Has(left, "TABLES")
          /\ \A m \in Nat : In(m, two) /\ Type(m) # "TABLES" => In(m, left)
          /\ \A m : In(m, left) => m \in Nat /\ In(m, two)
      BY <2>3, FirstGone
    <3> HIDE DEF left
    <3>4. Has(left, "TABLES") <=> \E m \in Nat : In(m, left) /\ Type(m) = "TABLES"
      BY <3>1, FirstGone
    <3> QED BY <3>1, <3>3, <3>4
  <2> HIDE DEF left
  <2>5. \A m : In(m, list) => m \in Nat
    BY <2>1 DEF In, Rising
  <2> QED BY <2>2, <2>3, <2>4, <2>5
<1>16. \A m \in Nodes : Parent(m) = c =>
         (TakenOut(m) <=> Type(m) \in {"SHOW_FROM", "FULL", "TABLES"})
  <2>1. source[c].type = "SHOW_TABLES" /\ c > 0
    BY <1>0, <1>1 DEF Type, Nodes
  <2>2. ASSUME NEW m \in Nodes, source[m].parent = c
        PROVE  TakenOut(m) <=> source[m].type \in {"SHOW_FROM", "FULL", "TABLES"}
    BY <2>1, <2>2 DEF TakenOut
  <2> QED BY <2>2 DEF Parent, Type
<1> HIDE DEF list, left, show, columns, schema, where
<1>17. /\ \A m : In(m, kids'[c]) => m \in Nodes /\ Parent(m) = c
       /\ \A m \in Nodes : Parent(m) = c => (In(m, kids'[c]) <=> ~TakenOut(m))
  <2>1. \A m : In(m, list) <=> m \in Nodes /\ Parent(m) = c
    BY <1>1 DEF list
  <2> QED BY <2>1, <1>13, <1>15, <1>16
<1>18. \A m \in Nodes :
         /\ text'[m] \in Seq(STRING)
         /\ \/ text'[m] = text[m]
            \/ m = c /\ Type(c) \in {"LOCK_TABLE", "FOUND_ROWS"}
            \/ /\ Parent(m) = c /\ Type(m) \in Touchable
               /\ Renamed(m) \/ Type(c) = "FUNCTION_IF"
  BY <1>1, <1>5, <1>6, <1>12, <1>13 DEF Touchable
<1>19. QED BY <1>0, <1>13, <1>14, <1>15, <1>17, <1>18 DEF Rewrote

-----------------------------------------------------------------------------
(* show_columns_rewrite: the table is the name in the first FROM, and the  *)
(* schema that in the second, which the second search finds because the    *)
(* first was deleted.                                                      *)
LEMMA ShowColumnsRewrites ==
  ASSUME WalkInv, RewriteInv, ShowColumns, NEW c, c = child
  PROVE  Rewrote(c)
<1>0. AtChild /\ Type(c) = "SHOW_COLUMNS" /\ schemaName' = schemaName
  BY DEF ShowColumns, Handle, Type
<1>1. /\ WellFormed(source) /\ c \in Nodes /\ c > 1 /\ kids[c] = Kids(c) /\ Rising(Kids(c))
      /\ DOMAIN text = Nodes /\ DOMAIN kids = Nodes
      /\ \A m \in Nodes : text[m] \in Seq(STRING)
      /\ \A m : In(m, Kids(c)) => m \in Nodes /\ Parent(m) = c /\ m # c
      /\ \A m \in Nodes : Parent(m) = c => In(m, Kids(c))
  BY <1>0, AtHandler
<1>2. /\ Kids(c) # << >> /\ Type(Kids(c)[1]) = "SHOW" /\ Once(Kids(c), "FULL")
      /\ ~Has(Kids(c), "TABLES") /\ Has(Kids(c), "SHOW_FROM") /\ Twice(Kids(c), "SHOW_FROM")
  BY <1>0, <1>1, Shapes
<1> DEFINE all     == Kids(c)
           froms   == Of(all, "SHOW_FROM")
           list    == Without(all, "FULL")
           rest    == Without(list, "SHOW_FROM")
           left    == Without(rest, "SHOW_FROM")
           show    == all[1]
           table   == IF Has(list, "SHOW_FROM") THEN Name(list[Find(list, "SHOW_FROM")]) ELSE ""
           schema  == IF Has(rest, "SHOW_FROM") THEN Name(rest[Find(rest, "SHOW_FROM")])
                      ELSE "current_schema()"
           where   == IF Has(rest, "SHOW_LIKE") THEN "WHERE" ELSE ""
           columns == IF Has(all, "FULL") THEN "full" ELSE "normal"
           Said(set) == IF set = {} THEN "current_schema()" ELSE Bare[NameIn(Min(set)).text[1]]
<1>3. /\ text' = [text EXCEPT ![rest[Find(rest, "SHOW")]] = Columns(columns, table, schema, where)]
      /\ kids' = [kids EXCEPT ![c] = left]
  BY <1>1 DEF ShowColumns
<1>4. /\ Rising(all) /\ Rising(list) /\ Rising(rest) /\ Rising(left)
  <2>1. Rising(all)
    BY <1>1
  <2> HIDE DEF all
  <2>2. Rising(list)
    BY <2>1, WithoutFacts
  <2> HIDE DEF list
  <2>3. Rising(rest)
    BY <2>2, WithoutFacts
  <2> HIDE DEF rest
  <2>4. Rising(left)
    BY <2>3, WithoutFacts
  <2> QED BY <2>1, <2>2, <2>3, <2>4
<1> HIDE DEF all, list, rest, left, table, schema, where, columns, froms
(* What stands in each list.                                               *)
<1>5. /\ \A type : type # "FULL" => Of(list, type) = Of(all, type)
      /\ \A type : type # "SHOW_FROM" => Of(rest, type) = Of(list, type)
  <2>1. \A type : type # "FULL" => Of(list, type) = Of(all, type)
    BY <1>4, OfFacts DEF list
  <2>2. \A type : type # "SHOW_FROM" => Of(rest, type) = Of(list, type)
    BY <1>4, OfFacts DEF rest
  <2> QED BY <2>1, <2>2
<1>6. /\ Of(list, "SHOW_FROM") = froms /\ Of(rest, "SHOW") = Of(all, "SHOW")
      /\ Of(rest, "SHOW_LIKE") = Of(all, "SHOW_LIKE")
  BY <1>5 DEF froms
<1>7. /\ Has(list, "SHOW_FROM") /\ froms # {}
      /\ Min(froms) = list[Find(list, "SHOW_FROM")]
      /\ In(Min(froms), list) /\ Type(Min(froms)) = "SHOW_FROM"
      /\ Of(rest, "SHOW_FROM") = froms \ {Min(froms)}
  <2>1. froms # {}
    BY <1>2, <1>4, OfFacts DEF froms, all
  <2>2. Has(list, "SHOW_FROM")
    BY <2>1, <1>4, <1>6, OfFacts
  <2>3. /\ Min(Of(list, "SHOW_FROM")) = list[Find(list, "SHOW_FROM")]
        /\ In(list[Find(list, "SHOW_FROM")], list)
        /\ Type(list[Find(list, "SHOW_FROM")]) = "SHOW_FROM"
        /\ Of(rest, "SHOW_FROM") = Of(list, "SHOW_FROM") \ {Min(Of(list, "SHOW_FROM"))}
    BY <2>2, <1>4, OfFacts DEF rest
  <2> QED BY <2>1, <2>2, <2>3, <1>6
<1>8. /\ Has(rest, "SHOW_FROM") <=> froms \ {Min(froms)} # {}
      /\ Has(rest, "SHOW_FROM") =>
           /\ Min(froms \ {Min(froms)}) = rest[Find(rest, "SHOW_FROM")]
           /\ In(rest[Find(rest, "SHOW_FROM")], rest)
           /\ Type(rest[Find(rest, "SHOW_FROM")]) = "SHOW_FROM"
  <2>1. Has(rest, "SHOW_FROM") <=> Of(rest, "SHOW_FROM") # {}
    BY <1>4, OfFacts
  <2>2. Has(rest, "SHOW_FROM") =>
           /\ Min(Of(rest, "SHOW_FROM")) = rest[Find(rest, "SHOW_FROM")]
           /\ In(rest[Find(rest, "SHOW_FROM")], rest)
           /\ Type(rest[Find(rest, "SHOW_FROM")]) = "SHOW_FROM"
    BY <1>4, OfFacts
  <2> QED BY <2>1, <2>2, <1>7
<1>9. /\ \A m : In(m, list) => m \in Nat /\ In(m, all)
      /\ \A m : In(m, rest) => m \in Nat /\ In(m, list)
      /\ \A m : In(m, left) => m \in Nat /\ In(m, rest)
      /\ \A m \in Nat : In(m, all) /\ Type(m) # "FULL" => In(m, list)
      /\ \A m \in Nat : In(m, list) /\ Type(m) # "SHOW_FROM" => In(m, rest)
      /\ \A m \in Nat : In(m, rest) /\ Type(m) # "SHOW_FROM" => In(m, left)
  <2>1. /\ \A m : In(m, list) => m \in Nat /\ In(m, all)
        /\ \A m \in Nat : In(m, all) /\ Type(m) # "FULL" => In(m, list)
    BY <1>4, FirstGone DEF list
  <2>2. /\ \A m : In(m, rest) => m \in Nat /\ In(m, list)
        /\ \A m \in Nat : In(m, list) /\ Type(m) # "SHOW_FROM" => In(m, rest)
    BY <1>4, FirstGone DEF rest
  <2>3. /\ \A m : In(m, left) => m \in Nat /\ In(m, rest)
        /\ \A m \in Nat : In(m, rest) /\ Type(m) # "SHOW_FROM" => In(m, left)
    BY <1>4, FirstGone DEF left
  <2> QED BY <2>1, <2>2, <2>3
<1>10. ~Has(list, "FULL") /\ ~Has(left, "SHOW_FROM") /\ ~Has(all, "TABLES")
  <2>1. Once(all, "FULL") /\ Twice(all, "SHOW_FROM") /\ ~Has(all, "TABLES")
    BY <1>2 DEF all
  <2>2. ~Has(list, "FULL") /\ Twice(list, "SHOW_FROM")
    BY <2>1, <1>4, FirstGone DEF list
  <2>3. Once(rest, "SHOW_FROM")
    BY <2>2, <1>4, FirstGone DEF rest
  <2>4. ~Has(left, "SHOW_FROM")
    BY <2>3, <1>4, FirstGone DEF left
  <2> QED BY <2>1, <2>2, <2>4
<1>11. /\ \A m \in Nat : In(m, list) => Type(m) # "FULL"
       /\ \A m \in Nat : In(m, left) => Type(m) # "SHOW_FROM"
       /\ \A m \in Nat : In(m, all) => Type(m) # "TABLES"
  <2>1. Has(list, "FULL") <=> \E m \in Nat : In(m, list) /\ Type(m) = "FULL"
    BY <1>4, FirstGone
  <2>2. Has(left, "SHOW_FROM") <=> \E m \in Nat : In(m, left) /\ Type(m) = "SHOW_FROM"
    BY <1>4, FirstGone
  <2>3. Has(all, "TABLES") <=> \E m \in Nat : In(m, all) /\ Type(m) = "TABLES"
    BY <1>4, FirstGone
  <2> QED BY <2>1, <2>2, <2>3, <1>10
(* The word that the query takes the place of.                             *)
<1>12. show = rest[Find(rest, "SHOW")]
  <2>1. all # << >> /\ Type(all[1]) = "SHOW"
    BY <1>2 DEF all
  <2> QED BY <2>1, <1>4, <1>6, ShowIsFirst
<1>13. In(show, all) /\ show \in Nodes /\ Parent(show) = c /\ show # c /\ Type(show) = "SHOW"
  <2>1. 1 \in DOMAIN all
    <3>1. all \in Seq(Nat) /\ all # << >>
      BY <1>2, <1>4 DEF Rising, all
    <3> QED BY <3>1
  <2>2. In(show, all)
    BY <2>1 DEF In
  <2> QED BY <2>2, <1>1, <1>2 DEF all
<1>14. Renamed(show)
  <2>1. c > 0 /\ source[c].type = "SHOW_COLUMNS" /\ source[show].parent = c
        /\ source[show].type = "SHOW"
    BY <1>0, <1>1, <1>13 DEF Type, Parent, Nodes
  <2> HIDE DEF show
  <2> QED BY <2>1 DEF Renamed
(* The answer.                                                             *)
<1>15. /\ columns \in STRING /\ where \in STRING /\ "current_schema()" \in STRING
       /\ "COLUMNS" \in STRING
  BY WrittenFacts DEF Written, columns, where
<1>16. \A from : In(from, all) /\ Type(from) = "SHOW_FROM" =>
         /\ Name(from) \in STRING
         /\ NameIn(from).type # "FOUND_ROWS" => Name(from) = Bare[NameIn(from).text[1]]
  BY <1>0, NameFacts DEF all
<1>17. \A m : m \in froms <=> In(m, all) /\ Type(m) = "SHOW_FROM"
  BY DEF froms, Of, In, Range
<1>18. /\ table \in STRING
       /\ (\A from \in froms : NameIn(from).type # "FOUND_ROWS") => table = Said(froms)
  <2>1. table = Name(Min(froms)) /\ In(Min(froms), all) /\ Min(froms) \in froms
    BY <1>7, <1>9, <1>17 DEF table
  <2>2. Said(froms) = Bare[NameIn(Min(froms)).text[1]]
    BY <1>7
  <2> QED BY <2>1, <2>2, <1>16, <1>17
<1>19. /\ schema \in STRING
       /\ (\A from \in froms : NameIn(from).type # "FOUND_ROWS") =>
             schema = Said(froms \ {Min(froms)})
  <2>1. CASE Has(rest, "SHOW_FROM")
    <3> DEFINE from == rest[Find(rest, "SHOW_FROM")]
    <3>1. /\ schema = Name(from) /\ In(from, rest) /\ Type(from) = "SHOW_FROM"
          /\ Min(froms \ {Min(froms)}) = from /\ froms \ {Min(froms)} # {}
      BY <2>1, <1>8 DEF schema
    <3> HIDE DEF from
    <3>2. In(from, all) /\ from \in froms
      BY <3>1, <1>9, <1>17
    <3>3. Said(froms \ {Min(froms)}) = Bare[NameIn(from).text[1]]
      BY <3>1
    <3> QED BY <3>1, <3>2, <3>3, <1>16
  <2>2. CASE ~Has(rest, "SHOW_FROM")
    <3>1. schema = "current_schema()" /\ Said(froms \ {Min(froms)}) = "current_schema()"
      BY <2>2, <1>8 DEF schema
    <3> QED BY <3>1, <1>15
  <2> QED BY <2>1, <2>2
<1>20. /\ columns = IF Asked(c, "FULL") = {} THEN "normal" ELSE "full"
       /\ where = IF Asked(c, "SHOW_LIKE") = {} THEN "" ELSE "WHERE"
       /\ froms = Asked(c, "SHOW_FROM")
  <2>1. \A type : Asked(c, type) = Of(all, type)
    BY <1>1, AskedIsOf DEF all
  <2>2. Has(all, "FULL") <=> Of(all, "FULL") # {}
    BY <1>4, OfFacts
  <2>3. Has(rest, "SHOW_LIKE") <=> Of(rest, "SHOW_LIKE") # {}
    BY <1>4, OfFacts
  <2> QED BY <2>1, <2>2, <2>3, <1>6 DEF columns, where, froms
<1> DEFINE answer == Columns(columns, table, schema, where)
<1>21. answer \in Seq(STRING)
  BY <1>15, <1>18, <1>19, ShortLists DEF Columns
<1> HIDE DEF answer, show
<1>22. /\ DOMAIN text' = Nodes /\ text'[show] = answer
       /\ \A m \in Nodes : m # show => text'[m] = text[m]
       /\ kids'[c] = left
  <2>1. text' = [text EXCEPT ![show] = answer]
    BY <1>3, <1>12 DEF answer
  <2>2. /\ DOMAIN text' = Nodes /\ text'[show] = answer
        /\ \A m \in Nodes : m # show => text'[m] = text[m]
    BY <2>1, <1>1, <1>13
  <2> QED BY <2>2, <1>1, <1>3
<1>23. Answered(text', c)
  <2>1. ASSUME \A from \in froms : NameIn(from).type # "FOUND_ROWS"
        PROVE  text'[source[c].kids[1]] =
                 Columns(IF Asked(c, "FULL") = {} THEN "normal" ELSE "full",
                         Said(froms), Said(froms \ {Min(froms)}),
                         IF Asked(c, "SHOW_LIKE") = {} THEN "" ELSE "WHERE")
    <3>1. source[c].kids[1] = show
      BY DEF Kids, show, all
    <3>2. table = Said(froms) /\ schema = Said(froms \ {Min(froms)})
      BY <2>1, <1>18, <1>19
    <3> HIDE DEF Said
    <3> QED BY <3>1, <3>2, <1>20, <1>22 DEF answer
  <2>2. source[c].type = "SHOW_COLUMNS"
    BY <1>0 DEF Type
  <2> QED BY <2>1, <2>2, <1>20 DEF Answered
(* The list.                                                               *)
<1>24. \A m \in Nodes : Parent(m) = c =>
         (TakenOut(m) <=> Type(m) \in {"SHOW_FROM", "FULL", "TABLES"})
  <2>1. source[c].type = "SHOW_COLUMNS" /\ c > 0
    BY <1>0, <1>1 DEF Type, Nodes
  <2>2. ASSUME NEW m \in Nodes, source[m].parent = c
        PROVE  TakenOut(m) <=> source[m].type \in {"SHOW_FROM", "FULL", "TABLES"}
    BY <2>1, <2>2 DEF TakenOut
  <2> QED BY <2>2 DEF Parent, Type
<1>25. \A m : In(m, left) <=> In(m, all) /\ Type(m) \notin {"SHOW_FROM", "FULL", "TABLES"}
  <2>1. \A m : In(m, all) => m \in Nat
    BY <1>4 DEF In, Rising
  <2> QED BY <2>1, <1>9, <1>11
<1>26. /\ \A m : In(m, kids'[c]) => m \in Nodes /\ Parent(m) = c
       /\ \A m \in Nodes : Parent(m) = c => (In(m, kids'[c]) <=> ~TakenOut(m))
  <2>1. \A m : In(m, all) <=> m \in Nodes /\ Parent(m) = c
    BY <1>1 DEF all
  <2> QED BY <2>1, <1>22, <1>24, <1>25
<1>27. \A m \in Nodes :
         /\ text'[m] \in Seq(STRING)
         /\ \/ text'[m] = text[m]
            \/ m = c /\ Type(c) \in {"LOCK_TABLE", "FOUND_ROWS"}
            \/ /\ Parent(m) = c /\ Type(m) \in Touchable
               /\ Renamed(m) \/ Type(c) = "FUNCTION_IF"
  BY <1>1, <1>13, <1>14, <1>21, <1>22 DEF Touchable
<1>28. QED BY <1>0, <1>4, <1>22, <1>23, <1>26, <1>27 DEF Rewrote

-----------------------------------------------------------------------------
(* What is taken out, renamed and answered depends on the tree as parsed.  *)
LEMMA SameSource ==
  ASSUME source' = source
  PROVE  /\ \A m : TakenOut(m)' = TakenOut(m)
         /\ \A m : Renamed(m)' = Renamed(m)
         /\ \A t, n : Answered(t, n)' = Answered(t, n)
         /\ \A n, type : Asked(n, type)' = Asked(n, type)
<1>1. \A m : TakenOut(m)' = TakenOut(m)
  BY DEF TakenOut
<1>2. \A m : Renamed(m)' = Renamed(m)
  BY DEF Renamed, IsVersion
<1>3. \A t, n : Answered(t, n)' = Answered(t, n)
  BY DEF Answered, Asked, NameIn
<1>4. \A n, type : Asked(n, type)' = Asked(n, type)
  BY DEF Asked
<1>5. QED BY <1>1, <1>2, <1>3, <1>4

(* At the start nothing is rewritten.                                      *)
LEMMA InitRewrites ==
  ASSUME Init
  PROVE  RewriteInv
<1>1. WalkInv
  BY InitWalks
<1>2. /\ WellFormed(source) /\ DOMAIN source = Nodes /\ handled = << >>
      /\ kids = [n \in DOMAIN source |-> source[n].kids]
      /\ text = [n \in DOMAIN source |-> source[n].text]
  <2>1. WellFormed(source)
    BY <1>1 DEF WalkInv, Typed
  <2> QED BY <2>1 DEF Init, WellFormed, Nodes
<1>3. \A m : ~IsHandled(m)
  BY <1>2 DEF IsHandled
<1>4. ASSUME NEW n \in Nodes
      PROVE  /\ kids[n] = Kids(n) /\ Rising(kids[n])
             /\ \A m : In(m, kids[n]) => m \in Nodes /\ Parent(m) = n
             /\ text[n] = source[n].text /\ text[n] \in Seq(STRING)
  <2>1. kids[n] = Kids(n) /\ text[n] = source[n].text
    BY <1>2 DEF Kids
  <2>2. source[n].text \in Seq(STRING)
    BY <1>2, NodeFacts
  <2>3. /\ Rising(Kids(n)) /\ \A m \in Nodes : In(m, Kids(n)) <=> Parent(m) = n
        /\ \A m : In(m, Kids(n)) => m \in Nodes
    BY <1>2, ParsedLists
  <2> QED BY <2>1, <2>2, <2>3
<1>5. ListInv
  BY <1>3, <1>4 DEF ListInv
<1>6. TextInv
  BY <1>3, <1>4 DEF TextInv
<1>7. AnswerInv
  BY <1>3 DEF AnswerInv
<1>8. PrefixLeadsThePath
  <2>1. DOMAIN handled = {}
    BY <1>2
  <2> QED BY <2>1 DEF PrefixLeadsThePath
<1>9. QED BY <1>5, <1>6, <1>7, <1>8 DEF RewriteInv

(* Descending, returning and passing change nothing of it.                 *)
LEMMA WalkingRewrites ==
  ASSUME RewriteInv, source' = source, kids' = kids, text' = text, handled' = handled,
         schemaName' = schemaName
  PROVE  RewriteInv'
<1>1. /\ Nodes' = Nodes
      /\ \A n : Type(n)' = Type(n) /\ Parent(n)' = Parent(n)
      /\ \A m : IsHandled(m)' = IsHandled(m)
      /\ \A m : TakenOut(m)' = TakenOut(m)
      /\ \A m : Renamed(m)' = Renamed(m)
      /\ \A t, n : Answered(t, n)' = Answered(t, n)
      /\ \A n, type : Asked(n, type)' = Asked(n, type)
  BY SameTree, SameHandled, SameSource
<1>2. ListInv'
  BY <1>1 DEF RewriteInv, ListInv
<1>3. TextInv'
  BY <1>1 DEF RewriteInv, TextInv
<1>4. AnswerInv'
  BY <1>1 DEF RewriteInv, AnswerInv
<1>5. PrefixLeadsThePath'
  BY <1>1 DEF RewriteInv, PrefixLeadsThePath
<1>6. QED BY <1>2, <1>3, <1>4, <1>5 DEF RewriteInv

(* A handler keeps to its child.                                           *)
LEMMA HandlerRewrites ==
  ASSUME WalkInv, RewriteInv, NEW c, c = child, Passes, Type(c) \in Rewritten, Rewrote(c)
  PROVE  RewriteInv'
<1>1. /\ AtChild /\ source' = source /\ handled' = Append(handled, c)
      /\ \A n \in Nodes : n # c => kids'[n] = kids[n]
  BY DEF Passes
<1>2. /\ WellFormed(source) /\ c \in Nodes /\ c \in Nat /\ ~IsHandled(c)
  BY <1>1, AtHandler DEF Nodes
<1>3. handled \in Seq(Nat)
  BY DEF WalkInv, Typed
<1>4. /\ Len(handled) \in Nat
      /\ DOMAIN handled = 1 .. Len(handled) /\ DOMAIN handled' = 1 .. Len(handled) + 1
      /\ \A i \in 1 .. Len(handled) : handled'[i] = handled[i]
      /\ handled'[Len(handled) + 1] = c
      /\ \A m : IsHandled(m)' <=> (IsHandled(m) \/ m = c)
  BY <1>1, <1>2, <1>3, MoreHandled
<1>5. /\ Nodes' = Nodes
      /\ \A n : Type(n)' = Type(n) /\ Parent(n)' = Parent(n)
      /\ \A m : TakenOut(m)' = TakenOut(m)
      /\ \A m : Renamed(m)' = Renamed(m)
      /\ \A t, n : Answered(t, n)' = Answered(t, n)
      /\ \A n, type : Asked(n, type)' = Asked(n, type)
  BY <1>1, SameTree, SameSource
<1>6. \A m \in Nodes :
        /\ text'[m] \in Seq(STRING)
        /\ \/ text'[m] = text[m]
           \/ m = c /\ Type(c) \in {"LOCK_TABLE", "FOUND_ROWS"}
           \/ /\ Parent(m) = c /\ Type(m) \in Touchable
              /\ Renamed(m) \/ Type(c) = "FUNCTION_IF"
  BY DEF Rewrote
<1>7. \A n \in Nodes : \A m :
        m \in Asked(n, "ID") <=> m \in Nodes /\ Parent(m) = n /\ Type(m) = "ID"
  <2>1. ASSUME NEW n \in Nodes
        PROVE  \A m : In(m, Kids(n)) <=> m \in Nodes /\ Parent(m) = n
    <3>1. /\ \A m \in Nodes : In(m, Kids(n)) <=> Parent(m) = n
          /\ \A m : In(m, Kids(n)) => m \in Nodes
      BY <1>2, ParsedLists
    <3> QED BY <3>1
  <2>2. \A n, m : m \in Asked(n, "ID") <=> In(m, Kids(n)) /\ Type(m) = "ID"
    BY DEF Asked, In, Kids, Type, Range
  <2> QED BY <2>1, <2>2
<1>8. ListInv'
  <2>1. ASSUME NEW n \in Nodes
        PROVE  /\ Rising(kids'[n])
               /\ \A m : In(m, kids'[n]) => m \in Nodes /\ Parent(m) = n
               /\ IsHandled(n) \/ n = c =>
                    \A m \in Nodes : Parent(m) = n => (In(m, kids'[n]) <=> ~TakenOut(m))
    <3>1. CASE n = c
      BY <3>1 DEF Rewrote
    <3>2. CASE n # c
      BY <3>2, <1>1 DEF RewriteInv, ListInv
    <3> QED BY <3>1, <3>2
  <2> QED BY <2>1, <1>4, <1>5 DEF ListInv
<1>9. TextInv'
  <2>1. ASSUME NEW m \in Nodes
        PROVE  /\ text'[m] \in Seq(STRING)
               /\ \/ text'[m] = source[m].text
                  \/ (IsHandled(m) \/ m = c) /\ Type(m) \in {"LOCK_TABLE", "FOUND_ROWS"}
                  \/ /\ Type(m) \in Touchable /\ (IsHandled(Parent(m)) \/ Parent(m) = c)
                     /\ Renamed(m) \/ Type(Parent(m)) = "FUNCTION_IF"
               /\ (IsHandled(m) \/ m = c) /\ Type(m) = "LOCK_TABLE" => text'[m] = << >>
               /\ (IsHandled(m) \/ m = c) /\ Type(m) = "FOUND_ROWS" =>
                    text'[m] = <<"ws->found_rows", "AS">>
    <3>1. /\ \/ text[m] = source[m].text
             \/ IsHandled(m) /\ Type(m) \in {"LOCK_TABLE", "FOUND_ROWS"}
             \/ /\ Type(m) \in Touchable /\ IsHandled(Parent(m))
                /\ Renamed(m) \/ Type(Parent(m)) = "FUNCTION_IF"
          /\ IsHandled(m) /\ Type(m) = "LOCK_TABLE" => text[m] = << >>
          /\ IsHandled(m) /\ Type(m) = "FOUND_ROWS" => text[m] = <<"ws->found_rows", "AS">>
      BY DEF RewriteInv, TextInv
    <3>2. /\ Type(c) = "LOCK_TABLE" => text'[c] = << >>
          /\ Type(c) = "FOUND_ROWS" => text'[c] = <<"ws->found_rows", "AS">>
      BY DEF Rewrote
    <3>3. Type(m) \in {"LOCK_TABLE", "FOUND_ROWS"} => Type(m) \notin Touchable
      BY DEF Touchable
    <3>4. m # c /\ Type(m) \in {"LOCK_TABLE", "FOUND_ROWS"} => text'[m] = text[m]
      BY <1>6, <3>3
    <3>5. /\ (IsHandled(m) \/ m = c) /\ Type(m) = "LOCK_TABLE" => text'[m] = << >>
          /\ (IsHandled(m) \/ m = c) /\ Type(m) = "FOUND_ROWS" =>
               text'[m] = <<"ws->found_rows", "AS">>
      BY <3>1, <3>2, <3>4
    <3>6. \/ text'[m] = source[m].text
          \/ (IsHandled(m) \/ m = c) /\ Type(m) \in {"LOCK_TABLE", "FOUND_ROWS"}
          \/ /\ Type(m) \in Touchable /\ (IsHandled(Parent(m)) \/ Parent(m) = c)
             /\ Renamed(m) \/ Type(Parent(m)) = "FUNCTION_IF"
      BY <3>1, <1>6
    <3> QED BY <3>5, <3>6, <1>6
  <2>2. \A m : IsHandled(Parent(m))' <=> (IsHandled(Parent(m)) \/ Parent(m) = c)
    <3>1. \A m, p : p = Parent(m) => (IsHandled(p)' <=> (IsHandled(p) \/ p = c))
      BY <1>4
    <3>2. ASSUME NEW m
          PROVE  IsHandled(Parent(m))' <=> (IsHandled(Parent(m)) \/ Parent(m) = c)
      BY <1>4, <1>5
    <3> QED BY <3>2
  <2>3. \A m : Type(Parent(m))' = Type(Parent(m))
    BY <1>5
  <2> QED BY <2>1, <2>2, <2>3, <1>1, <1>4, <1>5 DEF TextInv
<1>10. AnswerInv'
  <2>1. ASSUME NEW n \in Nodes, IsHandled(n) \/ n = c
        PROVE  Answered(text', n)
    <3>1. CASE n = c
      BY <3>1 DEF Rewrote
    <3>2. CASE n # c
      <4>1. Answered(text, n)
        BY <2>1, <3>2 DEF RewriteInv, AnswerInv
      <4>2. CASE Type(n) \in {"SHOW_TABLES", "SHOW_COLUMNS"}
        <5> DEFINE show == Kids(n)[1]
        <5>1. Kids(n) # << >> /\ Type(show) = "SHOW" /\ Rising(Kids(n))
          BY <4>2, <1>2, Shapes, ParsedLists
        <5>2. 1 \in DOMAIN Kids(n)
          BY <5>1 DEF Rising
        <5>3. show \in Nodes /\ Parent(show) = n
          BY <5>2, <1>2, KidFacts
        <5>4. text'[show] = text[show]
          <6> HIDE DEF show
          <6>1. "SHOW" \notin {"LOCK_TABLE", "FOUND_ROWS"}
            OBVIOUS
          <6> QED BY <5>1, <5>3, <6>1, <3>2, <1>6
        <5>5. show = source[n].kids[1]
          BY DEF Kids
        <5> HIDE DEF show
        <5> QED BY <4>1, <5>4, <5>5 DEF Answered
      <4>3. CASE Type(n) \notin {"SHOW_TABLES", "SHOW_COLUMNS"}
        BY <4>3 DEF Answered, Type
      <4> QED BY <4>2, <4>3
    <3> QED BY <3>1, <3>2
  <2> QED BY <2>1, <1>4, <1>5 DEF AnswerInv
<1>11. PrefixLeadsThePath'
  <2>0. \A i \in DOMAIN handled : handled[i] \in Nodes /\ handled[i] # c
    BY <1>2 DEF WalkInv, Typed, IsHandled
  <2>1. ASSUME NEW i \in DOMAIN handled', source[handled'[i]].type = "USE_DATABASE",
               NEW id \in Asked(handled'[i], "ID")
        PROVE  /\ text'[id] = source[id].text \o <<",public">>
               /\ (\A j \in i + 1 .. Len(handled') : source[handled'[j]].type # "USE_DATABASE") =>
                    schemaName' = source[id].text \o <<".">>
    <3>1. Len(handled') = Len(handled) + 1
      BY <1>1, <1>2, <1>3, AppendProperties
    <3>2. CASE i = Len(handled) + 1
      <4>1. Type(c) = "USE_DATABASE" /\ id \in Nodes /\ Parent(id) = c /\ Type(id) = "ID"
        BY <2>1, <3>2, <1>2, <1>4, <1>7 DEF Type
      <4> QED BY <4>1 DEF Rewrote
    <3>3. CASE i \in DOMAIN handled
      <4> DEFINE n == handled[i]
      <4>1. handled'[i] = n /\ n \in Nodes /\ n # c /\ source[n].type = "USE_DATABASE"
        BY <2>0, <2>1, <3>3, <1>4
      <4>2. /\ text[id] = source[id].text \o <<",public">>
            /\ (\A j \in i + 1 .. Len(handled) : source[handled[j]].type # "USE_DATABASE") =>
                 schemaName = source[id].text \o <<".">>
        BY <2>1, <3>3, <4>1 DEF RewriteInv, PrefixLeadsThePath
      <4>3. id \in Nodes /\ Parent(id) = n /\ Type(id) = "ID"
        BY <2>1, <4>1, <1>7
      <4> HIDE DEF n
      <4>4. text'[id] = text[id]
        <5>1. "ID" \notin {"LOCK_TABLE", "FOUND_ROWS"}
          OBVIOUS
        <5> QED BY <4>1, <4>3, <5>1, <1>6
      <4>5. ASSUME \A j \in i + 1 .. Len(handled') : source[handled'[j]].type # "USE_DATABASE"
            PROVE  schemaName' = source[id].text \o <<".">>
        <5>1. Len(handled) + 1 \in i + 1 .. Len(handled')
          BY <3>1, <3>3, <1>4
        <5>2. Type(c) # "USE_DATABASE"
          BY <4>5, <5>1, <1>4 DEF Type
        <5>3. schemaName' = schemaName
          BY <5>2 DEF Rewrote
        <5>4. \A j \in i + 1 .. Len(handled) : source[handled[j]].type # "USE_DATABASE"
          <6>1. ASSUME NEW j \in i + 1 .. Len(handled)
                PROVE  j \in i + 1 .. Len(handled') /\ j \in 1 .. Len(handled)
            BY <3>1, <3>3, <1>4
          <6> QED BY <4>5, <6>1, <1>4
        <5> QED BY <4>2, <5>3, <5>4
      <4> QED BY <4>2, <4>4, <4>5
    <3>4. i = Len(handled) + 1 \/ i \in DOMAIN handled
      BY <1>4
    <3> QED BY <3>2, <3>3, <3>4
  <2>2. \A i : Asked(handled[i], "ID")' = Asked(handled'[i], "ID")
    BY <1>1 DEF Asked
  <2>3. PrefixLeadsThePath' <=>
          \A i \in DOMAIN handled' :
            source'[handled'[i]].type = "USE_DATABASE" =>
              \A id \in Asked(handled[i], "ID")' :
                /\ text'[id] = source'[id].text \o <<",public">>
                /\ (\A j \in i + 1 .. Len(handled') :
                       source'[handled'[j]].type # "USE_DATABASE") =>
                     schemaName' = source'[id].text \o <<".">>
    BY DEF PrefixLeadsThePath
  <2>4. ASSUME NEW i \in DOMAIN handled', source'[handled'[i]].type = "USE_DATABASE",
               NEW id \in Asked(handled[i], "ID")'
        PROVE  /\ text'[id] = source'[id].text \o <<",public">>
               /\ (\A j \in i + 1 .. Len(handled') :
                      source'[handled'[j]].type # "USE_DATABASE") =>
                    schemaName' = source'[id].text \o <<".">>
    <3>1. source[handled'[i]].type = "USE_DATABASE" /\ id \in Asked(handled'[i], "ID")
      BY <2>2, <2>4, <1>1
    <3>2. /\ text'[id] = source[id].text \o <<",public">>
          /\ (\A j \in i + 1 .. Len(handled') : source[handled'[j]].type # "USE_DATABASE") =>
               schemaName' = source[id].text \o <<".">>
      BY <2>1, <3>1
    <3> QED BY ONLY <3>2, <1>1
  <2> QED BY ONLY <2>3, <2>4
<1>12. QED BY <1>8, <1>9, <1>10, <1>11 DEF RewriteInv

-----------------------------------------------------------------------------
(* Each of the handlers keeps to its child.                                *)
LEMMA HandlersRewrite ==
  ASSUME WalkInv, RewriteInv, NEW c, c = child,
         \/ UseDatabase \/ LockTables \/ ServerVariable \/ ShowTables \/ ShowColumns
         \/ FunctionIf \/ FoundRows
  PROVE  Rewrote(c) /\ Type(c) \in Rewritten
<1>1. Rewrote(c)
  BY UseDatabaseRewrites, LockTablesRewrites, ServerVariableRewrites, ShowTablesRewrites,
     ShowColumnsRewrites, FunctionIfRewrites, FoundRowsRewrites
<1>2. Type(c) \in Rewritten
  <2>1. \E type \in Rewritten : Handle(type)
    <3>1. {"USE_DATABASE", "LOCK_TABLE", "SERVER_VARIABLE", "SHOW_TABLES",
           "SHOW_COLUMNS", "FUNCTION_IF", "FOUND_ROWS"} \subseteq Rewritten
      BY DEF Rewritten
    <3>2. \/ Handle("USE_DATABASE") \/ Handle("LOCK_TABLE") \/ Handle("SERVER_VARIABLE")
          \/ Handle("SHOW_TABLES") \/ Handle("SHOW_COLUMNS") \/ Handle("FUNCTION_IF")
          \/ Handle("FOUND_ROWS")
      BY DEF UseDatabase, LockTables, ServerVariable, ShowTables, ShowColumns, FunctionIf,
             FoundRows
    <3> QED BY <3>1, <3>2
  <2> QED BY <2>1 DEF Handle, Type
<1>3. QED BY <1>1, <1>2

(* The tree is kept by every step.                                         *)
LEMMA StepRewrites ==
  ASSUME WalkInv, RewriteInv, [Next]_vars
  PROVE  RewriteInv'
<1>1. CASE Descend \/ Return \/ PassChild \/ UNCHANGED vars
  <2>1. /\ source' = source /\ kids' = kids /\ text' = text /\ handled' = handled
        /\ schemaName' = schemaName
    BY <1>1 DEF Descend, Return, PassChild, vars
  <2> QED BY <2>1, WalkingRewrites
<1>2. CASE \/ UseDatabase \/ LockTables \/ ServerVariable \/ ShowTables \/ ShowColumns
           \/ FunctionIf \/ FoundRows
  <2>1. Passes
    BY <1>2, HandlersPass
  <2>2. PICK c : c = child
    OBVIOUS
  <2>3. Rewrote(c) /\ Type(c) \in Rewritten
    BY <1>2, <2>2, HandlersRewrite
  <2> QED BY <2>1, <2>2, <2>3, HandlerRewrites
<1>3. QED BY <1>1, <1>2 DEF Next

(* The walk and what it has rewritten, together.                           *)
LEMMA WalksAndRewrites == Spec => [](WalkInv /\ RewriteInv)
<1>1. Init => WalkInv /\ RewriteInv
  BY InitWalks, InitRewrites
<1>2. (WalkInv /\ RewriteInv) /\ [Next]_vars => (WalkInv /\ RewriteInv)'
  BY StepWalks, StepRewrites
<1>3. QED BY <1>1, <1>2, PTL DEF Spec

(* The calls that run stand below each other, lists only get shorter and   *)
(* keep their order, and the loop variable of each call stays in its list  *)
(* (TreeWalkWorker, whose lists the handlers shorten under it).            *)
THEOREM WalkerTypes == Spec => []TypeOK
<1>1. WalkInv /\ RewriteInv => TypeOK
  <2> SUFFICES ASSUME WalkInv, RewriteInv PROVE TypeOK
    OBVIOUS
  <2>1. /\ WellFormed(source) /\ DOMAIN source = Nodes /\ DOMAIN kids = Nodes
        /\ DOMAIN text = Nodes
    BY DEF WalkInv, Typed, WellFormed, Nodes
  <2>2. ASSUME NEW n \in Nodes
        PROVE  /\ text[n] \in Seq(STRING)
               /\ \A p, q \in DOMAIN kids[n] : p < q => kids[n][p] < kids[n][q]
               /\ \A p \in DOMAIN kids[n] : source[kids[n][p]].parent = n
    <3>1. text[n] \in Seq(STRING)
      BY DEF RewriteInv, TextInv
    <3>2. Rising(kids[n]) /\ \A m : In(m, kids[n]) => Parent(m) = n
      BY DEF RewriteInv, ListInv
    <3> QED BY <3>1, <3>2 DEF Rising, In, Parent
  <2>3. ASSUME NEW i \in DOMAIN stack
        PROVE  /\ stack[i].node \in Nodes /\ kids[stack[i].node] = Kids(stack[i].node)
               /\ stack[i].c \in 1 .. Len(kids[stack[i].node]) + 1
    BY DEF WalkInv, Path, Lists
  <2>4. ASSUME NEW i \in 2 .. Len(stack)
        PROVE  /\ stack[i - 1].walked
               /\ stack[i].node = kids[stack[i - 1].node][stack[i - 1].c]
    <3>1. stack \in Seq(FrameSet)
      BY DEF WalkInv, Typed
    <3>2. i - 1 \in DOMAIN stack /\ (i - 1) + 1 \in DOMAIN stack /\ (i - 1) + 1 = i
      BY <3>1
    <3>3. /\ stack[i - 1].walked
          /\ stack[(i - 1) + 1].node = Kids(stack[i - 1].node)[stack[i - 1].c]
      BY <3>2 DEF WalkInv, Path
    <3> QED BY <2>3, <3>2, <3>3
  <2>5. handled \in Seq({n \in DOMAIN source : source[n].type \in Rewritten})
    <3> DEFINE S == {n \in DOMAIN source : source[n].type \in Rewritten}
    <3>1. handled \in Seq(Nat) /\ \A j \in DOMAIN handled : handled[j] \in S
      BY <2>1 DEF WalkInv, Typed, Type
    <3> HIDE DEF S
    <3>2. handled = [j \in 1 .. Len(handled) |-> handled[j]] /\ Len(handled) \in Nat
          /\ DOMAIN handled = 1 .. Len(handled)
      BY <3>1
    <3>3. handled \in [1 .. Len(handled) -> S]
      BY <3>1, <3>2
    <3> QED BY <3>2, <3>3 DEF S
  <2> QED BY <2>1, <2>2, <2>3, <2>4, <2>5 DEF TypeOK
<1>2. QED BY <1>1, WalksAndRewrites, PTL

(* The prefix of the statements queued is the schema that the last         *)
(* USE puts in front of the search path (use_database_worker).             *)
THEOREM PrefixFollowsUse == Spec => []PrefixLeadsThePath
<1>1. WalkInv /\ RewriteInv => PrefixLeadsThePath
  BY DEF RewriteInv
<1>2. QED BY <1>1, WalksAndRewrites, PTL

(* When the walk is over, no handler is missing.                           *)
LEMMA AllHandled ==
  ASSUME WalkInv, Done
  PROVE  \A m \in Nodes : Type(m) \in Rewritten => IsHandled(m)
<1>1. DOMAIN stack = {}
  BY DEF Done
<1>2. QED BY <1>1 DEF WalkInv, InFront

(* A SHOW is answered for what it asked (show_tables_rewrite,              *)
(* show_columns_rewrite): what was deleted on the way, and by which        *)
(* handlers below, changes nothing of it.                                  *)
THEOREM ShowsAreAnswered == Spec => []ShowAnswered
<1>1. WalkInv /\ RewriteInv => ShowAnswered
  <2> SUFFICES ASSUME WalkInv, RewriteInv, Done, NEW n \in DOMAIN source
               PROVE  Answered(text, n)
    BY DEF ShowAnswered, Answered
  <2>1. n \in Nodes
    BY DEF WalkInv, Typed, WellFormed, Nodes
  <2>2. CASE Type(n) \in {"SHOW_TABLES", "SHOW_COLUMNS"}
    <3>1. Type(n) \in Rewritten
      BY <2>2 DEF Rewritten
    <3> QED BY <2>1, <3>1, AllHandled DEF RewriteInv, AnswerInv
  <2>3. CASE Type(n) \notin {"SHOW_TABLES", "SHOW_COLUMNS"}
    BY <2>3 DEF Answered, Type
  <2> QED BY <2>2, <2>3
<1>2. QED BY <1>1, WalksAndRewrites, PTL

-----------------------------------------------------------------------------
(* When the walk is over: what hangs on the root, and what is a leaf.      *)
LEMMA LeftInPlace ==
  ASSUME WalkInv, RewriteInv, Done, NEW m \in Nodes, m > 1
  PROVE  m \in Range(kids[source[m].parent]) <=> ~TakenOut(m)
<1>1. WellFormed(source)
  BY DEF WalkInv, Typed
<1>2. PICK n \in Nodes : n = Parent(m) /\ n > 0
  <2>1. Parent(m) \in Nodes
    BY <1>1, NodeFacts
  <2> QED BY <2>1 DEF Nodes
<1>3. m \in Range(kids[source[m].parent]) <=> In(m, kids[n])
  BY <1>2 DEF In, Range, Parent
<1>4. CASE IsHandled(n)
  BY <1>2, <1>3, <1>4 DEF RewriteInv, ListInv
<1>5. CASE ~IsHandled(n)
  <2>1. Type(n) \notin Rewritten
    BY <1>5, AllHandled
  <2>2. ~TakenOut(m)
    <3>1. source[m].parent = n /\ source[n].type \notin Rewritten
      BY <2>1, <1>2 DEF Parent, Type
    <3> QED BY <3>1 DEF TakenOut, Rewritten
  <2>3. In(m, kids[n])
    <3>1. kids[n] = Kids(n)
      BY <1>5 DEF WalkInv, Lists
    <3>2. In(m, Kids(n))
      BY <1>1, <1>2, ParsedLists
    <3> QED BY <3>1, <3>2
  <2> QED BY <1>3, <2>2, <2>3
<1>6. QED BY <1>4, <1>5

(* A node hangs on the root unless it or one above it was taken out.       *)
LEMMA AttachedIsKept ==
  ASSUME WalkInv, RewriteInv, Done, NEW m \in 2 .. Len(source)
  PROVE  Attached(m) <=> ~Gone(m)
<1>1. /\ WellFormed(source) /\ DOMAIN source = Nodes /\ Len(source) \in Nat
      /\ Nodes = 1 .. Len(source)
  BY DEF WalkInv, Typed, WellFormed, Nodes
<1>2. \A n \in Nodes : n > 1 => (n \in Range(kids[source[n].parent]) <=> ~TakenOut(n))
  BY LeftInPlace
<1>3. ~TakenOut(1)
  <2>1. source[1].parent = 0
    BY <1>1 DEF WellFormed
  <2> QED BY <2>1 DEF TakenOut
<1>4. \A n \in Nodes : Below(source, m, n) => n < m
  BY DEF Below
<1>5. \A n \in 2 .. m : n \in Nodes /\ n > 1
  BY <1>1
<1>6. ASSUME Attached(m), Gone(m) PROVE FALSE
  <2>1. PICK n \in Nodes : TakenOut(n) /\ (n = m \/ Below(source, m, n))
    BY <1>1, <1>6 DEF Gone
  <2>2. n \in 2 .. m
    BY <2>1, <1>1, <1>3, <1>4
  <2>3. n \in Range(kids[source[n].parent])
    BY <2>1, <2>2, <1>6 DEF Attached
  <2> QED BY <2>1, <2>2, <2>3, <1>2, <1>5
<1>7. ASSUME ~Gone(m), NEW n \in 2 .. m, n = m \/ Below(source, m, n)
      PROVE  n \in Range(kids[source[n].parent])
  <2>1. ~TakenOut(n)
    BY <1>1, <1>5, <1>7 DEF Gone
  <2> QED BY <2>1, <1>2, <1>5
<1>8. QED BY <1>6, <1>7 DEF Attached

(* A node is a leaf if it was one, or if it is a lock.                     *)
LEMMA LeavesAreLeft ==
  ASSUME WalkInv, RewriteInv, Done, NEW m \in Nodes
  PROVE  kids[m] = << >> <=> Kids(m) = << >> \/ Type(m) = "LOCK_TABLE"
<1>1. WellFormed(source)
  BY DEF WalkInv, Typed
<1>2. /\ Rising(Kids(m)) /\ \A k \in Nodes : In(k, Kids(m)) <=> Parent(k) = m
      /\ \A k : In(k, Kids(m)) => k \in Nodes /\ k > 1
  BY <1>1, ParsedLists
<1>3. Rising(kids[m]) /\ \A k : In(k, kids[m]) => k \in Nodes /\ Parent(k) = m
  BY DEF RewriteInv, ListInv
<1>4. \A l : Rising(l) => (l = << >> <=> \A k : ~In(k, l))
  <2>1. ASSUME NEW l, Rising(l), l # << >>
        PROVE  \E k : In(k, l)
    <3>1. 1 \in DOMAIN l
      BY <2>1 DEF Rising
    <3> QED BY <3>1 DEF In
  <2>2. \A k : ~In(k, << >>)
    BY DEF In
  <2> QED BY <2>1, <2>2
<1>5. \A k : In(k, Kids(m)) => (In(k, kids[m]) <=> ~TakenOut(k))
  <2>1. ASSUME NEW k, In(k, Kids(m))
        PROVE  In(k, kids[m]) <=> ~TakenOut(k)
    <3>1. k \in Nodes /\ k > 1 /\ source[k].parent = m
      BY <2>1, <1>2 DEF Parent
    <3>2. k \in Range(kids[source[k].parent]) <=> ~TakenOut(k)
      BY <3>1, LeftInPlace
    <3>3. k \in Range(kids[m]) <=> In(k, kids[m])
      BY DEF In, Range
    <3> QED BY <3>1, <3>2, <3>3
  <2> QED BY <2>1
<1>6. ASSUME Kids(m) = << >> PROVE kids[m] = << >>
  <2>1. \A k : ~In(k, kids[m])
    BY <1>2, <1>3, <1>4, <1>6
  <2> QED BY <2>1, <1>3, <1>4
<1>7. ASSUME Type(m) = "LOCK_TABLE" PROVE kids[m] = << >>
  <2>1. ASSUME NEW k, In(k, kids[m]) PROVE FALSE
    <3>1. k \in Nodes /\ Parent(k) = m /\ In(k, Kids(m))
      BY <2>1, <1>2, <1>3
    <3>2. source[k].parent = m /\ source[m].type = "LOCK_TABLE" /\ m > 0
      BY <3>1, <1>7 DEF Parent, Type, Nodes
    <3>3. TakenOut(k)
      BY <3>2 DEF TakenOut
    <3> QED BY <3>1, <3>3, <2>1, <1>5
  <2> QED BY <2>1, <1>3, <1>4
<1>8. ASSUME Kids(m) # << >>, Type(m) # "LOCK_TABLE" PROVE kids[m] # << >>
  <2> DEFINE k == Kids(m)[1]
  <2>1. 1 \in DOMAIN Kids(m) /\ In(k, Kids(m))
    <3>1. 1 \in DOMAIN Kids(m)
      BY <1>2, <1>8 DEF Rising
    <3> QED BY <3>1 DEF In
  <2>2. ~TakenOut(k)
    <3>1. k \in Nodes /\ source[k].parent = m /\ source[m].type # "LOCK_TABLE"
          /\ k = source[m].kids[1]
      BY <2>1, <1>2, <1>8 DEF Parent, Type, Kids
    <3>2. source[m].type \in {"SHOW_TABLES", "SHOW_COLUMNS"} => source[k].type = "SHOW"
      BY <1>1, Shapes DEF Type
    <3> HIDE DEF k
    <3> QED BY <3>1, <3>2 DEF TakenOut
  <2>3. In(k, kids[m])
    BY <2>1, <2>2, <1>5
  <2> QED BY <2>3, <1>3, <1>4
<1>9. QED BY <1>6, <1>7, <1>8

(* When the walk is over, the leaves that no handler is for are printed as *)
(* they were parsed, and of a lock one empty text (what TreeWalkPrinter    *)
(* comes to).                                                              *)
THEOREM OthersAreKept == Spec => []OthersKept
<1>1. WalkInv /\ RewriteInv => OthersKept
  <2> SUFFICES ASSUME WalkInv, RewriteInv, Done PROVE OthersKept
    BY DEF OthersKept
  <2>1. WellFormed(source) /\ Nodes = 1 .. Len(source) /\ Len(source) \in Nat
    BY DEF WalkInv, Typed, WellFormed, Nodes
  <2>2. \A m \in 2 .. Len(source) : m \in Nodes
    BY <2>1
  <2>3. Printed = {m \in 2 .. Len(source) :
                     /\ source[m].kids = << >> \/ source[m].type = "LOCK_TABLE"
                     /\ source[m].type # "EOF" /\ ~Gone(m)}
    <3>1. \A m \in 2 .. Len(source) :
            /\ kids[m] = << >> <=> source[m].kids = << >> \/ source[m].type = "LOCK_TABLE"
            /\ Attached(m) <=> ~Gone(m)
      BY <2>2, LeavesAreLeft, AttachedIsKept DEF Kids, Type
    <3> QED BY <3>1 DEF Printed
  <2>4. ASSUME NEW m \in Printed
        PROVE  /\ ~Renamed(m) => text[m] = source[m].text
               /\ source[m].type = "LOCK_TABLE" => text[m] = << >>
    <3>1. m \in Nodes /\ m > 1 /\ (source[m].kids = << >> \/ source[m].type = "LOCK_TABLE")
      BY <2>2, <2>3
    <3>2. ASSUME source[m].type = "LOCK_TABLE" PROVE text[m] = << >>
      <4>1. Type(m) = "LOCK_TABLE" /\ IsHandled(m)
        BY <3>1, <3>2, AllHandled DEF Rewritten, Type
      <4> QED BY <4>1, <3>1 DEF RewriteInv, TextInv
    <3>3. ASSUME ~Renamed(m) PROVE text[m] = source[m].text
      <4>1. Type(m) \notin {"LOCK_TABLE", "FOUND_ROWS"}
        BY <3>3 DEF Renamed, Type
      <4>2. text[m] = source[m].text
            \/ (Type(m) \in Touchable /\ Type(Parent(m)) = "FUNCTION_IF")
        BY <3>1, <3>3, <4>1 DEF RewriteInv, TextInv
      <4>3. ASSUME Type(Parent(m)) = "FUNCTION_IF" PROVE FALSE
        <5>1. PICK n \in Nodes : n = Parent(m)
          BY <2>1, <3>1, NodeFacts
        <5>2. In(m, Kids(n))
          BY <2>1, <3>1, <5>1, ParsedLists
        <5>3. PICK p \in DOMAIN Kids(n) : Kids(n)[p] = m
          BY <5>2 DEF In
        <5>4. Len(Kids(n)) = 3 /\ \A q \in 1 .. 3 : Type(Kids(n)[q]) = "CALL_PARAMETER"
          BY <2>1, <4>3, <5>1, Shapes
        <5>5. DOMAIN Kids(n) = 1 .. Len(Kids(n))
          BY <2>1, KidFacts
        <5>6. Type(m) = "CALL_PARAMETER"
          BY <5>3, <5>4, <5>5
        <5>7. Kids(m) # << >>
          BY <2>1, <3>1, <5>6, Shapes
        <5> QED BY <3>1, <5>6, <5>7 DEF Kids, Type
      <4> QED BY <4>2, <4>3
    <3> QED BY <3>2, <3>3
  <2> QED BY <2>3, <2>4 DEF OthersKept
<1>2. QED BY <1>1, WalksAndRewrites, PTL
=============================================================================
