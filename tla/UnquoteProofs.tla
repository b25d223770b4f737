--------------------------- MODULE UnquoteProofs ---------------------------
(***************************************************************************)
(* Proofs about unquote, for any number of threads and calls.              *)
(***************************************************************************)
EXTENDS Unquote, TLAPS

(* The steps keep the types of the variables.                              *)
LEMMA TypeStep == TypeOK /\ [Next]_vars => TypeOK'
<1> SUFFICES ASSUME TypeOK, [Next]_vars PROVE TypeOK'
    OBVIOUS
<1> USE DEF TypeOK, Places, Go
<1>1. ASSUME NEW t \in Threads, Enter(t) PROVE TypeOK'
      BY <1>1 DEF Enter
<1>2. ASSUME NEW t \in Threads, Lock(t) PROVE TypeOK'
      BY <1>2 DEF Lock
<1>3. ASSUME NEW t \in Threads, Wake(t) PROVE TypeOK'
      BY <1>3 DEF Wake
<1>4. ASSUME NEW t \in Threads, Make(t) PROVE TypeOK'
      BY <1>4 DEF Make
<1>5. ASSUME NEW t \in Threads, Store(t) PROVE TypeOK'
      BY <1>5 DEF Store
<1>6. ASSUME NEW t \in Threads, Leave(t) PROVE TypeOK'
      BY <1>6 DEF Leave
<1>7. ASSUME NEW t \in Threads, Replace(t) PROVE TypeOK'
      BY <1>7 DEF Replace
<1>8. CASE UNCHANGED vars
      BY <1>8 DEF vars
<1>9. QED BY <1>1, <1>2, <1>3, <1>4, <1>5, <1>6, <1>7, <1>8 DEF Next, Thread

(* The list of GLib admits one thread, and no step lets a second one in.   *)
LEMMA OneMakerStep == IInv /\ [Next]_vars => OneMaker'
<1> SUFFICES ASSUME IInv, [Next]_vars PROVE OneMaker'
    OBVIOUS
<1> USE DEF IInv, TypeOK, Places, OneMaker, Making, Go
<1>1. ASSUME NEW t \in Threads, Enter(t) PROVE OneMaker'
      BY <1>1 DEF Enter
<1>2. ASSUME NEW t \in Threads, Lock(t) PROVE OneMaker'
  <2>1. CASE initialized # 0 \/ beingMade
        BY <1>2, <2>1 DEF Lock
  <2>2. CASE initialized = 0 /\ ~beingMade
        BY <1>2, <2>2 DEF Lock
  <2>3. QED BY <2>1, <2>2
<1>3. ASSUME NEW t \in Threads, Wake(t) PROVE OneMaker'
      BY <1>3 DEF Wake
<1>4. ASSUME NEW t \in Threads, Make(t) PROVE OneMaker'
      BY <1>4 DEF Make
<1>5. ASSUME NEW t \in Threads, Store(t) PROVE OneMaker'
      BY <1>5 DEF Store
<1>6. ASSUME NEW t \in Threads, Leave(t) PROVE OneMaker'
      BY <1>6 DEF Leave
<1>7. ASSUME NEW t \in Threads, Replace(t) PROVE OneMaker'
      BY <1>7 DEF Replace
<1>8. CASE UNCHANGED vars
      BY <1>8 DEF vars
<1>9. QED BY <1>1, <1>2, <1>3, <1>4, <1>5, <1>6, <1>7, <1>8 DEF Next, Thread

(* What the location says of the pattern stays true.                       *)
LEMMA ProgressStep == IInv /\ [Next]_vars => Progress'
<1> SUFFICES ASSUME IInv, [Next]_vars PROVE Progress'
    OBVIOUS
<1> USE DEF IInv, TypeOK, Places, OneMaker, Making, Progress, Go
<1>1. ASSUME NEW t \in Threads, Enter(t) PROVE Progress'
      BY <1>1 DEF Enter
<1>2. ASSUME NEW t \in Threads, Lock(t) PROVE Progress'
      BY <1>2 DEF Lock
<1>3. ASSUME NEW t \in Threads, Wake(t) PROVE Progress'
      BY <1>3 DEF Wake
<1>4. ASSUME NEW t \in Threads, Make(t) PROVE Progress'
      BY <1>4 DEF Make
<1>5. ASSUME NEW t \in Threads, Store(t) PROVE Progress'
      BY <1>5 DEF Store
<1>6. ASSUME NEW t \in Threads, Leave(t) PROVE Progress'
      BY <1>6 DEF Leave
<1>7. ASSUME NEW t \in Threads, Replace(t) PROVE Progress'
      BY <1>7 DEF Replace
<1>8. CASE UNCHANGED vars
      BY <1>8 DEF vars
<1>9. QED BY <1>1, <1>2, <1>3, <1>4, <1>5, <1>6, <1>7, <1>8 DEF Next, Thread

LEMMA Invariance == Spec => []IInv
<1>1. Init => IInv
  <2>1. Init => TypeOK
    <3>1. Calls \in Nat
          BY CallsAssumption
    <3>2. Init => /\ pc \in [Threads -> Places] /\ left \in [Threads -> Nat]
                  /\ used \in [Threads -> Nat \union {-1}]
          BY <3>1 DEF Init, Places
    <3>3. Init => beingMade \in BOOLEAN /\ signalled \in SUBSET Threads
          BY DEF Init
    <3>4. Init => pattern \in Nat /\ made \in Nat /\ initialized \in {0, 1}
          BY DEF Init
    <3>5. QED BY <3>2, <3>3, <3>4 DEF TypeOK
  <2>2. Init => OneMaker /\ Progress
        BY DEF Init, OneMaker, Making, Progress
  <2>3. QED BY <2>1, <2>2 DEF IInv
<1>2. IInv /\ [Next]_vars => IInv'
      BY TypeStep, OneMakerStep, ProgressStep DEF IInv
<1>3. QED BY <1>1, <1>2, PTL DEF Spec

(* Every call of g_regex_replace_literal is given the one pattern, however *)
(* many threads call unquote at the same time.                             *)
THEOREM OnePatternForAll == Spec => []OneForAll
<1>1. IInv => OneForAll
  <2>1. IInv => made <= 1
        BY DEF IInv, TypeOK, OneMaker, Making, Progress
  <2>2. IInv => \A t \in Threads : used[t] \in {-1, 1} /\ (pc[t] = "replace" => pattern = 1)
        BY DEF IInv, TypeOK, Progress
  <2>3. QED BY <2>1, <2>2 DEF OneForAll
<1>2. QED BY <1>1, Invariance, PTL
=============================================================================
