--------------------------- MODULE SessionProofs ---------------------------
(***************************************************************************)
(* Proofs about the calls of Session: which objects of a call exist when,  *)
(* that the state has its types, and what becomes of the statements that   *)
(* the walks queue: their order, that none is lost or sent twice, and what *)
(* is printed in front of them for a client that prints in turn.           *)
(***************************************************************************)
EXTENDS Session, FiniteSetTheorems, FunctionTheorems, NaturalsInduction, WellFoundedInduction,
        TLAPS

(* What the heap depends on of the calls: while the walk runs, it is that  *)
(* of the last call, and of no other.                                      *)
CallRecord ==
  [by     : {"pgify", "pgify_string"},
   script : Scripts,
   status : {"walking", "live", "failed", "freed", "refused"},
   after  : Nat]
CallsOK ==
  /\ calls \in Seq(CallRecord) /\ prints \in Seq(Nat) /\ walk \in Nat
  /\ walk > 0 => Len(calls) > 0
  /\ \A c \in DOMAIN calls : calls[c].status = "walking" <=> walk > 0 /\ c = Len(calls)

(* A call that is still to come owns nothing: ObjectsOwned alone says      *)
(* nothing of the heap at the number that Begin is about to give out.      *)
FutureEmpty == \A c \in Nat, o \in Objects : c > Len(calls) => <<c, o>> \notin heap

Inv == CallsOK /\ FutureEmpty /\ ObjectsOwned

(* What a call with this status owns.                                      *)
Owns(status) ==
  CASE status = "live"    -> Objects
    [] status = "walking" -> Objects \ {"pt"}
    [] OTHER              -> {}

-----------------------------------------------------------------------------
LEMMA InitInv == Init => Inv
  BY DEF Init, Inv, CallsOK, FutureEmpty, ObjectsOwned

(* The status of a call decides what it owns.                              *)
LEMMA Owned ==
  ASSUME ObjectsOwned
  PROVE  \A c \in DOMAIN calls, o \in Objects : <<c, o>> \in heap <=> o \in Owns(calls[c].status)
<1> TAKE c \in DOMAIN calls, o \in Objects
<1>1. {x \in Objects : <<c, x>> \in heap} = Owns(calls[c].status)
  BY DEF ObjectsOwned, Owns
<1> QED
  BY <1>1

LEMMA OwnedAgain ==
  ASSUME \A c \in DOMAIN calls', o \in Objects : <<c, o>> \in heap' <=> o \in Owns(calls'[c].status)
  PROVE  ObjectsOwned'
<1> SUFFICES ASSUME NEW c \in DOMAIN calls'
             PROVE  {o \in Objects : <<c, o>> \in heap'} = Owns(calls'[c].status)
  BY DEF ObjectsOwned, Owns
<1>1. Owns(calls'[c].status) \subseteq Objects
  BY DEF Owns
<1> QED
  BY <1>1

(* A call begins or is refused.                                            *)
LEMMA NewCall ==
  ASSUME Inv, walk = 0, NEW by \in {"pgify", "pgify_string"}, NEW script \in Scripts,
         NEW status \in {"walking", "refused"},
         calls' = Call(by, script, status), prints' = prints,
         walk' = IF status = "walking" THEN 1 ELSE 0,
         NEW extra \in SUBSET (Objects \union {"output"}),
         heap' = heap \union Of(Current + 1, extra),
         extra \cap Objects = Owns(status)
  PROVE  Inv'
<1> DEFINE n == Len(calls)
           new == [by |-> by, script |-> script, status |-> status, after |-> Len(prints)]
<1>1. /\ calls \in Seq(CallRecord) /\ prints \in Seq(Nat) /\ n \in Nat /\ DOMAIN calls = 1 .. n
      /\ Len(prints) \in Nat /\ FutureEmpty /\ ObjectsOwned
  BY DEF Inv, CallsOK
<1>2. new \in CallRecord /\ calls' = Append(calls, new)
  BY <1>1 DEF CallRecord, Call
<1>3. /\ calls' \in Seq(CallRecord) /\ Len(calls') = n + 1 /\ DOMAIN calls' = 1 .. n + 1
      /\ calls'[n + 1] = new /\ \A c \in 1 .. n : calls'[c] = calls[c]
  BY <1>1, <1>2
<1>4. new.status = status
  OBVIOUS
<1> HIDE DEF new
<1>5. CallsOK'
  <2>1. \A c \in 1 .. n : calls[c].status # "walking"
    BY <1>1 DEF Inv, CallsOK
  <2>2. \A c \in 1 .. n : calls'[c].status # "walking" /\ c # n + 1
    BY <1>3, <2>1, <1>1
  <2>3. calls'[n + 1].status = "walking" <=> walk' > 0
    BY <1>3, <1>4
  <2>4. \A c \in DOMAIN calls' : c \in 1 .. n \/ c = n + 1
    BY <1>1, <1>3
  <2>5. \A c \in DOMAIN calls' : calls'[c].status = "walking" <=> walk' > 0 /\ c = Len(calls')
    BY <1>3, <2>2, <2>3, <2>4
  <2> QED
    BY <1>1, <1>3, <2>5 DEF CallsOK
<1>6. \A c \in Nat, o \in Objects : <<c, o>> \in heap' <=>
        <<c, o>> \in heap \/ (c = n + 1 /\ o \in extra)
  <2>1. heap' = heap \union ({n + 1} \X extra)
    BY DEF Of, Current
  <2>2. \A c, o : <<c, o>> \in {n + 1} \X extra <=> c = n + 1 /\ o \in extra
    OBVIOUS
  <2> QED
    BY <2>1, <2>2
<1>7. FutureEmpty'
  <2> SUFFICES ASSUME NEW c \in Nat, NEW o \in Objects, c > n + 1 PROVE <<c, o>> \notin heap'
    BY <1>3 DEF FutureEmpty
  <2>1. c > n /\ c # n + 1
    BY <1>1
  <2> QED
    BY <2>1, <1>1, <1>6 DEF FutureEmpty
<1>8. ASSUME NEW c \in DOMAIN calls', NEW o \in Objects
      PROVE  <<c, o>> \in heap' <=> o \in Owns(calls'[c].status)
  <2>1. CASE c \in 1 .. n
    <3>1. c \in Nat /\ c # n + 1 /\ c \in DOMAIN calls
      BY <2>1, <1>1
    <3> QED
      BY <2>1, <3>1, <1>1, <1>3, <1>6, Owned
  <2>2. CASE c = n + 1
    <3>1. <<c, o>> \notin heap /\ c \in Nat
      BY <2>2, <1>1 DEF FutureEmpty
    <3> QED
      BY <2>2, <3>1, <1>3, <1>4, <1>6
  <2> QED
    BY <2>1, <2>2, <1>3, <1>1
<1> QED
  BY <1>5, <1>7, <1>8, OwnedAgain DEF Inv

(* The status of a call changes, and with it what the call owns.           *)
LEMMA StatusStep ==
  ASSUME Inv, NEW call \in DOMAIN calls, NEW status \in {"live", "failed", "freed"},
         calls[call].status = "walking" \/ walk = 0,
         calls' = [calls EXCEPT ![call].status = status], walk' = 0, prints' \in Seq(Nat),
         NEW lost \in SUBSET Objects, NEW extra \in SUBSET (Objects \union {"output"}),
         heap' = (heap \ Of(call, lost)) \union Of(call, extra),
         \A o \in Objects :
           o \in Owns(status) <=> (o \in Owns(calls[call].status) /\ o \notin lost) \/ o \in extra
  PROVE  Inv'
<1> DEFINE n == Len(calls)
<1>1. /\ calls \in Seq(CallRecord) /\ n \in Nat /\ DOMAIN calls = 1 .. n
      /\ FutureEmpty /\ ObjectsOwned /\ walk \in Nat
      /\ \A c \in DOMAIN calls : calls[c].status = "walking" <=> walk > 0 /\ c = n
  BY DEF Inv, CallsOK
<1>2. /\ calls' \in Seq(CallRecord) /\ Len(calls') = n /\ DOMAIN calls' = 1 .. n
      /\ calls'[call].status = status
      /\ \A c \in 1 .. n : c # call => calls'[c] = calls[c]
  <2>0. calls[call] \in CallRecord
    BY <1>1
  <2>1. [calls[call] EXCEPT !.status = status] \in CallRecord
    BY <2>0 DEF CallRecord
  <2>2. [calls[call] EXCEPT !.status = status].status = status
    BY <2>0 DEF CallRecord
  <2>3. calls' = [calls EXCEPT ![call] = [calls[call] EXCEPT !.status = status]]
    OBVIOUS
  <2> QED
    BY <1>1, <2>1, <2>2, <2>3
<1>3. \A c \in DOMAIN calls' : calls'[c].status # "walking"
  <2> TAKE c \in DOMAIN calls'
  <2>1. CASE c = call
    BY <1>2, <2>1
  <2>2. CASE c # call
    BY <1>1, <1>2, <2>2
  <2> QED
    BY <2>1, <2>2
<1>4. CallsOK'
  BY <1>1, <1>2, <1>3 DEF CallsOK
<1>5. \A c \in Nat, o \in Objects : <<c, o>> \in heap' <=>
        (<<c, o>> \in heap /\ ~(c = call /\ o \in lost)) \/ (c = call /\ o \in extra)
  BY DEF Of
<1>6. FutureEmpty'
  <2> SUFFICES ASSUME NEW c \in Nat, NEW o \in Objects, c > n PROVE <<c, o>> \notin heap'
    BY <1>2 DEF FutureEmpty
  <2>1. c # call
    BY <1>1
  <2> QED
    BY <2>1, <1>1, <1>5 DEF FutureEmpty
<1>7. ASSUME NEW c \in DOMAIN calls', NEW o \in Objects
      PROVE  <<c, o>> \in heap' <=> o \in Owns(calls'[c].status)
  <2>0. c \in Nat /\ c \in DOMAIN calls /\ c \in 1 .. n
    BY <1>1, <1>2
  <2>1. <<c, o>> \in heap <=> o \in Owns(calls[c].status)
    BY <2>0, <1>1, Owned
  <2>2. CASE c = call
    BY <2>0, <2>1, <2>2, <1>2, <1>5
  <2>3. CASE c # call
    BY <2>0, <2>1, <2>3, <1>2, <1>5
  <2> QED
    BY <2>2, <2>3
<1> QED
  BY <1>4, <1>6, <1>7, OwnedAgain DEF Inv

(* A step that leaves the calls and the heap alone.                        *)
LEMMA SameCalls ==
  ASSUME Inv, UNCHANGED <<calls, heap>>, prints' \in Seq(Nat), walk' \in Nat,
         walk' > 0 <=> walk > 0
  PROVE  Inv'
  BY DEF Inv, CallsOK, FutureEmpty, ObjectsOwned

LEMMA NextInv == Inv /\ [Next]_vars => Inv'
<1> SUFFICES ASSUME Inv, [Next]_vars PROVE Inv'
  OBVIOUS
<1>1. /\ calls \in Seq(CallRecord) /\ Len(calls) \in Nat /\ DOMAIN calls = 1 .. Len(calls)
      /\ prints \in Seq(Nat) /\ walk \in Nat
      /\ walk > 0 => Current \in DOMAIN calls /\ calls[Current].status = "walking"
  BY DEF Inv, CallsOK, Current
<1>2. ASSUME NEW by \in {"pgify", "pgify_string"}, NEW script \in Scripts, Begin(by, script)
      PROVE  Inv'
  <2> DEFINE extra == {"lxr", "tstream", "psr"}
  <2>1. /\ walk = 0 /\ walk' = 1 /\ prints' = prints
        /\ calls' = Call(by, script, "walking") /\ heap' = heap \union Of(Current + 1, extra)
    BY <1>2 DEF Begin, MayCall, Idle
  <2>2. extra \in SUBSET (Objects \union {"output"}) /\ extra \cap Objects = Owns("walking")
    BY DEF Objects, Owns
  <2> HIDE DEF extra
  <2> QED
    BY <2>1, <2>2, NewCall
<1>3. ASSUME NEW by \in {"pgify", "pgify_string"}, NEW script \in Scripts, FailEarly(by, script)
      PROVE  Inv'
  <2> DEFINE extra == IF by = "pgify_string" THEN {"output"} ELSE {}
  <2>1. /\ walk = 0 /\ walk' = walk /\ prints' = prints
        /\ calls' = Call(by, script, "refused") /\ heap' = heap \union Left(by, Current + 1)
    BY <1>3 DEF FailEarly, MayCall, Idle
  <2>2. Left(by, Current + 1) = Of(Current + 1, extra)
    BY DEF Left, Of
  <2>3. extra \in SUBSET (Objects \union {"output"}) /\ extra \cap Objects = Owns("refused")
    BY DEF Objects, Owns
  <2> HIDE DEF extra
  <2> QED
    BY <2>1, <2>2, <2>3, NewCall
<1>4. CASE WalkUse \/ WalkCreate \/ WalkOther
  <2>1. /\ UNCHANGED <<calls, heap>> /\ prints' = prints /\ walk > 0 /\ walk' = walk + 1
    BY <1>4 DEF WalkUse, WalkCreate, WalkOther, Walking
  <2> QED
    BY <2>1, <1>1, SameCalls
<1>5. CASE ReturnTree
  <2>1. /\ walk > 0 /\ calls' = [calls EXCEPT ![Current].status = "live"]
        /\ walk' = 0 /\ prints' = prints
        /\ heap' = (heap \ Of(Current, {})) \union Of(Current, {"pt"})
    BY <1>5 DEF ReturnTree, Walked, Walking, Of
  <2> DEFINE lost  == {}
             extra == {"pt"}
  <2>2. \A o \in Objects :
          o \in Owns("live") <=> (o \in Owns("walking") /\ o \notin lost) \/ o \in extra
    BY DEF Owns, Objects
  <2>3. lost \in SUBSET Objects /\ extra \in SUBSET (Objects \union {"output"})
    BY DEF Objects
  <2>4. heap' = (heap \ Of(Current, lost)) \union Of(Current, extra)
    BY <2>1
  <2> HIDE DEF lost, extra
  <2>5. /\ Current \in DOMAIN calls /\ calls[Current].status = "walking"
        /\ calls' = [calls EXCEPT ![Current].status = "live"]
        /\ walk' = 0 /\ prints' \in Seq(Nat)
    BY <2>1, <1>1
  <2>6. \A o \in Objects :
          o \in Owns("live") <=>
            (o \in Owns(calls[Current].status) /\ o \notin lost) \/ o \in extra
    BY <2>2, <2>5
  <2> QED
    BY <2>3, <2>4, <2>5, <2>6, StatusStep
<1>6. CASE FailLate
  <2> DEFINE extra == IF calls[Current].by = "pgify_string" THEN {"output"} ELSE {}
  <2>1. /\ walk > 0 /\ calls' = [calls EXCEPT ![Current].status = "failed"]
        /\ walk' = 0 /\ prints' = prints
        /\ heap' = (heap \ Of(Current, Objects)) \union Left(calls[Current].by, Current)
    BY <1>6 DEF FailLate, Walked, Walking
  <2>2. Left(calls[Current].by, Current) = Of(Current, extra)
    BY DEF Left, Of
  <2>3. /\ extra \in SUBSET (Objects \union {"output"})
        /\ \A o \in Objects :
             o \in Owns("failed") <=> (o \in Owns("walking") /\ o \notin Objects) \/ o \in extra
    BY DEF Objects, Owns
  <2> HIDE DEF extra
  <2> QED
    BY <2>1, <2>2, <2>3, <1>1, StatusStep
<1>7. ASSUME NEW call \in DOMAIN calls, NEW old \in {"walking", "live"},
             calls[call].status = old, old = "walking" \/ walk = 0,
             calls' = [calls EXCEPT ![call].status = "freed"],
             walk' = 0, prints' \in Seq(Nat), heap' = heap \ Of(call, Objects)
      PROVE  Inv'
  <2> DEFINE extra == {}
  <2>1. heap' = (heap \ Of(call, Objects)) \union Of(call, extra)
    BY <1>7 DEF Of
  <2>2. /\ extra \in SUBSET (Objects \union {"output"})
        /\ \A o \in Objects :
             o \in Owns("freed") <=>
               (o \in Owns(calls[call].status) /\ o \notin Objects) \/ o \in extra
    BY DEF Owns
  <2> HIDE DEF extra
  <2> QED
    BY <1>7, <2>1, <2>2, StatusStep
<1>8. CASE ReturnString
  <2>1. /\ walk > 0 /\ calls' = [calls EXCEPT ![Current].status = "freed"]
        /\ walk' = 0 /\ prints' = Append(prints, Current)
        /\ heap' = heap \ Of(Current, Objects)
    BY <1>8 DEF ReturnString, PrintTree, Walked, Walking
  <2>2. prints' \in Seq(Nat)
    BY <2>1, <1>1
  <2> QED
    BY <2>1, <2>2, <1>1, <1>7
<1>9. ASSUME NEW call \in DOMAIN calls, PgifyStringTree(call)
      PROVE  Inv'
  <2>1. UNCHANGED <<calls, heap, walk>> /\ prints' = Append(prints, call)
    BY <1>9 DEF PgifyStringTree, PrintTree
  <2>2. prints' \in Seq(Nat)
    BY <2>1, <1>1
  <2> QED
    BY <2>1, <2>2, <1>1, SameCalls
<1>10. ASSUME NEW call \in DOMAIN calls, PgifytreeFree(call)
       PROVE  Inv'
  <2>1. /\ walk = 0 /\ walk' = 0 /\ calls[call].status = "live" /\ prints' = prints
        /\ calls' = [calls EXCEPT ![call].status = "freed"] /\ heap' = heap \ Of(call, Objects)
    BY <1>10 DEF PgifytreeFree, Idle, state
  <2> QED
    BY <2>1, <1>1, <1>7
<1>11. CASE WalkerstateFree
  BY <1>11, <1>1, SameCalls DEF WalkerstateFree
<1>12. CASE UNCHANGED vars
  BY <1>12, <1>1, SameCalls DEF vars
<1> QED
  BY <1>2, <1>3, <1>4, <1>5, <1>6, <1>8, <1>9, <1>10, <1>11, <1>12 DEF Next

(* Whatever the client calls, in whatever order it frees and prints, and   *)
(* whichever allocation fails: the lexer, the token stream, the parser and *)
(* the tree of a call exist as long as its tree is in the client's hands,  *)
(* and of these four nothing exists any longer (pgify, its cleanup,        *)
(* pgifytree_free).  The string that a failed pgify_string had made for    *)
(* its output is none of them; it is never freed.                          *)
THEOREM ObjectsStayOwned == Spec => []ObjectsOwned
<1>1. Inv => ObjectsOwned
  BY DEF Inv
<1> QED
  BY <1>1, InitInv, NextInv, PTL DEF Spec
-----------------------------------------------------------------------------
(* The scripts are what ScriptsAssumption says of them.                    *)
LEMMA ScriptProperties ==
  ASSUME NEW s \in Scripts
  PROVE  /\ s \in Seq(Stmt) /\ Len(s) \in Nat /\ DOMAIN s = 1 .. Len(s)
         /\ \A p \in 1 .. Len(s) :
              /\ s[p].kind \in {"use", "create", "other"}
                   /\ s[p].schema \in Schemas \union {NoSchema}
              /\ s[p].queues \subseteq {"INDEX", "FKEY"}
<1>1. s \in Seq(Stmt)
  BY ScriptsAssumption
<1>2. Len(s) \in Nat /\ DOMAIN s = 1 .. Len(s) /\ \A p \in 1 .. Len(s) : s[p] \in Stmt
  BY <1>1
<1>3. \A t \in Stmt : /\ t.kind \in {"use", "create", "other"}
        /\ t.schema \in Schemas \union {NoSchema}
                      /\ t.queues \subseteq {"INDEX", "FKEY"}
  BY DEF Stmt
<1> QED
  BY <1>1, <1>2, <1>3

-----------------------------------------------------------------------------
(* What is queued and what is printed, and the calls and places it names.  *)
LEMMA SendIsSent ==
  ASSUME NEW what \in {"USE", "OTHER", "CREATE", "INDEX", "FKEY"},
         NEW schema \in Schemas \union {NoSchema}, NEW c \in Nat, NEW p \in Nat
  PROVE  /\ Send(what, schema, c, p) \in Sent
         /\ Send(what, schema, c, p).what = what /\ Send(what, schema, c, p).schema = schema
         /\ Send(what, schema, c, p).call = c /\ Send(what, schema, c, p).place = p
  BY DEF Send, Sent

LEMMA QueueOfProperties ==
  ASSUME NEW stmt \in Stmt, NEW schema \in Schemas \union {NoSchema}, NEW c \in Nat, NEW p \in Nat
  PROVE  /\ QueueOf(stmt, schema, c, p) \in Seq(Sent)
         /\ \A i \in DOMAIN QueueOf(stmt, schema, c, p) :
              LET e == QueueOf(stmt, schema, c, p)[i]
              IN  /\ e.call = c /\ e.place = p /\ e.what \in Queued
                  /\ e.what = "INDEX" => e.schema = schema
<1> DEFINE index == Send("INDEX", schema, c, p)
           fkey  == Send("FKEY", NoSchema, c, p)
<1>1. /\ index \in Sent /\ index.what = "INDEX" /\ index.schema = schema /\ index.call = c
           /\ index.place = p
      /\ fkey \in Sent /\ fkey.what = "FKEY" /\ fkey.call = c /\ fkey.place = p
  BY SendIsSent
<1>2. QueueOf(stmt, schema, c, p)
        \in {<<>> \o <<>>, <<index>> \o <<>>, <<>> \o <<fkey>>, <<index>> \o <<fkey>>}
  BY DEF QueueOf
<1> HIDE DEF index, fkey
<1>3. \A q \in {<<>> \o <<>>, <<index>> \o <<>>, <<>> \o <<fkey>>, <<index>> \o <<fkey>>} :
         q \in Seq({index, fkey})
  <2>1. <<>> \in Seq({index, fkey}) /\ <<index>> \in Seq({index, fkey})
          /\ <<fkey>> \in Seq({index, fkey})
    OBVIOUS
  <2>2. \A q, r \in Seq({index, fkey}) : q \o r \in Seq({index, fkey})
    OBVIOUS
  <2> QED
    BY <2>1, <2>2
<1>31. {index, fkey} \subseteq Sent
  BY <1>1
<1>32. \A q \in Seq({index, fkey}) : q \in Seq(Sent) /\ \A i \in DOMAIN q : q[i] \in {index, fkey}
  BY <1>31
<1>4. \A e \in {index, fkey} : /\ e.call = c /\ e.place = p /\ e.what \in Queued
                               /\ e.what = "INDEX" => e.schema = schema
  BY <1>1 DEF Queued
<1> QED
  BY <1>2, <1>3, <1>32, <1>4

LEMMA StatementsProperties ==
  ASSUME NEW c \in Nat, c \in DOMAIN calls, calls[c].script \in Scripts
  PROVE  /\ Statements(c) \in Seq(Sent) /\ Len(Statements(c)) = Len(calls[c].script)
         /\ \A p \in 1 .. Len(calls[c].script) :
              /\ Statements(c)[p].call = c /\ Statements(c)[p].place = p
              /\ Statements(c)[p].what \notin Queued
              /\ Statements(c)[p].what = "CREATE" <=> calls[c].script[p].kind = "create"
              /\ Statements(c)[p].what = "USE" <=> calls[c].script[p].kind = "use"
              /\ calls[c].script[p].kind = "use"
                   => Statements(c)[p].schema = calls[c].script[p].schema
<1> DEFINE s == calls[c].script
           one(p) == CASE s[p].kind = "use"    -> Send("USE", s[p].schema, c, p)
                       [] s[p].kind = "create" -> Send("CREATE", NoSchema, c, p)
                       [] OTHER                -> Send("OTHER", NoSchema, c, p)
<1>1. /\ Len(s) \in Nat /\ DOMAIN s = 1 .. Len(s)
      /\ \A p \in 1 .. Len(s) : s[p].schema \in Schemas \union {NoSchema}
  BY ScriptProperties
<1>2. Statements(c) = [p \in 1 .. Len(s) |-> one(p)]
  BY <1>1 DEF Statements
<1> HIDE DEF s
<1>3. ASSUME NEW p \in 1 .. Len(s)
      PROVE  /\ one(p) \in Sent /\ one(p).call = c /\ one(p).place = p /\ one(p).what \notin Queued
             /\ one(p).what = "CREATE" <=> s[p].kind = "create"
             /\ one(p).what = "USE" <=> s[p].kind = "use"
             /\ s[p].kind = "use" => one(p).schema = s[p].schema
  <2>1. p \in Nat /\ s[p].schema \in Schemas \union {NoSchema}
          /\ NoSchema \in Schemas \union {NoSchema}
    BY <1>1
  <2>2. CASE s[p].kind = "use"
    <3>1. one(p) = Send("USE", s[p].schema, c, p)
      BY <2>2
    <3>2. /\ Send("USE", s[p].schema, c, p) \in Sent /\ Send("USE", s[p].schema, c, p).what = "USE"
          /\ Send("USE", s[p].schema, c, p).call = c /\ Send("USE", s[p].schema, c, p).place = p
          /\ Send("USE", s[p].schema, c, p).schema = s[p].schema
      BY <2>1 DEF Send, Sent
    <3> HIDE DEF one
    <3> QED
      BY <2>2, <3>1, <3>2 DEF Queued
  <2>3. CASE s[p].kind = "create"
    <3>1. one(p) = Send("CREATE", NoSchema, c, p)
      BY <2>3
    <3>2. /\ Send("CREATE", NoSchema, c, p) \in Sent
               /\ Send("CREATE", NoSchema, c, p).what = "CREATE"
          /\ Send("CREATE", NoSchema, c, p).call = c /\ Send("CREATE", NoSchema, c, p).place = p
      BY <2>1 DEF Send, Sent
    <3> HIDE DEF one
    <3> QED
      BY <2>3, <3>1, <3>2 DEF Queued
  <2>4. CASE s[p].kind \notin {"use", "create"}
    <3>1. one(p) = Send("OTHER", NoSchema, c, p)
      BY <2>4
    <3>2. /\ Send("OTHER", NoSchema, c, p) \in Sent /\ Send("OTHER", NoSchema, c, p).what = "OTHER"
          /\ Send("OTHER", NoSchema, c, p).call = c /\ Send("OTHER", NoSchema, c, p).place = p
      BY <2>1 DEF Send, Sent
    <3> HIDE DEF one
    <3> QED
      BY <2>4, <3>1, <3>2 DEF Queued
  <2> QED
    BY <2>2, <2>3, <2>4
<1> HIDE DEF one
<1> QED
  BY <1>1, <1>2, <1>3 DEF s

-----------------------------------------------------------------------------
(* The steps, by what they do to the calls and to what is printed.  How    *)
(* many statements of the last call the walk has seen:                     *)
Seen == IF walk > 0 THEN walk - 1
        ELSE IF calls[Current].status = "refused" THEN 0 ELSE Len(calls[Current].script)

SameScripts ==
  /\ Len(calls') = Len(calls)
  /\ \A c \in 1 .. Len(calls) : /\ calls'[c].script = calls[c].script
                                /\ calls'[c].after = calls[c].after

CallMade ==
  /\ walk = 0 /\ walk' \in {0, 1} /\ Seen' = 0
  /\ Len(calls') = Len(calls) + 1
  /\ \A c \in 1 .. Len(calls) : calls'[c] = calls[c]
  /\ calls'[Len(calls) + 1].after = Len(prints)
  /\ calls'[Len(calls) + 1].status \in {"walking", "refused"}
  /\ UNCHANGED <<alive, schemaName, postbuf, prints, output>>

Walks ==
  /\ walk > 0 /\ walk <= Len(calls[Current].script) /\ walk' = walk + 1
  /\ UNCHANGED <<alive, calls, prints, output>>
  /\ \/ Here.kind = "use" /\ schemaName' = Here.schema /\ postbuf' = postbuf
     \/ /\ Here.kind = "create" /\ schemaName' = schemaName
        /\ postbuf' = postbuf \o QueueOf(Here, schemaName, Current, walk)
     \/ Here.kind = "other" /\ schemaName' = schemaName /\ postbuf' = postbuf

Prints(c) ==
  /\ c \in 1 .. Len(calls) /\ SameScripts /\ walk' = 0
  /\ c = Len(calls) => Seen = Len(calls[c].script)
  /\ HasTree(c) \/ (calls[c].status = "walking" /\ c = Len(calls))
  /\ calls'[c].status \in {"live", "freed"}
  /\ \A d \in 1 .. Len(calls) : d # c => calls'[d].status = calls[d].status
  /\ PrintTree(c)
  /\ UNCHANGED <<alive, schemaName>>

(* The last call fails, or no call does.                                   *)
Fails ==
  /\ walk' = 0 /\ Len(calls) \in 1 .. Len(calls) /\ calls[Len(calls)].status = "walking"
  /\ calls'[Len(calls)].status = "failed" /\ Seen = Len(calls[Len(calls)].script)
  /\ \A d \in 1 .. Len(calls) : d # Len(calls) => calls'[d].status = calls[d].status
Returns ==
  /\ walk' > 0 => walk' = walk
  /\ \A d \in 1 .. Len(calls) :
       \/ calls'[d].status = calls[d].status
       \/ /\ calls[d].status \in {"walking", "live"}
          /\ calls'[d].status \in {"live", "freed"} /\ walk' = 0

Settles ==
  /\ SameScripts /\ Seen' = Seen /\ walk' \in {0, walk}
  /\ Fails \/ Returns
  /\ postbuf' \in {postbuf, << >>} /\ alive' \in BOOLEAN
  /\ UNCHANGED <<schemaName, prints, output>>

(* What Inv says of the calls, in the form the steps need it.              *)
LEMMA CallFacts ==
  ASSUME Inv
  PROVE  /\ calls \in Seq(CallRecord) /\ Len(calls) \in Nat /\ DOMAIN calls = 1 .. Len(calls)
         /\ prints \in Seq(Nat) /\ Len(prints) \in Nat /\ DOMAIN prints = 1 .. Len(prints)
         /\ walk \in Nat /\ Current = Len(calls)
         /\ walk > 0 => Current \in 1 .. Len(calls) /\ calls[Current].status = "walking"
         /\ \A c \in 1 .. Len(calls) :
              /\ calls[c].by \in {"pgify", "pgify_string"} /\ calls[c].script \in Scripts
              /\ calls[c].status \in {"walking", "live", "failed", "freed", "refused"}
              /\ calls[c].status = "walking" <=> walk > 0 /\ c = Len(calls)
              /\ Len(calls[c].script) \in Nat
<1>1. /\ calls \in Seq(CallRecord) /\ prints \in Seq(Nat) /\ walk \in Nat
      /\ walk > 0 => Len(calls) > 0
      /\ \A c \in DOMAIN calls : calls[c].status = "walking" <=> walk > 0 /\ c = Len(calls)
  BY DEF Inv, CallsOK
<1>2. /\ Len(calls) \in Nat /\ DOMAIN calls = 1 .. Len(calls) /\ Current = Len(calls)
      /\ Len(prints) \in Nat /\ DOMAIN prints = 1 .. Len(prints)
      /\ \A c \in 1 .. Len(calls) : calls[c] \in CallRecord
  BY <1>1 DEF Current
<1>3. \A r \in CallRecord : /\ r.by \in {"pgify", "pgify_string"} /\ r.script \in Scripts
                            /\ r.status \in {"walking", "live", "failed", "freed", "refused"}
  BY DEF CallRecord
<1>4. \A t \in Scripts : Len(t) \in Nat
  BY ScriptProperties
<1>5. walk > 0 => Current \in 1 .. Len(calls) /\ calls[Current].status = "walking"
  BY <1>1, <1>2
<1>6. \A c \in 1 .. Len(calls) :
        /\ calls[c].by \in {"pgify", "pgify_string"} /\ calls[c].script \in Scripts
        /\ calls[c].status \in {"walking", "live", "failed", "freed", "refused"}
        /\ Len(calls[c].script) \in Nat
  BY <1>2, <1>3, <1>4
<1> QED
  BY <1>1, <1>2, <1>5, <1>6

(* A call whose status changes is otherwise what it was.                   *)
LEMMA StatusOnly ==
  ASSUME Inv, NEW c \in 1 .. Len(calls), NEW status,
         calls' = [calls EXCEPT ![c].status = status]
  PROVE  SameScripts /\ calls'[c].status = status
         /\ \A d \in 1 .. Len(calls) : d # c => calls'[d] = calls[d]
<1>1. calls \in Seq(CallRecord) /\ DOMAIN calls = 1 .. Len(calls) /\ calls[c] \in CallRecord
  BY CallFacts
<1>2. /\ DOMAIN calls' = 1 .. Len(calls) /\ Len(calls') = Len(calls)
      /\ \A d \in 1 .. Len(calls) : d # c => calls'[d] = calls[d]
      /\ calls'[c] = [calls[c] EXCEPT !.status = status]
  BY <1>1
<1>3. \A r \in CallRecord :
        /\ [r EXCEPT !.status = status].status = status
        /\ [r EXCEPT !.status = status].script = r.script
        /\ [r EXCEPT !.status = status].after = r.after
  BY DEF CallRecord
<1> QED
  BY <1>1, <1>2, <1>3 DEF SameScripts

LEMMA MadeByCall ==
  ASSUME Inv, NEW by \in {"pgify", "pgify_string"}, NEW script \in Scripts,
         NEW status \in {"walking", "refused"}, calls' = Call(by, script, status)
  PROVE  /\ Len(calls') = Len(calls) + 1
         /\ \A c \in 1 .. Len(calls) : calls'[c] = calls[c]
         /\ calls'[Len(calls) + 1].after = Len(prints) /\ calls'[Len(calls) + 1].status = status
<1> DEFINE new == [by |-> by, script |-> script, status |-> status, after |-> Len(prints)]
<1>1. new.after = Len(prints) /\ new.status = status /\ new \in CallRecord
  BY CallFacts DEF CallRecord
<1>2. calls' = Append(calls, new)
  BY DEF Call
<1>3. calls \in Seq(CallRecord) /\ Len(calls) \in Nat
  BY CallFacts
<1> HIDE DEF new
<1>4. /\ Len(calls') = Len(calls) + 1 /\ calls'[Len(calls) + 1] = new
      /\ \A c \in 1 .. Len(calls) : calls'[c] = calls[c]
  BY <1>1, <1>2, <1>3
<1> QED
  BY <1>1, <1>4

LEMMA Steps ==
  ASSUME Inv, TypeOK, [Next]_vars
  PROVE  CallMade \/ Walks \/ Settles \/ \E c \in 1 .. Len(calls) : Prints(c)
<1>1. alive \in BOOLEAN
  BY DEF TypeOK
<1>2. CASE \E by \in {"pgify", "pgify_string"}, script \in Scripts : Begin(by, script)
  <2>1. PICK by \in {"pgify", "pgify_string"}, script \in Scripts : Begin(by, script)
    BY <1>2
  <2>2. /\ walk = 0 /\ walk' = 1 /\ calls' = Call(by, script, "walking")
        /\ UNCHANGED <<alive, schemaName, postbuf, prints, output>>
    BY <2>1 DEF Begin, MayCall, Idle, state
  <2>3. Seen' = 0
    BY <2>2 DEF Seen
  <2>4. /\ Len(calls') = Len(calls) + 1
        /\ \A c \in 1 .. Len(calls) : calls'[c] = calls[c]
        /\ calls'[Len(calls) + 1].after = Len(prints) /\ calls'[Len(calls) + 1].status = "walking"
    BY <2>2, MadeByCall
  <2> QED
    BY <2>2, <2>3, <2>4 DEF CallMade
<1>3. CASE \E by \in {"pgify", "pgify_string"}, script \in Scripts : FailEarly(by, script)
  <2>1. PICK by \in {"pgify", "pgify_string"}, script \in Scripts : FailEarly(by, script)
    BY <1>3
  <2>2. /\ walk = 0 /\ walk' = 0 /\ calls' = Call(by, script, "refused")
        /\ UNCHANGED <<alive, schemaName, postbuf, prints, output>>
    BY <2>1 DEF FailEarly, MayCall, Idle, state
  <2>3. /\ Len(calls') = Len(calls) + 1
        /\ \A c \in 1 .. Len(calls) : calls'[c] = calls[c]
        /\ calls'[Len(calls) + 1].after = Len(prints) /\ calls'[Len(calls) + 1].status = "refused"
    BY <2>2, MadeByCall
  <2>4. Seen' = 0
    BY <2>2, <2>3 DEF Seen, Current
  <2> QED
    BY <2>2, <2>3, <2>4 DEF CallMade
<1>4. CASE WalkUse
  BY <1>4 DEF WalkUse, Walks, Walking
<1>5. CASE WalkCreate
  BY <1>5 DEF WalkCreate, Walks, Walking
<1>6. CASE WalkOther
  BY <1>6 DEF WalkOther, Walks, Walking, state
<1>7. ASSUME Walked
        PROVE walk > 0 /\ Seen = Len(calls[Current].script) /\ Current \in 1 .. Len(calls)
  <2>1. /\ walk > 0 /\ walk > Len(calls[Current].script) /\ Current \in 1 .. Len(calls)
        /\ walk \in Nat /\ Len(calls[Current].script) \in Nat
    BY <1>7, CallFacts DEF Walked, Walking
  <2>2. walk <= Len(calls[Current].script) + 1
    BY <2>1 DEF TypeOK
  <2> QED
    BY <2>1, <2>2 DEF Seen
<1>8. CASE ReturnTree \/ FailLate
  <2>1. PICK status \in {"live", "failed"} :
          /\ Walked /\ calls' = [calls EXCEPT ![Current].status = status] /\ walk' = 0
          /\ UNCHANGED <<alive, schemaName, postbuf, prints, output>>
    BY <1>8 DEF ReturnTree, FailLate, state
  <2>2. /\ SameScripts /\ calls'[Current].status = status /\ status # "refused"
        /\ Current \in 1 .. Len(calls) /\ Seen = Len(calls[Current].script)
        /\ \A d \in 1 .. Len(calls) : d # Current => calls'[d] = calls[d]
    BY <2>1, <1>7, StatusOnly
  <2>3. Seen' = Len(calls[Current].script)
    BY <2>1, <2>2 DEF Seen, SameScripts, Current
  <2>4. walk > 0 /\ calls[Current].status = "walking" /\ Current = Len(calls)
    BY <2>1, CallFacts DEF Walked, Walking
  <2>5. Fails \/ Returns
    <3>1. CASE status = "failed"
      BY <2>1, <2>2, <2>4, <3>1 DEF Fails
    <3>2. CASE status = "live"
      BY <2>1, <2>2, <2>4, <3>2 DEF Returns
    <3> QED
      BY <3>1, <3>2
  <2> QED
    BY <1>1, <2>1, <2>2, <2>3, <2>5 DEF Settles
<1>9. CASE ReturnString
  <2>1. /\ Walked /\ calls' = [calls EXCEPT ![Current].status = "freed"] /\ walk' = 0
        /\ PrintTree(Current) /\ UNCHANGED <<alive, schemaName>>
    BY <1>9 DEF ReturnString
  <2>2. /\ SameScripts /\ Current \in 1 .. Len(calls) /\ Seen = Len(calls[Current].script)
        /\ calls'[Current].status = "freed"
        /\ \A d \in 1 .. Len(calls) : d # Current => calls'[d] = calls[d]
    BY <2>1, <1>7, StatusOnly
  <2>3. calls[Current].status = "walking" /\ Current = Len(calls)
    BY <2>1, CallFacts DEF Walked, Walking
  <2>4. Prints(Current)
    BY <2>1, <2>2, <2>3 DEF Prints
  <2> QED
    BY <2>2, <2>4
<1>10. CASE \E c \in DOMAIN calls : PgifyStringTree(c)
  <2>1. PICK c \in 1 .. Len(calls) : PgifyStringTree(c)
    BY <1>10, CallFacts
  <2>2. /\ walk = 0 /\ walk' = 0 /\ calls[c].status = "live" /\ calls' = calls
        /\ PrintTree(c) /\ UNCHANGED <<alive, schemaName>>
    BY <2>1 DEF PgifyStringTree, Idle
  <2>3. c = Len(calls) => Seen = Len(calls[c].script)
    BY <2>2 DEF Seen, Current
  <2>4. Prints(c)
    BY <2>2, <2>3 DEF Prints, SameScripts, HasTree
  <2> QED
    BY <2>4
<1>11. CASE \E c \in DOMAIN calls : PgifytreeFree(c)
  <2>1. PICK c \in 1 .. Len(calls) : PgifytreeFree(c)
    BY <1>11, CallFacts
  <2>2. /\ walk = 0 /\ walk' = 0 /\ calls[c].status = "live"
        /\ calls' = [calls EXCEPT ![c].status = "freed"]
        /\ UNCHANGED <<alive, schemaName, postbuf, prints, output>>
    BY <2>1 DEF PgifytreeFree, Idle, state
  <2>3. /\ SameScripts /\ calls'[c].status = "freed"
        /\ \A d \in 1 .. Len(calls) : d # c => calls'[d] = calls[d]
    BY <2>2, StatusOnly
  <2>4. Len(calls) \in 1 .. Len(calls)
    <3>1. Len(calls) \in Nat
      BY CallFacts
    <3> QED
      BY <3>1
  <2>5. Seen' = Seen
    BY <2>2, <2>3, <2>4 DEF Seen, SameScripts, Current
  <2>6. Returns
    BY <2>2, <2>3 DEF Returns
  <2> QED
    BY <1>1, <2>2, <2>3, <2>5, <2>6 DEF Settles
<1>12. CASE WalkerstateFree \/ UNCHANGED vars
  <2>1. /\ UNCHANGED <<schemaName, calls, walk, prints, output>>
        /\ postbuf' \in {postbuf, << >>} /\ alive' \in BOOLEAN
    BY <1>1, <1>12 DEF WalkerstateFree, vars
  <2> QED
    BY <2>1 DEF Settles, Returns, SameScripts, Seen, Current
<1> QED
  BY <1>2, <1>3, <1>4, <1>5, <1>6, <1>8, <1>9, <1>10, <1>11, <1>12 DEF Next

-----------------------------------------------------------------------------
(* TypeOK, of which Inv has the half about single calls.                   *)
Values  == /\ alive \in BOOLEAN /\ undefined \in BOOLEAN
           /\ schemaName \in Schemas \union {NoSchema}
           /\ postbuf \in Seq(Sent) /\ output \in Seq(Sent)
Places  == /\ walk > 0 => walk <= Len(calls[Current].script) + 1
           /\ \A c \in 1 .. Len(calls) : calls[c].after \in 0 .. Len(prints)
           /\ \A i \in 1 .. Len(prints) : prints[i] \in 1 .. Len(calls)

LEMMA TypeParts == Inv => (TypeOK <=> Values /\ Places)
<1> SUFFICES ASSUME Inv PROVE TypeOK <=> Values /\ Places
  OBVIOUS
<1>0. /\ DOMAIN calls = 1 .. Len(calls) /\ DOMAIN prints = 1 .. Len(prints)
      /\ walk \in Nat /\ Len(calls) \in Nat /\ Current = Len(calls)
      /\ walk > 0 => Current \in 1 .. Len(calls)
  BY CallFacts
<1>1. ASSUME TypeOK PROVE Values /\ Places
  <2>1. Values
    BY <1>1 DEF TypeOK, Values
  <2>2. /\ walk > 0 => walk \in 1 .. Len(calls[Current].script) + 1
        /\ \A c \in 1 .. Len(calls) : calls[c].after \in 0 .. Len(prints)
        /\ \A i \in 1 .. Len(prints) : prints[i] \in 1 .. Len(calls)
    BY <1>0, <1>1 DEF TypeOK
  <2>3. walk > 0 => walk <= Len(calls[Current].script) + 1
    <3>1. walk > 0 => Len(calls[Current].script) \in Nat
      BY <1>0, CallFacts
    <3> QED
      BY <1>0, <2>2, <3>1
  <2> QED
    BY <2>1, <2>2, <2>3 DEF Places
<1>2. ASSUME Values, Places PROVE TypeOK
  <2>1. walk > 0 => calls # << >> /\ walk \in 1 .. Len(calls[Current].script) + 1
    <3>1. walk > 0 => Len(calls[Current].script) \in Nat /\ walk <= Len(calls[Current].script) + 1
      BY <1>0, <1>2, CallFacts DEF Places
    <3>2. walk > 0 => calls # << >>
      BY <1>0
    <3> QED
      BY <1>0, <3>1, <3>2
  <2>2. \A c \in DOMAIN calls :
          /\ calls[c].by \in {"pgify", "pgify_string"}
          /\ calls[c].script \in Scripts
          /\ calls[c].status \in {"walking", "live", "failed", "freed", "refused"}
          /\ calls[c].after \in 0 .. Len(prints)
          /\ calls[c].status = "walking" <=> walk > 0 /\ c = Current
    BY <1>2, CallFacts DEF Places
  <2>3. \A i \in DOMAIN prints : prints[i] \in DOMAIN calls
    BY <1>2, CallFacts DEF Places
  <2> QED
    BY <1>2, <2>1, <2>2, <2>3 DEF Values, TypeOK
<1> QED
  BY <1>1, <1>2

LEMMA TypeInit == Init => TypeOK
<1> SUFFICES ASSUME Init PROVE TypeOK
  OBVIOUS
<1>1. << >> \in Seq(Sent) /\ DOMAIN << >> = {}
  OBVIOUS
<1> QED
  <2>1. /\ calls = << >> /\ prints = << >> /\ DOMAIN calls = {} /\ DOMAIN prints = {} /\ walk = 0
        /\ alive = TRUE /\ undefined = FALSE /\ schemaName = NoSchema
        /\ postbuf \in Seq(Sent) /\ output \in Seq(Sent)
    BY <1>1 DEF Init
  <2>2. alive \in BOOLEAN /\ undefined \in BOOLEAN
    BY <2>1, Zenon
  <2>3. schemaName \in Schemas \union {NoSchema}
    BY <2>1
  <2>4. ~(walk > 0)
    BY <2>1
  <2> QED
    BY <2>1, <2>2, <2>3, <2>4, Zenon DEF TypeOK

LEMMA WalkedScript == Inv => (walk > 0 => Len(calls[Current].script) \in Nat)
  BY CallFacts

(* The flag for a wild pointer is a truth value.                           *)
LEMMA UndefinedIsTruth == undefined \in BOOLEAN /\ [Next]_vars => undefined' \in BOOLEAN
<1> SUFFICES ASSUME undefined \in BOOLEAN, [Next]_vars PROVE undefined' \in BOOLEAN
  OBVIOUS
<1>1. CASE \E by \in {"pgify", "pgify_string"}, script \in Scripts : FailEarly(by, script)
  <2>1. PICK wild : undefined' = (wild # {})
    BY <1>1, Zenon DEF FailEarly
  <2> QED
    BY <2>1, Zenon
<1>2. CASE UNCHANGED undefined
  BY <1>2
<1>3. CASE \E by \in {"pgify", "pgify_string"}, script \in Scripts : Begin(by, script)
  BY <1>2, <1>3 DEF Begin
<1>4. CASE WalkUse \/ WalkCreate \/ WalkOther \/ ReturnTree \/ FailLate \/ ReturnString
  BY <1>2, <1>4 DEF WalkUse, WalkCreate, WalkOther, ReturnTree, FailLate, ReturnString
<1>5. CASE \E call \in DOMAIN calls : PgifyStringTree(call) \/ PgifytreeFree(call)
  BY <1>2, <1>5 DEF PgifyStringTree, PgifytreeFree
<1>6. CASE WalkerstateFree \/ UNCHANGED vars
  BY <1>2, <1>6 DEF WalkerstateFree, vars
<1> QED
  BY <1>1, <1>3, <1>4, <1>5, <1>6 DEF Next

LEMMA TypeNext == Inv /\ TypeOK /\ [Next]_vars => TypeOK'
<1> SUFFICES ASSUME Inv, TypeOK, [Next]_vars PROVE TypeOK'
  OBVIOUS
<1>1. Inv' /\ (TypeOK' <=> Values' /\ Places')
  <2>1. Inv'
    BY NextInv
  <2>2. (Inv => (TypeOK <=> Values /\ Places))'
    BY TypeParts, PTL
  <2> QED
    BY <2>1, <2>2
<1>2. Values /\ Places
  BY TypeParts
<1>3. /\ Len(calls) \in Nat /\ Len(prints) \in Nat /\ prints \in Seq(Nat) /\ walk \in Nat
      /\ Current = Len(calls) /\ Current' = Len(calls') /\ DOMAIN calls = 1 .. Len(calls)
      /\ \A c \in 1 .. Len(calls) : calls[c].script \in Scripts /\ Len(calls[c].script) \in Nat
      /\ walk > 0 => Current \in 1 .. Len(calls)
  BY CallFacts DEF Current
<1>4. undefined' \in BOOLEAN
  BY <1>2, UndefinedIsTruth DEF Values
<1>5. ASSUME NEW c \in 1 .. Len(calls)
      PROVE  Statements(c) \in Seq(Sent)
  <2>1. c \in Nat /\ c \in DOMAIN calls /\ calls[c].script \in Scripts
    BY <1>3
  <2> QED
    BY <2>1, StatementsProperties
<1>6. CASE CallMade
  <2>1. Values'
    BY <1>2, <1>4, <1>6 DEF Values, CallMade
  <2>2. walk' > 0 => walk' <= Len(calls'[Current'].script) + 1
    <3>1. walk' > 0 => Len(calls'[Current'].script) \in Nat
      <4>1. (Inv => (walk > 0 => Len(calls[Current].script) \in Nat))'
        BY WalkedScript, PTL
      <4> QED
        BY <1>1, <4>1
    <3> QED
      BY <1>6, <3>1 DEF CallMade
  <2>3. \A c \in 1 .. Len(calls') : calls'[c].after \in 0 .. Len(prints')
    BY <1>2, <1>3, <1>6 DEF CallMade, Places
  <2>4. \A i \in 1 .. Len(prints') : prints'[i] \in 1 .. Len(calls')
    BY <1>2, <1>3, <1>6 DEF CallMade, Places
  <2> QED
    BY <1>1, <2>1, <2>2, <2>3, <2>4 DEF Places
<1>7. CASE Walks
  <2>1. /\ walk > 0 /\ walk <= Len(calls[Current].script) /\ walk' = walk + 1
        /\ UNCHANGED <<alive, calls, prints, output>>
    BY <1>7 DEF Walks
  <2>2. Here \in Stmt /\ Here.schema \in Schemas \union {NoSchema}
    <3>1. calls[Current].script \in Scripts /\ walk \in 1 .. Len(calls[Current].script)
      BY <1>3, <2>1
    <3>2. calls[Current].script[walk] \in Stmt
      BY <3>1, ScriptProperties
    <3> QED
      BY <3>1, <3>2, ScriptProperties DEF Here
  <2>3. QueueOf(Here, schemaName, Current, walk) \in Seq(Sent)
    BY <1>2, <1>3, <2>2, QueueOfProperties DEF Values
  <2>4. schemaName' \in Schemas \union {NoSchema} /\ postbuf' \in Seq(Sent)
    <3>1. /\ schemaName \in Schemas \union {NoSchema} /\ postbuf \in Seq(Sent)
          /\ postbuf \o QueueOf(Here, schemaName, Current, walk) \in Seq(Sent)
      BY <1>2, <2>3 DEF Values
    <3>2. /\ schemaName' \in {schemaName, Here.schema}
          /\ postbuf' \in {postbuf, postbuf \o QueueOf(Here, schemaName, Current, walk)}
      BY <1>7 DEF Walks
    <3> QED
      BY <2>2, <3>1, <3>2
  <2>5. Values'
    BY <1>2, <1>4, <2>1, <2>4 DEF Values
  <2>6. Places'
    BY <1>2, <1>3, <2>1 DEF Places, Current
  <2> QED
    BY <1>1, <2>5, <2>6
<1>8. CASE Settles
  <2>1. Values'
    <3>1. << >> \in Seq(Sent)
      OBVIOUS
    <3>2. postbuf' \in Seq(Sent)
      BY <1>2, <1>8, <3>1 DEF Values, Settles
    <3> QED
      BY <1>2, <1>4, <1>8, <3>2 DEF Values, Settles
  <2>2. Places'
    <3>1. /\ Len(calls') = Len(calls) /\ prints' = prints /\ walk' \in {0, walk}
          /\ \A c \in 1 .. Len(calls) : calls'[c].script = calls[c].script
               /\ calls'[c].after = calls[c].after
      BY <1>8 DEF Settles, SameScripts
    <3>2. walk' > 0 => calls'[Current'].script = calls[Current].script /\ walk' = walk
      BY <1>3, <3>1
    <3>3. walk' > 0 => walk' <= Len(calls'[Current'].script) + 1
      BY <1>2, <3>2 DEF Places
    <3> QED
      BY <1>2, <3>1, <3>3 DEF Places
  <2> QED
    BY <1>1, <2>1, <2>2
<1>9. ASSUME NEW c \in 1 .. Len(calls), Prints(c) PROVE TypeOK'
  <2>1. /\ SameScripts /\ walk' = 0 /\ prints' = Append(prints, c) /\ postbuf' = << >>
        /\ output' = output \o Statements(c) \o postbuf /\ UNCHANGED <<alive, schemaName>>
    BY <1>9 DEF Prints, PrintTree
  <2>2. output' \in Seq(Sent) /\ postbuf' \in Seq(Sent)
    BY <1>2, <1>5, <2>1 DEF Values
  <2>3. Values'
    BY <1>2, <1>4, <2>1, <2>2 DEF Values
  <2>4. /\ Len(prints') = Len(prints) + 1 /\ prints'[Len(prints) + 1] = c
        /\ \A i \in 1 .. Len(prints) : prints'[i] = prints[i]
    BY <1>3, <2>1
  <2>5. Places'
    <3>1. ASSUME NEW d \in 1 .. Len(calls') PROVE calls'[d].after \in 0 .. Len(prints')
      <4>1. d \in 1 .. Len(calls) /\ calls'[d].after = calls[d].after
        BY <2>1 DEF SameScripts
      <4>2. calls[d].after \in 0 .. Len(prints) /\ Len(prints) \in Nat
        BY <1>2, <1>3, <4>1 DEF Places
      <4> QED
        BY <2>4, <4>1, <4>2
    <3>2. \A i \in 1 .. Len(prints') : prints'[i] \in 1 .. Len(calls')
      <4> TAKE i \in 1 .. Len(prints')
      <4>1. i \in 1 .. Len(prints) \/ i = Len(prints) + 1
        BY <1>3, <2>4
      <4> QED
        BY <1>2, <2>1, <2>4, <4>1 DEF Places, SameScripts
    <3> QED
      BY <2>1, <3>1, <3>2 DEF Places
  <2> QED
    BY <1>1, <2>3, <2>5
<1> QED
  BY <1>6, <1>7, <1>8, <1>9, Steps

(* Whatever is called in whatever order, the state is one that the program *)
(* can be in: the walk belongs to the last call and does not leave its     *)
(* input, what is queued and printed are statements, what was printed is a *)
(* tree that was made (pgify, pgify_string_tree, WalkerState).             *)
THEOREM SessionTypes == Spec => []TypeOK
<1>1. Init => Inv /\ TypeOK
  BY InitInv, TypeInit
<1>2. Inv /\ TypeOK /\ [Next]_vars => (Inv /\ TypeOK)'
  BY NextInv, TypeNext
<1> QED
  BY <1>1, <1>2, PTL DEF Spec

-----------------------------------------------------------------------------
(* Three sequences one behind the other.                                   *)
LEMMA ThreeParts ==
  ASSUME NEW S, NEW a \in Seq(S), NEW b \in Seq(S), NEW d \in Seq(S)
  PROVE  /\ Len(a \o b \o d) = Len(a) + Len(b) + Len(d)
         /\ \A k \in 1 .. Len(a) : (a \o b \o d)[k] = a[k]
         /\ \A k \in 1 .. Len(b) : (a \o b \o d)[Len(a) + k] = b[k]
         /\ \A k \in 1 .. Len(d) : (a \o b \o d)[Len(a) + Len(b) + k] = d[k]
<1> DEFINE ab == a \o b
<1>1. /\ Len(a) \in Nat /\ Len(b) \in Nat /\ Len(d) \in Nat
      /\ ab \in Seq(S) /\ Len(ab) = Len(a) + Len(b)
      /\ \A k \in 1 .. Len(a) : ab[k] = a[k]
      /\ \A k \in 1 .. Len(b) : ab[Len(a) + k] = b[k]
  OBVIOUS
<1> HIDE DEF ab
<1>2. /\ Len(ab \o d) = Len(ab) + Len(d)
      /\ \A k \in 1 .. Len(ab) : (ab \o d)[k] = ab[k]
      /\ \A k \in 1 .. Len(d) : (ab \o d)[Len(ab) + k] = d[k]
  <2>0. ab \in Seq(S) /\ d \in Seq(S)
    BY <1>1
  <2>1. Len(ab) \in Nat /\ Len(d) \in Nat /\ Len(ab \o d) = Len(ab) + Len(d)
    BY <2>0
  <2>2. \A k \in 1 .. Len(ab) + Len(d) :
          (ab \o d)[k] = IF k <= Len(ab) THEN ab[k] ELSE d[k - Len(ab)]
    BY <2>0
  <2>3. \A k \in 1 .. Len(ab) : (ab \o d)[k] = ab[k]
    BY <2>1, <2>2
  <2>4. ASSUME NEW k \in 1 .. Len(d) PROVE (ab \o d)[Len(ab) + k] = d[k]
    <3>1. /\ Len(ab) + k \in 1 .. Len(ab) + Len(d) /\ ~(Len(ab) + k <= Len(ab))
          /\ (Len(ab) + k) - Len(ab) = k
      BY <2>1
    <3> QED
      BY <2>2, <3>1
  <2> QED
    BY <2>1, <2>3, <2>4
<1>3. /\ \A k \in 1 .. Len(a) : (ab \o d)[k] = a[k]
      /\ \A k \in 1 .. Len(b) : (ab \o d)[Len(a) + k] = b[k]
  <2>1. \A k \in 1 .. Len(a) : k \in 1 .. Len(ab)
    BY <1>1
  <2>2. \A k \in 1 .. Len(b) : Len(a) + k \in 1 .. Len(ab)
    BY <1>1
  <2> QED
    BY <1>1, <1>2, <2>1, <2>2
<1>4. (ab \o d) = (a \o b \o d)
  BY DEF ab
<1> QED
  BY <1>1, <1>2, <1>3, <1>4
-----------------------------------------------------------------------------
(* What a step does to what the walks have seen.                           *)
LEMMA PastSteps ==
  ASSUME Inv, TypeOK, [Next]_vars
  PROVE  /\ \A c \in 1 .. Len(calls) : \A p \in 1 .. Len(calls[c].script) :
              WalkedPast(c, p)' <=>
                WalkedPast(c, p) \/ (walk > 0 /\ walk' = walk + 1 /\ c = Len(calls) /\ p = walk)
         /\ Len(calls') > Len(calls) =>
              \A c, p \in Nat \ {0} : c = Len(calls) + 1 => ~WalkedPast(c, p)'
<1>1. /\ Len(calls) \in Nat /\ walk \in Nat /\ Current = Len(calls)
      /\ walk > 0 => Len(calls) \in 1 .. Len(calls)
      /\ \A c \in 1 .. Len(calls) : /\ calls[c].status = "walking" <=> walk > 0 /\ c = Len(calls)
                                    /\ Len(calls[c].script) \in Nat
  BY CallFacts
<1>2. ASSUME walk = 0, walk' \in {0, 1}, NEW status \in {"walking", "refused"},
             status = "walking" => walk' = 1,
             Len(calls') = Len(calls) + 1, \A c \in 1 .. Len(calls) : calls'[c] = calls[c],
             calls'[Len(calls) + 1].status = status
      PROVE  /\ \A c \in 1 .. Len(calls) : \A p \in 1 .. Len(calls[c].script) :
                  WalkedPast(c, p)' <=> WalkedPast(c, p)
             /\ \A c, p \in Nat \ {0} : c = Len(calls) + 1 => ~WalkedPast(c, p)'
  <2>1. \A c \in 1 .. Len(calls) : calls[c].status # "walking" /\ calls'[c] = calls[c]
    BY <1>1, <1>2
  <2>2. ASSUME NEW c \in Nat \ {0}, NEW p \in Nat \ {0}, c = Len(calls) + 1
        PROVE  ~WalkedPast(c, p)'
    <3>1. ~(p < walk')
      BY <1>2
    <3> QED
      BY <1>2, <2>2, <3>1 DEF WalkedPast
  <2>3. ASSUME NEW c \in 1 .. Len(calls), NEW p PROVE WalkedPast(c, p)' <=> WalkedPast(c, p)
    BY <2>1 DEF WalkedPast
  <2> QED
    BY <2>2, <2>3
<1>3. CASE \E by \in {"pgify", "pgify_string"}, script \in Scripts : Begin(by, script)
  <2>1. PICK by \in {"pgify", "pgify_string"}, script \in Scripts : Begin(by, script)
    BY <1>3
  <2>2. walk = 0 /\ walk' = 1 /\ calls' = Call(by, script, "walking")
    BY <2>1 DEF Begin, MayCall, Idle
  <2>3. /\ Len(calls') = Len(calls) + 1 /\ \A c \in 1 .. Len(calls) : calls'[c] = calls[c]
        /\ calls'[Len(calls) + 1].status = "walking"
    BY <2>2, MadeByCall
  <2> QED
    BY <1>2, <2>2, <2>3
<1>4. CASE \E by \in {"pgify", "pgify_string"}, script \in Scripts : FailEarly(by, script)
  <2>1. PICK by \in {"pgify", "pgify_string"}, script \in Scripts : FailEarly(by, script)
    BY <1>4
  <2>2. walk = 0 /\ walk' = 0 /\ calls' = Call(by, script, "refused")
    BY <2>1 DEF FailEarly, MayCall, Idle
  <2>3. /\ Len(calls') = Len(calls) + 1 /\ \A c \in 1 .. Len(calls) : calls'[c] = calls[c]
        /\ calls'[Len(calls) + 1].status = "refused"
    BY <2>2, MadeByCall
  <2> QED
    BY <1>2, <2>2, <2>3
<1>5. CASE WalkUse \/ WalkCreate \/ WalkOther
  <2>1. walk > 0 /\ walk' = walk + 1 /\ calls' = calls
    BY <1>5 DEF WalkUse, WalkCreate, WalkOther, Walking
  <2> QED
    BY <1>1, <2>1 DEF WalkedPast
<1>6. CASE ReturnTree \/ FailLate \/ ReturnString
  <2>1. PICK status \in {"live", "failed", "freed"} :
          Walked /\ calls' = [calls EXCEPT ![Current].status = status] /\ walk' = 0
    BY <1>6 DEF ReturnTree, FailLate, ReturnString
  <2>2. walk > 0 /\ walk > Len(calls[Len(calls)].script)
    BY <1>1, <2>1 DEF Walked, Walking
  <2>3. /\ Len(calls') = Len(calls) /\ calls'[Len(calls)].status = status
        /\ \A d \in 1 .. Len(calls) : d # Len(calls) => calls'[d] = calls[d]
    BY <1>1, <2>1, <2>2, StatusOnly DEF SameScripts
  <2> QED
    BY <1>1, <2>1, <2>2, <2>3 DEF WalkedPast
<1>7. CASE \E c \in DOMAIN calls : PgifytreeFree(c)
  <2>1. PICK c \in 1 .. Len(calls) : PgifytreeFree(c)
    BY <1>7, CallFacts
  <2>2. /\ walk = 0 /\ walk' = 0 /\ calls[c].status = "live"
        /\ calls' = [calls EXCEPT ![c].status = "freed"]
    BY <2>1 DEF PgifytreeFree, Idle
  <2>3. /\ Len(calls') = Len(calls) /\ calls'[c].status = "freed"
        /\ \A d \in 1 .. Len(calls) : d # c => calls'[d] = calls[d]
    BY <2>2, StatusOnly DEF SameScripts
  <2> QED
    BY <1>1, <2>2, <2>3 DEF WalkedPast
<1>8. CASE (\E c \in DOMAIN calls : PgifyStringTree(c)) \/ WalkerstateFree \/ UNCHANGED vars
  <2>1. UNCHANGED <<calls, walk>>
    BY <1>8 DEF PgifyStringTree, WalkerstateFree, vars
  <2> QED
    BY <1>1, <2>1 DEF WalkedPast
<1> QED
  BY <1>3, <1>4, <1>5, <1>6, <1>7, <1>8 DEF Next

(* The state lives as long as it is used, and keeps its queue.             *)
Alive == walk > 0 => alive
LEMMA AliveSteps ==
  ASSUME Inv, TypeOK, Alive, [Next]_vars
  PROVE  /\ Alive' /\ (alive' => alive)
         /\ prints' # prints \/ Len(calls') # Len(calls) \/ walk' = walk + 1 => alive /\ alive'
         /\ alive' => postbuf' = postbuf \/ prints' # prints \/ walk' = walk + 1
<1>1. alive \in BOOLEAN /\ walk \in Nat
  BY CallFacts DEF TypeOK
<1>2. CASE \E by \in {"pgify", "pgify_string"},
        script \in Scripts : Begin(by, script) \/ FailEarly(by, script)
  <2>1. alive /\ alive' = alive /\ postbuf' = postbuf
    BY <1>2 DEF Begin, FailEarly, MayCall, state
  <2> QED
    BY <2>1 DEF Alive
<1>3. CASE WalkUse \/ WalkCreate \/ WalkOther
  <2>1. walk > 0 /\ alive' = alive /\ walk' = walk + 1
    BY <1>3 DEF WalkUse, WalkCreate, WalkOther, Walking, state
  <2> QED
    BY <2>1 DEF Alive
<1>4. CASE ReturnTree \/ FailLate
  <2>1. walk > 0 /\ alive' = alive /\ postbuf' = postbuf /\ walk' = 0
    BY <1>4 DEF ReturnTree, FailLate, Walked, Walking, state
  <2> QED
    BY <2>1 DEF Alive
<1>5. CASE ReturnString
  <2>1. walk > 0 /\ alive' = alive /\ walk' = 0 /\ prints' = Append(prints, Current)
    BY <1>5 DEF ReturnString, Walked, Walking, PrintTree
  <2>2. Len(prints') = Len(prints) + 1 /\ Len(prints) \in Nat
    <3>1. prints \in Seq(Nat) /\ Current \in Nat
      BY CallFacts
    <3> QED
      BY <2>1, <3>1
  <2> QED
    BY <2>1, <2>2 DEF Alive
<1>6. CASE \E c \in DOMAIN calls : PgifyStringTree(c)
  <2>1. PICK c \in 1 .. Len(calls) : PgifyStringTree(c)
    BY <1>6, CallFacts
  <2>2. alive /\ alive' = alive /\ walk' = walk /\ prints' = Append(prints, c)
    BY <2>1 DEF PgifyStringTree, PrintTree
  <2>3. Len(prints') = Len(prints) + 1 /\ Len(prints) \in Nat
    <3>1. prints \in Seq(Nat) /\ Len(calls) \in Nat
      BY CallFacts
    <3>2. c \in Nat
      BY <3>1
    <3> QED
      BY <2>2, <3>1, <3>2
  <2> QED
    BY <2>2, <2>3 DEF Alive
<1>7. CASE \E c \in DOMAIN calls : PgifytreeFree(c)
  <2>1. PICK c \in 1 .. Len(calls) : PgifytreeFree(c)
    BY <1>7, CallFacts
  <2>2. /\ UNCHANGED <<alive, walk, prints, postbuf>>
             /\ calls' = [calls EXCEPT ![c].status = "freed"]
    BY <2>1 DEF PgifytreeFree, state
  <2>3. Len(calls') = Len(calls)
    BY <2>2, StatusOnly DEF SameScripts
  <2> QED
    BY <1>1, <2>2, <2>3 DEF Alive
<1>8. CASE WalkerstateFree \/ UNCHANGED vars
  <2>1. /\ UNCHANGED <<walk, prints, calls>>
        /\ (alive' = FALSE /\ walk = 0) \/ UNCHANGED <<alive, postbuf>>
    BY <1>8 DEF WalkerstateFree, Idle, vars
  <2> QED
    BY <1>1, <2>1 DEF Alive
<1> QED
  BY <1>2, <1>3, <1>4, <1>5, <1>6, <1>7, <1>8 DEF Next

-----------------------------------------------------------------------------
(* Counting in sequences of statements.                                    *)
Matches(seq, what, c, p) ==
  {i \in DOMAIN seq : seq[i].what = what /\ seq[i].call = c /\ seq[i].place = p}

LEMMA TimesIsFinite ==
  ASSUME NEW s \in Seq(Sent), NEW what, NEW c, NEW p
  PROVE  /\ IsFiniteSet(Matches(s, what, c, p)) /\ Times(s, what, c, p) \in Nat
         /\ Times(s, what, c, p) = Cardinality(Matches(s, what, c, p))
<1>1. Matches(s, what, c, p) \subseteq 1 .. Len(s) /\ Len(s) \in Nat
  BY DEF Matches
<1>2. IsFiniteSet(1 .. Len(s))
  BY <1>1, FS_Interval
<1>3. IsFiniteSet(Matches(s, what, c, p))
  BY <1>1, <1>2, FS_Subset
<1>4. Times(s, what, c, p) = Cardinality(Matches(s, what, c, p))
  BY DEF Times, Matches
<1> QED
  BY <1>3, <1>4, FS_CardinalityType

LEMMA TimesNone ==
  ASSUME NEW s \in Seq(Sent), NEW what, NEW c, NEW p,
         \A i \in 1 .. Len(s) : ~(s[i].what = what /\ s[i].call = c /\ s[i].place = p)
  PROVE  Times(s, what, c, p) = 0
<1>1. Matches(s, what, c, p) = {}
  BY DEF Matches
<1> QED
  BY <1>1, TimesIsFinite, FS_EmptySet

LEMMA TimesOne ==
  ASSUME NEW e \in Sent, NEW what, NEW c, NEW p
  PROVE  Times(<<e>>, what, c, p) = IF e.what = what /\ e.call = c /\ e.place = p THEN 1 ELSE 0
<1>1. <<e>> \in Seq(Sent) /\ DOMAIN <<e>> = {1} /\ <<e>>[1] = e
  OBVIOUS
<1>2. Matches(<<e>>, what, c, p) = IF e.what = what /\ e.call = c /\ e.place = p THEN {1} ELSE {}
  BY <1>1 DEF Matches
<1>3. Cardinality({1}) = 1 /\ Cardinality({}) = 0
  BY FS_Singleton, FS_EmptySet
<1>4. Times(<<e>>, what, c, p) = Cardinality(Matches(<<e>>, what, c, p))
  BY <1>1, TimesIsFinite
<1> QED
  BY <1>2, <1>3, <1>4

LEMMA TimesConcat ==
  ASSUME NEW a \in Seq(Sent), NEW b \in Seq(Sent), NEW what, NEW c, NEW p
  PROVE  Times(a \o b, what, c, p) = Times(a, what, c, p) + Times(b, what, c, p)
<1> DEFINE n == Len(a)
           A == Matches(a, what, c, p)
           B == Matches(b, what, c, p)
           M == Matches(a \o b, what, c, p)
           Moved == {n + i : i \in B}
<1>1. /\ n \in Nat /\ Len(b) \in Nat /\ DOMAIN a = 1 .. n /\ DOMAIN b = 1 .. Len(b)
      /\ a \o b \in Seq(Sent) /\ DOMAIN (a \o b) = 1 .. n + Len(b)
      /\ \A i \in 1 .. n + Len(b) : (a \o b)[i] = IF i <= n THEN a[i] ELSE b[i - n]
  OBVIOUS
<1>2. /\ IsFiniteSet(A) /\ IsFiniteSet(B) /\ Times(a, what, c, p) = Cardinality(A)
      /\ Times(b, what, c, p) = Cardinality(B) /\ Times(a \o b, what, c, p) = Cardinality(M)
      /\ Cardinality(A) \in Nat /\ Cardinality(B) \in Nat
  BY <1>1, TimesIsFinite
<1> HIDE DEF n
<1>3. A \subseteq 1 .. n /\ B \subseteq 1 .. Len(b)
  BY <1>1 DEF Matches
<1>4. M = A \union Moved
  <2>1. ASSUME NEW i \in M PROVE i \in A \union Moved
    <3>1. i \in 1 .. n + Len(b) /\ i \in Int
      BY <1>1 DEF Matches
    <3>2. CASE i <= n
      BY <1>1, <3>1, <3>2 DEF Matches
    <3>3. CASE ~(i <= n)
      <4>1. i - n \in 1 .. Len(b) /\ i = n + (i - n) /\ (a \o b)[i] = b[i - n]
        BY <1>1, <3>1, <3>3
      <4>2. i - n \in B
        BY <1>1, <4>1 DEF Matches
      <4> QED
        BY <4>1, <4>2
    <3> QED
      BY <3>2, <3>3
  <2>2. ASSUME NEW i \in A PROVE i \in M
    <3>1. i \in 1 .. n + Len(b) /\ (a \o b)[i] = a[i]
      BY <1>1, <1>3
    <3> QED
      BY <1>1, <3>1 DEF Matches
  <2>3. ASSUME NEW i \in B PROVE n + i \in M
    <3>1. n + i \in 1 .. n + Len(b) /\ (n + i) - n = i /\ ~(n + i <= n)
      BY <1>1, <1>3
    <3>2. (a \o b)[n + i] = b[i]
      BY <1>1, <3>1
    <3> QED
      BY <1>1, <3>1, <3>2 DEF Matches
  <2> HIDE DEF A, B, M
  <2> QED
    BY <2>1, <2>2, <2>3
<1> HIDE DEF A, B, M
<1>5. IsFiniteSet(Moved) /\ Cardinality(Moved) = Cardinality(B)
  <2> DEFINE move == [i \in B |-> n + i]
  <2>1. \A i \in B : n + i \in Moved
    BY DEF Moved
  <2>2. move \in [B -> Moved] /\ \A i \in B : move[i] = n + i
    BY <2>1
  <2>3. \A i, j \in B : move[i] = move[j] => i = j
    BY <1>1, <1>3, <2>2
  <2>4. \A j \in Moved : \E i \in B : move[i] = j
    BY <2>2
  <2> HIDE DEF move, Moved
  <2>5. move \in Bijection(B, Moved)
    BY <2>2, <2>3, <2>4, Fun_IsBij
  <2> QED
    BY <1>2, <2>5, FS_Bijection DEF ExistsBijection
<1>6. A \cap Moved = {}
  BY <1>1, <1>3
<1>7. Cardinality(M) = Cardinality(A) + Cardinality(Moved)
  <2> HIDE DEF Moved
  <2>1. Cardinality(A \union Moved)
          = Cardinality(A) + Cardinality(Moved) - Cardinality(A \cap Moved)
    BY <1>2, <1>5, FS_Union
  <2>2. Cardinality(A \cap Moved) = 0
    BY <1>6, FS_EmptySet
  <2> QED
    BY <1>2, <1>4, <1>5, <2>1, <2>2
<1> QED
  BY <1>2, <1>5, <1>7

LEMMA TimesQueueOf ==
  ASSUME NEW stmt \in Stmt, NEW schema \in Schemas \union {NoSchema}, NEW d \in Nat, NEW q \in Nat,
         NEW what \in Queued, NEW c, NEW p
  PROVE  Times(QueueOf(stmt, schema, d, q), what, c, p)
           = IF what \in stmt.queues /\ c = d /\ p = q THEN 1 ELSE 0
<1> DEFINE index == Send("INDEX", schema, d, q)
           fkey  == Send("FKEY", NoSchema, d, q)
           first  == IF "INDEX" \in stmt.queues THEN <<index>> ELSE << >>
           second == IF "FKEY" \in stmt.queues THEN <<fkey>> ELSE << >>
<1>1. /\ index \in Sent /\ index.what = "INDEX" /\ index.call = d /\ index.place = q
      /\ fkey \in Sent /\ fkey.what = "FKEY" /\ fkey.call = d /\ fkey.place = q
  BY SendIsSent
<1>2. QueueOf(stmt, schema, d, q) = first \o second
  BY DEF QueueOf
<1> HIDE DEF index, fkey
<1>3. << >> \in Seq(Sent) /\ <<index>> \in Seq(Sent) /\ <<fkey>> \in Seq(Sent)
        /\ Times(<< >>, what, c, p) = 0
  <2>1. << >> \in Seq(Sent) /\ \A i \in 1 .. Len(<< >>) : FALSE
    OBVIOUS
  <2>2. <<index>> \in Seq(Sent) /\ <<fkey>> \in Seq(Sent)
    BY <1>1
  <2>3. Times(<< >>, what, c, p) = 0
    BY <2>1, TimesNone
  <2> QED
    BY <2>1, <2>2, <2>3
<1>4. /\ Times(<<index>>, what, c, p) = IF what = "INDEX" /\ c = d /\ p = q THEN 1 ELSE 0
      /\ Times(<<fkey>>, what, c, p) = IF what = "FKEY" /\ c = d /\ p = q THEN 1 ELSE 0
  BY <1>1, TimesOne
<1>5. first \in Seq(Sent) /\ second \in Seq(Sent)
  BY <1>3
<1>6. /\ Times(first, what, c, p) = IF "INDEX" \in stmt.queues /\ what = "INDEX" /\ c = d
           /\ p = q THEN 1 ELSE 0
      /\ Times(second, what, c, p) = IF "FKEY" \in stmt.queues /\ what = "FKEY" /\ c = d
           /\ p = q THEN 1 ELSE 0
  BY <1>3, <1>4
<1> HIDE DEF first, second
<1>7. Times(first \o second, what, c, p) = Times(first, what, c, p) + Times(second, what, c, p)
  BY <1>5, TimesConcat
<1>8. what = "INDEX" \/ what = "FKEY"
  BY DEF Queued
<1> QED
  BY <1>2, <1>6, <1>7, <1>8
-----------------------------------------------------------------------------
(* The order of the queued statements: within a sequence, and of one       *)
(* sequence behind another.                                                *)
Ordered(s) == \A i, j \in 1 .. Len(s) :
                i < j /\ s[i].what \in Queued /\ s[j].what \in Queued => Before(s[i], s[j])
AllBefore(a, b) == \A i \in 1 .. Len(a), j \in 1 .. Len(b) :
                   a[i].what \in Queued /\ b[j].what \in Queued => Before(a[i], b[j])

(* What is queued was queued by a walk, behind which every walk still to   *)
(* come queues.                                                            *)
OfWalks(s) == \A i \in 1 .. Len(s) :
                s[i].what \in Queued =>
                  /\ s[i].call <= Len(calls)
                  /\ walk > 0 /\ s[i].call = Len(calls) => s[i].place < walk

LEMMA Concat ==
  ASSUME NEW S, NEW a \in Seq(S), NEW b \in Seq(S)
  PROVE  /\ a \o b \in Seq(S)
         /\ \A i \in 1 .. Len(a \o b) :
              \/ i \in 1 .. Len(a) /\ (a \o b)[i] = a[i]
              \/ /\ i - Len(a) \in 1 .. Len(b) /\ (a \o b)[i] = b[i - Len(a)]
                 /\ ~(i \in 1 .. Len(a)) /\ i > Len(a)
<1>1. /\ a \o b \in Seq(S) /\ Len(a \o b) = Len(a) + Len(b) /\ Len(a) \in Nat /\ Len(b) \in Nat
      /\ \A i \in 1 .. Len(a) + Len(b) : (a \o b)[i] = IF i <= Len(a) THEN a[i] ELSE b[i - Len(a)]
  OBVIOUS
<1> QED
  BY <1>1

LEMMA OrderedConcat ==
  ASSUME NEW a \in Seq(Sent), NEW b \in Seq(Sent), Ordered(a), Ordered(b), AllBefore(a, b)
  PROVE  Ordered(a \o b)
<1> DEFINE s == a \o b
<1> SUFFICES ASSUME NEW i \in 1 .. Len(s), NEW j \in 1 .. Len(s), i < j,
                    s[i].what \in Queued, s[j].what \in Queued
             PROVE  Before(s[i], s[j])
  BY DEF Ordered
<1>1. \A k \in 1 .. Len(s) : \/ k \in 1 .. Len(a) /\ s[k] = a[k]
                             \/ /\ k - Len(a) \in 1 .. Len(b) /\ s[k] = b[k - Len(a)]
                                /\ ~(k \in 1 .. Len(a)) /\ k > Len(a)
  BY Concat
<1>2. Len(a) \in Nat /\ i \in Int /\ j \in Int
  OBVIOUS
<1> HIDE DEF s
<1>3. CASE j \in 1 .. Len(a)
  <2>1. i \in 1 .. Len(a)
    BY <1>2, <1>3, <1>1
  <2> QED
    BY <1>1, <1>3, <2>1 DEF Ordered
<1>4. CASE j - Len(a) \in 1 .. Len(b) /\ s[j] = b[j - Len(a)]
  <2>1. CASE i \in 1 .. Len(a) /\ s[i] = a[i]
    BY <1>4, <2>1 DEF AllBefore
  <2>2. CASE i - Len(a) \in 1 .. Len(b) /\ s[i] = b[i - Len(a)]
    <3>1. i - Len(a) < j - Len(a)
      BY <1>2
    <3> QED
      BY <1>4, <2>2, <3>1 DEF Ordered
  <2> QED
    BY <1>1, <2>1, <2>2
<1> QED
  BY <1>1, <1>3, <1>4

LEMMA FollowsConcat ==
  ASSUME NEW a \in Seq(Sent), NEW b \in Seq(Sent), NEW d \in Seq(Sent)
  PROVE  /\ AllBefore(a, d) /\ AllBefore(b, d) => AllBefore(a \o b, d)
         /\ AllBefore(d, a) /\ AllBefore(d, b) => AllBefore(d, a \o b)
<1>1. \A k \in 1 .. Len(a \o b) : \/ k \in 1 .. Len(a) /\ (a \o b)[k] = a[k]
                                  \/ k - Len(a) \in 1 .. Len(b) /\ (a \o b)[k] = b[k - Len(a)]
  BY Concat
<1> QED
  BY <1>1 DEF AllBefore

LEMMA OfWalksConcat ==
  ASSUME NEW a \in Seq(Sent), NEW b \in Seq(Sent), OfWalks(a), OfWalks(b)
  PROVE  OfWalks(a \o b)
<1>1. \A k \in 1 .. Len(a \o b) : \/ k \in 1 .. Len(a) /\ (a \o b)[k] = a[k]
                                  \/ k - Len(a) \in 1 .. Len(b) /\ (a \o b)[k] = b[k - Len(a)]
  BY Concat
<1> QED
  BY <1>1 DEF OfWalks

(* An index comes before a foreign key.                                    *)
LEMMA QueueOfOrdered ==
  ASSUME NEW stmt \in Stmt, NEW schema \in Schemas \union {NoSchema}, NEW c \in Nat, NEW p \in Nat
  PROVE  Ordered(QueueOf(stmt, schema, c, p))
<1> DEFINE index == Send("INDEX", schema, c, p)
           fkey  == Send("FKEY", NoSchema, c, p)
           first  == IF "INDEX" \in stmt.queues THEN <<index>> ELSE << >>
           second == IF "FKEY" \in stmt.queues THEN <<fkey>> ELSE << >>
<1>1. /\ index \in Sent /\ index.what = "INDEX" /\ index.call = c /\ index.place = p
      /\ fkey \in Sent /\ fkey.what = "FKEY" /\ fkey.call = c /\ fkey.place = p
  BY SendIsSent
<1>2. QueueOf(stmt, schema, c, p) = first \o second
  BY DEF QueueOf
<1> HIDE DEF index, fkey
<1>3. Before(index, fkey)
  BY <1>1 DEF Before
<1>4. /\ first \in Seq(Sent) /\ Len(first) <= 1 /\ \A i \in 1 .. Len(first) : first[i] = index
      /\ second \in Seq(Sent) /\ Len(second) <= 1 /\ \A i \in 1 .. Len(second) : second[i] = fkey
  <2>1. \A e \in Sent : /\ <<e>> \in Seq(Sent) /\ Len(<<e>>) = 1 /\ <<e>>[1] = e
    OBVIOUS
  <2>2. << >> \in Seq(Sent) /\ Len(<< >>) = 0
    OBVIOUS
  <2>3. 1 .. 0 = {} /\ 1 .. 1 = {1}
    OBVIOUS
  <2> QED
    <3>1. first = <<index>> \/ first = << >>
      OBVIOUS
    <3>2. second = <<fkey>> \/ second = << >>
      OBVIOUS
    <3> HIDE DEF first, second
    <3>3. first \in Seq(Sent) /\ Len(first) <= 1 /\ \A i \in 1 .. Len(first) : first[i] = index
      <4>1. CASE first = <<index>>
        BY <1>1, <2>1, <2>3, <4>1
      <4>2. CASE first = << >>
        BY <2>2, <2>3, <4>2
      <4> QED
        BY <3>1, <4>1, <4>2
    <3>4. second \in Seq(Sent) /\ Len(second) <= 1 /\ \A i \in 1 .. Len(second) : second[i] = fkey
      <4>1. CASE second = <<fkey>>
        BY <1>1, <2>1, <2>3, <4>1
      <4>2. CASE second = << >>
        BY <2>2, <2>3, <4>2
      <4> QED
        BY <3>2, <4>1, <4>2
    <3> QED
      BY <3>3, <3>4
<1> HIDE DEF first, second
<1>5. Ordered(first) /\ Ordered(second)
  <2>1. ASSUME NEW s \in Seq(Sent), Len(s) <= 1 PROVE Ordered(s)
    <3>1. Len(s) \in Nat
      OBVIOUS
    <3> QED
      BY <2>1, <3>1 DEF Ordered
  <2> QED
    BY <1>4, <2>1
<1>6. AllBefore(first, second)
  BY <1>3, <1>4 DEF AllBefore
<1> QED
  BY <1>2, <1>4, <1>5, <1>6, OrderedConcat

-----------------------------------------------------------------------------
(* The inductive half of QueueInOrder.                                     *)
QueueInv == /\ Ordered(output) /\ Ordered(postbuf) /\ AllBefore(output, postbuf)
            /\ OfWalks(output) /\ OfWalks(postbuf)

LEMMA EmptyOrdered ==
  Ordered(<< >>) /\ OfWalks(<< >>) /\ \A s : AllBefore(<< >>, s) /\ AllBefore(s, << >>)
<1>1. Len(<< >>) = 0 /\ 1 .. 0 = {}
  OBVIOUS
<1> QED
  BY <1>1 DEF Ordered, OfWalks, AllBefore

LEMMA QueueInit == Init => QueueInv
  BY EmptyOrdered DEF Init, QueueInv

LEMMA QueueNext == Inv /\ TypeOK /\ QueueInv /\ [Next]_vars => QueueInv'
<1> SUFFICES ASSUME Inv, TypeOK, QueueInv, [Next]_vars PROVE QueueInv'
  OBVIOUS
<1>1. /\ output \in Seq(Sent) /\ postbuf \in Seq(Sent) /\ schemaName \in Schemas \union {NoSchema}
      /\ \A e \in Sent : e.call \in Nat /\ e.place \in Nat
  BY DEF TypeOK, Sent
<1>2. /\ Len(calls) \in Nat /\ walk \in Nat /\ Current = Len(calls)
      /\ walk > 0 => Len(calls) \in 1 .. Len(calls)
      /\ \A c \in 1 .. Len(calls) : calls[c].script \in Scripts /\ Len(calls[c].script) \in Nat
  BY CallFacts
<1>3. (Ordered(<< >>) /\ OfWalks(<< >>) /\ \A s : AllBefore(<< >>, s) /\ AllBefore(s, << >>))'
  BY EmptyOrdered, PTL
<1>4. ASSUME NEW s \in Seq(Sent), OfWalks(s),
             \/ Len(calls') = Len(calls) + 1
             \/ Len(calls') = Len(calls) /\ walk' \in {0, walk}
             \/ Len(calls') = Len(calls) /\ walk > 0 /\ walk' = walk + 1
      PROVE  \A i \in 1 .. Len(s) : s[i].what \in Queued =>
                  /\ s[i].call <= Len(calls')
                  /\ walk' > 0 /\ s[i].call = Len(calls') => s[i].place < walk'
  <2> TAKE i \in 1 .. Len(s)
  <2>1. s[i].call \in Nat /\ s[i].place \in Nat
    BY <1>1
  <2> QED
    BY <1>2, <1>4, <2>1 DEF OfWalks
<1>5. CASE CallMade
  <2>1. UNCHANGED <<output, postbuf>> /\ Len(calls') = Len(calls) + 1
    BY <1>5 DEF CallMade
  <2>2. OfWalks(output)' /\ OfWalks(postbuf)'
    BY <1>1, <1>4, <2>1 DEF QueueInv, OfWalks
  <2> QED
    BY <2>1, <2>2 DEF QueueInv, Ordered, AllBefore
<1>6. CASE Settles
  <2>1. /\ output' = output /\ postbuf' \in {postbuf, << >>}
        /\ Len(calls') = Len(calls) /\ walk' \in {0, walk}
    BY <1>6 DEF Settles, SameScripts
  <2>2. OfWalks(output)'
    BY <1>1, <1>4, <2>1 DEF QueueInv, OfWalks
  <2>3. CASE postbuf' = postbuf
    <3>1. OfWalks(postbuf)'
      BY <1>1, <1>4, <2>1, <2>3 DEF QueueInv, OfWalks
    <3> QED
      BY <2>1, <2>2, <2>3, <3>1 DEF QueueInv, Ordered, AllBefore
  <2>4. CASE postbuf' = << >>
    <3>1. Ordered(postbuf)' /\ OfWalks(postbuf)' /\ AllBefore(output, postbuf)'
      BY <1>3, <2>4 DEF Ordered, OfWalks, AllBefore
    <3> QED
      BY <2>1, <2>2, <3>1 DEF QueueInv, Ordered
  <2> QED
    BY <2>1, <2>3, <2>4
<1>7. CASE Walks
  <2>1. /\ walk > 0 /\ walk \in 1 .. Len(calls[Current].script) /\ walk' = walk + 1
        /\ UNCHANGED <<calls, output>>
        /\ postbuf' \in {postbuf, postbuf \o QueueOf(Here, schemaName, Current, walk)}
    BY <1>2, <1>7 DEF Walks
  <2>2. Here \in Stmt
    <3>1. calls[Current].script \in Scripts
      BY <1>2, <2>1
    <3> QED
      BY <2>1, <3>1, ScriptProperties DEF Here
  <2> DEFINE q == QueueOf(Here, schemaName, Current, walk)
  <2>3. /\ q \in Seq(Sent) /\ Ordered(q)
        /\ \A i \in 1 .. Len(q) : q[i].call = Len(calls) /\ q[i].place = walk
             /\ q[i].what \in Queued
    <3>1. /\ schemaName \in Schemas \union {NoSchema} /\ Current \in Nat /\ walk \in Nat
      BY <1>1, <1>2
    <3>2. /\ q \in Seq(Sent) /\ Ordered(q)
          /\ \A i \in DOMAIN q : q[i].call = Current /\ q[i].place = walk /\ q[i].what \in Queued
      BY <2>2, <3>1, QueueOfProperties, QueueOfOrdered
    <3> HIDE DEF q
    <3> QED
      BY <1>2, <3>2
  <2> HIDE DEF q
  <2>4. ASSUME NEW s \in Seq(Sent), OfWalks(s) PROVE AllBefore(s, q)
    <3> SUFFICES ASSUME NEW i \in 1 .. Len(s), NEW j \in 1 .. Len(q), s[i].what \in Queued
                 PROVE  Before(s[i], q[j])
      BY DEF AllBefore
    <3>1. s[i].call \in Nat /\ s[i].place \in Nat
      BY <1>1
    <3>2. s[i].call < Len(calls) \/ (s[i].call = Len(calls) /\ s[i].place < walk)
      BY <1>2, <2>1, <2>4, <3>1 DEF OfWalks
    <3> QED
      BY <2>3, <3>2 DEF Before
  <2>5. (\A i \in 1 .. Len(q) : q[i].what \in Queued
          => q[i].call <= Len(calls') /\ q[i].place < walk')
    BY <1>2, <2>1, <2>3
  <2>6. OfWalks(output)'
    BY <1>1, <1>4, <2>1 DEF QueueInv, OfWalks
  <2>7. CASE postbuf' = postbuf
    <3>1. OfWalks(postbuf)'
      BY <1>1, <1>4, <2>1, <2>7 DEF QueueInv, OfWalks
    <3> QED
      BY <2>1, <2>6, <2>7, <3>1 DEF QueueInv, Ordered, AllBefore
  <2>8. CASE postbuf' = postbuf \o q
    <3>1. Ordered(postbuf \o q) /\ AllBefore(output, postbuf \o q)
      BY <1>1, <2>3, <2>4, OrderedConcat, FollowsConcat DEF QueueInv
    <3>2. OfWalks(postbuf)'
      <4>1. \A i \in 1 .. Len(postbuf') : \/ i \in 1 .. Len(postbuf) /\ postbuf'[i] = postbuf[i]
                                          \/ i - Len(postbuf) \in 1 .. Len(q)
                                               /\ postbuf'[i] = q[i - Len(postbuf)]
        BY <1>1, <2>3, <2>8, Concat
      <4>2. \A i \in 1 .. Len(postbuf) : postbuf[i].what \in Queued =>
                  /\ postbuf[i].call <= Len(calls')
                  /\ walk' > 0 /\ postbuf[i].call = Len(calls') => postbuf[i].place < walk'
        BY <1>1, <1>4, <2>1 DEF QueueInv
      <4> QED
        BY <2>5, <4>1, <4>2 DEF OfWalks
    <3> QED
      BY <2>1, <2>6, <2>8, <3>1, <3>2 DEF QueueInv, Ordered, AllBefore
  <2> QED
    BY <2>1, <2>7, <2>8 DEF q
<1>8. ASSUME NEW c \in 1 .. Len(calls), Prints(c) PROVE QueueInv'
  <2> DEFINE st == Statements(c)
  <2>1. /\ Len(calls') = Len(calls) /\ walk' = 0 /\ postbuf' = << >>
        /\ output' = output \o st \o postbuf
    BY <1>8 DEF Prints, PrintTree, SameScripts
  <2>2. st \in Seq(Sent) /\ \A i \in 1 .. Len(st) : st[i].what \notin Queued
    <3>1. c \in Nat /\ c \in DOMAIN calls /\ calls[c].script \in Scripts
      BY <1>2, CallFacts
    <3> QED
      BY <3>1, StatementsProperties
  <2> HIDE DEF st
  <2>3. Ordered(st) /\ OfWalks(st) /\ \A s : AllBefore(s, st) /\ AllBefore(st, s)
    BY <2>2 DEF Ordered, OfWalks, AllBefore
  <2>4. /\ output \o st \in Seq(Sent) /\ Ordered(output \o st) /\ OfWalks(output \o st)
        /\ AllBefore(output \o st, postbuf)
    BY <1>1, <2>2, <2>3, OrderedConcat, FollowsConcat, OfWalksConcat DEF QueueInv
  <2>5. output' \in Seq(Sent) /\ Ordered(output') /\ OfWalks(output \o st \o postbuf)
    <3> DEFINE both == output \o st
    <3>1. both \in Seq(Sent) /\ Ordered(both) /\ OfWalks(both) /\ AllBefore(both, postbuf)
      BY <2>4
    <3>2. Ordered(postbuf) /\ OfWalks(postbuf) /\ postbuf \in Seq(Sent)
      BY <1>1 DEF QueueInv
    <3> HIDE DEF both
    <3>3. both \o postbuf \in Seq(Sent)
      BY <3>1, <3>2
    <3>4. Ordered(both \o postbuf)
      BY <3>1, <3>2, OrderedConcat
    <3>5. OfWalks(both \o postbuf)
      BY <3>1, <3>2, OfWalksConcat
    <3> QED
      BY <2>1, <3>3, <3>4, <3>5 DEF both
  <2>6. OfWalks(output)'
    BY <1>4, <2>1, <2>5 DEF OfWalks
  <2> QED
    BY <1>3, <2>1, <2>5, <2>6 DEF QueueInv, Ordered, AllBefore, OfWalks
<1> QED
  BY <1>5, <1>6, <1>7, <1>8, Steps

(* In whatever order the trees are printed: the queued statements come out *)
(* in the order in which the walks queued them, an index before a foreign  *)
(* key, and what waits comes after what was printed (ws->postbuf,          *)
(* print_postbuf).                                                         *)
THEOREM QueueStaysInOrder == Spec => []QueueInOrder
<1>1. Init => Inv /\ TypeOK /\ QueueInv
  BY InitInv, TypeInit, QueueInit
<1>2. Inv /\ TypeOK /\ QueueInv /\ [Next]_vars => (Inv /\ TypeOK /\ QueueInv)'
  BY NextInv, TypeNext, QueueNext
<1>3. TypeOK /\ QueueInv => QueueInOrder
  <2> SUFFICES ASSUME TypeOK, QueueInv PROVE QueueInOrder
    OBVIOUS
  <2>1. output \in Seq(Sent) /\ postbuf \in Seq(Sent)
    BY DEF TypeOK
  <2>2. output \o postbuf \in Seq(Sent) /\ Ordered(output \o postbuf)
    BY <2>1, OrderedConcat DEF QueueInv
  <2>3. DOMAIN (output \o postbuf) = 1 .. Len(output \o postbuf)
    BY <2>2
  <2> QED
    BY <2>2, <2>3 DEF Ordered, QueueInOrder
<1> QED
  BY <1>1, <1>2, <1>3, PTL DEF Spec

-----------------------------------------------------------------------------
(* A step that leaves a statement where it is.                             *)
Count(what, c, p) ==
  IF what \in calls[c].script[p].queues /\ WalkedPast(c, p)
  THEN IF alive THEN Times(output, what, c, p) + Times(postbuf, what, c, p) = 1
                ELSE Times(output, what, c, p) <= 1
  ELSE Times(output, what, c, p) + Times(postbuf, what, c, p) = 0

LEMMA ConservedCounts ==
  Inv => (QueueConserved <=>
            \A c \in 1 .. Len(calls) : \A p \in 1 .. Len(calls[c].script) :
               \A what \in Queued : Count(what, c, p))
<1> SUFFICES ASSUME Inv
             PROVE QueueConserved <=>
                     \A c \in 1 .. Len(calls) : \A p \in 1 .. Len(calls[c].script) :
                        \A what \in Queued : Count(what, c, p)
  OBVIOUS
<1>1. DOMAIN calls = 1 .. Len(calls)
        /\ \A c \in 1 .. Len(calls) : DOMAIN calls[c].script = 1 .. Len(calls[c].script)
  BY CallFacts, ScriptProperties
<1> QED
  BY <1>1, Zenon DEF QueueConserved, Count

LEMMA ConservedNext ==
  ASSUME Inv, TypeOK, Alive, QueueInv, QueueConserved, [Next]_vars
  PROVE  QueueConserved'
<1>1. /\ output \in Seq(Sent) /\ postbuf \in Seq(Sent) /\ << >> \in Seq(Sent) /\ alive \in BOOLEAN
      /\ schemaName \in Schemas \union {NoSchema}
  BY DEF TypeOK
<1>2. /\ Len(calls) \in Nat /\ walk \in Nat /\ Current = Len(calls)
      /\ walk > 0 => Len(calls) \in 1 .. Len(calls) /\ calls[Len(calls)].status = "walking"
      /\ \A c \in 1 .. Len(calls) : calls[c].script \in Scripts /\ Len(calls[c].script) \in Nat
  BY CallFacts
<1>3. \A c \in 1 .. Len(calls) : \A p \in 1 .. Len(calls[c].script) :
        \A what \in Queued : Count(what, c, p)
  BY ConservedCounts
<1>31. (Inv => (QueueConserved <=>
                  \A c \in 1 .. Len(calls) : \A p \in 1 .. Len(calls[c].script) :
                     \A what \in Queued : Count(what, c, p)))'
  BY ConservedCounts, PTL
<1>4. SUFFICES ASSUME NEW c \in 1 .. Len(calls'), NEW p \in 1 .. Len(calls'[c].script),
                      NEW what \in Queued
               PROVE  Count(what, c, p)'
  <2>1. Inv'
    BY NextInv
  <2> QED
    BY <1>4, <1>31, <2>1
<1>5. /\ Alive' /\ (alive' => alive)
      /\ prints' # prints \/ Len(calls') # Len(calls) \/ walk' = walk + 1 => alive /\ alive'
      /\ alive' => postbuf' = postbuf \/ prints' # prints \/ walk' = walk + 1
  BY AliveSteps
<1>6. /\ \A d \in 1 .. Len(calls) : \A q \in 1 .. Len(calls[d].script) :
              WalkedPast(d, q)' <=>
                WalkedPast(d, q) \/ (walk > 0 /\ walk' = walk + 1 /\ d = Len(calls) /\ q = walk)
      /\ Len(calls') > Len(calls) =>
              \A d, q \in Nat \ {0} : d = Len(calls) + 1 => ~WalkedPast(d, q)'
  BY PastSteps
<1> DEFINE sent    == Times(output, what, c, p)
           waiting == Times(postbuf, what, c, p)
           old     == c \in 1 .. Len(calls) /\ p \in 1 .. Len(calls[c].script)
             /\ calls'[c].script = calls[c].script
<1>7. /\ sent \in Nat /\ waiting \in Nat /\ Times(<< >>, what, c, p) = 0
  <2>1. sent \in Nat /\ waiting \in Nat
    BY <1>1, TimesIsFinite
  <2>2. \A i \in 1 .. Len(<< >>) : FALSE
    OBVIOUS
  <2> QED
    BY <1>1, <2>1, <2>2, TimesNone
<1>8. Count(what, c, p)' <=>
        IF what \in calls'[c].script[p].queues /\ WalkedPast(c, p)'
        THEN IF alive' THEN Times(output', what, c, p) + Times(postbuf', what, c, p) = 1
                       ELSE Times(output', what, c, p) <= 1
        ELSE Times(output', what, c, p) + Times(postbuf', what, c, p) = 0
  BY DEF Count, Times
<1>9. old => (IF what \in calls[c].script[p].queues /\ WalkedPast(c, p)
              THEN IF alive THEN sent + waiting = 1 ELSE sent <= 1
              ELSE sent + waiting = 0)
  BY <1>3 DEF Count
<1> HIDE DEF sent, waiting, old
<1>10. CASE CallMade
  <2>1. /\ walk = 0 /\ walk' \in {0, 1} /\ Len(calls') = Len(calls) + 1
             /\ UNCHANGED <<output, postbuf>>
        /\ \A d \in 1 .. Len(calls) : calls'[d] = calls[d]
    BY <1>10 DEF CallMade
  <2>2. alive /\ alive' /\ Times(output', what, c, p) = sent
          /\ Times(postbuf', what, c, p) = waiting
    BY <1>2, <1>5, <2>1 DEF sent, waiting
  <2>3. CASE c \in 1 .. Len(calls)
    <3>1. old /\ calls'[c].script = calls[c].script
      BY <2>1, <2>3 DEF old
    <3>2. WalkedPast(c, p)' <=> WalkedPast(c, p)
      BY <1>6, <2>1, <3>1 DEF old
    <3> QED
      BY <1>8, <1>9, <2>2, <3>1, <3>2
  <2>4. CASE c = Len(calls) + 1
    <3>1. p \in Nat \ {0} /\ c \in Nat \ {0}
      BY <1>2, <2>4
    <3>2. ~WalkedPast(c, p)'
      BY <1>2, <1>6, <2>1, <2>4, <3>1
    <3>3. ASSUME NEW s \in Seq(Sent), OfWalks(s) PROVE Times(s, what, c, p) = 0
      <4>0. \A e \in Sent : e.call \in Nat
        BY DEF Sent
      <4>1. \A i \in 1 .. Len(s) : s[i].call \in Nat
        BY <4>0
      <4>2. \A i \in 1 .. Len(s) : ~(s[i].what = what /\ s[i].call = c /\ s[i].place = p)
        BY <1>2, <2>4, <3>3, <4>1 DEF OfWalks
      <4> QED
        BY <4>2, TimesNone
    <3>4. sent = 0 /\ waiting = 0
      BY <1>1, <3>3 DEF sent, waiting, QueueInv
    <3> QED
      BY <1>8, <2>2, <3>2, <3>4
  <2> QED
    BY <1>2, <2>1, <2>3, <2>4
<1>11. CASE Settles
  <2>1. /\ Len(calls') = Len(calls) /\ output' = output /\ prints' = prints
        /\ walk' \in {0, walk} /\ postbuf' \in {postbuf, << >>} /\ alive' \in BOOLEAN
        /\ \A d \in 1 .. Len(calls) : calls'[d].script = calls[d].script
    BY <1>11 DEF Settles, SameScripts
  <2>2. old /\ calls'[c].script = calls[c].script
    BY <2>1 DEF old
  <2>3. WalkedPast(c, p)' <=> WalkedPast(c, p)
    BY <1>2, <1>6, <2>1, <2>2 DEF old
  <2>4. /\ Times(output', what, c, p) = sent
        /\ Times(postbuf', what, c, p) = waiting \/ (Times(postbuf', what, c, p) = 0 /\ ~alive')
    BY <1>2, <1>5, <1>7, <2>1 DEF sent, waiting
  <2> QED
    BY <1>1, <1>5, <1>7, <1>8, <1>9, <2>1, <2>2, <2>3, <2>4
<1>12. CASE Walks
  <2>1. /\ walk > 0 /\ walk \in 1 .. Len(calls[Current].script) /\ walk' = walk + 1
        /\ UNCHANGED <<calls, output>>
        /\ \/ Here.kind # "create" /\ postbuf' = postbuf
           \/ Here.kind = "create" /\ postbuf' = postbuf \o QueueOf(Here, schemaName, Current, walk)
    BY <1>2, <1>12 DEF Walks
  <2>2. alive /\ alive' /\ old /\ calls'[c].script = calls[c].script
    BY <1>5, <2>1 DEF old
  <2>3. Here \in Stmt /\ (Here.kind # "create" => Here.queues = {})
    <3>1. calls[Current].script \in Scripts
      BY <1>2, <2>1
    <3> QED
      BY <2>1, <3>1, ScriptProperties, ScriptsAssumption DEF Here
  <2>4. /\ Times(output', what, c, p) = sent
        /\ Times(postbuf', what, c, p)
             = waiting + (IF what \in Here.queues /\ c = Current /\ p = walk THEN 1 ELSE 0)
    <3>1. CASE Here.kind # "create"
      BY <1>7, <2>1, <2>3, <3>1 DEF sent, waiting
    <3>2. CASE Here.kind = "create"
      <4>1. postbuf' = postbuf \o QueueOf(Here, schemaName, Current, walk) /\ output' = output
        BY <2>1, <3>2
      <4>2. /\ QueueOf(Here, schemaName, Current, walk) \in Seq(Sent)
            /\ Times(QueueOf(Here, schemaName, Current, walk), what, c, p)
                 = IF what \in Here.queues /\ c = Current /\ p = walk THEN 1 ELSE 0
        <5>1. Current \in Nat /\ Here \in Stmt /\ schemaName \in Schemas \union {NoSchema}
          BY <1>1, <1>2, <2>3
        <5>2. QueueOf(Here, schemaName, Current, walk) \in Seq(Sent)
          BY <1>2, <5>1, QueueOfProperties
        <5>3. walk \in Nat /\ what \in Queued
          BY <1>2
        <5>4. Times(QueueOf(Here, schemaName, Current, walk), what, c, p)
                = IF what \in Here.queues /\ c = Current /\ p = walk THEN 1 ELSE 0
          BY <5>1, <5>3, TimesQueueOf
        <5> QED
          BY <5>2, <5>4
      <4> QED
        BY <1>1, <4>1, <4>2, TimesConcat DEF sent, waiting
    <3> QED
      BY <3>1, <3>2
  <2>5. CASE c = Current /\ p = walk
    <3>1. ~WalkedPast(c, p) /\ calls[c].script[p] = Here
      BY <1>2, <2>1, <2>5 DEF WalkedPast, Here
    <3>2. WalkedPast(c, p)'
      BY <1>2, <1>6, <2>1, <2>2, <2>5 DEF old
    <3>3. sent + waiting = 0
      BY <1>9, <2>2, <3>1
    <3> QED
      BY <1>7, <1>8, <2>2, <2>4, <2>5, <3>1, <3>2, <3>3
  <2>6. CASE ~(c = Current /\ p = walk)
    <3>1. WalkedPast(c, p)' <=> WalkedPast(c, p)
      BY <1>2, <1>6, <2>2, <2>6 DEF old
    <3> QED
      BY <1>7, <1>8, <1>9, <2>2, <2>4, <2>6, <3>1
  <2> QED
    BY <2>5, <2>6
<1>13. ASSUME NEW d \in 1 .. Len(calls), Prints(d) PROVE Count(what, c, p)'
  <2> DEFINE st == Statements(d)
  <2>1. /\ Len(calls') = Len(calls) /\ walk' = 0 /\ postbuf' = << >>
        /\ output' = output \o st \o postbuf /\ prints' = Append(prints, d)
        /\ \A e \in 1 .. Len(calls) : calls'[e].script = calls[e].script
    BY <1>13 DEF Prints, PrintTree, SameScripts
  <2>2. st \in Seq(Sent) /\ \A i \in 1 .. Len(st) : st[i].what \notin Queued
    <3>1. d \in Nat /\ d \in DOMAIN calls /\ calls[d].script \in Scripts
      BY <1>2, CallFacts
    <3> QED
      BY <3>1, StatementsProperties
  <2> HIDE DEF st
  <2>3. alive /\ alive' /\ old /\ calls'[c].script = calls[c].script
    <3>1. prints \in Seq(Nat) /\ d \in Nat
      BY <1>2, CallFacts
    <3>2. prints' # prints
      BY <2>1, <3>1
    <3> QED
      BY <1>5, <2>1, <3>2 DEF old
  <2>4. Times(st, what, c, p) = 0
    BY <2>2, TimesNone
  <2>5. Times(output', what, c, p) = sent + waiting /\ Times(postbuf', what, c, p) = 0
    <3>1. output \o st \in Seq(Sent) /\ Times(output \o st, what, c, p) = sent + 0
      BY <1>1, <2>2, <2>4, TimesConcat DEF sent
    <3> DEFINE both == output \o st
    <3>2. both \in Seq(Sent) /\ Times(both, what, c, p) = sent + 0 /\ output' = both \o postbuf
      BY <2>1, <3>1
    <3> HIDE DEF both
    <3>3. Times(both \o postbuf, what, c, p) = Times(both, what, c, p) + Times(postbuf, what, c, p)
      BY <1>1, <3>2, TimesConcat
    <3>4. Times(both \o postbuf, what, c, p) = sent + waiting
      BY <1>7, <3>2, <3>3 DEF waiting
    <3> QED
      BY <1>7, <2>1, <3>2, <3>4
  <2>6. WalkedPast(c, p)' <=> WalkedPast(c, p)
    BY <1>2, <1>6, <2>1, <2>3 DEF old
  <2> QED
    BY <1>7, <1>8, <1>9, <2>3, <2>5, <2>6
<1> QED
  BY <1>10, <1>11, <1>12, <1>13, Steps

(* Whatever a client does with its calls and its trees, whichever of its   *)
(* calls fail and whenever: a statement that a walk queued was printed     *)
(* once or waits once, and nothing was printed that no walk queued; only   *)
(* walkerstate_free drops what waits (print_postbuf, pgify,                *)
(* pgify_string_tree, walkerstate_free).                                   *)
THEOREM QueueIsConserved == Spec => []QueueConserved
<1> DEFINE All == Inv /\ TypeOK /\ Alive /\ QueueInv /\ QueueConserved
<1>1. Init => All
  <2>1. Init => calls = << >> /\ walk = 0 /\ DOMAIN << >> = {}
    BY DEF Init
  <2>2. Init => Alive /\ QueueConserved
    BY <2>1 DEF Alive, QueueConserved
  <2> QED
    BY <2>2, InitInv, TypeInit, QueueInit
<1>2. All /\ [Next]_vars => All'
  BY NextInv, TypeNext, QueueNext, AliveSteps, ConservedNext
<1>3. All => QueueConserved
  OBVIOUS
<1> HIDE DEF All
<1> QED
  BY <1>1, <1>2, <1>3, PTL DEF Spec

-----------------------------------------------------------------------------
(***************************************************************************)
(* What is printed, for a client that prints in turn.                      *)
(*                                                                         *)
(* The two properties are about what was printed, but a queued statement   *)
(* gets its prefix when the tree is made, before the database has seen     *)
(* anything of that tree.  The invariant therefore looks ahead: Virtual is *)
(* what will have been printed when the last tree is, as far as the walk   *)
(* has come.  ws->schemaName is the schema at its end, and what waits in   *)
(* the queue is of that tree, with the schema at the place of its table,   *)
(* or was left there by a call that failed.  A USE in such a call is in no *)
(* tree; until one of a later call is printed, nothing is said of schemas. *)
(* Printing makes Virtual real; a call that fails takes its part back.     *)
(***************************************************************************)

(* The schema the last USE in front of a place of a sequence has chosen.   *)
Uses(s, i) == {u \in 1 .. i - 1 : s[u].what = "USE"}
Path(s, i) ==
  IF Uses(s, i) = {} THEN NoSchema
  ELSE s[CHOOSE u \in Uses(s, i) : \A v \in Uses(s, i) : v <= u].schema

(* The largest of some numbers that have a bound.                          *)
LEMMA LastExists ==
  ASSUME NEW n \in Nat, NEW T, T \subseteq 1 .. n, T # {}
  PROVE  (CHOOSE i \in T : \A j \in T : j <= i) \in T
<1>0. \A j \in T : j \in Nat
  OBVIOUS
<1> DEFINE mirror == {n - i : i \in T}
<1>1. mirror \subseteq Nat /\ mirror # {}
  <2>1. \A i \in T : n - i \in Nat
    OBVIOUS
  <2>2. PICK i \in T : TRUE
    OBVIOUS
  <2>3. n - i \in mirror
    OBVIOUS
  <2> QED
    BY <2>1, <2>3
<1>2. PICK k \in mirror : \A l \in mirror : ~(<<l, k>> \in OpToRel(<, Nat))
  BY <1>1, NatLessThanWellFounded, WFMin
<1>3. \A l \in mirror : k <= l
  <2>1. \A l \in mirror : ~(l < k)
    BY <1>1, <1>2 DEF OpToRel
  <2> QED
    BY <1>1, <2>1
<1>4. PICK i \in T : k = n - i
  OBVIOUS
<1>5. \A j \in T : n - i <= n - j
  BY <1>3, <1>4
<1> HIDE DEF mirror
<1>6. ASSUME NEW j \in T PROVE j <= i
  <2>1. j \in Nat /\ i \in Nat /\ n \in Nat /\ n - i <= n - j
    BY <1>0, <1>5
  <2> QED
    BY <2>1
<1> QED
  BY <1>6

LEMMA SameUses ==
  ASSUME NEW s, NEW i, NEW j, Uses(s, i) = Uses(s, j) PROVE Path(s, i) = Path(s, j)
BY DEF Path

(* A path depends on what is in front of it only ...                       *)
LEMMA PathInFront ==
  ASSUME NEW s, NEW t, NEW i \in Nat \ {0}, \A k \in 1 .. i - 1 : s[k] = t[k]
  PROVE  Path(s, i) = Path(t, i)
<1> DEFINE n == i - 1
<1>1. n \in Nat /\ Uses(s, i) \subseteq 1 .. n /\ Uses(s, i) = Uses(t, i)
  BY DEF Uses
<1>2. CASE Uses(s, i) = {}
  BY <1>1, <1>2 DEF Path
<1>3. CASE Uses(s, i) # {}
  <2> DEFINE u == CHOOSE u \in Uses(s, i) : \A v \in Uses(s, i) : v <= u
  <2>1. u \in Uses(s, i)
    <3> HIDE DEF n
    <3> QED
      BY <1>1, <1>3, LastExists
  <2>2. Path(s, i) = s[u].schema /\ Path(t, i) = t[u].schema
    BY <1>1, <1>3 DEF Path
  <2> HIDE DEF u
  <2>3. s[u] = t[u]
    BY <1>1, <2>1
  <2> QED
    BY <2>2, <2>3
<1> QED
  BY <1>2, <1>3

(* ... and changes at a USE only.                                          *)
LEMMA PathBehind ==
  ASSUME NEW s, NEW i \in Nat \ {0}
  PROVE  Path(s, i + 1) = IF s[i].what = "USE" THEN s[i].schema ELSE Path(s, i)
<1>1. CASE s[i].what = "USE"
  <2> DEFINE last == CHOOSE u \in Uses(s, i + 1) : \A v \in Uses(s, i + 1) : v <= u
  <2>1. i \in Uses(s, i + 1) /\ \A v \in Uses(s, i + 1) : v \in Nat /\ v <= i
    BY <1>1 DEF Uses
  <2>2. last = i
    BY <2>1
  <2>3. Uses(s, i + 1) # {}
    BY <2>1
  <2>4. Path(s, i + 1) = s[last].schema
    BY <2>3 DEF Path
  <2> HIDE DEF last
  <2> QED
    BY <1>1, <2>2, <2>4
<1>2. CASE s[i].what # "USE"
  <2>1. Uses(s, i + 1) = Uses(s, i)
    BY <1>2 DEF Uses
  <2>2. Path(s, i + 1) = Path(s, i)
    BY <2>1, SameUses
  <2> QED
    BY <1>2, <2>2
<1> QED
  BY <1>1, <1>2

(* What has no USE in it leaves the path alone.                            *)
LEMMA PathAlong ==
  ASSUME NEW s, NEW i \in Nat \ {0}, NEW j \in Nat, i <= j,
         \A k \in i .. j - 1 : s[k].what # "USE"
  PROVE  Path(s, j) = Path(s, i)
<1>1. Uses(s, j) = Uses(s, i)
  BY DEF Uses
<1> QED
  BY <1>1 DEF Path

LEMMA PathOfOutput == \A i : PathAt(i) = Path(output, i)
  BY DEF PathAt, Path, Uses

(* A USE in a call that failed later moves the schema of the state and is  *)
(* never printed.  Such calls, the failed ones, are lost to what comes     *)
(* behind place i of a sequence if no USE of a later call is in front of   *)
(* it; otherwise the schema x of the state is that of the sequence.        *)
FailedBefore(c) == {d \in 1 .. c - 1 : FailedUse(d)}
Lost(F, s, i) == \E d \in F : \A u \in 1 .. i - 1 : s[u].what = "USE" => s[u].call < d
Agrees(x, F, s, i) == Lost(F, s, i) \/ x = Path(s, i)

LEMMA UseLostHere == \A i : UseLost(i) <=> Lost(FailedBefore(output[i].call), output, i)
  BY DEF UseLost, Lost, FailedBefore

LEMMA AgreesInFront ==
  ASSUME NEW x, NEW F, NEW G, F \subseteq G, NEW s, NEW t, NEW i \in Nat \ {0},
         \A k \in 1 .. i - 1 : s[k] = t[k], Agrees(x, F, s, i)
  PROVE  Agrees(x, G, t, i)
<1>1. Path(s, i) = Path(t, i)
  BY PathInFront
<1>2. Lost(F, s, i) => Lost(G, t, i)
  BY DEF Lost
<1> QED
  BY <1>1, <1>2 DEF Agrees

LEMMA AgreesAlong ==
  ASSUME NEW x, NEW F, NEW s, NEW i \in Nat \ {0}, NEW j \in Nat, i <= j,
         \A k \in i .. j - 1 : s[k].what # "USE"
  PROVE  Agrees(x, F, s, i) <=> Agrees(x, F, s, j)
<1>1. Path(s, j) = Path(s, i)
  BY PathAlong
<1>2. \A u : u \in 1 .. j - 1 /\ s[u].what = "USE" <=> u \in 1 .. i - 1 /\ s[u].what = "USE"
  OBVIOUS
<1>3. Lost(F, s, i) <=> Lost(F, s, j)
  BY <1>2 DEF Lost
<1> QED
  BY <1>1, <1>3 DEF Agrees

-----------------------------------------------------------------------------
(* A client that prints in turn has printed every tree it was given but    *)
(* perhaps the last.  What the database will have seen when that one is    *)
(* printed too, as far as the walk has come:                               *)
Pending == /\ Len(calls) > 0 /\ calls[Len(calls)].status \in {"walking", "live", "freed"}
           /\ \A i \in 1 .. Len(prints) : prints[i] # Len(calls)
Ahead   == IF Pending THEN Seen ELSE 0
Virtual == [k \in 1 .. Len(output) + Ahead |->
              IF k <= Len(output) THEN output[k] ELSE Statements(Current)[k - Len(output)]]

(* What waits in the queue was left by a call that failed, or is of the    *)
(* last tree, which is not printed yet, and has the prefix its table will  *)
(* be created under.                                                       *)
WaitsForTree(e) ==
  /\ Pending /\ e.call = Len(calls) /\ e.place \in 1 .. Seen
  /\ calls[Len(calls)].script[e.place].kind = "create"
  /\ e.what = "INDEX" =>
       Agrees(e.schema, FailedBefore(Len(calls)), Virtual, Len(output) + e.place)
Waits(e) ==
  /\ e.what \in Queued /\ e.call \in 1 .. Len(calls)
  /\ calls[e.call].status = "failed" \/ WaitsForTree(e)

(* What was printed of a call; its tree, if it had one.                    *)
Came(e) ==
  /\ e.call \in 1 .. Len(calls) /\ (Pending => e.call # Len(calls))
  /\ e.what \notin Queued => HasTree(e.call)

Follows ==
  \A i \in 1 .. Len(output) :
    output[i].what \in Queued =>
      \/ \E j \in 1 .. i - 1 : output[j].what = "CREATE" /\ SameTable(i, j)
      \/ calls[output[i].call].status = "failed"
Prefixed ==
  \A i, j \in 1 .. Len(output) :
    output[i].what = "INDEX" /\ output[j].what = "CREATE" /\ SameTable(i, j)
    => Agrees(output[i].schema, FailedBefore(output[j].call), output, j)

TurnInv ==
  InTurn =>
    /\ Agrees(schemaName, FailedBefore(Len(calls) + 1), Virtual, Len(output) + Ahead + 1)
    /\ walk > 0 => Pending
    /\ \A i \in 1 .. Len(postbuf) : Waits(postbuf[i])
    /\ \A i \in 1 .. Len(output) : Came(output[i])
    /\ Follows /\ Prefixed

(* No step but Fails makes a call a failed one, and none takes that back.  *)
LEMMA FailedKept ==
  ASSUME Inv, CallMade \/ Walks \/ (Settles /\ Returns) \/ \E c \in 1 .. Len(calls) : Prints(c)
  PROVE  \A d \in 1 .. Len(calls) : /\ calls'[d].status = "failed" <=> calls[d].status = "failed"
                                    /\ calls'[d].script = calls[d].script
                                    /\ HasTree(d) => HasTree(d)'
<1>1. CASE CallMade
  BY <1>1 DEF CallMade, HasTree
<1>2. CASE Walks
  BY <1>2 DEF Walks, HasTree
<1>3. CASE Settles /\ Returns
  BY <1>3 DEF Settles, Returns, SameScripts, HasTree
<1>4. ASSUME NEW c \in 1 .. Len(calls), Prints(c)
      PROVE  \A d \in 1 .. Len(calls) : /\ calls'[d].status = "failed" <=> calls[d].status = "failed"
                                        /\ calls'[d].script = calls[d].script
                                        /\ HasTree(d) => HasTree(d)'
  BY <1>4 DEF Prints, SameScripts, HasTree
<1> QED
  BY <1>1, <1>2, <1>3, <1>4

(* The calls that failed behind a USE, before and after a step.            *)
LEMMA FailedUsesKept ==
  ASSUME NEW c, c \in 1 .. Len(calls) + 1, Len(calls) \in Nat,
         \A d \in 1 .. Len(calls) : /\ calls'[d].status = "failed" <=> calls[d].status = "failed"
                                    /\ calls'[d].script = calls[d].script
  PROVE  FailedBefore(c)' = FailedBefore(c)
<1>1. \A d \in 1 .. c - 1 : d \in 1 .. Len(calls)
  OBVIOUS
<1>2. \A d \in 1 .. c - 1 : FailedUse(d)' <=> FailedUse(d)
  BY <1>1 DEF FailedUse
<1> QED
  BY <1>2 DEF FailedBefore

(* The client does not come back to printing in turn.                      *)
LEMMA InTurnBefore == ASSUME Inv, TypeOK, [Next]_vars, InTurn' PROVE InTurn
<1>1. /\ Len(calls) \in Nat /\ DOMAIN calls = 1 .. Len(calls) /\ prints \in Seq(Nat)
      /\ Len(prints) \in Nat /\ DOMAIN prints = 1 .. Len(prints) /\ Current = Len(calls)
  BY CallFacts
<1>2. DOMAIN calls' = 1 .. Len(calls') /\ DOMAIN prints' = 1 .. Len(prints') /\ Current' = Len(calls')
  <2>1. Inv'
    BY NextInv
  <2> QED
    BY <2>1 DEF Inv, CallsOK, Current
<1>3. \A c \in 1 .. Len(calls) : calls[c].after \in 0 .. Len(prints)
  BY TypeParts DEF Places
<1>4. SUFFICES ASSUME /\ Len(calls') \in Nat /\ Len(calls) <= Len(calls')
                      /\ Len(prints') \in Nat /\ Len(prints) <= Len(prints')
                      /\ \A i \in 1 .. Len(prints) : prints'[i] = prints[i]
                      /\ \A c \in 1 .. Len(calls) : calls'[c].after = calls[c].after
                      /\ \A c \in 1 .. Len(calls) - 1 : HasTree(c) => HasTree(c)'
               PROVE  InTurn
  <2>1. CASE CallMade
    BY <1>1, <2>1 DEF CallMade, HasTree
  <2>2. CASE Walks
    BY <1>1, <2>2 DEF Walks, HasTree
  <2>3. CASE Settles
    <3>1. \A c \in 1 .. Len(calls) - 1 : HasTree(c) => HasTree(c)'
      <4>1. CASE Fails
        <5>0. Len(calls) \in Nat
          BY <1>1
        <5>1. \A c \in 1 .. Len(calls) - 1 : c \in 1 .. Len(calls) /\ c # Len(calls)
          BY ONLY <5>0
        <5>2. \A c \in 1 .. Len(calls) - 1 : calls'[c].status = calls[c].status
          BY <4>1, <5>1 DEF Fails
        <5> QED
          BY <5>2 DEF HasTree
      <4>2. CASE Returns
        BY <1>1, <4>2 DEF Returns, HasTree
      <4> QED
        BY <2>3, <4>1, <4>2 DEF Settles
    <3> QED
      BY <1>1, <2>3, <3>1 DEF Settles, SameScripts
  <2>4. ASSUME NEW c \in 1 .. Len(calls), Prints(c) PROVE InTurn
    <3>1. /\ SameScripts /\ prints' = Append(prints, c)
          /\ \A d \in 1 .. Len(calls) : HasTree(d) => HasTree(d)'
      BY <2>4 DEF Prints, PrintTree, HasTree
    <3>2. Len(prints') = Len(prints) + 1 /\ \A i \in 1 .. Len(prints) : prints'[i] = prints[i]
      BY <1>1, <3>1
    <3> QED
      BY <1>1, <1>4, <3>1, <3>2 DEF SameScripts
  <2> QED
    BY <1>4, <2>1, <2>2, <2>3, <2>4, Steps
<1>5. \A i, j \in DOMAIN prints : i < j => prints[i] < prints[j]
  BY <1>1, <1>2, <1>4 DEF InTurn
<1>6. ASSUME NEW c \in 1 .. Current - 1, HasTree(c)
      PROVE  \E i \in 1 .. calls[c + 1].after : prints[i] = c
  <2>1. c \in 1 .. Current' - 1 /\ HasTree(c)' /\ c + 1 \in 1 .. Len(calls)
    BY <1>1, <1>2, <1>4, <1>6
  <2>2. PICK i \in 1 .. calls'[c + 1].after : prints'[i] = c
    BY <2>1 DEF InTurn
  <2>3. calls'[c + 1].after = calls[c + 1].after /\ i \in 1 .. Len(prints)
    BY <1>1, <1>3, <1>4, <2>1, <2>2
  <2> QED
    BY <1>4, <2>2, <2>3
<1> QED
  BY <1>5, <1>6 DEF InTurn

(* A client that prints in turn calls again when nothing is pending ...    *)
LEMMA NothingPending ==
  ASSUME Inv, TypeOK, InTurn', Inv', CallMade PROVE ~Pending
<1>1. /\ Len(calls) \in Nat /\ Len(calls') = Len(calls) + 1 /\ Current' = Len(calls')
      /\ walk = 0 /\ prints' = prints
  BY CallFacts DEF CallMade, Current
<1>2. SUFFICES ASSUME Pending PROVE FALSE
  OBVIOUS
<1>3. Len(calls) \in 1 .. Current' - 1 /\ Len(calls) \in 1 .. Len(calls)
  BY <1>1, <1>2 DEF Pending
<1>4. HasTree(Len(calls))
  BY <1>1, <1>2, <1>3, CallFacts DEF Pending, HasTree
<1>5. calls'[Len(calls)] = calls[Len(calls)] /\ calls'[Len(calls) + 1].after = Len(prints)
  BY <1>3 DEF CallMade
<1>6. \E i \in 1 .. calls'[Len(calls) + 1].after : prints'[i] = Len(calls)
  <2>1. \A c \in 1 .. Current' - 1 :
          calls'[c].status \in {"live", "freed"} => \E i \in 1 .. calls'[c + 1].after : prints'[i] = c
    BY DEF InTurn, HasTree
  <2>2. calls'[Len(calls)].status \in {"live", "freed"}
    BY <1>4, <1>5 DEF HasTree
  <2> QED
    BY <1>3, <2>1, <2>2
<1> QED
  BY <1>1, <1>2, <1>5, <1>6 DEF Pending

(* ... and prints what is pending, nothing else.                           *)
LEMMA PendingPrinted ==
  ASSUME Inv, TypeOK, InTurn, InTurn', Inv', NEW c \in 1 .. Len(calls), Prints(c)
  PROVE  c = Len(calls) /\ Pending /\ ~Pending'
<1>1. /\ Len(calls) \in Nat /\ Len(calls') = Len(calls) /\ prints' = Append(prints, c)
      /\ prints \in Seq(Nat) /\ Len(prints) \in Nat /\ Current = Len(calls)
      /\ DOMAIN prints' = 1 .. Len(prints')
  <2>1. DOMAIN prints' = 1 .. Len(prints')
    BY DEF Inv, CallsOK
  <2> QED
    BY <2>1, CallFacts DEF Prints, PrintTree, SameScripts
<1>2. /\ Len(prints') = Len(prints) + 1 /\ prints'[Len(prints) + 1] = c
      /\ \A i \in 1 .. Len(prints) : prints'[i] = prints[i]
  BY <1>1
<1>3. \A i \in 1 .. Len(prints) : prints[i] < c
  <2> TAKE i \in 1 .. Len(prints)
  <2>1. i \in DOMAIN prints' /\ Len(prints) + 1 \in DOMAIN prints' /\ i < Len(prints) + 1
    BY <1>1, <1>2
  <2>2. prints'[i] < prints'[Len(prints) + 1]
    BY <2>1 DEF InTurn
  <2> QED
    BY <1>2, <2>2
<1>4. \A i \in 1 .. Len(prints) : prints[i] # c
  BY <1>1, <1>3
<1>5. c = Len(calls)
  <2> SUFFICES ASSUME c # Len(calls) PROVE FALSE
    OBVIOUS
  <2>1. HasTree(c) /\ c \in 1 .. Current - 1 /\ c + 1 \in 1 .. Len(calls)
    BY <1>1 DEF Prints
  <2>2. PICK i \in 1 .. calls[c + 1].after : prints[i] = c
    BY <2>1 DEF InTurn
  <2>3. calls[c + 1].after \in 0 .. Len(prints)
    BY <2>1, TypeParts DEF Places
  <2>4. i \in 1 .. Len(prints)
    BY <1>1, <2>2, <2>3
  <2> QED
    BY <1>4, <2>2, <2>4
<1>6. Pending
  BY <1>1, <1>4, <1>5 DEF Prints, Pending, HasTree
<1>7. ~Pending'
  <2>1. Len(prints) + 1 \in 1 .. Len(prints')
    BY <1>1, <1>2
  <2> QED
    BY <1>1, <1>2, <1>5, <2>1 DEF Pending
<1> QED
  BY <1>5, <1>6, <1>7

LEMMA SeenBounds ==
  ASSUME Inv, TypeOK, Len(calls) > 0
  PROVE  /\ Seen \in 0 .. Len(calls[Len(calls)].script)
         /\ Statements(Len(calls)) \in Seq(Sent)
              /\ Len(Statements(Len(calls))) = Len(calls[Len(calls)].script)
         /\ Len(calls[Len(calls)].script) \in Nat
         /\ \A p \in 1 .. Len(calls[Len(calls)].script) :
              LET t == Statements(Len(calls))[p]
                  k == calls[Len(calls)].script[p]
              IN  /\ t.call = Len(calls) /\ t.place = p /\ t.what \notin Queued
                  /\ t.what = "CREATE" <=> k.kind = "create"
                  /\ t.what = "USE" <=> k.kind = "use"
                  /\ k.kind = "use" => t.schema = k.schema
<1>1. /\ Len(calls) \in Nat /\ Len(calls) \in DOMAIN calls /\ Current = Len(calls) /\ walk \in Nat
      /\ calls[Len(calls)].script \in Scripts /\ Len(calls[Len(calls)].script) \in Nat
  <2>1. Len(calls) \in Nat /\ DOMAIN calls = 1 .. Len(calls)
    BY CallFacts
  <2>2. Len(calls) \in 1 .. Len(calls)
    BY <2>1
  <2> QED
    BY <2>1, <2>2, CallFacts
<1>2. walk > 0 => walk <= Len(calls[Len(calls)].script) + 1
  BY <1>1, TypeParts DEF Places
<1>3. Seen \in 0 .. Len(calls[Len(calls)].script)
  BY <1>1, <1>2 DEF Seen
<1> QED
  BY <1>1, <1>3, StatementsProperties

-----------------------------------------------------------------------------
LEMMA TurnInit == Init => TurnInv
<1> SUFFICES ASSUME Init PROVE TurnInv
  OBVIOUS
<1>1. /\ calls = << >> /\ prints = << >> /\ output = << >> /\ postbuf = << >>
      /\ walk = 0 /\ schemaName = NoSchema
      /\ Len(calls) = 0 /\ Len(prints) = 0 /\ Len(output) = 0 /\ Len(postbuf) = 0
  BY DEF Init
<1>2. Ahead = 0
  BY <1>1 DEF Ahead, Pending
<1>3. Uses(Virtual, Len(output) + Ahead + 1) = {}
  BY <1>1, <1>2 DEF Uses
<1>4. Agrees(schemaName, FailedBefore(Len(calls) + 1), Virtual, Len(output) + Ahead + 1)
  BY <1>1, <1>3 DEF Agrees, Path
<1>5. Follows /\ Prefixed
  BY <1>1 DEF Follows, Prefixed
<1> QED
  BY <1>1, <1>4, <1>5 DEF TurnInv

(* What is printed stays in place.                                         *)
LEMMA OutputKept ==
  ASSUME output' = output, \A i \in 1 .. Len(output) : output[i].call \in 1 .. Len(calls),
         \A d \in 1 .. Len(calls) : calls[d].status = "failed" => calls'[d].status = "failed",
         \A c \in 1 .. Len(calls) : FailedBefore(c)' = FailedBefore(c)
  PROVE  (Follows => Follows') /\ (Prefixed => Prefixed')
<1>1. Follows => Follows'
  BY DEF Follows, SameTable
<1>2. \A j \in 1 .. Len(output) :
        FailedBefore(output[j].call)' = FailedBefore(output[j].call)
  <2> TAKE j \in 1 .. Len(output)
  <2>1. PICK c \in 1 .. Len(calls) : c = output[j].call
    OBVIOUS
  <2>2. FailedBefore(c)' = FailedBefore(c)
    BY <2>1
  <2>3. output'[j].call = c
    BY <2>1
  <2> QED
    BY <2>1, <2>2, <2>3 DEF FailedBefore
<1>3. Prefixed => Prefixed'
  BY <1>2 DEF Prefixed, SameTable
<1> QED
  BY <1>1, <1>3

LEMMA CallsDomain == Inv => DOMAIN calls = 1 .. Len(calls)
  BY CallFacts

(* A failed call stays one; there may be more.                             *)
LEMMA FailedMore ==
  ASSUME Len(calls) \in Nat, Len(calls') \in Nat, Len(calls) <= Len(calls'),
         \A d \in 1 .. Len(calls) : /\ calls[d].status = "failed" => calls'[d].status = "failed"
                                    /\ calls'[d].script = calls[d].script
  PROVE  FailedBefore(Len(calls) + 1) \subseteq FailedBefore(Len(calls) + 1)'
BY DEF FailedBefore, FailedUse

LEMMA TurnCall ==
  ASSUME Inv, TypeOK, TurnInv, InTurn, InTurn', Inv', CallMade
  PROVE  TurnInv'
<1>1. /\ Len(calls) \in Nat /\ Len(prints) \in Nat /\ Len(calls') = Len(calls) + 1
      /\ Len(calls') \in Nat /\ walk' \in {0, 1}
      /\ \A d \in 1 .. Len(calls) : calls'[d] = calls[d]
  BY CallFacts DEF CallMade
<1>2. ~Pending
  BY NothingPending
<1>3. Len(output) \in Nat /\ Len(postbuf) \in Nat /\ DOMAIN output = 1 .. Len(output)
  BY TypeParts DEF Values
<1>4. /\ UNCHANGED <<schemaName, postbuf, prints, output>> /\ Seen' = 0
  BY DEF CallMade
<1>5. Ahead = 0 /\ Ahead' = 0
  BY <1>2, <1>4 DEF Ahead
<1>6. Agrees(schemaName, FailedBefore(Len(calls) + 1), Virtual, Len(output) + Ahead + 1)'
  <2>1. Agrees(schemaName, FailedBefore(Len(calls) + 1), Virtual, Len(output) + 1)
    BY <1>3, <1>5 DEF TurnInv
  <2>2. \A k \in 1 .. (Len(output) + 1) - 1 : Virtual[k] = Virtual'[k]
    BY <1>3, <1>4, <1>5 DEF Virtual
  <2>3. Len(output) + 1 \in Nat \ {0}
    BY <1>3
  <2>4. FailedBefore(Len(calls) + 1) \subseteq FailedBefore(Len(calls) + 1)'
    BY <1>1, FailedMore
  <2>5. Agrees(schemaName, FailedBefore(Len(calls) + 1)', Virtual', Len(output) + 1)
    BY <2>1, <2>2, <2>3, <2>4, AgreesInFront
  <2>6. Len(output') + Ahead' + 1 = Len(output) + 1 /\ schemaName' = schemaName
    BY <1>3, <1>4, <1>5
  <2> QED
    BY <2>5, <2>6
<1>7. \A i \in 1 .. Len(postbuf') : Waits(postbuf[i])'
  <2> SUFFICES ASSUME NEW i \in 1 .. Len(postbuf) PROVE Waits(postbuf[i])'
    BY <1>4
  <2>1. /\ postbuf[i].what \in Queued /\ postbuf[i].call \in 1 .. Len(calls)
        /\ calls[postbuf[i].call].status = "failed"
    BY <1>2 DEF TurnInv, Waits, WaitsForTree
  <2>2. /\ calls'[postbuf[i].call].status = "failed" /\ postbuf[i].call \in 1 .. Len(calls')
    BY <1>1, <2>1
  <2> QED
    BY <1>4, <2>1, <2>2 DEF Waits
<1>8. \A i \in 1 .. Len(output') : Came(output[i])'
  <2> SUFFICES ASSUME NEW i \in 1 .. Len(output) PROVE Came(output[i])'
    BY <1>4
  <2>1. /\ output[i].call \in 1 .. Len(calls)
        /\ output[i].what \notin Queued => HasTree(output[i].call)
    BY DEF TurnInv, Came
  <2>2. /\ output[i].call \in 1 .. Len(calls') /\ output[i].call # Len(calls')
        /\ calls'[output[i].call] = calls[output[i].call]
    BY <1>1, <2>1
  <2> QED
    BY <1>4, <2>1, <2>2 DEF Came, HasTree
<1>9. walk' > 0 => Pending'
  <2>1. walk' > 0 => calls'[Len(calls')].status = "walking"
    BY CallFacts DEF Inv, CallsOK
  <2>2. \A i \in 1 .. Len(prints) : prints[i] \in 1 .. Len(calls)
    BY TypeParts DEF Places
  <2>3. \A i \in 1 .. Len(prints') : prints'[i] # Len(calls')
    BY <1>1, <1>4, <2>2
  <2> QED
    BY <1>1, <2>1, <2>3 DEF Pending
<1>10. Follows' /\ Prefixed'
  <2>1. \A i \in 1 .. Len(output) : output[i].call \in 1 .. Len(calls)
    BY DEF TurnInv, Came
  <2>2. ASSUME NEW c \in 1 .. Len(calls) PROVE FailedBefore(c)' = FailedBefore(c)
    BY <1>1, <2>2, FailedUsesKept
  <2> QED
    BY <1>1, <1>4, <2>1, <2>2, OutputKept DEF TurnInv
<1> QED
  BY <1>6, <1>7, <1>8, <1>9, <1>10 DEF TurnInv

(* A call returns its tree, a tree is freed, or the state is.              *)
LEMMA TurnReturns ==
  ASSUME Inv, TypeOK, TurnInv, InTurn, InTurn', Settles, Returns
  PROVE  TurnInv'
<1>1. /\ Len(calls) \in Nat /\ Len(prints) \in Nat /\ Len(calls') = Len(calls)
      /\ Current = Len(calls) /\ Current' = Len(calls)
      /\ Len(calls) > 0 => Len(calls) \in 1 .. Len(calls)
  BY CallFacts DEF Settles, SameScripts, Current
<1>2. /\ UNCHANGED <<schemaName, prints, output>> /\ Seen' = Seen
      /\ walk' > 0 => walk' = walk
      /\ postbuf' \in {postbuf, << >>}
  BY DEF Settles, Returns
<1>3. \A d \in 1 .. Len(calls) : /\ calls'[d].status = "failed" <=> calls[d].status = "failed"
                                 /\ calls'[d].script = calls[d].script
                                 /\ HasTree(d) => HasTree(d)'
  BY FailedKept
<1>4. Pending' <=> Pending
  <2>1. Len(calls) > 0 => (calls'[Len(calls)].status \in {"walking", "live", "freed"}
                            <=> calls[Len(calls)].status \in {"walking", "live", "freed"})
    BY <1>1 DEF Returns
  <2> QED
    BY <1>1, <1>2, <2>1 DEF Pending
<1>5. Ahead' = Ahead /\ (Pending => calls'[Len(calls)].script = calls[Len(calls)].script)
  BY <1>1, <1>2, <1>3, <1>4 DEF Ahead, Pending
<1>6. Virtual' = Virtual
  <2>1. CASE Pending
    <3>1. Statements(Current)' = Statements(Current)
      BY <1>1, <1>5, <2>1 DEF Statements
    <3> QED
      BY <1>2, <1>5, <3>1 DEF Virtual
  <2>2. CASE ~Pending
    <3>1. Ahead = 0 /\ Ahead' = 0
      BY <1>5, <2>2 DEF Ahead
    <3>2. Len(output) \in Nat
      BY TypeParts DEF Values
    <3> QED
      BY <1>2, <3>1, <3>2 DEF Virtual
  <2> QED
    BY <2>1, <2>2
<1>7. \A c \in 1 .. Len(calls) + 1 : FailedBefore(c)' = FailedBefore(c)
  <2> TAKE c \in 1 .. Len(calls) + 1
  <2> QED
    BY <1>1, <1>3, FailedUsesKept
<1>8. FailedBefore(Len(calls))' = FailedBefore(Len(calls)) \/ ~Pending
  <2>1. Pending => Len(calls) \in 1 .. Len(calls) + 1
    BY <1>1 DEF Pending
  <2>2. Pending => \A d \in 1 .. Len(calls) - 1 : FailedUse(d)' <=> FailedUse(d)
    <3>1. \A d \in 1 .. Len(calls) - 1 : d \in 1 .. Len(calls)
      BY <1>1
    <3> QED
      BY <1>3, <3>1 DEF FailedUse
  <2> QED
    BY <1>1, <2>2 DEF FailedBefore
<1>9. \A i \in 1 .. Len(postbuf') : Waits(postbuf[i])'
  <2>1. CASE postbuf' = postbuf
    <3> SUFFICES ASSUME NEW i \in 1 .. Len(postbuf) PROVE Waits(postbuf[i])'
      BY <2>1
    <3> DEFINE e == postbuf[i]
    <3>1. Waits(e)
      BY DEF TurnInv
    <3>2. CASE calls[e.call].status = "failed"
      BY <1>1, <1>3, <2>1, <3>1, <3>2 DEF Waits
    <3>3. CASE WaitsForTree(e)
      <4>1. WaitsForTree(e)'
        BY <1>1, <1>2, <1>4, <1>5, <1>6, <1>8, <2>1, <3>3 DEF WaitsForTree
      <4> QED
        BY <1>1, <2>1, <3>1, <4>1 DEF Waits
    <3> QED
      BY <3>1, <3>2, <3>3 DEF Waits
  <2>2. CASE postbuf' = << >>
    BY <2>2
  <2> QED
    BY <1>2, <2>1, <2>2
<1>10. /\ walk' > 0 => Pending'
       /\ \A i \in 1 .. Len(output') : Came(output[i])'
  <2>1. \A i \in 1 .. Len(output) : Came(output[i])'
    <3> TAKE i \in 1 .. Len(output)
    <3>1. Came(output[i])
      BY DEF TurnInv
    <3> QED
      BY <1>1, <1>2, <1>3, <1>4, <3>1 DEF Came
  <2> QED
    BY <1>2, <1>4, <2>1 DEF TurnInv
<1>11. Follows' /\ Prefixed'
  <2>1. \A i \in 1 .. Len(output) : output[i].call \in 1 .. Len(calls)
    BY DEF TurnInv, Came
  <2>2. \A c \in 1 .. Len(calls) : FailedBefore(c)' = FailedBefore(c)
    BY <1>1, <1>7
  <2> QED
    BY <1>2, <1>3, <2>1, <2>2, OutputKept DEF TurnInv
<1>12. Agrees(schemaName, FailedBefore(Len(calls) + 1), Virtual, Len(output) + Ahead + 1)'
  <2>1. Agrees(schemaName, FailedBefore(Len(calls) + 1), Virtual, Len(output) + Ahead + 1)
    BY DEF TurnInv
  <2>2. FailedBefore(Len(calls) + 1)' = FailedBefore(Len(calls) + 1)
    <3>1. \A d \in 1 .. (Len(calls) + 1) - 1 : FailedUse(d)' <=> FailedUse(d)
      BY <1>1, <1>3 DEF FailedUse
    <3> QED
      BY <1>1, <3>1 DEF FailedBefore
  <2> QED
    BY <1>2, <1>5, <1>6, <2>1, <2>2
<1> QED
  BY <1>9, <1>10, <1>11, <1>12 DEF TurnInv

(* A call fails behind its walk.  What it queued stays, without a tree; if *)
(* it met a USE it is lost to all that comes now.                          *)
LEMMA TurnFails ==
  ASSUME Inv, TypeOK, TurnInv, InTurn, InTurn', Settles, Fails
  PROVE  TurnInv'
<1> DEFINE L == Len(output)
           n == Len(calls)
           tree == Statements(n)
           N == Len(tree)
<1>1. /\ n \in Nat /\ n > 0 /\ n \in 1 .. n /\ Len(calls') = n /\ Current = n
      /\ walk > 0 /\ walk' = 0 /\ L \in Nat /\ output \in Seq(Sent) /\ SameScripts
      /\ calls[n].status = "walking" /\ calls'[n].status = "failed"
      /\ UNCHANGED <<schemaName, prints, output>>
      /\ postbuf' \in {postbuf, << >>}
  <2>1. output \in Seq(Sent)
    BY TypeParts DEF Values
  <2>2. walk > 0
    BY CallFacts DEF Fails
  <2> QED
    BY <2>1, <2>2, CallFacts DEF Settles, SameScripts, Fails
<1>2. /\ Pending /\ ~Pending' /\ Ahead' = 0
      /\ N \in Nat /\ N = Len(calls[n].script) /\ Ahead = N
      /\ \A p \in 1 .. N : tree[p].call = n /\ (tree[p].what = "USE" <=> calls[n].script[p].kind = "use")
  <2>1. Pending
    BY <1>1 DEF TurnInv
  <2>2. ~Pending'
    BY <1>1 DEF Pending
  <2> QED
    BY <1>1, <2>1, <2>2, SeenBounds DEF Fails, Ahead
<1>3. \A d \in 1 .. n : /\ calls[d].status = "failed" => calls'[d].status = "failed"
                        /\ calls'[d].script = calls[d].script
                        /\ d # n => calls'[d].status = calls[d].status
  BY <1>1 DEF Fails, SameScripts
<1>4. \A i \in 1 .. Len(postbuf') : Waits(postbuf[i])'
  <2> SUFFICES ASSUME NEW i \in 1 .. Len(postbuf), postbuf' = postbuf PROVE Waits(postbuf[i])'
    BY <1>1
  <2>1. Waits(postbuf[i])
    BY DEF TurnInv
  <2>2. calls'[postbuf[i].call].status = "failed"
    BY <1>1, <1>3, <2>1 DEF Waits, WaitsForTree
  <2> QED
    BY <1>1, <2>1, <2>2 DEF Waits
<1>5. \A i \in 1 .. L : /\ output[i].call \in 1 .. n /\ output[i].call # n /\ output[i].call < n
                        /\ output[i].what \notin Queued => HasTree(output[i].call)
  <2> TAKE i \in 1 .. L
  <2>1. Came(output[i])
    BY DEF TurnInv
  <2> QED
    BY <1>1, <1>2, <2>1 DEF Came
<1>6. \A i \in 1 .. Len(output') : Came(output[i])'
  <2> SUFFICES ASSUME NEW i \in 1 .. L PROVE Came(output[i])'
    BY <1>1
  <2>1. calls'[output[i].call].status = calls[output[i].call].status
    BY <1>3, <1>5
  <2> QED
    BY <1>1, <1>2, <1>5, <2>1 DEF Came, HasTree
<1>7. Follows' /\ Prefixed'
  <2>1. ASSUME NEW c \in 1 .. n PROVE FailedBefore(c)' = FailedBefore(c)
    <3>1. \A d \in 1 .. c - 1 : d \in 1 .. n /\ d # n
      BY <1>1
    <3>2. \A d \in 1 .. c - 1 : FailedUse(d)' <=> FailedUse(d)
      BY <1>3, <3>1 DEF FailedUse
    <3> QED
      BY <3>2 DEF FailedBefore
  <2>2. Follows /\ Prefixed
    BY DEF TurnInv
  <2> QED
    BY <1>1, <1>3, <1>5, <2>1, <2>2, OutputKept
<1>8. Agrees(schemaName, FailedBefore(n + 1), Virtual, L + N + 1)
  BY <1>2 DEF TurnInv
<1>9. FailedBefore(n + 1) \subseteq FailedBefore(n + 1)'
  BY <1>1, <1>3, FailedMore
<1>10. /\ Virtual = [k \in 1 .. L + N |-> IF k <= L THEN output[k] ELSE tree[k - L]]
       /\ Virtual' = [k \in 1 .. L + 0 |-> IF k <= L THEN output[k] ELSE Statements(n)'[k - L]]
  BY <1>1, <1>2 DEF Virtual, Current
<1> HIDE DEF L, N, tree
<1>11. /\ \A k \in 1 .. L : Virtual[k] = output[k] /\ Virtual'[k] = output[k]
       /\ \A k \in L + 1 .. (L + N + 1) - 1 : Virtual[k] = tree[k - L] /\ k - L \in 1 .. N
  BY <1>1, <1>2, <1>10
<1>12. Agrees(schemaName, FailedBefore(n + 1)', Virtual', L + 1)
  <2>1. CASE \E p \in 1 .. N : calls[n].script[p].kind = "use"
    <3>1. FailedUse(n)'
      <4>1. DOMAIN calls[n].script = 1 .. N
        BY <1>1, <1>2, CallFacts, ScriptProperties
      <4> QED
        BY <1>1, <1>3, <2>1, <4>1 DEF FailedUse
    <3>2. n \in FailedBefore(n + 1)'
      BY <1>1, <3>1 DEF FailedBefore
    <3>3. \A u \in 1 .. (L + 1) - 1 : Virtual'[u].what = "USE" => Virtual'[u].call < n
      BY <1>1, <1>5, <1>11 DEF L
    <3> QED
      BY <3>2, <3>3 DEF Agrees, Lost
  <2>2. CASE \A p \in 1 .. N : calls[n].script[p].kind # "use"
    <3>1. \A k \in L + 1 .. (L + N + 1) - 1 : Virtual[k].what # "USE"
      BY <1>2, <1>11, <2>2
    <3>2. L + 1 \in Nat \ {0} /\ L + N + 1 \in Nat /\ L + 1 <= L + N + 1
      BY <1>1, <1>2
    <3>3. Agrees(schemaName, FailedBefore(n + 1), Virtual, L + 1)
      BY <1>8, <3>1, <3>2, AgreesAlong
    <3>4. \A k \in 1 .. (L + 1) - 1 : Virtual[k] = Virtual'[k]
      BY <1>1, <1>11
    <3> QED
      BY <1>9, <3>2, <3>3, <3>4, AgreesInFront
  <2> QED
    BY <2>1, <2>2
<1>13. Agrees(schemaName, FailedBefore(Len(calls) + 1), Virtual, Len(output) + Ahead + 1)'
  BY <1>1, <1>2, <1>12 DEF L
<1> QED
  BY <1>1, <1>4, <1>6, <1>7, <1>13 DEF TurnInv

LEMMA TurnWalks ==
  ASSUME Inv, TypeOK, TurnInv, InTurn, InTurn', Walks
  PROVE  TurnInv'
<1> DEFINE L == Len(output)
<1>1. /\ Len(calls) \in Nat /\ Len(prints) \in Nat /\ walk \in Nat /\ walk > 0
      /\ Current = Len(calls) /\ Len(calls) > 0
      /\ L \in Nat /\ walk <= Len(calls[Len(calls)].script)
  <2>1. /\ walk > 0 /\ walk <= Len(calls[Current].script)
    BY DEF Walks
  <2>2. L \in Nat
    BY TypeParts DEF Values
  <2>3. /\ Len(calls) \in Nat /\ Len(prints) \in Nat /\ walk \in Nat
        /\ Current = Len(calls) /\ Current \in 1 .. Len(calls)
    BY <2>1, CallFacts
  <2> QED
    BY <2>1, <2>2, <2>3
<1>2. UNCHANGED <<calls, prints, output>> /\ walk' = walk + 1
  BY DEF Walks
<1>3. Pending /\ Pending' /\ Ahead = walk - 1 /\ Ahead' = walk /\ Seen = walk - 1
        /\ Seen' = walk
  <2>1. Pending /\ Pending'
    BY <1>1, <1>2 DEF TurnInv, Pending
  <2>2. Seen = walk - 1 /\ Seen' = walk
    BY <1>1, <1>2 DEF Seen
  <2> QED
    BY <2>1, <2>2 DEF Ahead
<1>4. /\ Virtual' = [k \in 1 .. L + walk |->
                       IF k <= L THEN output[k] ELSE Statements(Len(calls))[k - L]]
      /\ Virtual = [k \in 1 .. L + (walk - 1) |->
                       IF k <= L THEN output[k] ELSE Statements(Len(calls))[k - L]]
  <2>1. Statements(Current)' = Statements(Current)
    BY <1>2 DEF Statements, Current
  <2> QED
    BY <1>1, <1>2, <1>3, <2>1 DEF Virtual
<1>5. /\ \A k \in 1 .. (L + walk) - 1 : Virtual'[k] = Virtual[k]
      /\ Virtual'[L + walk] = Statements(Len(calls))[walk]
  BY <1>1, <1>4
<1>6. ASSUME NEW i \in Nat \ {0}, i <= L + walk, NEW x, NEW F, Agrees(x, F, Virtual, i)
      PROVE  Agrees(x, F, Virtual', i)
  <2>1. \A k \in 1 .. i - 1 : Virtual[k] = Virtual'[k]
    BY <1>1, <1>5, <1>6
  <2> QED
    BY <1>6, <2>1, AgreesInFront
<1>7. LET t == Statements(Len(calls))[walk]
      IN  /\ t.what = "USE" <=> Here.kind = "use"
          /\ Here.kind = "use" => t.schema = Here.schema
  BY <1>1, SeenBounds DEF Here
<1>8. Agrees(schemaName, FailedBefore(Len(calls) + 1), Virtual', L + walk)
  <2>1. Agrees(schemaName, FailedBefore(Len(calls) + 1), Virtual, L + walk)
    BY <1>1, <1>3 DEF TurnInv
  <2>2. L + walk \in Nat \ {0} /\ L + walk <= L + walk
    BY <1>1
  <2> QED
    BY <1>6, <2>1, <2>2
<1>9. Agrees(schemaName', FailedBefore(Len(calls) + 1), Virtual', L + walk + 1)
  <2>1. L + walk \in Nat \ {0} /\ L + walk + 1 \in Nat /\ L + walk <= L + walk + 1
        /\ \A k \in L + walk .. (L + walk + 1) - 1 : k = L + walk
    BY <1>1
  <2>2. Virtual'[L + walk].what = "USE" <=> Here.kind = "use"
    BY <1>5, <1>7
  <2>3. CASE Here.kind = "use"
    <3>1. Path(Virtual', (L + walk) + 1) = Virtual'[L + walk].schema
      BY <2>1, <2>2, <2>3, PathBehind
    <3>2. schemaName' = Here.schema
      BY <2>3 DEF Walks
    <3> QED
      BY <1>5, <1>7, <2>3, <3>1, <3>2 DEF Agrees
  <2>4. CASE Here.kind # "use"
    <3>1. \A k \in L + walk .. (L + walk + 1) - 1 : Virtual'[k].what # "USE"
      BY <2>1, <2>2, <2>4
    <3>2. schemaName' = schemaName
      BY <2>4 DEF Walks
    <3> QED
      BY <1>8, <2>1, <3>1, <3>2, AgreesAlong
  <2> QED
    BY <2>3, <2>4
<1>10. \A i \in 1 .. Len(postbuf) : Waits(postbuf[i])
  BY DEF TurnInv
<1> DEFINE good(e) ==
             /\ e.what \in Queued /\ e.call \in 1 .. Len(calls)
             /\ \/ calls[e.call].status = "failed"
                \/ /\ e.place \in 1 .. walk /\ e.call = Len(calls)
                   /\ calls[Len(calls)].script[e.place].kind = "create"
                   /\ e.what = "INDEX" =>
                        Agrees(e.schema, FailedBefore(Len(calls)), Virtual', L + e.place)
<1>11. ASSUME NEW i \in 1 .. Len(postbuf) PROVE good(postbuf[i])
  <2> DEFINE e == postbuf[i]
  <2>1. Waits(e)
    BY <1>10
  <2> HIDE DEF e, good
  <2>2. good(e)
    <3>1. CASE calls[e.call].status = "failed"
      BY <2>1, <3>1 DEF Waits, good
    <3>2. CASE WaitsForTree(e)
      <4>1. /\ e.place \in 1 .. walk - 1 /\ e.what \in Queued /\ e.call = Len(calls)
            /\ e.call \in 1 .. Len(calls)
            /\ calls[Len(calls)].script[e.place].kind = "create"
            /\ e.what = "INDEX" => Agrees(e.schema, FailedBefore(Len(calls)), Virtual, L + e.place)
        BY <1>1, <1>3, <2>1, <3>2 DEF Waits, WaitsForTree
      <4>2. L + e.place \in Nat \ {0} /\ L + e.place <= L + walk /\ e.place \in 1 .. walk
        <5> DEFINE p == e.place
        <5>1. p \in 1 .. walk - 1 /\ L \in Nat /\ walk \in Nat
          BY <1>1, <4>1
        <5> HIDE DEF p, L
        <5>2. L + p \in Nat \ {0} /\ L + p <= L + walk /\ p \in 1 .. walk
          BY <5>1
        <5> QED
          BY <5>2 DEF p
      <4>3. e.what = "INDEX" => Agrees(e.schema, FailedBefore(Len(calls)), Virtual', L + e.place)
        <5>1. PICK q \in Nat \ {0} : q = L + e.place /\ q <= L + walk
          BY <4>2
        <5>2. e.what = "INDEX" => Agrees(e.schema, FailedBefore(Len(calls)), Virtual, q)
          BY <4>1, <5>1
        <5>3. e.what = "INDEX" => Agrees(e.schema, FailedBefore(Len(calls)), Virtual', q)
          BY <1>6, <5>1, <5>2
        <5> QED
          BY <5>1, <5>3
      <4> QED
        BY <4>1, <4>2, <4>3 DEF good
    <3> QED
      BY <2>1, <3>1, <3>2 DEF Waits
  <2> QED
    BY <2>2 DEF e, good
<1>12. Here \in Stmt /\ schemaName \in Schemas \union {NoSchema} /\ postbuf \in Seq(Sent)
  <2>1. calls[Len(calls)].script \in Scripts /\ walk \in 1 .. Len(calls[Len(calls)].script)
    <3>1. Len(calls) \in 1 .. Len(calls)
      BY <1>1
    <3>2. calls[Len(calls)].script \in Scripts /\ Len(calls[Len(calls)].script) \in Nat
      BY <3>1, CallFacts
    <3> QED
      BY <1>1, <3>2
  <2>2. calls[Len(calls)].script[walk] \in Stmt
    BY <2>1, ScriptProperties
  <2>3. schemaName \in Schemas \union {NoSchema} /\ postbuf \in Seq(Sent)
    BY TypeParts DEF Values
  <2> QED
    BY <1>1, <2>2, <2>3 DEF Here
<1>13. ASSUME Here.kind = "create", NEW i \in DOMAIN QueueOf(Here, schemaName, Current, walk)
       PROVE  good(QueueOf(Here, schemaName, Current, walk)[i])
  <2> DEFINE e == QueueOf(Here, schemaName, Current, walk)[i]
  <2>1. /\ e.call = Current /\ e.place = walk /\ e.what \in Queued
        /\ e.what = "INDEX" => e.schema = schemaName
    <3> DEFINE q == QueueOf(Here, schemaName, Current, walk)
    <3>1. Here \in Stmt /\ schemaName \in Schemas \union {NoSchema} /\ Current \in Nat
            /\ walk \in Nat
      BY <1>1, <1>12
    <3>2. \A k \in DOMAIN q : /\ q[k].call = Current /\ q[k].place = walk /\ q[k].what \in Queued
                              /\ q[k].what = "INDEX" => q[k].schema = schemaName
      BY <3>1, QueueOfProperties
    <3> HIDE DEF q
    <3>3. i \in DOMAIN q /\ e = q[i]
      BY <1>13 DEF q
    <3> HIDE DEF e
    <3> QED
      BY <3>2, <3>3
  <2> HIDE DEF e
  <2>2. calls[Len(calls)].script[walk].kind = "create" /\ walk \in 1 .. walk
    BY <1>1, <1>13 DEF Here
  <2>3. FailedBefore(Len(calls) + 1) = FailedBefore(Len(calls))
    <3>1. ~FailedUse(Len(calls))
      BY <1>1, CallFacts DEF FailedUse
    <3>2. \A d : d \in 1 .. (Len(calls) + 1) - 1 <=> d \in 1 .. Len(calls) - 1 \/ d = Len(calls)
      BY <1>1
    <3> QED
      BY <3>1, <3>2 DEF FailedBefore
  <2>4. Len(calls) \in 1 .. Len(calls)
    BY <1>1
  <2>5. good(e)
    BY <1>1, <1>8, <2>1, <2>2, <2>3, <2>4
  <2> QED
    BY <2>5 DEF e
<1> HIDE DEF good
<1>14. ASSUME NEW i \in 1 .. Len(postbuf') PROVE good(postbuf'[i])
  <2>1. CASE postbuf' = postbuf
    BY <1>11, <2>1
  <2>2. CASE Here.kind = "create" /\ postbuf' = postbuf \o QueueOf(Here, schemaName, Current, walk)
    <3> DEFINE q == QueueOf(Here, schemaName, Current, walk)
    <3>1. q \in Seq(Sent)
      BY <1>1, <1>12, QueueOfProperties
    <3>2. \A k \in DOMAIN q : good(q[k])
      BY <1>13, <2>2
    <3> HIDE DEF q
    <3>3. \A k \in 1 .. Len(postbuf \o q) :
            (postbuf \o q)[k] = IF k <= Len(postbuf) THEN postbuf[k] ELSE q[k - Len(postbuf)]
      BY <1>12, <3>1
    <3>4. Len(postbuf \o q) = Len(postbuf) + Len(q) /\ Len(postbuf) \in Nat /\ Len(q) \in Nat
          /\ DOMAIN q = 1 .. Len(q)
      BY <1>12, <3>1
    <3>5. postbuf' = postbuf \o q
      BY <2>2 DEF q
    <3>6. CASE i <= Len(postbuf)
      <4>1. i \in 1 .. Len(postbuf) /\ postbuf'[i] = postbuf[i]
        BY <3>3, <3>4, <3>5, <3>6
      <4> QED
        BY <1>11, <4>1
    <3>7. CASE i > Len(postbuf)
      <4>1. i - Len(postbuf) \in DOMAIN q /\ postbuf'[i] = q[i - Len(postbuf)]
        BY <3>3, <3>4, <3>5, <3>7
      <4> QED
        BY <3>2, <4>1
    <3> QED
      BY <3>4, <3>5, <3>6, <3>7
  <2> QED
    BY <2>1, <2>2 DEF Walks
<1>15. ASSUME NEW c \in Nat PROVE FailedBefore(c)' = FailedBefore(c)
  BY <1>2 DEF FailedBefore, FailedUse
<1>16. FailedBefore(Len(calls))' = FailedBefore(Len(calls))
       /\ FailedBefore(Len(calls) + 1)' = FailedBefore(Len(calls) + 1)
  BY <1>2 DEF FailedBefore, FailedUse
<1>17. ASSUME NEW i \in 1 .. Len(postbuf') PROVE Waits(postbuf[i])'
  <2>1. good(postbuf'[i])
    BY <1>14
  <2> QED
    BY <1>2, <1>3, <1>16, <2>1 DEF Waits, WaitsForTree, good
<1>18. Follows' /\ Prefixed'
  <2>1. \A i \in 1 .. Len(output) : output[i].call \in 1 .. Len(calls)
    BY DEF TurnInv, Came
  <2>2. \A c \in 1 .. Len(calls) : FailedBefore(c)' = FailedBefore(c)
    BY <1>15
  <2>3. \A d \in 1 .. Len(calls) : calls[d].status = "failed" => calls'[d].status = "failed"
    BY <1>2
  <2> QED
    BY <1>2, <2>1, <2>2, <2>3, OutputKept DEF TurnInv
<1>19. (walk' > 0 => Pending') /\ \A i \in 1 .. Len(output') : Came(output[i])'
  BY <1>2, <1>3 DEF TurnInv, Came, HasTree
<1>20. Agrees(schemaName, FailedBefore(Len(calls) + 1), Virtual, Len(output) + Ahead + 1)'
  <2>1. Len(output') + Ahead' + 1 = L + walk + 1
    BY <1>2, <1>3
  <2> QED
    BY <1>9, <1>16, <2>1
<1> QED
  BY <1>17, <1>18, <1>19, <1>20 DEF TurnInv

(* A tree is printed, and the queue behind it: old, tree and queue are the *)
(* three parts of what is printed then.                                    *)
LEMMA TurnPrints ==
  ASSUME Inv, TypeOK, TurnInv, InTurn, InTurn', Inv', NEW c \in 1 .. Len(calls), Prints(c)
  PROVE  TurnInv'
<1> DEFINE L == Len(output)
           tree == Statements(Len(calls))
           N == Len(tree)
           P == Len(postbuf)
           script == calls[Len(calls)].script
<1>1. /\ SameScripts /\ walk' = 0 /\ schemaName' = schemaName
      /\ prints' = Append(prints, c) /\ postbuf' = << >>
      /\ output' = output \o Statements(c) \o postbuf
  BY DEF Prints, PrintTree
<1>2. /\ Len(calls) \in Nat /\ Len(calls') = Len(calls) /\ c \in 1 .. Len(calls)
      /\ Len(calls) \in 1 .. Len(calls)
  BY <1>1, CallFacts DEF SameScripts
<1>3. c = Len(calls) /\ Pending /\ ~Pending'
  BY PendingPrinted
<1>4. /\ output \in Seq(Sent) /\ postbuf \in Seq(Sent) /\ tree \in Seq(Sent)
      /\ L \in Nat /\ N \in Nat /\ P \in Nat /\ N = Len(script)
      /\ \A p \in 1 .. N : /\ tree[p].call = Len(calls) /\ tree[p].place = p
                           /\ tree[p].what \notin Queued
                           /\ tree[p].what = "CREATE" <=> script[p].kind = "create"
  <2>1. output \in Seq(Sent) /\ postbuf \in Seq(Sent)
    BY TypeParts DEF Values
  <2>2. Len(calls) > 0
    BY <1>2
  <2> QED
    BY <2>1, <2>2, SeenBounds
<1>5. Seen = N /\ Ahead = N /\ Ahead' = 0
  <2>1. Seen = N
    BY <1>3, <1>4 DEF Prints
  <2> QED
    BY <1>3, <2>1 DEF Ahead
<1>6. \A k \in 1 .. P :
        LET e == postbuf[k]
        IN  /\ e.what \in Queued /\ e.call \in 1 .. Len(calls)
            /\ calls[e.call].status # "failed" =>
                 /\ e.call = Len(calls) /\ e.place \in 1 .. N
                 /\ script[e.place].kind = "create"
                 /\ e.what = "INDEX" =>
                      Agrees(e.schema, FailedBefore(Len(calls)), Virtual, L + e.place)
  <2>1. \A k \in 1 .. P : Waits(postbuf[k])
    BY DEF TurnInv
  <2> QED
    BY <1>5, <2>1 DEF Waits, WaitsForTree
<1>7. Virtual = [k \in 1 .. L + N |-> IF k <= L THEN output[k] ELSE tree[k - L]]
  BY <1>5 DEF Virtual, Current
<1>8. \A k \in 1 .. L : Came(output[k])
  BY DEF TurnInv
<1>9. L \in Nat /\ N \in Nat /\ P \in Nat
  BY <1>4
<1>10. \A d \in 1 .. Len(calls) : /\ calls'[d].status = "failed" <=> calls[d].status = "failed"
                                  /\ calls'[d].script = calls[d].script
                                  /\ HasTree(d) => HasTree(d)'
  <2>1. \E e \in 1 .. Len(calls) : Prints(e)
    OBVIOUS
  <2> QED
    BY <2>1, FailedKept
<1>11. \A d \in 1 .. Len(calls) + 1 : FailedBefore(d)' = FailedBefore(d)
  <2> TAKE d \in 1 .. Len(calls) + 1
  <2>1. Len(calls) \in Nat
    BY <1>2
  <2> QED
    BY <1>10, <2>1, FailedUsesKept
<1>12. calls[Len(calls)].status # "failed"
  BY <1>3 DEF Pending
<1>13. output' = output \o tree \o postbuf
  BY <1>1, <1>3
<1>14. /\ Follows /\ Prefixed
       /\ Agrees(schemaName, FailedBefore(Len(calls) + 1), Virtual, L + N + 1)
  <2>1. /\ Agrees(schemaName, FailedBefore(Len(calls) + 1), Virtual, L + Ahead + 1)
        /\ Follows /\ Prefixed
    BY DEF TurnInv
  <2> QED
    BY <1>4, <1>5, <1>13, <2>1
<1> HIDE DEF tree, N, P, L, script
<1>15. /\ Len(output') = L + N + P
       /\ \A k \in 1 .. L : output'[k] = output[k]
       /\ \A k \in 1 .. N : output'[L + k] = tree[k]
       /\ \A k \in 1 .. P : output'[L + N + k] = postbuf[k]
  <2>1. output \in Seq(Sent) /\ tree \in Seq(Sent) /\ postbuf \in Seq(Sent)
    BY <1>4
  <2>2. /\ Len(output \o tree \o postbuf) = Len(output) + Len(tree) + Len(postbuf)
        /\ \A k \in 1 .. Len(output) : (output \o tree \o postbuf)[k] = output[k]
        /\ \A k \in 1 .. Len(tree) : (output \o tree \o postbuf)[Len(output) + k] = tree[k]
        /\ \A k \in 1 .. Len(postbuf) :
             (output \o tree \o postbuf)[Len(output) + Len(tree) + k] = postbuf[k]
    BY ONLY <2>1, ThreeParts
  <2> QED
    BY <1>13, <2>2 DEF L, N, P
<1>16. \A i \in 1 .. Len(output') :
         \/ i \in 1 .. L
         \/ \E p \in 1 .. N : i = L + p
         \/ \E k \in 1 .. P : i = L + N + k
  <2> TAKE i \in 1 .. Len(output')
  <2>1. i \in 1 .. L + N + P
    BY <1>15
  <2>2. CASE i > L + N
    <3>1. i - (L + N) \in 1 .. P /\ i = L + N + (i - (L + N))
      BY <1>4, <2>1, <2>2
    <3> QED
      BY <3>1
  <2>3. CASE i > L /\ i <= L + N
    <3>1. i - L \in 1 .. N /\ i = L + (i - L)
      BY <1>4, <2>1, <2>3
    <3> QED
      BY <3>1
  <2>4. CASE i <= L
    BY <2>1, <2>4
  <2> QED
    BY <1>4, <2>1, <2>2, <2>3, <2>4
<1>17. ASSUME NEW i \in Nat \ {0}, i <= L + N + 1, NEW x, NEW F, Agrees(x, F, Virtual, i)
       PROVE  Agrees(x, F, output', i)
  <2>1. \A k \in 1 .. i - 1 : Virtual[k] = output'[k]
    <3> TAKE k \in 1 .. i - 1
    <3>1. k \in 1 .. L + N
      BY <1>4, <1>17
    <3>2. CASE k <= L
      BY <1>4, <1>7, <1>15, <3>1, <3>2
    <3>3. CASE k > L
      <4>1. k - L \in 1 .. N /\ k = L + (k - L)
        BY <1>4, <3>1, <3>3
      <4>2. output'[k] = tree[k - L]
        BY <1>15, <4>1
      <4>3. Virtual[k] = tree[k - L]
        BY <1>4, <1>7, <3>1, <3>3
      <4> QED
        BY <4>2, <4>3
    <3> QED
      BY <1>4, <3>1, <3>2, <3>3
  <2> QED
    BY <1>17, <2>1, AgreesInFront
<1>18. Follows'
  <2> SUFFICES ASSUME NEW i \in 1 .. Len(output'), output'[i].what \in Queued
               PROVE  \/ \E j \in 1 .. i - 1 :
                           /\ output'[j].what = "CREATE"
                           /\ output'[i].call = output'[j].call /\ output'[i].place = output'[j].place
                      \/ calls'[output'[i].call].status = "failed"
    BY DEF Follows, SameTable
  <2>1. CASE i \in 1 .. L
    <3>1. output'[i] = output[i] /\ output[i].call \in 1 .. Len(calls)
      BY <1>8, <1>15, <2>1 DEF Came
    <3>2. CASE calls[output[i].call].status = "failed"
      BY ONLY <1>10, <3>1, <3>2
    <3>3. CASE \E j \in 1 .. i - 1 : output[j].what = "CREATE" /\ SameTable(i, j)
      <4>1. PICK j \in 1 .. i - 1 : output[j].what = "CREATE" /\ SameTable(i, j)
        BY <3>3
      <4>2. j \in 1 .. L
        BY <1>4, <2>1
      <4> QED
        BY <1>15, <2>1, <4>1, <4>2 DEF SameTable
    <3> QED
      BY <1>14, <2>1, <3>1, <3>2, <3>3 DEF Follows, L
  <2>2. ASSUME NEW p \in 1 .. N, i = L + p PROVE FALSE
    BY <1>4, <1>15, <2>2
  <2>3. ASSUME NEW k \in 1 .. P, i = L + N + k, calls[postbuf[k].call].status # "failed"
        PROVE  \E j \in 1 .. i - 1 :
                 /\ output'[j].what = "CREATE"
                 /\ output'[i].call = output'[j].call /\ output'[i].place = output'[j].place
    <3> DEFINE p == postbuf[k].place
    <3>1. output'[i] = postbuf[k]
      BY <1>15, <2>3
    <3>2. p \in 1 .. N /\ script[p].kind = "create" /\ postbuf[k].call = Len(calls)
      BY <1>6, <2>3
    <3> HIDE DEF p
    <3>3. /\ tree[p].what = "CREATE" /\ tree[p].call = Len(calls) /\ tree[p].place = p
      BY <1>4, <3>2
    <3>4. output'[L + p] = tree[p]
      BY <1>15, <3>2
    <3>5. L + p \in 1 .. i - 1
      BY <1>4, <2>3, <3>2
    <3>6. output'[i].place = p
      BY <3>1 DEF p
    <3> QED
      BY <3>1, <3>2, <3>3, <3>4, <3>5, <3>6
  <2>4. ASSUME NEW k \in 1 .. P, i = L + N + k, calls[postbuf[k].call].status = "failed"
        PROVE  calls'[output'[i].call].status = "failed"
    <3>1. output'[i] = postbuf[k] /\ postbuf[k].call \in 1 .. Len(calls)
      BY <1>6, <1>15, <2>4
    <3> QED
      BY <1>10, <2>4, <3>1
  <2> QED
    BY <1>16, <2>1, <2>2, <2>3, <2>4
<1>19. Prefixed'
  <2> SUFFICES ASSUME NEW i \in 1 .. Len(output'), NEW j \in 1 .. Len(output'),
                      output'[i].what = "INDEX", output'[j].what = "CREATE",
                      output'[i].call = output'[j].call, output'[i].place = output'[j].place
               PROVE  Agrees(output'[i].schema, FailedBefore(output[j].call)', output', j)
    BY DEF Prefixed, SameTable
  <2>1. "INDEX" \in Queued /\ "CREATE" \notin Queued
    BY DEF Queued
  <2>2. CASE i \in 1 .. L /\ j \in 1 .. L
    <3>1. output'[i] = output[i] /\ output'[j] = output[j] /\ output[j].call \in 1 .. Len(calls)
      BY <1>8, <1>15, <2>2 DEF Came
    <3>2. Agrees(output[i].schema, FailedBefore(output[j].call), output, j)
      BY <1>14, <2>2, <3>1 DEF Prefixed, SameTable, L
    <3>3. \A k \in 1 .. j - 1 : output[k] = output'[k]
      BY <1>4, <1>15, <2>2
    <3>4. j \in Nat \ {0}
      OBVIOUS
    <3>5. FailedBefore(output[j].call) \subseteq FailedBefore(output[j].call)'
      <4>1. PICK d \in 1 .. Len(calls) + 1 : d = output[j].call
        BY <1>2, <3>1
      <4>2. FailedBefore(output[j].call)' = FailedBefore(d)'
        BY <3>1, <4>1 DEF FailedBefore
      <4> QED
        BY <1>11, <4>1, <4>2
    <3>6. Agrees(output[i].schema, FailedBefore(output[j].call)', output', j)
      BY <3>2, <3>3, <3>4, <3>5, AgreesInFront
    <3> QED
      BY <3>1, <3>6
  <2>3. ASSUME NEW p \in 1 .. N, i \in 1 .. L, j = L + p PROVE FALSE
    <3>1. output'[i].call # Len(calls)
      BY <1>3, <1>8, <1>15, <2>3 DEF Came
    <3>2. output'[j].call = Len(calls)
      BY <1>4, <1>15, <2>3
    <3> QED
      BY <3>1, <3>2
  <2>4. ASSUME NEW k \in 1 .. P, j = L + N + k PROVE FALSE
    <3>1. output'[j] = postbuf[k] /\ postbuf[k].what \in Queued
      BY <1>6, <1>15, <2>4
    <3> QED
      BY <2>1, <3>1
  <2>5. ASSUME NEW p \in 1 .. N, i = L + p PROVE FALSE
    <3>1. output'[i] = tree[p] /\ tree[p].what \notin Queued
      BY <1>4, <1>15, <2>5
    <3> QED
      BY <2>1, <3>1
  <2>6. ASSUME NEW k \in 1 .. P, i = L + N + k, j \in 1 .. L PROVE FALSE
    <3>1. output'[i] = postbuf[k] /\ output'[j] = output[j] /\ output[j].what \notin Queued
      BY <1>15, <2>1, <2>6
    <3>2. HasTree(output[j].call) /\ output[j].call # Len(calls)
      BY <1>3, <1>8, <2>6, <3>1 DEF Came
    <3>3. calls[output[j].call].status # "failed"
      BY <3>2 DEF HasTree
    <3> QED
      BY <1>6, <3>1, <3>2, <3>3
  <2>7. ASSUME NEW k \in 1 .. P, i = L + N + k, NEW p \in 1 .. N, j = L + p
        PROVE  Agrees(output'[i].schema, FailedBefore(output[j].call)', output', j)
    <3>1. output'[i] = postbuf[k] /\ output'[j] = tree[p] /\ tree[p].call = Len(calls)
      BY <1>4, <1>15, <2>7
    <3>2. postbuf[k].place = p /\ postbuf[k].call = Len(calls)
      BY <1>4, <3>1
    <3>3. Agrees(postbuf[k].schema, FailedBefore(Len(calls)), Virtual, L + p)
      BY <1>6, <1>12, <3>1, <3>2
    <3>4. L + p \in Nat \ {0} /\ L + p <= L + N + 1
      BY <1>9
    <3>5. Agrees(postbuf[k].schema, FailedBefore(Len(calls)), output', L + p)
      BY <1>17, <3>3, <3>4
    <3>6. FailedBefore(output[j].call)' = FailedBefore(Len(calls))
      <4>1. PICK d \in 1 .. Len(calls) + 1 : d = Len(calls)
        BY <1>2
      <4>2. FailedBefore(output[j].call)' = FailedBefore(d)'
        BY <3>1, <4>1 DEF FailedBefore
      <4> QED
        BY <1>11, <4>1, <4>2
    <3> QED
      BY <2>7, <3>1, <3>5, <3>6
  <2> QED
    BY <1>16, <2>2, <2>3, <2>4, <2>5, <2>6, <2>7
<1>20. \A i \in 1 .. Len(output') : Came(output[i])'
  <2> SUFFICES ASSUME NEW i \in 1 .. Len(output')
               PROVE  /\ output'[i].call \in 1 .. Len(calls)
                      /\ output'[i].what \notin Queued => HasTree(output[i].call)'
    BY <1>2, <1>3 DEF Came, HasTree
  <2>1. CASE i \in 1 .. L
    <3>1. output'[i] = output[i] /\ Came(output[i])
      BY <1>8, <1>15, <2>1
    <3>2. HasTree(output[i].call) => HasTree(output[i].call)'
      <4>1. PICK d \in 1 .. Len(calls) : d = output[i].call
        BY <3>1 DEF Came
      <4>2. HasTree(d) => HasTree(d)'
        BY ONLY <1>10
      <4>3. output'[i].call = d
        BY <3>1, <4>1
      <4> QED
        BY <4>1, <4>2, <4>3 DEF HasTree
    <3> QED
      BY <3>1, <3>2 DEF Came, HasTree
  <2>2. ASSUME NEW p \in 1 .. N, i = L + p
        PROVE  output'[i].call = Len(calls)
    BY <1>4, <1>15, <2>2
  <2>3. ASSUME NEW k \in 1 .. P, i = L + N + k
        PROVE  output'[i].call \in 1 .. Len(calls) /\ output'[i].what \in Queued
    BY <1>6, <1>15, <2>3
  <2>4. output'[i].call = Len(calls) => HasTree(output[i].call)'
    <3>1. calls'[Len(calls)].status \in {"live", "freed"}
      BY <1>2, <1>3 DEF Prints
    <3> QED
      BY <3>1 DEF HasTree
  <2> QED
    BY <1>2, <1>16, <2>1, <2>2, <2>3, <2>4
<1>21. Agrees(schemaName, FailedBefore(Len(calls) + 1), Virtual, Len(output) + Ahead + 1)'
  <2> DEFINE last == L + N + P + 1
             F == FailedBefore(Len(calls) + 1)
  <2>1. \A k \in L + N + 1 .. last - 1 : output'[k].what # "USE"
    <3> TAKE k \in L + N + 1 .. last - 1
    <3>1. k - (L + N) \in 1 .. P /\ k = L + N + (k - (L + N))
      BY <1>4
    <3>2. output'[k] = postbuf[k - (L + N)]
      BY <1>15, <3>1
    <3> QED
      BY <1>6, <3>1, <3>2 DEF Queued
  <2>2. L + N + 1 \in Nat \ {0} /\ last \in Nat \ {0} /\ L + N + 1 <= last /\ L + N + 1 <= L + N + 1
    BY <1>4
  <2>3. \A k \in 1 .. last - 1 : output'[k] = Virtual'[k]
    BY <1>4, <1>5, <1>15 DEF last, Virtual
  <2>4. Len(output') + Ahead' + 1 = last
    BY <1>4, <1>5, <1>15 DEF last
  <2>5. F \subseteq FailedBefore(Len(calls) + 1)'
    <3>1. PICK d \in 1 .. Len(calls) + 1 : d = Len(calls) + 1
      BY <1>2
    <3>2. FailedBefore(Len(calls) + 1)' = FailedBefore(d)'
      BY <1>2, <3>1 DEF FailedBefore
    <3> QED
      BY <1>11, <3>1, <3>2 DEF F
  <2> HIDE DEF last, F
  <2>6. Agrees(schemaName, F, output', L + N + 1)
    BY <1>14, <1>17, <2>2 DEF F
  <2>7. Agrees(schemaName, F, output', last)
    BY <2>1, <2>2, <2>6, AgreesAlong
  <2>8. Agrees(schemaName, FailedBefore(Len(calls) + 1)', Virtual', last)
    BY <2>2, <2>3, <2>5, <2>7, AgreesInFront
  <2> QED
    BY <1>1, <2>4, <2>8
<1>22. (walk' > 0 => Pending') /\ \A i \in 1 .. Len(postbuf') : Waits(postbuf[i])'
  BY <1>1
<1> QED
  BY <1>18, <1>19, <1>20, <1>21, <1>22 DEF TurnInv

LEMMA TurnNext == Inv /\ TypeOK /\ TurnInv /\ [Next]_vars => TurnInv'
<1> SUFFICES ASSUME Inv, TypeOK, TurnInv, [Next]_vars, InTurn' PROVE TurnInv'
  BY DEF TurnInv
<1>1. InTurn /\ Inv'
  BY InTurnBefore, NextInv
<1> QED
  BY <1>1, Steps, TurnCall, TurnWalks, TurnReturns, TurnFails, TurnPrints DEF Settles

-----------------------------------------------------------------------------
LEMMA TurnAlways == Spec => [](Inv /\ TypeOK /\ TurnInv)
<1>1. Init => Inv /\ TypeOK /\ TurnInv
  BY InitInv, TypeInit, TurnInit
<1>2. Inv /\ TypeOK /\ TurnInv /\ [Next]_vars => (Inv /\ TypeOK /\ TurnInv)'
  BY NextInv, TypeNext, TurnNext
<1> QED
  BY <1>1, <1>2, PTL DEF Spec

(* For every set of inputs, however many calls and whichever of them fail: *)
(* a client that prints each tree it is given, once, before it calls again *)
(* never prints a statement that alters a table before the one that        *)
(* creates it (print_postbuf after TreeWalkPrinter).  The one exception is *)
(* what a call queued that failed afterwards: that is printed with the     *)
(* next tree, and its table never is.                                      *)
THEOREM QueueFollowsItsTable == Spec => []QueueFollowsCreate
<1>1. Inv /\ TypeOK /\ TurnInv => QueueFollowsCreate
  <2> SUFFICES ASSUME TypeOK, TurnInv, InTurn PROVE Follows => QueueFollowsCreate
    BY DEF TurnInv, QueueFollowsCreate
  <2>1. DOMAIN output = 1 .. Len(output)
    BY DEF TypeOK
  <2> QED
    BY <2>1 DEF Follows, QueueFollowsCreate
<1> QED
  BY <1>1, TurnAlways, PTL

(* And the prefix it printed with a queued statement is the schema that    *)
(* the database has the table in: use_database_worker sets ws->schemaName  *)
(* while the tree is made, the search_path changes when it is printed, and *)
(* for this client the two disagree about a table only if a call failed    *)
(* behind a USE and no USE was printed since.                              *)
THEOREM PrefixIsTheSchema == Spec => []PrefixNamesItsSchema
<1>1. Inv /\ TypeOK /\ TurnInv => PrefixNamesItsSchema
  <2> SUFFICES ASSUME TypeOK, TurnInv, InTurn PROVE Prefixed => PrefixNamesItsSchema
    BY DEF TurnInv, PrefixNamesItsSchema
  <2>1. DOMAIN output = 1 .. Len(output)
    BY DEF TypeOK
  <2>2. \A i, j : Agrees(output[i].schema, FailedBefore(output[j].call), output, j)
                 => UseLost(j) \/ output[i].schema = PathAt(j)
    BY UseLostHere, PathOfOutput DEF Agrees
  <2> QED
    BY <2>1, <2>2 DEF Prefixed, PrefixNamesItsSchema
<1> QED
  BY <1>1, TurnAlways, PTL
=============================================================================
