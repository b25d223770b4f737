------------------------------ MODULE Unquote ------------------------------
(***************************************************************************)
(* unquote of pgify.c, as the threads of a program call it that translate  *)
(* different scripts at the same time.  They share one thing: the pattern, *)
(* made by the first call under g_once_init_enter, which all others use.   *)
(*                                                                         *)
(* GLib is modelled as unquote uses it: a first look at the location       *)
(* without a lock, then a mutex, a list of the locations being initialised *)
(* and a condition variable.  What is done under the mutex is one step; a  *)
(* thread that waits on the condition gives the mutex up.                  *)
(***************************************************************************)
EXTENDS Integers

CONSTANTS
  Threads,
  Calls      (* how often each thread calls unquote                        *)

ASSUME CallsAssumption == Calls \in Nat

VARIABLES
  pc,            (* where each thread is                                   *)
  pattern,       (* the static pattern, 0 for NULL                         *)
  initialized,   (* the static location of g_once_init_enter               *)
  beingMade,     (* the location is in the list of GLib                    *)
  signalled,     (* the waiting threads that were told to look again       *)
  made,          (* how many patterns were made                            *)
  used,          (* the pattern of the last call of each thread, -1 before *)
  left           (* the calls each thread has still to make                *)

vars == <<pc, pattern, initialized, beingMade, signalled, made, used, left>>

Places == {"caller", "lock", "wait", "make", "store", "leave", "replace"}

Init ==
  /\ pc = [t \in Threads |-> "caller"]
  /\ pattern = 0 /\ initialized = 0
  /\ beingMade = FALSE /\ signalled = {}
  /\ made = 0
  /\ used = [t \in Threads |-> -1]
  /\ left = [t \in Threads |-> Calls]

Go(t, place) == pc' = [pc EXCEPT ![t] = place]

(* unquote begins, and looks at the location without the lock.             *)
Enter(t) ==
  /\ pc[t] = "caller" /\ left[t] > 0
  /\ left' = [left EXCEPT ![t] = @ - 1]
  /\ Go(t, IF initialized # 0 THEN "replace" ELSE "lock")
  /\ UNCHANGED <<pattern, initialized, beingMade, signalled, made, used>>

(* Slip: under the lock, the location is not looked at again.              *)
LockUnchecked(t) ==
  /\ pc[t] = "lock"
  /\ IF beingMade THEN Go(t, "wait") /\ UNCHANGED beingMade
     ELSE Go(t, "make") /\ beingMade' = TRUE
  /\ UNCHANGED <<pattern, initialized, signalled, made, used, left>>

(* The slow path of g_once_init_enter: it is done, somebody is at it, or   *)
(* this thread does it.                                                    *)
Lock(t) ==
  /\ pc[t] = "lock"
  /\ IF initialized # 0 THEN Go(t, "replace") /\ UNCHANGED beingMade
     ELSE IF beingMade THEN Go(t, "wait") /\ UNCHANGED beingMade
     ELSE Go(t, "make") /\ beingMade' = TRUE
  /\ UNCHANGED <<pattern, initialized, signalled, made, used, left>>

(* The loop around g_cond_wait.                                            *)
Wake(t) ==
  /\ pc[t] = "wait" /\ t \in signalled
  /\ signalled' = signalled \ {t}
  /\ Go(t, IF beingMade THEN "wait" ELSE "replace")
  /\ UNCHANGED <<pattern, initialized, beingMade, made, used, left>>

(* g_regex_new, and the assignment of what it made.                        *)
Make(t) ==
  /\ pc[t] = "make"
  /\ made' = made + 1
  /\ pattern' = made'
  /\ Go(t, "store")
  /\ UNCHANGED <<initialized, beingMade, signalled, used, left>>

(* g_once_init_leave: the location is set, without the lock ...            *)
Store(t) ==
  /\ pc[t] = "store"
  /\ initialized' = 1
  /\ Go(t, "leave")
  /\ UNCHANGED <<pattern, beingMade, signalled, made, used, left>>

(* Slip: nobody is told.                                                   *)
LeaveQuietly(t) ==
  /\ pc[t] = "leave"
  /\ beingMade' = FALSE
  /\ Go(t, "replace")
  /\ UNCHANGED <<pattern, initialized, signalled, made, used, left>>

(* ... then, under the lock, it leaves the list, and all waiters are told. *)
Leave(t) ==
  /\ pc[t] = "leave"
  /\ beingMade' = FALSE
  /\ signalled' = {u \in Threads : pc[u] = "wait"}
  /\ Go(t, "replace")
  /\ UNCHANGED <<pattern, initialized, made, used, left>>

(* g_regex_replace_literal reads the static pattern.                       *)
Replace(t) ==
  /\ pc[t] = "replace"
  /\ used' = [used EXCEPT ![t] = pattern]
  /\ Go(t, "caller")
  /\ UNCHANGED <<pattern, initialized, beingMade, signalled, made, left>>

Thread(t) == Enter(t) \/ Lock(t) \/ Wake(t) \/ Make(t) \/ Store(t) \/ Leave(t) \/ Replace(t)

Next == \E t \in Threads : Thread(t)

(* Every thread runs.                                                      *)
Spec == Init /\ [][Next]_vars /\ \A t \in Threads : WF_vars(Thread(t))

-----------------------------------------------------------------------------
TypeOK ==
  /\ pc \in [Threads -> Places]
  /\ pattern \in Nat /\ made \in Nat
  /\ initialized \in {0, 1}
  /\ beingMade \in BOOLEAN
  /\ signalled \in SUBSET Threads
  /\ used \in [Threads -> Nat \union {-1}]
  /\ left \in [Threads -> Nat]

(* No call of g_regex_replace_literal is given a pattern that was not yet  *)
(* stored, and all of them, of all threads, are given the same one, of     *)
(* which no second is made and lost.  About the static variables of        *)
(* unquote.                                                                *)
OneForAll ==
  /\ made <= 1
  /\ \A t \in Threads : /\ used[t] \in {-1, 1}
                        /\ pc[t] = "replace" => pattern = 1

(* A thread that calls unquote while another one makes the pattern gets    *)
(* its answer: no wake-up is missed between the look at the list and the   *)
(* wait.                                                                   *)
EveryCallReturns == \A t \in Threads : (pc[t] # "caller") ~> (pc[t] = "caller")

-----------------------------------------------------------------------------
(* Where one is made there is one thread at it, the location tells when it *)
(* is ready, and who waits does so for the thread that makes it.           *)
Making == {"make", "store", "leave"}

OneMaker ==
  /\ \A t, u \in Threads : pc[t] \in Making /\ pc[u] \in Making => t = u
  /\ beingMade <=> \E t \in Threads : pc[t] \in Making

Progress ==
  /\ \A t \in Threads :
        /\ pc[t] = "make"  => made = 0 /\ pattern = 0 /\ initialized = 0
        /\ pc[t] = "store" => made = 1 /\ pattern = 1 /\ initialized = 0
        /\ pc[t] \in {"leave", "replace"} => initialized = 1
        /\ pc[t] = "wait"  => beingMade \/ initialized = 1
        /\ used[t] \in {-1, 1}
  /\ initialized = 1 => made = 1 /\ pattern = 1
  /\ initialized = 0 /\ ~beingMade => made = 0 /\ pattern = 0

IInv == TypeOK /\ OneMaker /\ Progress
=============================================================================
