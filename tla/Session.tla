------------------------------ MODULE Session ------------------------------
(***************************************************************************)
(* What lasts from one call of the library to the next: a WalkerState      *)
(* holds the schema that USE chose and the statements that wait to be      *)
(* printed, and every call of pgify or pgify_string with it goes on from   *)
(* there.  The rewriting happens when a tree is made, the printing when    *)
(* the client asks for it, in what order it likes; any allocation on the   *)
(* way can fail.  What is printed goes to a database, which has a search   *)
(* path of its own.                                                        *)
(*                                                                         *)
(* What is abstracted: an input is its statements; of a statement is kept  *)
(* what the walker does to the state and what it is to the database; a     *)
(* CREATE TABLE is the statements that CreateTable queues for it.          *)
(***************************************************************************)
EXTENDS Integers, Sequences, FiniteSets

CONSTANTS
  Schemas,    (* names of databases                                        *)
  Scripts,    (* the inputs: sequences of Stmt                             *)
  MaxCalls,   (* bound: calls of pgify and pgify_string                    *)
  MaxPrints   (* bound: how often trees are printed                        *)

(* The prefix of a state that has seen no USE.                             *)
NoSchema == ""

Stmt == [kind   : {"use", "create", "other"},
         schema : Schemas \union {NoSchema},
         queues : SUBSET {"INDEX", "FKEY"}]

ASSUME ScriptsAssumption ==
  /\ NoSchema \notin Schemas
  /\ \A s \in Scripts :
       /\ s \in Seq(Stmt)
       /\ \A p \in DOMAIN s : /\ s[p].kind = "use" <=> s[p].schema # NoSchema
                              /\ s[p].kind # "create" => s[p].queues = {}
ASSUME BoundsAssumption == MaxCalls \in Nat /\ MaxPrints \in Nat

VARIABLES
  alive,      (* walkerstate_free has not been called                      *)
  schemaName, (* ws->schemaName                                            *)
  postbuf,    (* ws->postbuf                                               *)
  calls,      (* the calls so far: input, caller, how they ended           *)
  walk,       (* the statement TreeWalkWorker is at, 0 outside a call      *)
  heap,       (* what the calls have allocated and not freed               *)
  prints,     (* which trees were printed, in order                        *)
  output,     (* the statements that were printed                          *)
  undefined   (* an uninitialised pointer was freed                        *)

vars == <<alive, schemaName, postbuf, calls, walk, heap, prints, output, undefined>>
state == <<alive, schemaName, postbuf>>

(* A statement on its way to the database, and the call and the place in   *)
(* its input that it comes from.                                           *)
Sent == [what : {"USE", "OTHER", "CREATE", "INDEX", "FKEY"},
         schema : Schemas \union {NoSchema}, call : Nat, place : Nat]
Queued == {"INDEX", "FKEY"}
Send(what, schema, call, place) ==
  [what |-> what, schema |-> schema, call |-> call, place |-> place]

Objects == {"lxr", "tstream", "psr", "pt"}
Of(call, objects) == {call} \X objects

Current == Len(calls)
Here    == calls[Current].script[walk]
Walking == ~undefined /\ walk > 0
Idle    == ~undefined /\ walk = 0

-----------------------------------------------------------------------------
(* A slip: walkerstate_new leaves the prefix at NULL.                      *)
InitUnset ==
  /\ alive = TRUE
  /\ schemaName = "(null)"
  /\ postbuf = << >>
  /\ calls = << >>
  /\ walk = 0
  /\ heap = {}
  /\ prints = << >>
  /\ output = << >>
  /\ undefined = FALSE

(* walkerstate_new                                                         *)
Init ==
  /\ alive = TRUE
  /\ schemaName = NoSchema
  /\ postbuf = << >>
  /\ calls = << >>
  /\ walk = 0
  /\ heap = {}
  /\ prints = << >>
  /\ output = << >>
  /\ undefined = FALSE

Call(by, script, status) ==
  Append(calls, [by |-> by, script |-> script, status |-> status, after |-> Len(prints)])

(* What a failed call of pgify_string leaves: it has made its output       *)
(* before it calls pgify.                                                  *)
Left(by, call) == IF by = "pgify_string" THEN Of(call, {"output"}) ELSE {}

MayCall == Idle /\ alive /\ Len(calls) < MaxCalls

(* The lexer, the token stream and the parser are made, the input parsed.  *)
Begin(by, script) ==
  /\ MayCall
  /\ calls' = Call(by, script, "walking")
  /\ walk' = 1
  /\ heap' = heap \union Of(Current + 1, {"lxr", "tstream", "psr"})
  /\ UNCHANGED <<state, prints, output, undefined>>

(* Or one of the three cannot be made.  The cleanup frees the locals that  *)
(* are not NULL; those that come after the failed one have no value yet.   *)
Unset(failed) ==
  CASE failed = "lxr"     -> {"tstream", "psr", "pt"}
    [] failed = "tstream" -> {"psr", "pt"}
    [] failed = "psr"     -> {"pt"}

FailEarly(by, script) ==
  \E failed \in {"lxr", "tstream", "psr"} : \E wild \in SUBSET Unset(failed) :
    /\ MayCall
    /\ undefined' = (wild # {})
    /\ calls' = Call(by, script, "refused")
    /\ heap' = heap \union Left(by, Current + 1)
    /\ UNCHANGED <<state, walk, prints, output>>

(* A slip: the schema of the first USE stays.                              *)
WalkUseOnce ==
  /\ Walking /\ walk <= Len(calls[Current].script) /\ Here.kind = "use"
  /\ schemaName' = IF schemaName = NoSchema THEN Here.schema ELSE schemaName
  /\ walk' = walk + 1
  /\ UNCHANGED <<alive, postbuf, calls, heap, prints, output, undefined>>

(* use_database_worker                                                     *)
WalkUse ==
  /\ Walking /\ walk <= Len(calls[Current].script) /\ Here.kind = "use"
  /\ schemaName' = Here.schema
  /\ walk' = walk + 1
  /\ UNCHANGED <<alive, postbuf, calls, heap, prints, output, undefined>>

(* create_table_worker: the index comes before the foreign key, and only   *)
(* the index has the prefix.                                               *)
QueueOf(stmt, schema, call, place) ==
  (IF "INDEX" \in stmt.queues THEN <<Send("INDEX", schema, call, place)>> ELSE << >>)
  \o (IF "FKEY" \in stmt.queues THEN <<Send("FKEY", NoSchema, call, place)>> ELSE << >>)

(* A slip: what is queued last is printed first.                           *)
WalkCreateInsert ==
  /\ Walking /\ walk <= Len(calls[Current].script) /\ Here.kind = "create"
  /\ postbuf' = QueueOf(Here, schemaName, Current, walk) \o postbuf
  /\ walk' = walk + 1
  /\ UNCHANGED <<alive, schemaName, calls, heap, prints, output, undefined>>

WalkCreate ==
  /\ Walking /\ walk <= Len(calls[Current].script) /\ Here.kind = "create"
  /\ postbuf' = postbuf \o QueueOf(Here, schemaName, Current, walk)
  /\ walk' = walk + 1
  /\ UNCHANGED <<alive, schemaName, calls, heap, prints, output, undefined>>

WalkOther ==
  /\ Walking /\ walk <= Len(calls[Current].script) /\ Here.kind = "other"
  /\ walk' = walk + 1
  /\ UNCHANGED <<state, calls, heap, prints, output, undefined>>

Walked == Walking /\ walk > Len(calls[Current].script)

(* pgify returns the tree.                                                 *)
ReturnTree ==
  /\ Walked /\ calls[Current].by = "pgify"
  /\ calls' = [calls EXCEPT ![Current].status = "live"]
  /\ walk' = 0
  /\ heap' = heap \union Of(Current, {"pt"})
  /\ UNCHANGED <<state, prints, output, undefined>>

(* The tree cannot be made: everything is freed, and what the walk did to  *)
(* the state stays.  The slip: the cleanup forgets the token stream.       *)
FailLateForgetting ==
  /\ Walked
  /\ calls' = [calls EXCEPT ![Current].status = "failed"]
  /\ walk' = 0
  /\ heap' = (heap \ Of(Current, {"lxr", "psr"})) \union Left(calls[Current].by, Current)
  /\ UNCHANGED <<state, prints, output, undefined>>
FailLate ==
  /\ Walked
  /\ calls' = [calls EXCEPT ![Current].status = "failed"]
  /\ walk' = 0
  /\ heap' = (heap \ Of(Current, Objects)) \union Left(calls[Current].by, Current)
  /\ UNCHANGED <<state, prints, output, undefined>>

(* What TreeWalkPrinter prints of a call.                                  *)
Statements(call) ==
  [p \in DOMAIN calls[call].script |->
    LET stmt == calls[call].script[p]
    IN  CASE stmt.kind = "use"    -> Send("USE", stmt.schema, call, p)
          [] stmt.kind = "create" -> Send("CREATE", NoSchema, call, p)
          [] OTHER                -> Send("OTHER", NoSchema, call, p)]

(* Slips: the queue is not emptied; it is printed before the tree.         *)
PrintKeeping(call) ==
  /\ Len(prints) < MaxPrints
  /\ output' = output \o Statements(call) \o postbuf
  /\ prints' = Append(prints, call)
  /\ UNCHANGED postbuf
PrintQueueFirst(call) ==
  /\ Len(prints) < MaxPrints
  /\ output' = output \o postbuf \o Statements(call)
  /\ postbuf' = << >>
  /\ prints' = Append(prints, call)

(* The tree, and then the queue of the state, which is emptied.            *)
PrintTree(call) ==
  /\ Len(prints) < MaxPrints
  /\ output' = output \o Statements(call) \o postbuf
  /\ postbuf' = << >>
  /\ prints' = Append(prints, call)

(* pgify_string prints and frees the tree at once.                         *)
ReturnString ==
  /\ Walked /\ calls[Current].by = "pgify_string"
  /\ PrintTree(Current)
  /\ calls' = [calls EXCEPT ![Current].status = "freed"]
  /\ walk' = 0
  /\ heap' = heap \ Of(Current, Objects)
  /\ UNCHANGED <<alive, schemaName, undefined>>

(* pgify_string_tree reads pt->ws, which must not have been freed.         *)
PgifyStringTree(call) ==
  /\ Idle /\ alive /\ calls[call].status = "live"
  /\ PrintTree(call)
  /\ UNCHANGED <<alive, schemaName, calls, walk, heap, undefined>>

PgifytreeFree(call) ==
  /\ Idle /\ calls[call].status = "live"
  /\ calls' = [calls EXCEPT ![call].status = "freed"]
  /\ heap' = heap \ Of(call, Objects)
  /\ UNCHANGED <<state, walk, prints, output, undefined>>

(* walkerstate_free: what waits in the queue goes with it.                 *)
WalkerstateFree ==
  /\ Idle /\ alive
  /\ alive' = FALSE
  /\ postbuf' = << >>
  /\ UNCHANGED <<schemaName, calls, walk, heap, prints, output, undefined>>

Next ==
  \/ \E by \in {"pgify", "pgify_string"}, script \in Scripts :
       Begin(by, script) \/ FailEarly(by, script)
  \/ WalkUse \/ WalkCreate \/ WalkOther
  \/ ReturnTree \/ FailLate \/ ReturnString
  \/ \E call \in DOMAIN calls : PgifyStringTree(call) \/ PgifytreeFree(call)
  \/ WalkerstateFree

Spec == Init /\ [][Next]_vars

-----------------------------------------------------------------------------
(* The state between calls; while the walk runs, its call is the last one. *)
TypeOK ==
  /\ alive \in BOOLEAN /\ undefined \in BOOLEAN
  /\ schemaName \in Schemas \union {NoSchema}
  /\ postbuf \in Seq(Sent) /\ output \in Seq(Sent)
  /\ \A c \in DOMAIN calls :
       /\ calls[c].by \in {"pgify", "pgify_string"}
       /\ calls[c].script \in Scripts
       /\ calls[c].status \in {"walking", "live", "failed", "freed", "refused"}
       /\ calls[c].after \in 0 .. Len(prints)
       /\ calls[c].status = "walking" <=> walk > 0 /\ c = Current
  /\ walk > 0 => calls # << >> /\ walk \in 1 .. Len(calls[Current].script) + 1
  /\ \A i \in DOMAIN prints : prints[i] \in DOMAIN calls

(* How often a statement of a kind that a call queued is in a sequence.    *)
Times(seq, what, c, p) ==
  Cardinality({i \in DOMAIN seq : seq[i].what = what /\ seq[i].call = c /\ seq[i].place = p})

WalkedPast(c, p) ==
  calls[c].status # "refused" /\ (calls[c].status = "walking" => p < walk)

(* Whatever a client does with its calls and its trees, in whatever order, *)
(* and whichever calls fail: a statement that the rewriting queued was     *)
(* printed once or waits in the state once, and no other was ever printed  *)
(* (print_postbuf, pgify, pgify_string_tree).                              *)
QueueConserved ==
  \A c \in DOMAIN calls : \A p \in DOMAIN calls[c].script : \A what \in Queued :
    LET sent    == Times(output, what, c, p)
        waiting == Times(postbuf, what, c, p)
    IN  IF what \in calls[c].script[p].queues /\ WalkedPast(c, p)
        THEN IF alive THEN sent + waiting = 1 ELSE sent <= 1
        ELSE sent + waiting = 0

Before(sent, other) ==
  \/ sent.call < other.call
  \/ sent.call = other.call /\ sent.place < other.place
  \/ /\ sent.call = other.call /\ sent.place = other.place
     /\ sent.what = "INDEX" /\ other.what = "FKEY"

(* The queued statements are printed in the order in which the walks       *)
(* queued them, an index before a foreign key that refers to it, even when *)
(* the trees are printed in another order (ws->postbuf).                   *)
QueueInOrder ==
  LET all == output \o postbuf
  IN  \A i, j \in DOMAIN all :
        i < j /\ all[i].what \in Queued /\ all[j].what \in Queued => Before(all[i], all[j])

(* A client that prints every tree it is given, once, before it makes the  *)
(* next call.  A call that fails gives it none.                            *)
HasTree(c) == calls[c].status \in {"live", "freed"}
InTurn ==
  /\ \A i, j \in DOMAIN prints : i < j => prints[i] < prints[j]
  /\ \A c \in 1 .. Current - 1 : HasTree(c) => \E i \in 1 .. calls[c + 1].after : prints[i] = c

(* A statement that alters a table comes after the one that creates it,    *)
(* for a client that prints in turn (print_postbuf after TreeWalkPrinter;  *)
(* with two trees in hand the first print flushes the queue of both).      *)
(* What a call queued that failed afterwards is printed with the next      *)
(* tree, and its table never is: that statement alone comes without.       *)
SameTable(i, j) == output[i].call = output[j].call /\ output[i].place = output[j].place
QueueFollowsCreate ==
  InTurn =>
    \A i \in DOMAIN output :
      output[i].what \in Queued =>
        \/ \E j \in 1 .. i - 1 : output[j].what = "CREATE" /\ SameTable(i, j)
        \/ calls[output[i].call].status = "failed"

(* The schema the database creates tables in and looks for them first:     *)
(* SET search_path TO schema,public.                                       *)
PathAt(i) ==
  LET uses == {u \in 1 .. i - 1 : output[u].what = "USE"}
  IN  IF uses = {} THEN NoSchema ELSE output[CHOOSE u \in uses : \A v \in uses : v <= u].schema

(* A call that failed moved the schema of the state, but its USE is never  *)
(* printed.  The database has not caught up before the next USE.           *)
FailedUse(d) ==
  calls[d].status = "failed" /\ \E p \in DOMAIN calls[d].script : calls[d].script[p].kind = "use"
UseLost(i) ==
  \E d \in 1 .. output[i].call - 1 :
    FailedUse(d) /\ \A u \in 1 .. i - 1 : output[u].what = "USE" => output[u].call < d

(* The prefix of a queued statement is the schema its table was created    *)
(* in, however many USE come between the two and whichever calls fail: the *)
(* state and the database agree on the current schema, for a client that   *)
(* prints in turn (use_database_worker, ws->schemaName).  They part at a   *)
(* call that fails behind a USE, and agree again from the next USE on.     *)
PrefixNamesItsSchema ==
  InTurn =>
    \A i, j \in DOMAIN output :
      output[i].what = "INDEX" /\ output[j].what = "CREATE" /\ SameTable(i, j) /\ ~UseLost(j)
      => output[i].schema = PathAt(j)

(* The lexer, the stream, the parser and the tree of a call are there as   *)
(* long as its tree is, and no longer, whatever failed (the cleanup of     *)
(* pgify, pgifytree_free).  Of these four only: the output string that a   *)
(* failed pgify_string leaves behind (Left) is not one of them.            *)
ObjectsOwned ==
  \A c \in DOMAIN calls :
    {o \in Objects : <<c, o>> \in heap} =
      CASE calls[c].status = "live"    -> Objects
        [] calls[c].status = "walking" -> Objects \ {"pt"}
        [] OTHER                       -> {}

(* What does not hold: a call that fails returns.                          *)
FailureReturns == ~undefined
=============================================================================
