------------------------------- MODULE Weave -------------------------------
(***************************************************************************)
(* What printing a rewritten statement promises, without saying how: the   *)
(* hidden tokens of the source and the leaves of the tree are woven into   *)
(* one text, each stream complete and in its own order, and a leaf that    *)
(* comes from the source waits for the hidden tokens that stood before it. *)
(* Printer implements this with two cursors and a comparison of lines and  *)
(* columns.                                                                *)
(***************************************************************************)
EXTENDS Integers, Sequences

VARIABLES
  input,     (* tokens, nodes and queue, as in Printer                     *)
  woven,     (* the text so far                                            *)
  finished   (* nothing is added any more                                  *)

Woven(kind, i) == \E p \in DOMAIN woven : woven[p].kind = kind /\ woven[p].idx = i

HiddenTokens == {i \in DOMAIN input.tokens : input.tokens[i].hidden}
Leaves       == {n \in DOMAIN input.nodes : input.nodes[n].kind = "leaf"}

Add(kind, i) == woven' = Append(woven, [kind |-> kind, idx |-> i])

(* Whatever there is to print.                                             *)
Init ==
  /\ woven = << >>
  /\ finished = FALSE

WeaveHidden(i) ==
  /\ ~finished /\ ~Woven("hidden", i)
  /\ \A j \in HiddenTokens : j < i => Woven("hidden", j)
  /\ Add("hidden", i)
  /\ UNCHANGED <<input, finished>>

WeaveLeaf(n) ==
  /\ ~finished /\ ~Woven("leaf", n)
  /\ \A m \in Leaves : m < n => Woven("leaf", m)
  /\ \A i \in HiddenTokens : i < input.nodes[n].src => Woven("hidden", i)
  /\ Add("leaf", n)
  /\ UNCHANGED <<input, finished>>

(* The queued statements come last, after everything else.                 *)
Finish ==
  /\ ~finished /\ finished'
  /\ \A i \in HiddenTokens : Woven("hidden", i)
  /\ \A n \in Leaves : Woven("leaf", n)
  /\ IF input.post > 0 THEN Add("post", input.post) ELSE UNCHANGED woven
  /\ UNCHANGED input

Next ==
  \/ \E i \in HiddenTokens : WeaveHidden(i)
  \/ \E n \in Leaves : WeaveLeaf(n)
  \/ Finish

Spec == Init /\ [][Next]_<<input, woven, finished>>
=============================================================================
