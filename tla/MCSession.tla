----------------------------- MODULE MCSession -----------------------------
(***************************************************************************)
(* Small scripts for Session.                                              *)
(***************************************************************************)
EXTENDS Session, SequencesExt

CONSTANTS
  Queues,     (* what a CREATE TABLE may queue                             *)
  MaxScript   (* the length of an input                                    *)

Statement ==
  {[kind |-> "use", schema |-> s, queues |-> {}] : s \in Schemas}
  \union {[kind |-> "create", schema |-> NoSchema, queues |-> q] : q \in Queues}
  \union {[kind |-> "other", schema |-> NoSchema, queues |-> {}]}

AllScripts == SeqOf(Statement, MaxScript)
=============================================================================
