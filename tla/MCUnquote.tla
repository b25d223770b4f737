----------------------------- MODULE MCUnquote -----------------------------
(* Threads that call unquote at the same time.                             *)
EXTENDS Unquote

CONSTANTS t1, t2, t3, t4
MCThreads == {t1, t2, t3, t4}
=============================================================================
