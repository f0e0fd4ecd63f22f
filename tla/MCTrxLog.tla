------------------------------ MODULE MCTrxLog ------------------------------
(* TrxLog for TLC: two threads whose transactions can conflict on two keys. *)
EXTENDS TrxLog
=============================================================================
