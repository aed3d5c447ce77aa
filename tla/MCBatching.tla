----------------------------- MODULE MCBatching -----------------------------
(***************************************************************************)
(* A small instance of Batching: enough transactions for two full batches  *)
(* and the one that finds the second batch full.                           *)
(***************************************************************************)
EXTENDS Batching
=============================================================================
