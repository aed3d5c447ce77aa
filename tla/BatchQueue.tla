----------------------------- MODULE BatchQueue -----------------------------
(***************************************************************************)
(* What a node promises its users between the answer to /transaction and   *)
(* the miner: one queue. A transaction that was answered with success      *)
(* enters it at the end; the miner takes batches from its head, one at a   *)
(* time, each of 1 to MaxTransactions transactions.                        *)
(*                                                                         *)
(* Batching, with its four channels, its batch under construction and its  *)
(* timer, implements this specification.                                   *)
(***************************************************************************)
EXTENDS Naturals, Sequences

CONSTANTS Txn, MaxTransactions

VARIABLES
  promised, \* answered with success and not with the miner yet, in this order
  batch,    \* with the miner; empty when it has none
  busy      \* the miner has been given a batch and is not done with it

vars == <<promised, batch, busy>>

Init == promised = <<>> /\ batch = <<>> /\ busy = FALSE

Put(t) ==
  /\ promised' = Append(promised, t)
  /\ UNCHANGED <<batch, busy>>

\* The miner, which waits for a batch, gets the first k transactions. It is
\* never given an empty one.
Take(k) ==
  /\ ~busy
  /\ busy' = TRUE
  /\ k <= Len(promised)
  /\ batch' = SubSeq(promised, 1, k)
  /\ promised' = SubSeq(promised, k + 1, Len(promised))

Done ==
  /\ busy
  /\ busy' = FALSE
  /\ batch' = <<>>
  /\ UNCHANGED promised

Next ==
  \/ \E t \in Txn : Put(t)
  \/ \E k \in 1..MaxTransactions : Take(k)
  \/ Done

Spec == Init /\ [][Next]_vars
=============================================================================
