------------------------------- MODULE Ledger -------------------------------
(***************************************************************************)
(* What a node promises about the block files it writes, whatever the     *)
(* threads inside it do: the accepted blocks form one chain that only     *)
(* grows at its tip, and every batch of transactions the node took from   *)
(* its own queue ends with one outcome, accepted in one block or dropped. *)
(* BlockNode implements this specification.                               *)
(***************************************************************************)
EXTENDS Naturals, Sequences

CONSTANTS
  Hash,     \* proof-of-work hashes; a hash names a block
  NoHash,   \* the empty hash, "previous block" of the first block
  PrevOf,   \* PrevOf[h]: the previous block hash in the header of block h
  Own,      \* the blocks this node can mine itself
  Batch,    \* the batches of transactions this node collects
  BatchOf   \* BatchOf[h]: the batch in block h, for h in Own

VARIABLES
  chain,    \* hashes of the accepted blocks, in the order of their files
  outcome   \* outcome[b]: what the files say of batch b

ledgerVars == <<chain, outcome>>

\* The hash of the last accepted block.
TipOf(c) == IF c = <<>> THEN NoHash ELSE c[Len(c)]

Init ==
  /\ chain = <<>>
  /\ outcome = [b \in Batch |-> "none"]

\* A block mined by another node is added at the tip.
ExtendForeign(h) ==
  /\ PrevOf[h] = TipOf(chain)
  /\ chain' = Append(chain, h)
  /\ UNCHANGED outcome

\* A block of this node is added at the tip and settles its batch.
ExtendOwn(h) ==
  /\ PrevOf[h] = TipOf(chain)
  /\ outcome[BatchOf[h]] = "none"
  /\ chain' = Append(chain, h)
  /\ outcome' = [outcome EXCEPT ![BatchOf[h]] = "accepted"]

\* A batch is settled as dropped; the chain does not move.
Drop(b) ==
  /\ outcome[b] = "none"
  /\ outcome' = [outcome EXCEPT ![b] = "dropped"]
  /\ UNCHANGED chain

Next ==
  \/ \E h \in Hash \ Own : ExtendForeign(h)
  \/ \E h \in Own : ExtendOwn(h)
  \/ \E b \in Batch : Drop(b)

Spec == Init /\ [][Next]_ledgerVars
=============================================================================
