---------------------------- MODULE MCBlockNode ----------------------------
(***************************************************************************)
(* A small instance of BlockNode. A hash is the path of blocks it stands   *)
(* for, so that the header's previous hash is the path without its last    *)
(* step. On a path every batch of this node occurs at most once and other  *)
(* nodes add at most MaxForeign blocks: on every previous hash this node   *)
(* can still mine a block for a batch that is not settled.                 *)
(***************************************************************************)
EXTENDS BlockNode, FiniteSets, TLC

CONSTANTS
  OtherBlocks,  \* competing blocks of other nodes on one previous hash
  MaxForeign    \* blocks other nodes add to one chain

Paths == UNION {[1..n -> Batch \cup OtherBlocks] : n \in 1..(Cardinality(Batch) + MaxForeign)}

MCHash ==
  {p \in Paths :
    /\ \A i, j \in DOMAIN p : p[i] = p[j] /\ p[i] \in Batch => i = j
    /\ Cardinality({i \in DOMAIN p : p[i] \in OtherBlocks}) <= MaxForeign}
MCNoHash == <<>>
MCPrevOf == [h \in MCHash |-> SubSeq(h, 1, Len(h) - 1)]
MCOwn == {h \in MCHash : h[Len(h)] \in Batch}
MCBatchOf == [h \in MCOwn |-> h[Len(h)]]

\* Batches are alike, and so are the blocks of the other nodes.
MCSymmetry == Permutations(Batch) \cup Permutations(OtherBlocks)
=============================================================================
