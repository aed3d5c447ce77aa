----------------------------- MODULE NodePromise -----------------------------
(***************************************************************************)
(* What one node promises the others about its previous block hash. A      *)
(* claim gives the hash to one block, a yes (status 200, or the end of the *)
(* node's own exchange) is for the block of the claim alone, and from the  *)
(* yes until the block is in a file and the writer has moved on the claim  *)
(* stays with it. A node that has said yes does write the block next.      *)
(*                                                                         *)
(* BlockNode, with its goroutines and critical sections, implements this   *)
(* specification, and it is all that the nodes of Network do between being *)
(* started and being stopped: the two models meet here.                    *)
(***************************************************************************)
EXTENDS Naturals, Sequences

CONSTANTS
  Block,    \* blocks
  NoBlock   \* the empty hash, and no claim

VARIABLES
  parent,   \* parent[b]: the previous hash in the header of block b
  chain,    \* blocks written, the oldest first
  claim,    \* the block that holds the claim
  accepted, \* blocks the node has said yes to and not written
  written   \* the block written while its claim is not released yet

\* Headers are made by whoever mines; parent is read, not kept.
vars == <<chain, claim, accepted, written>>

TipOf(c) == IF c = <<>> THEN NoBlock ELSE c[Len(c)]

Init ==
  /\ chain = <<>>
  /\ claim = NoBlock
  /\ accepted = {}
  /\ written = NoBlock

\* The hash is given to a block built on it, mined here or to be signed.
Claim(b) ==
  /\ claim = NoBlock
  /\ parent'[b] = TipOf(chain)
  /\ claim' = b
  /\ UNCHANGED <<chain, accepted, written>>

\* Given up after 120 seconds, or after a failed exchange: never for a block
\* the node has said yes to.
Unclaim ==
  /\ claim \notin accepted \cup {written}
  /\ claim' = NoBlock
  /\ UNCHANGED <<chain, accepted, written>>

\* The yes, to a block on the current hash that nobody else has claimed.
Accept(b) ==
  /\ claim \in {NoBlock, b}
  /\ parent'[b] = TipOf(chain)
  /\ accepted = {} /\ written = NoBlock
  /\ claim' = b
  /\ accepted' = {b}
  /\ UNCHANGED <<chain, written>>

Write(b) ==
  /\ written = NoBlock
  /\ chain' = Append(chain, b)
  /\ accepted' = accepted \ {b}
  /\ written' = b
  /\ UNCHANGED claim

Release ==
  /\ written # NoBlock /\ claim = written
  /\ claim' = NoBlock
  /\ written' = NoBlock
  /\ UNCHANGED <<chain, accepted>>

Next ==
  \/ \E b \in Block : Claim(b) \/ Accept(b)
  \/ \E b \in accepted : Write(b)
  \/ Unclaim
  \/ Release

Spec == Init /\ [][Next]_vars
=============================================================================
