----------------------------- MODULE SharedChain -----------------------------
(***************************************************************************)
(* What the nodes promise together: one chain, of which each running node  *)
(* has the beginning. A block enters it at the end, with one node; the     *)
(* others copy it from there. The chain of a node that stops is gone.      *)
(***************************************************************************)
EXTENDS Naturals, Sequences

CONSTANTS Node, Block

VARIABLES
  running,  \* the nodes that run
  chain     \* chain[n]: the blocks node n has written

vars == <<running, chain>>

Init ==
  /\ running = Node
  /\ chain = [n \in Node |-> <<>>]

\* The longest chain gets a block nobody has.
Extend(n, b) ==
  /\ chain' = [chain EXCEPT ![n] = Append(@, b)]
  /\ UNCHANGED running
  /\ n \in running
  /\ \A m \in running :
       /\ Len(chain[m]) <= Len(chain[n])
       /\ \A i \in 1..Len(chain[m]) : chain[m][i] = chain[n][i] /\ chain[m][i] # b

\* Another node has the next block.
Copy(n, m) ==
  /\ Len(chain[n]) < Len(chain[m])
  /\ chain' = [chain EXCEPT ![n] = Append(@, chain[m][Len(@) + 1])]
  /\ UNCHANGED running
  /\ {n, m} \subseteq running
  /\ \A i \in 1..Len(chain[n]) : chain[n][i] = chain[m][i]

\* One chain gets longer.
Grow(n) ==
  /\ chain'[n] # chain[n]
  /\ \/ \E b \in Block : Extend(n, b)
     \/ \E m \in Node : Copy(n, m)

Stop(n) ==
  /\ running' = running \ {n}
  /\ chain' = [chain EXCEPT ![n] = <<>>]

\* A node may join as long as there is no block.
Join(n) ==
  /\ running' = running \cup {n}
  /\ UNCHANGED chain
  /\ \A m \in running : chain[m] = <<>>

Next ==
  \E n \in Node : Grow(n) \/ Stop(n) \/ Join(n)

Spec == Init /\ [][Next]_vars
=============================================================================
