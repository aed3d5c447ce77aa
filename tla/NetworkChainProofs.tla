------------------------- MODULE NetworkChainProofs -------------------------
(***************************************************************************)
(* The founders of Network keep one chain, for any number of nodes and     *)
(* blocks, whichever processes stop and are started again, as long as no   *)
(* request between running nodes is lost (~Lossy) and a claim outlives the *)
(* exchange it was given to (Timely).                                      *)
(*                                                                         *)
(* A node that signed a block holds its claim for it until it has written  *)
(* it (Held). Nothing else gets into its chain meanwhile, so no founder    *)
(* has a sibling of a block that is being sent out (NoSiblings), and a     *)
(* block that is written next to a longer chain is the one found there     *)
(* (Agree). The nodes that hold the claim accept the block when it comes   *)
(* (Sent), before its own node writes it (Everywhere).                     *)
(***************************************************************************)
EXTENDS NetworkProofs, FiniteSetTheorems, WellFoundedInduction

\* What node p has written or is about to write, without and with the blocks
\* that wait for room on its writeChan.
Got(p) == Elements(chain[p]) \cup (Elements(queue[p]) \ {Dropped})
Blocks(p) == Got(p) \cup waiting[p]

\* p has no block of the chain in hand, only dropped ones.
OnlyDropped(p) == \A i \in 1..Len(queue[p]) : queue[p][i] = Dropped
Free(p) == OnlyDropped(p) /\ waiting[p] = {} /\ written[p] = NoBlock

\* A running node has one block in hand, that of its claim, which extends its
\* chain; none while it shows its own around.
InHand(p) ==
  /\ \A i \in 1..Len(queue[p]) : queue[p][i] # Dropped =>
       /\ queue[p][i] = claim[p] /\ parent[claim[p]] = Tip(p)
       /\ waiting[p] = {} /\ written[p] = NoBlock
       /\ \A j \in 1..Len(queue[p]) : queue[p][j] # Dropped => j = i
  /\ \A b \in waiting[p] : b = claim[p] /\ parent[b] = Tip(p) /\ written[p] = NoBlock
  /\ written[p] # NoBlock => claim[p] = written[p] /\ Tip(p) = written[p]
  /\ at[p] # "idle" => parent[own[p]] = Tip(p) /\ Free(p)
OneInHand == \A p \in Live : InHand(p)

\* Chains follow the previous hashes, and later blocks have larger numbers.
Older == \A b \in Block : parent[b] < b
Linked ==
  \A p \in Node : \A i \in 1..Len(chain[p]) :
    /\ chain[p][i] <= mined /\ chain[p][i] <= Tip(p)
    /\ i = 1 => parent[chain[p][i]] = NoBlock
    /\ i # 1 => parent[chain[p][i]] = chain[p][i - 1]
    /\ \A j \in 1..Len(chain[p]) : i < j => chain[p][i] < chain[p][j]

\* A node has a block of another one only from the second round. Where it waits
\* for room, the other one waits for the answer, or has given up waiting.
NotYet ==
  \A n, m \in Live : at[n] # "idle" /\ own[n] \in Got(m) => at[n] = "post" /\ m \notin todo[n]
Pending ==
  \A n, m \in Live : at[n] # "idle" /\ own[n] \in waiting[m] =>
    at[n] = "post" /\ \A q \in todo[n] : m <= q

ChainInv == ClaimInv /\ OneInHand /\ Older /\ Linked /\ NotYet /\ Pending

LEMMA TipFacts ==
  ASSUME TypeOK, Linked, NEW p \in Node
  PROVE  /\ Tip(p) \in Block \cup {NoBlock}
         /\ Tip(p) <= mined
         /\ Tip(p) # NoBlock => Tip(p) \in Elements(chain[p])
         /\ Tip(p) = NoBlock => chain[p] = <<>>
<1>1. chain[p] \in Seq(Block) /\ mined \in Nat
  BY DEF TypeOK
<1>2. CASE chain[p] = <<>>
  BY <1>1, <1>2 DEF Tip, NoBlock
<1>3. CASE chain[p] # <<>>
  <2>1. Len(chain[p]) \in 1..Len(chain[p])
    BY <1>1, <1>3
  <2>2. chain[p][Len(chain[p])] \in Block
    BY <1>1, <2>1
  <2> QED
    BY <1>3, <2>1, <2>2 DEF Tip, Linked, Elements, NoBlock, Block
<1> QED
  BY <1>2, <1>3

\* A block has at most one successor with one node.
LEMMA OneChild ==
  ASSUME ChainInv, NEW p \in Live, NEW c \in Blocks(p), NEW d \in Blocks(p),
         parent[c] = parent[d]
  PROVE  c = d
<1> USE DEF ChainInv, ClaimInv, TypeInv
<1> DEFINE InMind == (Elements(queue[p]) \ {Dropped}) \cup waiting[p]
<1>1. p \in Node /\ chain[p] \in Seq(Block) /\ InHand(p)
  BY DEF Live, OneInHand, TypeOK
<1>2. ASSUME NEW x \in Elements(chain[p]) PROVE x \in Block /\ x <= Tip(p)
  BY <1>1, <1>2 DEF Elements, Linked
<1>3. ASSUME NEW x \in InMind PROVE x \in Block /\ parent[x] = Tip(p) /\ x = claim[p]
  <2>1. CASE x \in waiting[p]
    BY <1>1, <2>1 DEF InHand, TypeOK
  <2>2. CASE x \in Elements(queue[p]) \ {Dropped}
    <3>1. x \in Block
      BY <1>1, <2>2 DEF Elements, TypeOK
    <3>2. x = claim[p] /\ parent[x] = Tip(p)
      BY <1>1, <2>2 DEF InHand, Elements
    <3> QED
      BY <3>1, <3>2
  <2> QED
    BY <1>3, <2>1, <2>2
<1>4. Tip(p) \in Nat
  BY <1>1, TipFacts DEF Block, NoBlock
<1>5. CASE c \in Elements(chain[p]) /\ d \in Elements(chain[p])
  <2>1. PICK i \in 1..Len(chain[p]), j \in 1..Len(chain[p]) : c = chain[p][i] /\ d = chain[p][j]
    BY <1>5 DEF Elements
  <2>2. \A k \in 1..Len(chain[p]) : chain[p][k] \in Nat /\ chain[p][k] # NoBlock
    <3>1. \A k \in 1..Len(chain[p]) : chain[p][k] \in Block
      BY <1>1
    <3> QED
      BY <3>1 DEF Block, NoBlock
  <2>3. CASE i = 1 \/ j = 1
    <3>1. i # 1 => parent[c] # NoBlock
      <4>1. i # 1 => i - 1 \in 1..Len(chain[p]) /\ parent[c] = chain[p][i - 1]
        BY <1>1, <2>1 DEF Linked
      <4> QED
        BY <2>2, <4>1
    <3>2. j # 1 => parent[d] # NoBlock
      <4>1. j # 1 => j - 1 \in 1..Len(chain[p]) /\ parent[d] = chain[p][j - 1]
        BY <1>1, <2>1 DEF Linked
      <4> QED
        BY <2>2, <4>1
    <3> QED
      BY <1>1, <2>1, <2>3, <3>1, <3>2 DEF Linked
  <2>4. CASE i # 1 /\ j # 1
    <3>1. /\ i - 1 \in 1..Len(chain[p]) /\ j - 1 \in 1..Len(chain[p])
          /\ chain[p][i - 1] = chain[p][j - 1]
      <4>1. i - 1 \in 1..Len(chain[p]) /\ j - 1 \in 1..Len(chain[p])
        BY <2>4
      <4>2. parent[c] = chain[p][i - 1]
        BY <1>1, <2>1, <2>4 DEF Linked
      <4>3. parent[d] = chain[p][j - 1]
        BY <1>1, <2>1, <2>4 DEF Linked
      <4> QED
        BY <4>1, <4>2, <4>3
    <3>2. ~(i - 1 < j - 1) /\ ~(j - 1 < i - 1)
      <4> DEFINE k == i - 1
                 l == j - 1
      <4>1. chain[p][k] \in Nat /\ chain[p][l] \in Nat /\ chain[p][k] = chain[p][l]
        BY <2>2, <3>1
      <4>2. (k < l => chain[p][k] < chain[p][l]) /\ (l < k => chain[p][l] < chain[p][k])
        BY <1>1, <3>1 DEF Linked
      <4> HIDE DEF k, l
      <4>3. ~(k < l) /\ ~(l < k)
        BY <4>1, <4>2
      <4> QED
        BY <4>3 DEF k, l
    <3> QED
      BY <2>1, <3>2
  <2> QED
    BY <2>3, <2>4
<1>6. CASE c \in InMind /\ d \in InMind
  BY <1>3, <1>6
<1>7. CASE c \in InMind /\ d \in Elements(chain[p])
  <2>1. parent[d] = Tip(p) /\ d \in Block /\ d <= Tip(p)
    BY <1>2, <1>3, <1>7
  <2> QED
    BY <1>4, <2>1 DEF Older, Block
<1>8. CASE d \in InMind /\ c \in Elements(chain[p])
  <2>1. parent[c] = Tip(p) /\ c \in Block /\ c <= Tip(p)
    BY <1>2, <1>3, <1>8
  <2> QED
    BY <1>4, <2>1 DEF Older, Block
<1> QED
  BY <1>5, <1>6, <1>7, <1>8 DEF Blocks, Got

-----------------------------------------------------------------------------
\* Headers are only made.
LEMMA BlockVarsChange ==
  ASSUME [Next]_vars
  PROVE  UNCHANGED blockVars \/ \E n \in Node : MineBlock(n)
<1>1. CASE UNCHANGED vars
  BY <1>1 DEF vars, minerVars
<1>2. ASSUME NEW n \in Node, Exchange(n) PROVE UNCHANGED blockVars
  BY <1>2 DEF Exchange, HealthCheck, StartPost, SendMined, GiveUpBlock, NoAnswer, Sign,
              RefuseToSign, Accept, Refuse, minerVars
<1>3. ASSUME NEW n \in Node, DropBatch(n) \/ Writer(n) \/ Crash(n) \/ Start(n)
      PROVE  UNCHANGED blockVars
  BY <1>3 DEF DropBatch, Writer, Write, Release, Crash, Start, Forget, minerVars
<1>4. ASSUME NEW n \in Node, NEW b \in Block, Enqueue(n, b) \/ ClaimTimeout(n, b)
      PROVE  UNCHANGED blockVars
  BY <1>4 DEF Enqueue, ClaimTimeout, minerVars
<1> QED
  BY <1>1, <1>2, <1>3, <1>4 DEF Next

\* The header of a block is not changed once it is mined.
LEMMA ParentStays ==
  ASSUME TypeInv, [Next]_vars
  PROVE  /\ mined <= mined'
         /\ \A b \in Block : b <= mined => parent'[b] = parent[b] /\ origin'[b] = origin[b]
<1> USE DEF TypeInv
<1>1. ASSUME NEW n \in Node, MineBlock(n)
      PROVE  /\ mined <= mined'
             /\ \A b \in Block : b <= mined => parent'[b] = parent[b] /\ origin'[b] = origin[b]
  <2>1. mined \in Nat /\ mined' = mined + 1
    BY <1>1 DEF MineBlock, TypeOK
  <2>2. \A b \in Block : b <= mined => b # mined'
    BY <2>1 DEF Block
  <2> QED
    BY <1>1, <2>1, <2>2 DEF MineBlock, TypeOK
<1>2. ASSUME UNCHANGED blockVars
      PROVE  /\ mined <= mined'
             /\ \A b \in Block : b <= mined => parent'[b] = parent[b] /\ origin'[b] = origin[b]
  BY <1>2 DEF blockVars, TypeOK
<1> QED
  BY <1>1, <1>2, BlockVarsChange

\* Nothing happens at q.
LEMMA InHandStays ==
  ASSUME TypeInv, KnownBlocks, [Next]_vars, NEW q \in Node, InHand(q),
         queue'[q] = queue[q], claim'[q] = claim[q], written'[q] = written[q],
         chain'[q] = chain[q], waiting'[q] = waiting[q],
         at'[q] = "idle" \/ (at'[q] # "idle" /\ at[q] # "idle" /\ own'[q] = own[q])
  PROVE  InHand(q)'
<1>1. Tip(q)' = Tip(q)
  BY DEF Tip
<1>2. claim[q] \in Block => parent'[claim[q]] = parent[claim[q]]
  BY ParentStays DEF TypeInv, TypeOK, KnownBlocks
<1>3. at[q] # "idle" => parent'[own[q]] = parent[own[q]]
  BY ParentStays DEF TypeInv, KnownBlocks
<1>4. \A b \in waiting[q] : b \in Block
  BY DEF TypeInv, TypeOK
<1>5. \A i \in 1..Len(queue[q]) : queue[q][i] # Dropped => queue[q][i] \in Block
  BY DEF TypeInv, TypeOK
<1> QED
  BY <1>1, <1>2, <1>3, <1>4, <1>5 DEF InHand, Free, OnlyDropped

\* n takes a block: nobody else's is in hand.
LEMMA FreeHand ==
  ASSUME ChainInv, NEW n \in Live, claim[n] = NoBlock
  PROVE  Free(n) /\ at[n] = "idle"
<1>1. n \in Node /\ up[n] /\ InHand(n)
  BY DEF Live, ChainInv, OneInHand
<1>2. at[n] = "idle"
  BY <1>1 DEF ChainInv, ClaimInv, TypeInv, OwnClaim, Live, NoBlock, Block
<1>3. /\ \A b \in waiting[n] : b # NoBlock
      /\ \A i \in 1..Len(queue[n]) : queue[n][i] # NoBlock
  <2>1. \A b \in Block \cup {Dropped} : b # NoBlock
    BY NetworkAssumption DEF Block, Dropped, NoBlock
  <2> QED
    BY <1>1, <2>1 DEF ChainInv, ClaimInv, TypeInv, TypeOK
<1> QED
  BY <1>1, <1>2, <1>3 DEF InHand, Free, OnlyDropped

\* A node that can accept the block that n sends to it has nothing else in
\* hand, nor that block.
LEMMA NothingInHand ==
  ASSUME ChainInv, NEW n \in Live, NEW p \in Live,
         at[n] = "post", p \in todo[n], own[n] \notin waiting[p], CanAccept(p, own[n])
  PROVE  Free(p) /\ at[p] = "idle"
<1> USE DEF ChainInv, ClaimInv, TypeInv
<1>1. /\ n \in Node /\ p \in Node /\ up[p] /\ up[n] /\ parent[own[n]] = Tip(p)
      /\ claim[p] \in {NoBlock, own[n]} /\ own[n] \in Block
  BY DEF CanAccept, Live
<1>2. InHand(p)
  BY <1>1 DEF OneInHand, Live
<1>3. CASE claim[p] = NoBlock
  BY <1>1, <1>3, FreeHand DEF Live
<1>4. CASE claim[p] = own[n]
  <2>1. own[n] \notin Got(p)
    BY <1>1 DEF NotYet, Live
  <2>2. written[p] = NoBlock
    <3>1. written[p] # NoBlock => Tip(p) = own[n] /\ Tip(p) # NoBlock
      BY <1>2, <1>4 DEF InHand
    <3> QED
      BY <1>1, <2>1, <3>1, TipFacts DEF Got
  <2>3. OnlyDropped(p)
    BY <1>2, <1>4, <2>1 DEF InHand, Got, Elements, OnlyDropped
  <2>4. waiting[p] = {}
    BY <1>2, <1>4 DEF InHand
  <2>5. at[p] = "idle"
    <3>1. origin[own[n]] = n /\ n # p
      BY <1>1 DEF OwnClaim, Live, TypeOK
    <3> QED
      BY <1>1, <1>4, <3>1 DEF OwnClaim, Live
  <2> QED
    BY <2>2, <2>3, <2>4, <2>5 DEF Free
<1> QED
  BY <1>1, <1>3, <1>4

LEMMA FreeToAccept ==
  ASSUME ChainInv, NEW n \in Node, NEW p \in Node, Accept(n, p)
  PROVE  Free(p) /\ at[p] = "idle"
BY NothingInHand DEF Accept, Asking, Live

\* One more block in the queue of p.
LEMMA OneMore ==
  ASSUME TypeOK, NEW p \in Node, NEW b \in Block \cup {Dropped}, queue'[p] = Append(queue[p], b)
  PROVE  /\ Len(queue[p]) \in Nat /\ Len(queue'[p]) = Len(queue[p]) + 1
         /\ queue'[p][Len(queue[p]) + 1] = b
         /\ \A i \in 1..Len(queue[p]) : queue'[p][i] = queue[p][i]
         /\ Elements(queue'[p]) = Elements(queue[p]) \cup {b}
<1>1. queue[p] \in Seq(Block \cup {Dropped})
  BY DEF TypeOK
<1>2. /\ Len(queue[p]) \in Nat /\ Len(queue'[p]) = Len(queue[p]) + 1
      /\ queue'[p][Len(queue[p]) + 1] = b
      /\ \A i \in 1..Len(queue[p]) : queue'[p][i] = queue[p][i]
  BY <1>1
<1> QED
  BY SMTT(30), <1>2 DEF Elements

\* What the writer takes, and what it leaves.
LEMMA OneLess ==
  ASSUME TypeOK, NEW p \in Node, queue[p] # <<>>, queue'[p] = Tail(queue[p])
  PROVE  /\ 1 \in 1..Len(queue[p]) /\ Head(queue[p]) = queue[p][1]
         /\ \A i \in 1..Len(queue'[p]) :
              i + 1 \in 1..Len(queue[p]) /\ i + 1 # 1 /\ queue'[p][i] = queue[p][i + 1]
         /\ Elements(queue[p]) = Elements(queue'[p]) \cup {Head(queue[p])}
<1>1. queue[p] \in Seq(Block \cup {Dropped})
  BY DEF TypeOK
<1>2. /\ Len(queue[p]) \in Nat /\ Len(queue'[p]) = Len(queue[p]) - 1
      /\ 1 \in 1..Len(queue[p]) /\ Head(queue[p]) = queue[p][1]
      /\ \A i \in 1..Len(queue'[p]) : queue'[p][i] = queue[p][i + 1]
  BY <1>1
<1>3. \A i \in 1..Len(queue'[p]) : i + 1 \in 1..Len(queue[p]) /\ i + 1 # 1
  BY <1>2
<1>4. \A i \in 1..Len(queue[p]) :
        i = 1 \/ (i - 1 \in 1..Len(queue'[p]) /\ queue'[p][i - 1] = queue[p][i])
  BY <1>2
<1> QED
  BY <1>2, <1>3, <1>4 DEF Elements

LEMMA NextOneInHand ==
  ASSUME Timely, ChainInv, [Next]_vars
  PROVE  OneInHand'
<1> SUFFICES ASSUME NEW q \in Node, up'[q] PROVE InHand(q)'
  BY DEF OneInHand, Live
<1> USE DEF ChainInv, ClaimInv, TypeInv
<1>1. up[q] => InHand(q)
  BY DEF OneInHand, Live
<1>2. CASE UNCHANGED vars
  BY <1>1, <1>2, InHandStays DEF vars, processVars, minerVars, writerVars, claimVars
<1>3. ASSUME NEW n \in Node, MineBlock(n) PROVE InHand(q)'
  <2>1. CASE q # n
    BY <1>1, <1>3, <2>1, InHandStays DEF MineBlock, processVars, writerVars, TypeOK
  <2>2. CASE q = n
    <3>1. Free(n)
      BY <1>3, FreeHand DEF MineBlock, Live
    <3>2. parent'[own'[n]] = Tip(n) /\ Tip(n)' = Tip(n) /\ Free(n)'
      <4>1. mined' \in Block
        <5>1. mined \in 0..MaxBlocks /\ mined < MaxBlocks /\ mined' = mined + 1
          BY <1>3 DEF MineBlock, TypeOK
        <5> QED
          BY <5>1, NetworkAssumption DEF Block
      <4> QED
        BY <1>3, <3>1, <4>1 DEF MineBlock, TypeOK, Tip, writerVars, Free, OnlyDropped
    <3> QED
      BY <2>2, <3>2 DEF InHand, Free, OnlyDropped
  <2> QED
    BY <2>1, <2>2
<1>4. ASSUME NEW n \in Node,
             \/ HealthCheck(n) \/ StartPost(n)
             \/ \E p \in Node : NoAnswer(n, p) \/ RefuseToSign(n, p) \/ Refuse(n, p)
      PROVE  InHand(q)'
  <2>1. /\ UNCHANGED <<up, chain, waiting, queue, written, claim, own>>
        /\ at'[q] # "idle" => at[q] # "idle"
    BY <1>4 DEF HealthCheck, StartPost, NoAnswer, RefuseToSign, Refuse, TypeOK,
                processVars, minerVars, blockVars, writerVars, claimVars
  <2> QED
    BY <1>1, <2>1, InHandStays
<1>5. ASSUME NEW n \in Node, SendMined(n) PROVE InHand(q)'
  <2>1. /\ UNCHANGED <<up, parent, chain, waiting, written, claim>>
        /\ at' = [at EXCEPT ![n] = "idle"] /\ own' = [own EXCEPT ![n] = NoBlock]
        /\ queue' = [queue EXCEPT ![n] = Append(queue[n], own[n])]
        /\ up[n] /\ at[n] = "post"
    BY <1>5 DEF SendMined, Distributed, ExchangeOver, processVars, blockVars, claimVars
  <2>2. CASE q # n
    BY <1>1, <2>1, <2>2, InHandStays DEF TypeOK
  <2>3. CASE q = n
    <3>1. /\ own[n] \in Block /\ claim[n] = own[n] /\ parent[own[n]] = Tip(n) /\ Free(n)
      BY <1>1, <2>1, <2>3 DEF OwnClaim, Live, InHand
    <3>2. /\ queue'[n] = Append(queue[n], own[n]) /\ Tip(n)' = Tip(n) /\ claim'[n] = own[n]
          /\ at'[n] = "idle" /\ waiting'[n] = {} /\ written'[n] = NoBlock
          /\ parent'[own[n]] = Tip(n)
      BY <2>1, <3>1 DEF TypeOK, Tip, Free
    <3>3. \A k \in 1..Len(queue'[n]) :
            IF k = Len(queue[n]) + 1 THEN queue'[n][k] = own[n] ELSE queue'[n][k] = Dropped
      BY <3>1, <3>2, OneMore DEF Free, OnlyDropped
    <3> QED
      BY <2>3, <3>2, <3>3 DEF InHand
  <2> QED
    BY <2>2, <2>3
<1>6. ASSUME NEW n \in Node, GiveUpBlock(n) PROVE InHand(q)'
  <2>1. /\ UNCHANGED <<up, parent, chain, waiting, queue, written>>
        /\ at' = [at EXCEPT ![n] = "idle"] /\ own' = [own EXCEPT ![n] = NoBlock]
        /\ claim' = [claim EXCEPT ![n] = NoBlock]
        /\ up[n] /\ at[n] # "idle"
    BY <1>6 DEF GiveUpBlock, ExchangeOver, processVars, blockVars, writerVars
  <2>2. CASE q # n
    BY <1>1, <2>1, <2>2, InHandStays DEF TypeOK
  <2>3. CASE q = n
    <3>1. Free(n)
      BY <1>1, <2>1, <2>3 DEF InHand
    <3> QED
      BY <2>1, <2>3, <3>1 DEF InHand, Free, OnlyDropped, TypeOK
  <2> QED
    BY <2>2, <2>3
<1>7. ASSUME NEW n \in Node, NEW p \in Node, Sign(n, p) PROVE InHand(q)'
  <2>1. /\ UNCHANGED <<up, parent, chain, waiting, queue, written, own, at>>
        /\ claim' = [claim EXCEPT ![p] = own[n]] /\ up[p] /\ claim[p] = NoBlock
    BY <1>7 DEF Sign, CanSign, processVars, minerVars, blockVars, writerVars
  <2>2. CASE q # p
    BY <1>1, <2>1, <2>2, InHandStays DEF TypeOK
  <2>3. CASE q = p
    <3>1. Free(p) /\ at[p] = "idle"
      BY <2>1, FreeHand DEF Live
    <3> QED
      BY <2>1, <2>3, <3>1 DEF InHand, Free, OnlyDropped, TypeOK
  <2> QED
    BY <2>2, <2>3
<1>8. ASSUME NEW n \in Node, NEW p \in Node, Accept(n, p) PROVE InHand(q)'
  <2>1. /\ UNCHANGED <<up, parent, chain, queue, written, own, at>>
        /\ claim' = [claim EXCEPT ![p] = own[n]]
        /\ waiting' = [waiting EXCEPT ![p] = waiting[p] \cup {own[n]}]
        /\ parent[own[n]] = Tip(p)
    BY <1>8 DEF Accept, Asking, CanAccept, processVars, minerVars, blockVars
  <2>2. CASE q # p
    BY <1>1, <2>1, <2>2, InHandStays DEF TypeOK
  <2>3. CASE q = p
    <3>1. Free(p) /\ at[p] = "idle"
      BY <1>8, FreeToAccept
    <3>2. waiting'[p] = {own[n]} /\ claim'[p] = own[n] /\ Tip(p)' = Tip(p)
      BY <2>1, <3>1 DEF TypeOK, Tip, Free
    <3> QED
      BY <2>1, <2>3, <3>1, <3>2 DEF InHand, Free, OnlyDropped
  <2> QED
    BY <2>2, <2>3
<1>9. ASSUME NEW n \in Node, Write(n) PROVE InHand(q)'
  <2>1. /\ UNCHANGED <<parent, own, at, claim, waiting>>
        /\ queue' = [queue EXCEPT ![n] = Tail(queue[n])]
        /\ up[n] /\ queue[n] # <<>>
    BY <1>9 DEF Write, minerVars, blockVars, claimVars
  <2>2. CASE q # n
    <3>1. up[q] /\ chain'[q] = chain[q] /\ written'[q] = written[q]
      BY <1>9, <2>2 DEF Write, TypeOK
    <3> QED
      BY <1>1, <2>1, <2>2, <3>1, InHandStays DEF TypeOK
  <2>3. CASE q = n
    <3>1. queue'[n] = Tail(queue[n]) /\ InHand(n)
      BY <1>1, <2>1, <2>3 DEF TypeOK
    <3>2. /\ 1 \in 1..Len(queue[n]) /\ Head(queue[n]) = queue[n][1]
          /\ \A k \in 1..Len(queue'[n]) :
               k + 1 \in 1..Len(queue[n]) /\ k + 1 # 1 /\ queue'[n][k] = queue[n][k + 1]
      BY <2>1, <3>1, OneLess
    <3>3. CASE Head(queue[n]) = Dropped
      <4>1. UNCHANGED <<chain, written>> /\ Tip(n)' = Tip(n)
        BY <1>9, <3>3 DEF Write, Tip
      <4>2. \A k, l \in 1..Len(queue'[n]) : k + 1 = l + 1 => k = l
        OBVIOUS
      <4>3. \A k \in 1..Len(queue'[n]) : queue'[n][k] # Dropped =>
              /\ queue'[n][k] = claim[n] /\ parent[claim[n]] = Tip(n)
              /\ waiting[n] = {} /\ written[n] = NoBlock
              /\ \A l \in 1..Len(queue'[n]) : queue'[n][l] # Dropped => l = k
        BY <3>1, <3>2, <4>2 DEF InHand
      <4>4. Free(n) => Free(n)'
        BY <2>1, <3>2, <4>1 DEF Free, OnlyDropped
      <4> QED
        BY <2>1, <2>3, <3>1, <4>1, <4>3, <4>4 DEF InHand
    <3>4. CASE Head(queue[n]) # Dropped
      <4>1. /\ Head(queue[n]) = claim[n] /\ parent[claim[n]] = Tip(n)
            /\ waiting[n] = {} /\ claim[n] \in Block
            /\ at[n] = "idle"
            /\ \A l \in 1..Len(queue[n]) : queue[n][l] # Dropped => l = 1
        BY <3>1, <3>2, <3>4 DEF InHand, Free, OnlyDropped, TypeOK
      <4>2. OnlyDropped(n)'
        BY <3>2, <4>1 DEF OnlyDropped
      <4>3. /\ chain' = [chain EXCEPT ![n] = Append(chain[n], claim[n])]
            /\ written' = [written EXCEPT ![n] = claim[n]]
        BY <1>9, <3>4, <4>1 DEF Write, Fits
      <4>4. Tip(n)' = claim[n]
        <5>1. chain[n] \in Seq(Block) /\ chain'[n] = Append(chain[n], claim[n])
          BY <4>3 DEF TypeOK
        <5>2. /\ Append(chain[n], claim[n]) # <<>>
              /\ Append(chain[n], claim[n])[Len(Append(chain[n], claim[n]))] = claim[n]
          BY <4>1, <5>1
        <5> QED
          BY <5>1, <5>2 DEF Tip
      <4> QED
        BY <2>1, <2>3, <4>1, <4>2, <4>3, <4>4 DEF InHand, OnlyDropped, TypeOK
    <3> QED
      BY <3>3, <3>4
  <2> QED
    BY <2>2, <2>3
<1>10. ASSUME NEW n \in Node, Release(n) PROVE InHand(q)'
  <2>1. /\ UNCHANGED <<parent, own, at, chain, waiting, queue>>
        /\ written' = [written EXCEPT ![n] = NoBlock]
        /\ up[n] /\ written[n] # NoBlock
    BY <1>10 DEF Release, minerVars, blockVars
  <2>2. CASE q # n
    <3>1. up[q] /\ claim'[q] = claim[q]
      BY <1>10, <2>2 DEF Release, TypeOK
    <3> QED
      BY <1>1, <2>1, <2>2, <3>1, InHandStays DEF TypeOK
  <2>3. CASE q = n
    <3>1. OnlyDropped(n) /\ waiting[n] = {} /\ at[n] = "idle"
      BY <1>1, <2>1, <2>3 DEF InHand, Free, OnlyDropped
    <3> QED
      BY <2>1, <2>3, <3>1 DEF InHand, OnlyDropped, TypeOK
  <2> QED
    BY <2>2, <2>3
<1>11. ASSUME NEW n \in Node, NEW b \in Block, ClaimTimeout(n, b) PROVE InHand(q)'
  <2>1. /\ UNCHANGED <<up, parent, own, at, chain, waiting, queue, written>>
        /\ claim' = [claim EXCEPT ![n] = IF claim[n] = b THEN NoBlock ELSE claim[n]]
        /\ up[n] /\ ~Underway(n, b)
    BY <1>11 DEF ClaimTimeout, processVars, minerVars, blockVars, writerVars
  <2>2. CASE q # n \/ claim[n] # b
    BY <1>1, <2>1, <2>2, InHandStays DEF TypeOK
  <2>3. CASE q = n /\ claim[n] = b
    <3>1. b \notin Elements(queue[n]) /\ b \notin waiting[n] /\ written[n] # b
      BY <2>1 DEF Underway
    <3>2. at[n] = "idle"
      BY <2>1, <2>3 DEF OwnClaim, Live, Underway, Exchanging
    <3>3. Free(n)
      BY <1>1, <2>1, <2>3, <3>1 DEF InHand, Free, OnlyDropped, Elements
    <3> QED
      BY <2>1, <2>3, <3>2, <3>3 DEF InHand, Free, OnlyDropped, TypeOK
  <2> QED
    BY <2>2, <2>3
<1>12. ASSUME NEW n \in Node, Crash(n) \/ Start(n) PROVE InHand(q)'
  <2>1. /\ queue' = [queue EXCEPT ![n] = <<>>]
        /\ waiting' = [waiting EXCEPT ![n] = {}]
        /\ written' = [written EXCEPT ![n] = NoBlock]
        /\ claim' = [claim EXCEPT ![n] = NoBlock]
        /\ own' = [own EXCEPT ![n] = NoBlock]
        /\ at' = [at EXCEPT ![n] = "idle"]
    BY <1>12 DEF Crash, Start, Forget, ExchangeOver
  <2>2. CASE q # n
    <3>1. up'[q] = up[q]
      <4>1. up' = [up EXCEPT ![n] = FALSE] \/ up' = [up EXCEPT ![n] = TRUE]
        BY <1>12 DEF Crash, Start
      <4>2. up \in [Node -> BOOLEAN]
        BY DEF TypeOK
      <4> QED
        BY <2>2, <4>1, <4>2
    <3>2. chain'[q] = chain[q]
      BY <1>12, <2>2 DEF Crash, Start, TypeOK
    <3> QED
      BY <1>1, <2>1, <2>2, <3>1, <3>2, InHandStays DEF TypeOK
  <2>3. CASE q = n
    BY <2>1, <2>3 DEF InHand, TypeOK
  <2> QED
    BY <2>2, <2>3
<1>13. ASSUME NEW n \in Node, NEW b \in Block, Enqueue(n, b) PROVE InHand(q)'
  <2>1. /\ UNCHANGED <<up, parent, own, at, chain, written, claim>>
        /\ queue' = [queue EXCEPT ![n] = Append(queue[n], b)]
        /\ waiting' = [waiting EXCEPT ![n] = waiting[n] \ {b}]
        /\ up[n] /\ b \in waiting[n]
    BY <1>13 DEF Enqueue, processVars, minerVars, blockVars, claimVars
  <2>2. CASE q # n
    BY <1>1, <2>1, <2>2, InHandStays DEF TypeOK
  <2>3. CASE q = n
    <3>1. /\ b = claim[n] /\ parent[b] = Tip(n) /\ written[n] = NoBlock
          /\ OnlyDropped(n) /\ at[n] = "idle" /\ waiting[n] \ {b} = {}
      BY <1>1, <2>1, <2>3 DEF InHand, Free, OnlyDropped
    <3>2. /\ queue'[n] = Append(queue[n], b) /\ Tip(n)' = Tip(n) /\ waiting'[n] = {}
      BY <2>1, <3>1 DEF TypeOK, Tip
    <3>3. \A k \in 1..Len(queue'[n]) :
            IF k = Len(queue[n]) + 1 THEN queue'[n][k] = b ELSE queue'[n][k] = Dropped
      BY <3>1, <3>2, OneMore DEF OnlyDropped
    <3> QED
      BY <2>1, <2>3, <3>1, <3>2, <3>3 DEF InHand
  <2> QED
    BY <2>2, <2>3
<1>14. ASSUME NEW n \in Node, DropBatch(n) PROVE InHand(q)'
  <2>1. /\ UNCHANGED <<up, parent, own, at, chain, waiting, written, claim>>
        /\ queue' = [queue EXCEPT ![n] = Append(queue[n], Dropped)]
        /\ up[n] /\ at[n] = "idle"
    BY <1>14 DEF DropBatch, processVars, minerVars, blockVars, claimVars
  <2>2. CASE q # n
    BY <1>1, <2>1, <2>2, InHandStays DEF TypeOK
  <2>3. CASE q = n
    <3>1. queue'[n] = Append(queue[n], Dropped) /\ Tip(n)' = Tip(n)
      BY <2>1 DEF TypeOK, Tip
    <3>2. \A k \in 1..Len(queue'[n]) : queue'[n][k] # Dropped =>
            k \in 1..Len(queue[n]) /\ queue'[n][k] = queue[n][k]
      BY <3>1, OneMore
    <3> QED
      BY <1>1, <2>1, <2>3, <3>1, <3>2 DEF InHand
  <2> QED
    BY <2>2, <2>3
<1> QED
  BY <1>2, <1>3, <1>4, <1>5, <1>6, <1>7, <1>8, <1>9, <1>10, <1>11, <1>12, <1>13, <1>14
  DEF Next, Exchange, Writer

-----------------------------------------------------------------------------
LEMMA NextOlder ==
  ASSUME ChainInv, [Next]_vars
  PROVE  Older'
<1> USE DEF ChainInv, ClaimInv, TypeInv
<1>1. ASSUME NEW n \in Node, MineBlock(n) PROVE Older'
  <2>1. Tip(n) \in Nat /\ Tip(n) <= mined /\ mined \in Nat /\ mined' = mined + 1
    BY SMTT(30), <1>1, TipFacts DEF MineBlock, TypeOK, Block, NoBlock
  <2>2. parent' = [parent EXCEPT ![mined'] = Tip(n)]
    BY <1>1 DEF MineBlock
  <2> QED
    BY <2>1, <2>2 DEF Older, TypeOK
<1>2. CASE UNCHANGED blockVars
  BY <1>2 DEF blockVars, Older
<1> QED
  BY <1>1, <1>2, BlockVarsChange

\* The chain of a node stays, grows by the block of its claim, or is gone.
LEMMA ChainChange ==
  ASSUME ChainInv, [Next]_vars, NEW q \in Node
  PROVE  \/ chain'[q] = chain[q]
         \/ chain'[q] = <<>> /\ Start(q)
         \/ /\ chain'[q] = Append(chain[q], claim[q])
            /\ up[q] /\ claim[q] \in Block /\ parent[claim[q]] = Tip(q)
            /\ claim[q] \in Elements(queue[q])
            /\ \A p \in Node : p # q => chain'[p] = chain[p]
            /\ up' = up /\ since' = since
<1> USE DEF ChainInv, ClaimInv, TypeInv
<1>1. ASSUME NEW n \in Node, Write(n), chain'[q] # chain[q]
      PROVE  /\ chain'[q] = Append(chain[q], claim[q])
             /\ up[q] /\ claim[q] \in Block /\ parent[claim[q]] = Tip(q)
             /\ claim[q] \in Elements(queue[q])
             /\ \A p \in Node : p # q => chain'[p] = chain[p]
             /\ up' = up /\ since' = since
  <2> DEFINE b == Head(queue[n])
  <2>1. n = q /\ up[n] /\ queue[n] # <<>> /\ queue[n] \in Seq(Block \cup {Dropped})
    BY <1>1 DEF Write, TypeOK
  <2>2. /\ b # Dropped /\ chain' = [chain EXCEPT ![n] = Append(chain[n], b)]
        /\ up' = up /\ since' = since
    BY <1>1 DEF Write
  <2>3. 1 \in 1..Len(queue[n]) /\ b = queue[n][1] /\ b \in Block
    BY <2>1, <2>2
  <2>4. b = claim[n] /\ parent[b] = Tip(n)
    BY <2>1, <2>2, <2>3 DEF OneInHand, InHand, Live
  <2> QED
    BY <2>1, <2>2, <2>3, <2>4 DEF TypeOK, Elements
<1>2. CASE UNCHANGED vars
  BY <1>2 DEF vars, writerVars
<1>3. ASSUME NEW n \in Node,
             MineBlock(n) \/ Exchange(n) \/ DropBatch(n) \/ Release(n) \/ Crash(n)
      PROVE  chain' = chain
  BY <1>3 DEF MineBlock, Exchange, HealthCheck, StartPost, SendMined, GiveUpBlock, NoAnswer,
              Sign, RefuseToSign, Accept, Refuse, DropBatch, Release, Crash, writerVars
<1>4. ASSUME NEW n \in Node, NEW b \in Block, Enqueue(n, b) \/ ClaimTimeout(n, b)
      PROVE  chain' = chain
  BY <1>4 DEF Enqueue, ClaimTimeout, writerVars
<1>5. ASSUME NEW n \in Node, Start(n)
      PROVE  chain'[q] = chain[q] \/ (chain'[q] = <<>> /\ Start(q))
  <2>1. chain' = [chain EXCEPT ![n] = <<>>]
    BY <1>5 DEF Start
  <2>2. CASE q = n
    BY <1>5, <2>1, <2>2 DEF TypeOK
  <2>3. CASE q # n
    BY <2>1, <2>3 DEF TypeOK
  <2> QED
    BY <2>2, <2>3
<1> QED
  BY <1>1, <1>2, <1>3, <1>4, <1>5 DEF Next, Writer

LEMMA NextLinked ==
  ASSUME ChainInv, [Next]_vars
  PROVE  Linked'
<1> SUFFICES ASSUME NEW q \in Node, NEW i \in 1..Len(chain'[q])
             PROVE  (/\ chain[q][i] <= mined /\ chain[q][i] <= Tip(q)
                     /\ i = 1 => parent[chain[q][i]] = NoBlock
                     /\ i # 1 => parent[chain[q][i]] = chain[q][i - 1]
                     /\ \A j \in 1..Len(chain[q]) : i < j => chain[q][i] < chain[q][j])'
  BY DEF Linked
<1> USE DEF ChainInv, ClaimInv, TypeInv
<1>1. chain[q] \in Seq(Block) /\ mined \in Nat /\ mined' \in Nat /\ mined <= mined'
  <2>1. chain[q] \in Seq(Block) /\ mined \in Nat
    BY DEF TypeOK
  <2>2. mined' \in Nat
    BY NextType DEF TypeOK
  <2> QED
    BY <2>1, <2>2, ParentStays
<1>2. \A b \in Block : b <= mined => parent'[b] = parent[b]
  BY ParentStays
<1>3. ASSUME NEW k \in 1..Len(chain[q])
      PROVE  /\ chain[q][k] \in Block /\ chain[q][k] <= mined' /\ chain[q][k] <= Tip(q)
             /\ k = 1 => parent'[chain[q][k]] = NoBlock
             /\ k # 1 => parent'[chain[q][k]] = chain[q][k - 1]
             /\ \A j \in 1..Len(chain[q]) : k < j => chain[q][k] < chain[q][j]
  <2>1. chain[q][k] \in Block /\ chain[q][k] \in Nat /\ chain[q][k] <= mined
    <3>1. chain[q][k] \in Block
      BY <1>1
    <3> QED
      BY <3>1 DEF Linked, Block
  <2>2. chain[q][k] <= mined'
    BY <1>1, <2>1
  <2> QED
    BY <1>2, <2>1, <2>2 DEF Linked
<1>4. CASE chain'[q] = chain[q]
  <2>1. Tip(q)' = Tip(q)
    BY <1>4 DEF Tip
  <2> QED
    BY <1>3, <1>4, <2>1
<1>5. CASE chain'[q] = <<>>
  BY <1>5
<1>6. CASE /\ chain'[q] = Append(chain[q], claim[q])
           /\ claim[q] \in Block /\ parent[claim[q]] = Tip(q)
  <2> DEFINE b == claim[q]
             L == Len(chain[q])
  <2>1. /\ L \in Nat /\ Len(chain'[q]) = L + 1 /\ chain'[q][L + 1] = b /\ b \in Nat
        /\ \A k \in 1..L : chain'[q][k] = chain[q][k]
        /\ chain'[q] # <<>>
    BY SMTT(30), <1>1, <1>6 DEF Block
  <2>2. Tip(q)' = b
    BY <2>1 DEF Tip
  <2>3. /\ Tip(q) \in Nat /\ Tip(q) < b /\ b <= mined'
        /\ parent'[b] = Tip(q)
    BY <1>1, <1>2, <1>6, <2>1, TipFacts DEF Older, KnownBlocks, Block, NoBlock
  <2>4. /\ \A k \in 1..L : chain[q][k] \in Nat /\ chain[q][k] < b
    BY <1>3, <2>1, <2>3 DEF Block
  <2>5. CASE i = L + 1
    <3>1. i = 1 => Tip(q) = NoBlock
      BY <1>1, <2>5, <2>1 DEF Tip
    <3>2. ASSUME i # 1 PROVE Tip(q) = chain'[q][i - 1]
      <4>1. i - 1 = L /\ L \in 1..L
        BY <2>1, <2>5, <3>2
      <4>2. chain[q] # <<>>
        BY <1>1, <4>1
      <4> QED
        BY <2>1, <4>1, <4>2 DEF Tip
    <3> QED
      BY <2>1, <2>2, <2>3, <2>5, <3>1, <3>2
  <2>6. CASE i \in 1..L
    <3>1. chain'[q][i] = chain[q][i] /\ (i # 1 => chain'[q][i - 1] = chain[q][i - 1])
      <4>1. i # 1 => i - 1 \in 1..L
        BY <2>1, <2>6
      <4> QED
        BY <2>1, <2>6, <4>1
    <3>2. ASSUME NEW j \in 1..Len(chain'[q]), i < j PROVE chain'[q][i] < chain'[q][j]
      <4>1. CASE j = L + 1
        BY <2>1, <2>4, <2>6, <3>1, <4>1
      <4>2. CASE j \in 1..L
        BY <1>3, <2>1, <2>6, <3>1, <3>2, <4>2
      <4> QED
        BY <2>1, <4>1, <4>2
    <3>3. chain'[q][i] <= b
      BY <2>4, <2>6, <3>1, <2>1
    <3> QED
      BY <1>3, <2>2, <2>6, <3>1, <3>2, <3>3
  <2> QED
    BY <2>1, <2>5, <2>6
<1> QED
  BY <1>4, <1>5, <1>6, ChainChange

\* A node that shows a block around has just mined it, or did so before.
LEMMA OwnChange ==
  ASSUME TypeInv, [Next]_vars, NEW n \in Node, up'[n], at'[n] # "idle"
  PROVE  \/ own'[n] = mined + 1 /\ at'[n] = "health"
         \/ /\ up[n] /\ at[n] # "idle" /\ own'[n] = own[n] /\ since'[n] = since[n]
            /\ at[n] = "post" => at'[n] = "post" /\ todo'[n] \subseteq todo[n]
<1> USE DEF TypeInv, TypeOK
<1>1. CASE UNCHANGED vars
  BY <1>1 DEF vars, processVars, minerVars, exchangeVars
<1>2. ASSUME NEW x \in Node, MineBlock(x)
      PROVE  \/ own'[n] = mined + 1 /\ at'[n] = "health"
             \/ /\ up[n] /\ at[n] # "idle" /\ own'[n] = own[n] /\ since'[n] = since[n]
                /\ at[n] = "post" => at'[n] = "post" /\ todo'[n] \subseteq todo[n]
  BY <1>2 DEF MineBlock, processVars, exchangeVars
<1>3. ASSUME NEW x \in Node, HealthCheck(x) \/ StartPost(x)
      PROVE  /\ up[n] /\ at[n] # "idle" /\ own'[n] = own[n] /\ since'[n] = since[n]
             /\ at[n] = "post" => at'[n] = "post" /\ todo'[n] \subseteq todo[n]
  <2>1. UNCHANGED <<up, since, own>> /\ at[x] \in {"health", "sign"}
    BY <1>3 DEF HealthCheck, StartPost, processVars
  <2>2. n # x => at'[n] = at[n] /\ todo'[n] = todo[n]
    BY <1>3 DEF HealthCheck, StartPost
  <2>3. up[n]
    BY <2>1
  <2>4. at[n] # "idle"
    BY <2>1, <2>2
  <2> QED
    BY <2>1, <2>2, <2>3, <2>4
<1>4. ASSUME NEW x \in Node, NEW y \in Node,
             NoAnswer(x, y) \/ Sign(x, y) \/ RefuseToSign(x, y) \/ Accept(x, y) \/ Refuse(x, y)
      PROVE  /\ up[n] /\ at[n] # "idle" /\ own'[n] = own[n] /\ since'[n] = since[n]
             /\ at[n] = "post" => at'[n] = "post" /\ todo'[n] \subseteq todo[n]
  <2>1. /\ UNCHANGED <<processVars, own, at>>
        /\ todo' = todo \/ todo' = [todo EXCEPT ![x] = todo[x] \ {y}]
    BY <1>4 DEF NoAnswer, Sign, RefuseToSign, Accept, Refuse, minerVars, exchangeVars
  <2>2. todo \in [Node -> SUBSET Node]
    BY DEF TypeOK
  <2>3. todo'[n] = todo[n] \/ todo'[n] = todo[n] \ {y}
    BY <2>1, <2>2
  <2>4. up[n] /\ at[n] # "idle" /\ own'[n] = own[n] /\ since'[n] = since[n] /\ at' = at
    BY <2>1 DEF processVars
  <2> QED
    BY <2>3, <2>4
<1>5. ASSUME NEW x \in Node, SendMined(x) \/ GiveUpBlock(x)
      PROVE  /\ up[n] /\ at[n] # "idle" /\ own'[n] = own[n] /\ since'[n] = since[n]
             /\ at[n] = "post" => at'[n] = "post" /\ todo'[n] \subseteq todo[n]
  <2>1. /\ ExchangeOver(x) /\ (todo' = todo \/ todo' = [todo EXCEPT ![x] = {}])
        /\ UNCHANGED processVars
    BY <1>5 DEF SendMined, GiveUpBlock
  <2>2. n # x
    BY <2>1 DEF ExchangeOver
  <2> QED
    BY <2>1, <2>2 DEF ExchangeOver, processVars
<1>6. ASSUME NEW x \in Node, Crash(x) \/ Start(x)
      PROVE  /\ up[n] /\ at[n] # "idle" /\ own'[n] = own[n] /\ since'[n] = since[n]
             /\ at[n] = "post" => at'[n] = "post" /\ todo'[n] \subseteq todo[n]
  <2>1. ExchangeOver(x) /\ todo' = [todo EXCEPT ![x] = {}]
    BY <1>6 DEF Crash, Start, Forget
  <2>2. n # x
    BY <2>1 DEF ExchangeOver
  <2>3. up' = [up EXCEPT ![x] = FALSE] \/ up' = [up EXCEPT ![x] = TRUE]
    BY <1>6 DEF Crash, Start
  <2>4. since' = since \/ since' = [since EXCEPT ![x] = mined]
    BY <1>6 DEF Crash, Start
  <2>5. up[n] /\ since'[n] = since[n]
    BY <2>2, <2>3, <2>4
  <2> QED
    BY <2>1, <2>2, <2>5 DEF ExchangeOver
<1>7. ASSUME NEW x \in Node, Write(x) \/ Release(x)
      PROVE  /\ up[n] /\ at[n] # "idle" /\ own'[n] = own[n] /\ since'[n] = since[n]
             /\ at[n] = "post" => at'[n] = "post" /\ todo'[n] \subseteq todo[n]
  <2>1. UNCHANGED <<own, at, since, todo>>
    BY <1>7 DEF Write, Release, minerVars, exchangeVars
  <2>2. up' = up \/ up' = [up EXCEPT ![x] = FALSE]
    BY <1>7 DEF Write, Release
  <2>3. up[n]
    BY <2>2
  <2> QED
    BY <2>1, <2>3
<1>8. ASSUME NEW x \in Node, NEW b \in Block,
             Enqueue(x, b) \/ ClaimTimeout(x, b)
      PROVE  /\ up[n] /\ at[n] # "idle" /\ own'[n] = own[n] /\ since'[n] = since[n]
             /\ at[n] = "post" => at'[n] = "post" /\ todo'[n] \subseteq todo[n]
  <2>1. UNCHANGED <<processVars, own, at>>
    BY <1>8 DEF Enqueue, ClaimTimeout, minerVars
  <2>2. todo'[n] \subseteq todo[n]
    <3>1. CASE Enqueue(x, b)
      BY <3>1 DEF Enqueue
    <3>2. CASE ClaimTimeout(x, b)
      BY <3>2 DEF ClaimTimeout, exchangeVars
    <3> QED
      BY <1>8, <3>1, <3>2
  <2> QED
    BY <2>1, <2>2 DEF processVars
<1>9. ASSUME NEW x \in Node, DropBatch(x)
      PROVE  /\ up[n] /\ at[n] # "idle" /\ own'[n] = own[n] /\ since'[n] = since[n]
             /\ at[n] = "post" => at'[n] = "post" /\ todo'[n] \subseteq todo[n]
  BY <1>9 DEF DropBatch, processVars, minerVars, exchangeVars
<1> QED
  BY <1>1, <1>2, <1>3, <1>4, <1>5, <1>6, <1>7, <1>8, <1>9 DEF Next, Exchange, Writer

\* What is waiting at m has been sent by a node that waits for the answer.
LEMMA WaitingChange ==
  ASSUME TypeInv, [Next]_vars, NEW m \in Node, NEW x \in waiting'[m]
  PROVE  x \in waiting[m] \/ \E k \in Node : Accept(k, m) /\ x = own[k]
<1> USE DEF TypeInv, TypeOK
<1>1. ASSUME NEW k \in Node, NEW p \in Node, Accept(k, p), x \notin waiting[m]
      PROVE  Accept(k, m) /\ x = own[k]
  <2>1. waiting' = [waiting EXCEPT ![p] = waiting[p] \cup {own[k]}]
    BY <1>1 DEF Accept
  <2> QED
    BY <1>1, <2>1
<1>2. ASSUME NEW k \in Node, NEW b \in Block, Enqueue(k, b) PROVE x \in waiting[m]
  <2>1. waiting' = [waiting EXCEPT ![k] = waiting[k] \ {b}]
    BY <1>2 DEF Enqueue
  <2> QED
    BY <2>1
<1>3. ASSUME NEW k \in Node, Crash(k) \/ Start(k) PROVE x \in waiting[m]
  <2>1. waiting' = [waiting EXCEPT ![k] = {}]
    BY <1>3 DEF Crash, Start, Forget
  <2> QED
    BY <2>1
<1>4. ASSUME NEW k \in Node,
             \/ MineBlock(k) \/ DropBatch(k) \/ Write(k) \/ Release(k)
             \/ HealthCheck(k) \/ StartPost(k) \/ SendMined(k) \/ GiveUpBlock(k)
             \/ \E p \in Node : NoAnswer(k, p) \/ Sign(k, p) \/ RefuseToSign(k, p) \/ Refuse(k, p)
             \/ \E b \in Block : ClaimTimeout(k, b)
      PROVE  waiting' = waiting
  BY <1>4 DEF MineBlock, DropBatch, Write, Release, HealthCheck, StartPost, SendMined, GiveUpBlock,
              NoAnswer, Sign, RefuseToSign, Refuse, ClaimTimeout, writerVars
<1>5. UNCHANGED vars => waiting' = waiting
  BY DEF vars, writerVars
<1> QED
  BY <1>1, <1>2, <1>3, <1>4, <1>5 DEF Next, Exchange, Writer

\* A block comes to the writer of m from a handler or from its own miner.
LEMMA GotChange ==
  ASSUME ChainInv, [Next]_vars, NEW m \in Node, up'[m], NEW x \in Got(m)'
  PROVE  /\ up[m]
         /\ \/ x \in Got(m)
            \/ Enqueue(m, x) /\ x \in waiting[m]
            \/ SendMined(m) /\ x = own[m]
<1> USE DEF ChainInv, ClaimInv, TypeInv
<1>1. chain[m] \in Seq(Block) /\ queue[m] \in Seq(Block \cup {Dropped})
  BY DEF TypeOK
<1>2. CASE Start(m)
  <2>1. chain'[m] = <<>> /\ queue'[m] = <<>>
    BY <1>2 DEF Start, Forget, TypeOK
  <2> QED
    BY <2>1 DEF Got, Elements
<1>3. CASE ~Start(m)
  <2>1. up[m]
    BY <1>3, ComesUp
  <2>2. x \in Elements(chain'[m]) => x \in Got(m)
    <3>1. CASE chain'[m] = chain[m]
      BY <3>1 DEF Got
    <3>2. CASE /\ chain'[m] = Append(chain[m], claim[m])
               /\ claim[m] \in Elements(queue[m]) /\ claim[m] \in Block
      <4>1. \A i \in 1..Len(chain'[m]) :
              \/ i \in 1..Len(chain[m]) /\ chain'[m][i] = chain[m][i]
              \/ chain'[m][i] = claim[m]
        BY <1>1, <3>2
      <4>2. claim[m] # Dropped
        BY <3>2, NetworkAssumption DEF Block, Dropped
      <4> QED
        BY <3>2, <4>1, <4>2 DEF Got, Elements
    <3> QED
      BY <1>3, <3>1, <3>2, ChainChange
  <2>3. ASSUME x \in Elements(queue'[m]), x # Dropped
        PROVE  \/ x \in Got(m)
               \/ Enqueue(m, x) /\ x \in waiting[m]
               \/ SendMined(m) /\ x = own[m]
    <3>1. CASE queue'[m] = queue[m]
      BY <2>3, <3>1 DEF Got
    <3>2. ASSUME NEW k \in Node, NEW b \in Block, Enqueue(k, b), queue'[m] # queue[m]
          PROVE  k = m /\ b \in waiting[m] /\ x \in Elements(queue[m]) \cup {b}
      <4>1. queue' = [queue EXCEPT ![k] = Append(queue[k], b)] /\ b \in waiting[k]
        BY <3>2 DEF Enqueue
      <4>2. k = m
        BY <3>2, <4>1 DEF TypeOK
      <4>3. queue'[m] = Append(queue[m], b)
        BY <4>1, <4>2 DEF TypeOK
      <4> QED
        BY <2>3, <4>1, <4>2, <4>3, OneMore
    <3>3. ASSUME NEW k \in Node, SendMined(k), queue'[m] # queue[m]
          PROVE  k = m /\ x \in Elements(queue[m]) \cup {own[m]}
      <4>1. queue' = [queue EXCEPT ![k] = Append(queue[k], own[k])] /\ own[k] \in Block
        BY <3>3 DEF SendMined, Distributed
      <4>2. k = m
        BY <3>3, <4>1 DEF TypeOK
      <4>3. queue'[m] = Append(queue[m], own[m])
        BY <4>1, <4>2 DEF TypeOK
      <4> QED
        BY <2>3, <4>1, <4>2, <4>3, OneMore
    <3>4. ASSUME NEW k \in Node, DropBatch(k) PROVE x \in Elements(queue[m])
      <4>1. queue' = [queue EXCEPT ![k] = Append(queue[k], Dropped)]
        BY <3>4 DEF DropBatch
      <4>2. CASE k # m
        BY <2>3, <4>1, <4>2 DEF TypeOK
      <4>3. CASE k = m
        <5>1. queue'[m] = Append(queue[m], Dropped)
          BY <4>1, <4>3 DEF TypeOK
        <5>2. Elements(queue'[m]) = Elements(queue[m]) \cup {Dropped}
          BY <5>1, OneMore
        <5> QED
          BY <2>3, <5>2
      <4> QED
        BY <4>2, <4>3
    <3>5. ASSUME NEW k \in Node, Write(k) PROVE x \in Elements(queue[m])
      <4>1. queue' = [queue EXCEPT ![k] = Tail(queue[k])] /\ queue[k] # <<>>
        BY <3>5 DEF Write
      <4>2. queue'[m] = queue[m] \/ (queue[m] # <<>> /\ queue'[m] = Tail(queue[m]))
        BY <4>1 DEF TypeOK
      <4> QED
        BY <2>3, <4>2, OneLess
    <3>6. ASSUME NEW k \in Node, Crash(k) \/ Start(k) PROVE x \in Elements(queue[m])
      <4>1. queue' = [queue EXCEPT ![k] = <<>>]
        BY <3>6 DEF Crash, Start, Forget
      <4>2. k # m
        BY <2>3, <4>1 DEF TypeOK, Elements
      <4> QED
        BY <2>3, <4>1, <4>2 DEF TypeOK
    <3>7. CASE UNCHANGED vars
      BY <3>1, <3>7 DEF vars, writerVars
    <3>8. ASSUME NEW k \in Node,
                 \/ MineBlock(k) \/ Release(k) \/ HealthCheck(k) \/ StartPost(k) \/ GiveUpBlock(k)
                 \/ \E p \in Node : \/ NoAnswer(k, p) \/ Sign(k, p) \/ RefuseToSign(k, p)
                                   \/ Accept(k, p) \/ Refuse(k, p)
                 \/ \E b \in Block : ClaimTimeout(k, b)
          PROVE  queue' = queue
      BY <3>8 DEF MineBlock, Release, HealthCheck, StartPost, GiveUpBlock, NoAnswer, Sign,
                  RefuseToSign, Accept, Refuse, ClaimTimeout, writerVars
    <3>9. x \in Elements(queue[m]) => x \in Got(m)
      BY <2>3 DEF Got
    <3> QED
      BY <3>1, <3>2, <3>3, <3>4, <3>5, <3>6, <3>7, <3>8, <3>9 DEF Next, Exchange, Writer
  <2> QED
    BY <2>1, <2>2, <2>3 DEF Got
<1> QED
  BY <1>2, <1>3

\* A block comes to m from a node that sends it out.
LEMMA BlocksChange ==
  ASSUME ChainInv, [Next]_vars, NEW m \in Node, up'[m], NEW x \in Blocks(m)'
  PROVE  \/ up[m] /\ x \in Blocks(m)
         \/ \E k \in Node : Accept(k, m) /\ x = own[k]
         \/ SendMined(m) /\ x = own[m]
<1> USE DEF ChainInv, ClaimInv, TypeInv
<1>1. CASE x \in Got(m)'
  BY <1>1, GotChange DEF Blocks
<1>2. CASE x \in waiting'[m]
  <2>1. ~Start(m)
    BY <1>2 DEF Start, Forget, TypeOK
  <2> QED
    BY <1>2, <2>1, WaitingChange, ComesUp DEF Blocks
<1> QED
  BY <1>1, <1>2 DEF Blocks

\* Blocks are numbered as they are mined.
LEMMA BlocksAreMined ==
  ASSUME ChainInv, NEW m \in Node, NEW x \in Blocks(m)
  PROVE  x \in Block /\ x <= mined
<1>1. /\ chain[m] \in Seq(Block) /\ queue[m] \in Seq(Block \cup {Dropped})
      /\ waiting[m] \subseteq Block
  BY DEF ChainInv, ClaimInv, TypeInv, TypeOK
<1>2. CASE x \in Elements(chain[m])
  BY <1>1, <1>2 DEF ChainInv, Linked, Elements
<1>3. CASE x \in Elements(queue[m]) \ {Dropped}
  BY <1>1, <1>3 DEF ChainInv, ClaimInv, KnownBlocks, Elements
<1>4. CASE x \in waiting[m]
  BY <1>1, <1>4 DEF ChainInv, ClaimInv, KnownBlocks, Foreign
<1> QED
  BY <1>2, <1>3, <1>4 DEF Blocks, Got

LEMMA NextPending ==
  ASSUME ClaimInv, Pending, [Next]_vars
  PROVE  Pending'
<1> SUFFICES ASSUME NEW n \in Node, NEW m \in Node, up'[n], up'[m], at'[n] # "idle",
                    own'[n] \in waiting'[m]
             PROVE  at'[n] = "post" /\ \A q \in todo'[n] : m <= q
  BY DEF Pending, Live
<1> USE DEF ClaimInv, TypeInv
<1>1. own'[n] # mined + 1
  <2>1. \A k \in Node : own[k] \in Nat /\ own[k] <= mined
    BY DEF KnownBlocks, TypeOK, Block, NoBlock
  <2>2. mined \in Nat /\ \A x \in waiting[m] : x \in Nat /\ x <= mined
    BY DEF KnownBlocks, Foreign, TypeOK, Block
  <2> QED
    BY <2>1, <2>2, WaitingChange
<1>2. /\ up[n] /\ at[n] # "idle" /\ own'[n] = own[n]
      /\ at[n] = "post" => at'[n] = "post" /\ todo'[n] \subseteq todo[n]
  BY <1>1, OwnChange
<1>3. CASE own[n] \in waiting[m]
  <2>1. ~Start(m)
    BY DEF Start, Forget, TypeOK
  <2>2. up[m]
    BY <2>1, ComesUp
  <2> QED
    BY <1>2, <1>3, <2>2 DEF Pending, Live
<1>4. ASSUME NEW k \in Node, Accept(k, m), own[n] = own[k]
      PROVE  at'[n] = "post" /\ \A q \in todo'[n] : m <= q
  <2>1. up[k] /\ at[k] = "post" /\ \A q \in todo[k] : m <= q
    BY <1>4 DEF Accept, Asking
  <2>2. k = n
    BY <1>2, <1>4, <2>1 DEF OwnClaim, Live
  <2> QED
    BY <1>2, <2>1, <2>2
<1> QED
  BY <1>2, <1>3, <1>4, WaitingChange

LEMMA NextNotYet ==
  ASSUME ChainInv, [Next]_vars
  PROVE  NotYet'
<1> SUFFICES ASSUME NEW n \in Node, NEW m \in Node, up'[n], up'[m], at'[n] # "idle",
                    own'[n] \in Got(m)'
             PROVE  at'[n] = "post" /\ m \notin todo'[n]
  BY DEF NotYet, Live
<1> USE DEF ChainInv, ClaimInv, TypeInv
<1>1. CASE own'[n] = mined + 1
  <2>1. \A k \in Node : own[k] \in Nat /\ own[k] <= mined
    <3>1. own \in [Node -> Block \cup {NoBlock}]
      BY DEF TypeOK
    <3>2. \A k \in Node : own[k] \in Nat
      BY <3>1 DEF Block, NoBlock
    <3> QED
      BY <3>2 DEF KnownBlocks
  <2>2. mined \in Nat /\ own'[n] \notin Blocks(m)
    BY <1>1, BlocksAreMined DEF TypeOK
  <2> QED
    BY <1>1, <2>1, <2>2, GotChange DEF Blocks
<1>2. CASE /\ up[n] /\ at[n] # "idle" /\ own'[n] = own[n]
           /\ at[n] = "post" => at'[n] = "post" /\ todo'[n] \subseteq todo[n]
  <2>1. CASE up[m] /\ own[n] \in Got(m)
    BY <1>2, <2>1 DEF NotYet, Live
  <2>2. CASE up[m] /\ own[n] \in waiting[m] /\ Enqueue(m, own[n])
    <3>1. at[n] = "post" /\ \A q \in todo[n] : m <= q
      BY <1>2, <2>2 DEF Pending, Live
    <3>2. m \in todo[n] => todo'[n] = todo[n] \ {m}
      BY <1>2, <2>2, <3>1 DEF Enqueue, Asking
    <3> QED
      BY <1>2, <3>1, <3>2
  <2>3. CASE SendMined(m) /\ own[n] = own[m]
    <3>1. up[m] /\ at[m] = "post" /\ at' = [at EXCEPT ![m] = "idle"]
      BY <2>3 DEF SendMined, Distributed, ExchangeOver
    <3>2. m = n
      BY <1>2, <2>3, <3>1 DEF OwnClaim, Live
    <3> QED
      BY <3>1, <3>2 DEF TypeOK
  <2> QED
    BY <1>2, <2>1, <2>2, <2>3, GotChange
<1> QED
  BY <1>1, <1>2, OwnChange

LEMMA InitChainInv == Init => ChainInv
<1> SUFFICES ASSUME Init PROVE OneInHand /\ Older /\ Linked /\ NotYet /\ Pending
  BY InitClaimInv DEF ChainInv
<1>1. \A p \in Node : Len(chain[p]) = 0 /\ Len(queue[p]) = 0
  BY DEF Init
<1>2. OneInHand
  BY <1>1 DEF Init, OneInHand, InHand, Live
<1>3. Older
  BY DEF Init, Older, Block, NoBlock
<1>4. Linked
  BY <1>1 DEF Linked
<1>5. NotYet /\ Pending
  BY DEF Init, NotYet, Pending, Live
<1> QED
  BY <1>2, <1>3, <1>4, <1>5

LEMMA NextChainInv ==
  ASSUME Timely, ChainInv, [Next]_vars
  PROVE  ChainInv'
<1>1. NotYet' /\ Pending'
  BY NextNotYet, NextPending DEF ChainInv
<1> QED
  BY <1>1, NextClaimInv, NextOneInHand, NextOlder, NextLinked DEF ChainInv

-----------------------------------------------------------------------------
(* Every node keeps the promise of NodePromise *)

LEMMA PromiseStep ==
  ASSUME Timely, ChainInv, [Next]_vars, NEW q \in Node
  PROVE  Crash(q) \/ Start(q) \/ Promise(q)!Next \/ UNCHANGED Promise(q)!vars
<1> USE DEF ChainInv, ClaimInv, TypeInv
<1> DEFINE Mind(s) == Elements(s) \ {Dropped}
           Kept == /\ UNCHANGED <<chain[q], claim[q], written[q]>>
                   /\ Mind(queue'[q]) = Mind(queue[q])
<1>0. \A b \in Block : b # Dropped
  BY NetworkAssumption DEF Block, Dropped
<1>1. up[q] => InHand(q)
  BY DEF OneInHand, Live
<1>2. Promise(q)!TipOf(chain[q]) = Tip(q)
  BY DEF Promise!TipOf, Tip
<1>3. ASSUME Kept PROVE UNCHANGED Promise(q)!vars
  BY <1>3 DEF Promise!vars, Elements
<1>4. ASSUME NEW b \in Block, claim[q] = NoBlock, parent'[b] = Tip(q), claim'[q] = b,
             UNCHANGED <<chain[q], queue[q], written[q]>>
      PROVE  Promise(q)!Next
  <2>1. Promise(q)!Claim(b)
    BY <1>2, <1>4 DEF Promise!Claim, Elements
  <2> QED
    BY <2>1 DEF Promise!Next
<1>5. ASSUME NEW b \in Block, claim[q] = b, parent'[b] = Tip(q),
             OnlyDropped(q), written[q] = NoBlock, queue'[q] = Append(queue[q], b),
             UNCHANGED <<chain[q], claim[q], written[q]>>
      PROVE  Promise(q)!Next
  <2>1. Mind(queue[q]) = {} /\ Mind(queue'[q]) = {b}
    BY <1>0, <1>5, OneMore DEF Elements, OnlyDropped
  <2>2. Promise(q)!Accept(b)
    BY <1>2, <1>5, <2>1 DEF Promise!Accept, Elements
  <2> QED
    BY <2>2 DEF Promise!Next
<1>6. ASSUME OnlyDropped(q), written[q] = NoBlock, claim[q] # NoBlock, claim'[q] = NoBlock,
             UNCHANGED <<chain[q], queue[q], written[q]>>
      PROVE  Promise(q)!Next
  <2>1. Mind(queue[q]) = {}
    BY <1>6 DEF Elements, OnlyDropped
  <2>2. Promise(q)!Unclaim
    BY <1>6, <2>1 DEF Promise!Unclaim, Elements
  <2> QED
    BY <2>2 DEF Promise!Next
<1>7. CASE UNCHANGED vars
  BY <1>3, <1>7 DEF vars, writerVars, claimVars
<1>8. ASSUME NEW n \in Node, MineBlock(n) PROVE Promise(q)!Next \/ Kept
  <2>1. UNCHANGED <<chain, queue, written>> /\ claim' = [claim EXCEPT ![n] = mined']
    BY <1>8 DEF MineBlock, writerVars
  <2>2. CASE q # n
    BY <2>1, <2>2 DEF TypeOK
  <2>3. CASE q = n
    <3>1. mined' \in Block
      <4>1. mined \in 0..MaxBlocks /\ mined < MaxBlocks /\ mined' = mined + 1
        BY <1>8 DEF MineBlock, TypeOK
      <4> QED
        BY <4>1, NetworkAssumption DEF Block
    <3>2. parent'[mined'] = Tip(n) /\ claim[n] = NoBlock /\ claim'[n] = mined'
      BY <1>8, <2>1, <3>1 DEF MineBlock, TypeOK
    <3> QED
      BY <1>4, <2>1, <2>3, <3>1, <3>2
  <2> QED
    BY <2>2, <2>3
<1>9. ASSUME NEW n \in Node,
             \/ HealthCheck(n) \/ StartPost(n)
             \/ \E p \in Node : NoAnswer(n, p) \/ RefuseToSign(n, p) \/ Refuse(n, p)
      PROVE  Kept
  BY <1>9 DEF HealthCheck, StartPost, NoAnswer, RefuseToSign, Refuse, writerVars, claimVars
<1>10. ASSUME NEW n \in Node, SendMined(n) PROVE Promise(q)!Next \/ Kept
  <2>1. /\ UNCHANGED <<parent, chain, written, claim>>
        /\ queue' = [queue EXCEPT ![n] = Append(queue[n], own[n])]
        /\ up[n] /\ at[n] = "post"
    BY <1>10 DEF SendMined, Distributed, blockVars, claimVars
  <2>2. CASE q # n
    BY <2>1, <2>2 DEF TypeOK
  <2>3. CASE q = n
    <3>1. /\ own[n] \in Block /\ claim[n] = own[n] /\ parent[own[n]] = Tip(n)
          /\ OnlyDropped(n) /\ written[n] = NoBlock
      BY <1>1, <2>1, <2>3 DEF OwnClaim, Live, InHand, Free
    <3>2. queue'[n] = Append(queue[n], own[n])
      BY <2>1 DEF TypeOK
    <3> QED
      BY <1>5, <2>1, <2>3, <3>1, <3>2
  <2> QED
    BY <2>2, <2>3
<1>11. ASSUME NEW n \in Node, GiveUpBlock(n) PROVE Promise(q)!Next \/ Kept
  <2>1. /\ UNCHANGED <<chain, queue, written>>
        /\ claim' = [claim EXCEPT ![n] = NoBlock]
        /\ up[n] /\ at[n] # "idle"
    BY <1>11 DEF GiveUpBlock, writerVars
  <2>2. CASE q # n
    BY <2>1, <2>2 DEF TypeOK
  <2>3. CASE q = n
    <3>1. OnlyDropped(n) /\ written[n] = NoBlock
      BY <1>1, <2>1, <2>3 DEF InHand, Free
    <3>2. claim[n] # NoBlock /\ claim'[n] = NoBlock
      BY <2>1 DEF OwnClaim, Live, TypeOK, NoBlock, Block
    <3> QED
      BY <1>6, <2>1, <2>3, <3>1, <3>2
  <2> QED
    BY <2>2, <2>3
<1>12. ASSUME NEW n \in Node, NEW p \in Node, Sign(n, p) PROVE Promise(q)!Next \/ Kept
  <2>1. /\ UNCHANGED <<parent, chain, queue, written>>
        /\ claim' = [claim EXCEPT ![p] = own[n]]
        /\ claim[p] = NoBlock /\ parent[own[n]] = Tip(p) /\ own[n] \in Block
    BY <1>12 DEF Sign, CanSign, Asking, minerVars, blockVars, writerVars
  <2>2. CASE q # p
    BY <2>1, <2>2 DEF TypeOK
  <2>3. CASE q = p
    BY <1>4, <2>1, <2>3 DEF TypeOK
  <2> QED
    BY <2>2, <2>3
<1>13. ASSUME NEW n \in Node, NEW p \in Node, Accept(n, p) PROVE Promise(q)!Next \/ Kept
  <2>1. /\ UNCHANGED <<parent, chain, queue, written>>
        /\ claim' = [claim EXCEPT ![p] = own[n]]
        /\ claim[p] \in {NoBlock, own[n]} /\ parent[own[n]] = Tip(p) /\ own[n] \in Block
    BY <1>13 DEF Accept, Asking, CanAccept, minerVars, blockVars
  <2>2. CASE q # p \/ claim[p] = own[n]
    BY <2>1, <2>2 DEF TypeOK
  <2>3. CASE q = p /\ claim[p] = NoBlock
    BY <1>4, <2>1, <2>3 DEF TypeOK
  <2> QED
    BY <2>1, <2>2, <2>3
<1>14. ASSUME NEW n \in Node, Write(n) PROVE Promise(q)!Next \/ Kept
  <2>1. /\ UNCHANGED claim
        /\ queue' = [queue EXCEPT ![n] = Tail(queue[n])]
        /\ up[n] /\ queue[n] # <<>>
    BY <1>14 DEF Write, claimVars
  <2>2. CASE q # n
    BY <1>14, <2>1, <2>2 DEF Write, TypeOK
  <2>3. CASE q = n
    <3>1. queue'[n] = Tail(queue[n]) /\ InHand(n)
      BY <1>1, <2>1, <2>3 DEF TypeOK
    <3>2. /\ 1 \in 1..Len(queue[n]) /\ Head(queue[n]) = queue[n][1]
          /\ \A k \in 1..Len(queue'[n]) :
               k + 1 \in 1..Len(queue[n]) /\ k + 1 # 1 /\ queue'[n][k] = queue[n][k + 1]
          /\ Elements(queue[n]) = Elements(queue'[n]) \cup {Head(queue[n])}
      BY <2>1, <3>1, OneLess
    <3>3. CASE Head(queue[n]) = Dropped
      <4>1. UNCHANGED <<chain, written>>
        BY <1>14, <3>3 DEF Write
      <4> QED
        BY <2>1, <2>3, <3>2, <3>3, <4>1
    <3>4. CASE Head(queue[n]) # Dropped
      <4>1. /\ Head(queue[n]) = claim[n] /\ parent[claim[n]] = Tip(n)
            /\ written[n] = NoBlock /\ claim[n] \in Block
            /\ \A l \in 1..Len(queue[n]) : queue[n][l] # Dropped => l = 1
        BY <3>1, <3>2, <3>4 DEF InHand, TypeOK
      <4>2. Mind(queue'[n]) = {} /\ Mind(queue[n]) = {claim[n]}
        <5>1. \A k \in 1..Len(queue'[n]) : queue'[n][k] = Dropped
          BY <3>2, <4>1
        <5> QED
          BY <1>0, <3>2, <4>1, <5>1 DEF Elements
      <4>3. /\ chain' = [chain EXCEPT ![n] = Append(chain[n], claim[n])]
            /\ written' = [written EXCEPT ![n] = claim[n]]
        BY <1>14, <3>4, <4>1 DEF Write, Fits
      <4>4. Promise(q)!Write(claim[n])
        BY <2>1, <2>3, <4>1, <4>2, <4>3 DEF Promise!Write, TypeOK
      <4> QED
        BY <2>3, <4>2, <4>4 DEF Promise!Next
    <3> QED
      BY <3>3, <3>4
  <2> QED
    BY <2>2, <2>3
<1>15. ASSUME NEW n \in Node, Release(n) PROVE Promise(q)!Next \/ Kept
  <2>1. /\ UNCHANGED <<chain, queue>>
        /\ written' = [written EXCEPT ![n] = NoBlock]
        /\ up[n] /\ written[n] # NoBlock
    BY <1>15 DEF Release
  <2>2. CASE q # n
    BY <1>15, <2>1, <2>2 DEF Release, TypeOK
  <2>3. CASE q = n
    <3>1. claim[n] = written[n]
      BY <1>1, <2>1, <2>3 DEF InHand
    <3>2. claim'[n] = NoBlock /\ written'[n] = NoBlock
      BY <1>15, <2>1, <3>1 DEF Release, TypeOK
    <3>3. Promise(q)!Release
      BY <2>1, <2>3, <3>1, <3>2 DEF Promise!Release, Elements
    <3> QED
      BY <3>3 DEF Promise!Next
  <2> QED
    BY <2>2, <2>3
<1>16. ASSUME NEW n \in Node, NEW b \in Block, ClaimTimeout(n, b)
       PROVE  Promise(q)!Next \/ Kept
  <2>1. /\ UNCHANGED <<chain, queue, written>>
        /\ claim' = [claim EXCEPT ![n] = IF claim[n] = b THEN NoBlock ELSE claim[n]]
        /\ up[n] /\ ~Underway(n, b)
    BY <1>16 DEF ClaimTimeout, writerVars
  <2>2. CASE q # n \/ claim[n] # b
    BY <2>1, <2>2 DEF TypeOK
  <2>3. CASE q = n /\ claim[n] = b
    <3>1. b \notin Elements(queue[n]) /\ written[n] # b
      BY <2>1 DEF Underway
    <3>2. OnlyDropped(n) /\ written[n] = NoBlock
      BY <1>1, <2>1, <2>3, <3>1 DEF InHand, OnlyDropped, Elements
    <3>3. claim[n] # NoBlock /\ claim'[n] = NoBlock
      BY <2>1, <2>3 DEF TypeOK, NoBlock, Block
    <3> QED
      BY <1>6, <2>1, <2>3, <3>2, <3>3
  <2> QED
    BY <2>2, <2>3
<1>17. ASSUME NEW n \in Node, Crash(n) \/ Start(n) PROVE Crash(q) \/ Start(q) \/ Kept
  <2>1. /\ queue' = [queue EXCEPT ![n] = <<>>]
        /\ written' = [written EXCEPT ![n] = NoBlock]
        /\ claim' = [claim EXCEPT ![n] = NoBlock]
        /\ chain' = chain \/ chain' = [chain EXCEPT ![n] = <<>>]
    BY <1>17 DEF Crash, Start, Forget
  <2>2. CASE q # n
    BY <2>1, <2>2 DEF TypeOK
  <2> QED
    BY <1>17, <2>2
<1>18. ASSUME NEW n \in Node, NEW b \in Block, Enqueue(n, b) PROVE Promise(q)!Next \/ Kept
  <2>1. /\ UNCHANGED <<parent, chain, written, claim>>
        /\ queue' = [queue EXCEPT ![n] = Append(queue[n], b)]
        /\ up[n] /\ b \in waiting[n]
    BY <1>18 DEF Enqueue, minerVars, blockVars, claimVars
  <2>2. CASE q # n
    BY <2>1, <2>2 DEF TypeOK
  <2>3. CASE q = n
    <3>1. /\ b = claim[n] /\ parent[b] = Tip(n) /\ written[n] = NoBlock /\ OnlyDropped(n)
      BY <1>1, <2>1, <2>3 DEF InHand, OnlyDropped
    <3>2. queue'[n] = Append(queue[n], b)
      BY <2>1 DEF TypeOK
    <3> QED
      BY <1>5, <2>1, <2>3, <3>1, <3>2
  <2> QED
    BY <2>2, <2>3
<1>19. ASSUME NEW n \in Node, DropBatch(n) PROVE Kept
  <2>1. /\ UNCHANGED <<chain, written, claim>>
        /\ queue' = [queue EXCEPT ![n] = Append(queue[n], Dropped)]
    BY <1>19 DEF DropBatch, claimVars
  <2>2. CASE q # n
    BY <2>1, <2>2 DEF TypeOK
  <2>3. CASE q = n
    <3>1. queue'[n] = Append(queue[n], Dropped)
      BY <2>1 DEF TypeOK
    <3>2. Elements(queue'[n]) = Elements(queue[n]) \cup {Dropped}
      BY <3>1, OneMore
    <3> QED
      BY <2>1, <2>3, <3>2
  <2> QED
    BY <2>2, <2>3
<1> HIDE DEF Kept
<1> QED
  BY <1>3, <1>7, <1>8, <1>9, <1>10, <1>11, <1>12, <1>13, <1>14, <1>15, <1>16, <1>17, <1>18, <1>19
  DEF Next, Exchange, Writer

\* The block that comes to be written fits, and its claim is still its own when
\* it is released.
LEMMA WriterGoesOn ==
  ASSUME ChainInv, NEW n \in Node, Writer(n)
  PROVE  up'[n]
<1> USE DEF ChainInv, ClaimInv, TypeInv
<1>1. up[n] /\ InHand(n)
  BY DEF Writer, Write, Release, OneInHand, Live
<1>2. CASE Write(n)
  <2>1. queue[n] # <<>> /\ queue[n] \in Seq(Block \cup {Dropped})
    BY <1>2 DEF Write, TypeOK
  <2>2. 1 \in 1..Len(queue[n]) /\ Head(queue[n]) = queue[n][1]
    BY <2>1
  <2>3. Head(queue[n]) # Dropped => Fits(n, Head(queue[n]))
    BY <1>1, <2>2 DEF InHand, Fits
  <2> QED
    BY <1>1, <1>2, <2>3 DEF Write
<1>3. CASE Release(n)
  BY <1>1, <1>3 DEF Release, InHand
<1> QED
  BY <1>2, <1>3 DEF Writer

\* Between the start and the stop of its process every node of the network does
\* what NodePromise says, which a single node is shown to keep to in
\* BlockNode: also when requests and answers are lost, as long as a claim
\* outlives the exchange it was given to. No process ends by itself, by an
\* assertion of its writer.
THEOREM NodesKeepPromises ==
  ASSUME Timely
  PROVE  Spec => KeepPromises
<1> DEFINE Step == \A n \in Node : FollowsPromise(n)
<1>1. Init => \A n \in Node : Promise(n)!Init
  BY DEF Init, Promise!Init, Elements
<1>2. Init => ChainInv
  BY InitChainInv
<1>3. ChainInv /\ [Next]_vars => ChainInv'
  BY NextChainInv
<1>4. ChainInv /\ [Next]_vars => [Step]_vars
  BY PromiseStep, WriterGoesOn DEF FollowsPromise
<1>5. [Step]_vars => [\A n \in Node : FollowsPromise(n)]_vars
  OBVIOUS
<1> HIDE DEF Step
<1> QED
  BY <1>1, <1>2, <1>3, <1>4, <1>5, PTL DEF Spec, KeepPromises

-----------------------------------------------------------------------------
\* A node that ran when the block of n was mined, and has signed it, keeps the
\* claim for it and its chain as it is until it has written the block.
Holds(m, n) ==
  \/ own[n] \in Elements(chain[m])
  \/ claim[m] = own[n] /\ Tip(m) = parent[own[n]]
Held ==
  \A n, m \in Live : n # m /\ since[m] < own[n] /\ Passed(n, m) => Holds(m, n)

\* Nobody but the writer of m takes the claim away from a block that is shown
\* around.
LEMMA ClaimStays ==
  ASSUME Timely, ChainInv, [Next]_vars, NEW n \in Node, NEW m \in Node, n # m,
         up[n], at[n] # "idle", up[m], up'[m], claim[m] = own[n]
  PROVE  claim'[m] = claim[m] \/ written[m] = claim[m]
<1> USE DEF ChainInv, ClaimInv, TypeInv
<1>1. own[n] \in Block /\ origin[own[n]] = n /\ claim[m] # NoBlock
  BY DEF OwnClaim, Live, NoBlock, Block
<1>2. at[m] = "idle"
  BY <1>1 DEF OwnClaim, Live
<1>3. CASE UNCHANGED vars
  BY <1>3 DEF vars, claimVars
<1>4. ASSUME NEW x \in Node, MineBlock(x) PROVE claim'[m] = claim[m]
  BY <1>1, <1>4 DEF MineBlock, TypeOK
<1>5. ASSUME NEW x \in Node, GiveUpBlock(x) PROVE claim'[m] = claim[m]
  BY <1>2, <1>5 DEF GiveUpBlock, TypeOK
<1>6. ASSUME NEW x \in Node, NEW p \in Node, Sign(x, p) \/ Accept(x, p)
      PROVE  claim'[m] = claim[m]
  BY SMTT(30), <1>1, <1>6 DEF Sign, CanSign, Accept, CanAccept, TypeOK
<1>7. ASSUME NEW x \in Node, Release(x)
      PROVE  claim'[m] = claim[m] \/ written[m] = claim[m]
  BY <1>7 DEF Release, TypeOK
<1>8. ASSUME NEW x \in Node, Crash(x) \/ Start(x) PROVE claim'[m] = claim[m]
  <2>1. x # m
    BY <1>8 DEF Crash, Start, TypeOK
  <2>2. claim' = [claim EXCEPT ![x] = NoBlock]
    BY <1>8 DEF Crash, Start, Forget
  <2> QED
    BY <2>1, <2>2 DEF TypeOK
<1>9. ASSUME NEW x \in Node, NEW b \in Block, ClaimTimeout(x, b) PROVE claim'[m] = claim[m]
  <2>1. /\ claim' = [claim EXCEPT ![x] = IF claim[x] = b THEN NoBlock ELSE claim[x]]
        /\ ~Underway(x, b)
    BY <1>9 DEF ClaimTimeout
  <2>2. b # own[n]
    BY <1>1, <2>1 DEF Underway, Exchanging
  <2> QED
    BY <2>1, <2>2 DEF TypeOK
<1>10. ASSUME NEW x \in Node,
              \/ HealthCheck(x) \/ StartPost(x) \/ SendMined(x) \/ Write(x)
              \/ DropBatch(x)
              \/ \E p \in Node : NoAnswer(x, p) \/ RefuseToSign(x, p) \/ Refuse(x, p)
              \/ \E b \in Block : Enqueue(x, b)
       PROVE  claim' = claim
  BY <1>10 DEF HealthCheck, StartPost, SendMined, Write, DropBatch, NoAnswer, RefuseToSign,
               Refuse, Enqueue, claimVars
<1> QED
  BY <1>3, <1>4, <1>5, <1>6, <1>7, <1>8, <1>9, <1>10 DEF Next, Exchange, Writer

\* A node that runs and has not just been started ran before.
LEMMA RanBefore ==
  ASSUME TypeInv, [Next]_vars, NEW m \in Node, up'[m], ~Start(m)
  PROVE  up[m] /\ since'[m] = since[m]
<1>1. up[m]
  BY ComesUp DEF TypeInv
<1>2. ASSUME NEW x \in Node, Start(x) PROVE since'[m] = since[m]
  BY <1>2 DEF Start, TypeInv, TypeOK
<1>3. ASSUME NEW x \in Node, MineBlock(x) \/ Exchange(x) PROVE since' = since
  BY <1>3 DEF MineBlock, Exchange, HealthCheck, StartPost, SendMined, GiveUpBlock, NoAnswer,
              Sign, RefuseToSign, Accept, Refuse, processVars
<1>4. ASSUME NEW x \in Node, DropBatch(x) \/ Writer(x) \/ Crash(x) PROVE since' = since
  BY <1>4 DEF DropBatch, Writer, Write, Release, Crash, processVars
<1>5. ASSUME NEW x \in Node, NEW b \in Block, Enqueue(x, b) \/ ClaimTimeout(x, b)
      PROVE  since' = since
  BY <1>5 DEF Enqueue, ClaimTimeout, processVars
<1>6. CASE UNCHANGED vars
  BY <1>6 DEF vars, processVars
<1> QED
  BY <1>1, <1>2, <1>3, <1>4, <1>5, <1>6 DEF Next

LEMMA NextHeld ==
  ASSUME Timely, ~Lossy, ChainInv, Held, [Next]_vars
  PROVE  Held'
<1> SUFFICES ASSUME NEW n \in Node, NEW m \in Node, up'[n], up'[m], n # m,
                    since'[m] < own'[n], Passed(n, m)'
             PROVE  Holds(m, n)'
  BY DEF Held, Live
<1> USE DEF ChainInv, ClaimInv, TypeInv
<1>1. CASE ~Passed(n, m)
  <2>1. Sign(n, m)
    BY <1>1, PassStep
  <2>2. /\ UNCHANGED <<own, chain, parent>> /\ claim' = [claim EXCEPT ![m] = own[n]]
        /\ parent[own[n]] = Tip(m)
    BY <2>1 DEF Sign, CanSign, minerVars, blockVars, writerVars
  <2>3. Tip(m)' = Tip(m) /\ claim'[m] = own[n]
    BY <2>2 DEF Tip, TypeOK
  <2> QED
    BY <2>2, <2>3 DEF Holds
<1>2. CASE Passed(n, m)
  <2>1. at'[n] # "idle" /\ at'[n] # "health"
    BY DEF Passed
  <2>2. up[n] /\ at[n] # "idle" /\ own'[n] = own[n] /\ own[n] \in Block
    BY <2>1, OwnChange
  <2>3. own[n] <= mined /\ parent'[own[n]] = parent[own[n]] /\ own[n] \in Nat /\ mined \in Nat
    <3>1. own[n] \in Nat /\ mined \in Nat
      BY <2>2 DEF TypeOK, Block
    <3>2. own[n] <= mined
      BY DEF KnownBlocks
    <3> QED
      BY <2>2, <3>1, <3>2, ParentStays
  <2>4. ~Start(m)
    <3>1. Start(m) => since'[m] = mined
      BY DEF Start, TypeOK
    <3> QED
      BY <2>2, <2>3, <3>1
  <2>5. up[m] /\ since'[m] = since[m]
    BY <2>4, RanBefore
  <2>6. Holds(m, n)
    BY <1>2, <2>2, <2>5 DEF Held, Live
  <2>7. CASE chain'[m] = chain[m]
    <3>1. Tip(m)' = Tip(m)
      BY <2>7 DEF Tip
    <3>2. CASE own[n] \in Elements(chain[m])
      BY <2>2, <2>7, <3>2 DEF Holds
    <3>3. CASE claim[m] = own[n] /\ Tip(m) = parent[own[n]]
      <4>1. written[m] # claim[m]
        <5>1. InHand(m) /\ claim[m] # NoBlock
          BY <2>2, <2>5, <3>3 DEF OneInHand, Live, NoBlock, Block
        <5>2. parent[own[n]] < own[n]
          BY <2>2 DEF Older
        <5>3. Tip(m) # own[n]
          BY <2>3, <3>3, <5>2
        <5> QED
          BY <3>3, <5>1, <5>3 DEF InHand
      <4> QED
        BY <2>2, <2>3, <2>5, <3>1, <3>3, <4>1, ClaimStays DEF Holds
    <3> QED
      BY <2>6, <3>2, <3>3 DEF Holds
  <2>8. CASE chain'[m] = Append(chain[m], claim[m]) /\ claim[m] \in Block
    <3>1. chain[m] \in Seq(Block)
      BY DEF TypeOK
    <3>2. Elements(chain'[m]) = Elements(chain[m]) \cup {claim[m]}
      <4>1. /\ Len(chain'[m]) = Len(chain[m]) + 1
            /\ chain'[m][Len(chain[m]) + 1] = claim[m]
            /\ \A i \in 1..Len(chain[m]) : chain'[m][i] = chain[m][i]
            /\ Len(chain[m]) \in Nat
        BY <2>8, <3>1
      <4> QED
        BY SMTT(30), <4>1 DEF Elements
    <3> QED
      BY <2>2, <2>6, <3>2 DEF Holds
  <2> QED
    BY <2>4, <2>7, <2>8, ChainChange
<1> QED
  BY <1>1, <1>2

-----------------------------------------------------------------------------
\* No two blocks with founders have the same previous hash.
NoSiblings ==
  \A p, m \in Founders : \A c \in Blocks(p), d \in Blocks(m) :
    parent[c] = parent[d] => c = d

\* NoFork, place by place.
Agree ==
  \A p, m \in Founders : \A i \in 1..Len(chain[p]) :
    i <= Len(chain[m]) => chain[p][i] = chain[m][i]

FounderInv == ChainInv /\ NoMutualPass /\ Held /\ NoSiblings /\ Agree

\* A founder has nothing beside a block that is being sent out.
LEMMA SentHasNoSibling ==
  ASSUME FounderInv, NEW k \in Live, at[k] = "post", NEW m \in Founders,
         NEW d \in Blocks(m), parent[d] = parent[own[k]]
  PROVE  d = own[k]
<1> USE DEF FounderInv, ChainInv, ClaimInv, TypeInv
<1>1. /\ k \in Node /\ up[k] /\ m \in Node /\ up[m] /\ since[m] = 0
      /\ own[k] \in Block /\ InHand(m) /\ d \in Block
  BY BlocksAreMined DEF Live, Founders, IsFounder, OneInHand
<1>2. d \in Elements(chain[m]) => Tip(m) # parent[d]
  <2>1. d \in Elements(chain[m]) => d <= Tip(m)
    BY <1>1 DEF Elements, Linked
  <2>2. parent[d] < d /\ d \in Nat /\ Tip(m) \in Nat
    BY <1>1, TipFacts DEF Older, Block, NoBlock
  <2> QED
    BY <2>1, <2>2
<1>3. CASE k = m
  <2>1. Free(m) /\ Tip(m) = parent[d]
    BY <1>1, <1>3 DEF InHand
  <2>2. d \notin Elements(queue[m]) \ {Dropped} /\ d \notin waiting[m]
    BY <2>1 DEF Free, OnlyDropped, Elements
  <2> QED
    BY <1>2, <2>1, <2>2 DEF Blocks, Got
<1>4. CASE k # m
  <2>1. Holds(m, k)
    <3>1. since[m] < own[k]
      BY <1>1 DEF Block
    <3> QED
      BY <1>1, <1>4, <3>1 DEF Held, Live, Passed
  <2>2. CASE own[k] \in Elements(chain[m])
    BY <1>1, <2>2, OneChild DEF Blocks, Got, Live
  <2>3. CASE claim[m] = own[k] /\ Tip(m) = parent[own[k]]
    <3>1. d \in (Elements(queue[m]) \ {Dropped}) \cup waiting[m]
      BY <1>2, <2>3 DEF Blocks, Got
    <3>2. d = claim[m]
      BY <1>1, <3>1 DEF InHand, Elements
    <3> QED
      BY <2>3, <3>2
  <2> QED
    BY <2>1, <2>2, <2>3 DEF Holds
<1> QED
  BY <1>3, <1>4

\* A founder with blocks was one before the step.
LEMMA FounderBefore ==
  ASSUME TypeInv, [Next]_vars, NEW m \in Founders', ~Start(m)
  PROVE  m \in Founders
BY RanBefore DEF Founders, IsFounder

\* A new block with m is one that is being sent out.
LEMMA NewBlock ==
  ASSUME ChainInv, [Next]_vars, NEW m \in Founders', NEW x \in Blocks(m)'
  PROVE  /\ m \in Founders
         /\ \/ x \in Blocks(m)
            \/ \E k \in Live : at[k] = "post" /\ x = own[k]
<1> USE DEF ChainInv, ClaimInv, TypeInv
<1>1. m \in Node /\ up'[m]
  BY DEF Founders, IsFounder
<1>2. ~Start(m)
  <2>1. Start(m) => chain'[m] = <<>> /\ queue'[m] = <<>> /\ waiting'[m] = {}
    BY <1>1 DEF Start, Forget, TypeOK
  <2> QED
    BY <2>1 DEF Blocks, Got, Elements
<1>3. m \in Founders
  BY <1>2, FounderBefore
<1>4. ASSUME NEW k \in Node, Accept(k, m), x = own[k]
      PROVE  k \in Live /\ at[k] = "post"
  BY <1>4 DEF Accept, Asking, Live
<1>5. ASSUME SendMined(m), x = own[m]
      PROVE  m \in Live /\ at[m] = "post"
  BY <1>1, <1>5 DEF SendMined, Distributed, Live
<1> QED
  BY <1>1, <1>3, <1>4, <1>5, BlocksChange

LEMMA NextNoSiblings ==
  ASSUME FounderInv, [Next]_vars
  PROVE  NoSiblings'
<1> SUFFICES ASSUME NEW p \in Founders', NEW m \in Founders',
                    NEW c \in Blocks(p)', NEW d \in Blocks(m)', parent'[c] = parent'[d]
             PROVE  c = d
  BY DEF NoSiblings
<1> USE DEF FounderInv, ChainInv, ClaimInv, TypeInv
<1>1. p \in Founders /\ m \in Founders
  BY NewBlock
<1>2. \A q \in Founders : \A x \in Blocks(q) : x \in Block /\ x <= mined
  BY BlocksAreMined DEF Founders
<1>3. \A k \in Live : at[k] = "post" => own[k] \in Block /\ own[k] <= mined
  BY DEF KnownBlocks, Live
<1>4. parent[c] = parent[d]
  <2>1. c \in Block /\ c <= mined /\ d \in Block /\ d <= mined
    BY <1>1, <1>2, <1>3, NewBlock
  <2> QED
    BY <2>1, ParentStays
<1>5. CASE c \in Blocks(p) /\ d \in Blocks(m)
  BY <1>1, <1>4, <1>5 DEF NoSiblings
<1>6. ASSUME NEW k \in Live, at[k] = "post", c = own[k], d \in Blocks(m) PROVE c = d
  BY <1>1, <1>4, <1>6, SentHasNoSibling
<1>7. ASSUME NEW k \in Live, at[k] = "post", d = own[k], c \in Blocks(p) PROVE c = d
  BY <1>1, <1>4, <1>7, SentHasNoSibling
<1>8. ASSUME NEW k \in Live, NEW l \in Live, at[k] = "post", at[l] = "post",
             c = own[k], d = own[l]
      PROVE  c = d
  BY <1>8 DEF NoMutualPass, Passed
<1> QED
  BY <1>5, <1>6, <1>7, <1>8, NewBlock

LEMMA NextAgree ==
  ASSUME FounderInv, [Next]_vars
  PROVE  Agree'
<1> USE DEF FounderInv, ChainInv, ClaimInv, TypeInv
<1> DEFINE Same(p, m) == \A i \in 1..Len(chain'[p]) :
                           i <= Len(chain'[m]) => chain'[p][i] = chain'[m][i]
<1>1. \A p \in Node : chain[p] \in Seq(Block) /\ chain'[p] \in Seq(Block)
  BY NextType DEF TypeOK
\* The longer of the two has the new block already.
<1>2. ASSUME NEW p \in Founders, NEW m \in Founders, p # m,
             chain'[p] = Append(chain[p], claim[p]),
             claim[p] \in Block, parent[claim[p]] = Tip(p),
             claim[p] \in Elements(queue[p]), chain'[m] = chain[m]
      PROVE  Same(p, m) /\ Same(m, p)
  <2> DEFINE L == Len(chain[p])
  <2>1. /\ p \in Node /\ m \in Node /\ L \in Nat /\ Len(chain[m]) \in Nat
        /\ Len(chain'[p]) = L + 1 /\ chain'[p][L + 1] = claim[p]
        /\ \A i \in 1..L : chain'[p][i] = chain[p][i]
    BY <1>1, <1>2 DEF Founders
  <2>2. ASSUME L + 1 <= Len(chain[m]) PROVE chain[m][L + 1] = claim[p]
    <3>1. /\ L + 1 \in 1..Len(chain[m])
          /\ L # 0 => L \in 1..Len(chain[p]) /\ L \in 1..Len(chain[m])
      BY <2>1, <2>2
    <3>2. parent[chain[m][L + 1]] = Tip(p)
      <4>1. CASE L = 0
        <5>1. chain[p] = <<>>
          BY <1>1, <2>1, <4>1
        <5> QED
          BY <2>1, <3>1, <4>1, <5>1 DEF Linked, Tip
      <4>2. CASE L # 0
        <5>1. Tip(p) = chain[p][L]
          BY <1>1, <2>1, <4>2 DEF Tip
        <5>2. chain[p][L] = chain[m][L]
          BY <1>2, <3>1, <4>2 DEF Agree
        <5>3. parent[chain[m][L + 1]] = chain[m][L]
          <6>1. L + 1 # 1 /\ (L + 1) - 1 = L
            BY <2>1, <4>2
          <6> QED
            BY <2>1, <3>1, <6>1 DEF Linked
        <5> QED
          BY <5>1, <5>2, <5>3
      <4> QED
        BY <4>1, <4>2
    <3>3. chain[m][L + 1] \in Blocks(m) /\ claim[p] \in Blocks(p)
      <4>1. claim[p] # Dropped
        BY <1>2, NetworkAssumption DEF Block, Dropped
      <4> QED
        BY <1>2, <3>1, <4>1 DEF Blocks, Got, Elements
    <3> QED
      BY <1>2, <3>2, <3>3 DEF NoSiblings
  <2>3. Same(p, m)
    <3> SUFFICES ASSUME NEW i \in 1..(L + 1), i <= Len(chain[m])
                 PROVE  chain'[p][i] = chain[m][i]
      BY <1>2, <2>1
    <3>1. CASE i = L + 1
      BY <2>1, <2>2, <3>1
    <3>2. CASE i \in 1..L
      BY <1>2, <2>1, <3>2 DEF Agree
    <3> QED
      BY <2>1, <3>1, <3>2
  <2>4. Same(m, p)
    <3> SUFFICES ASSUME NEW i \in 1..Len(chain[m]), i <= L + 1
                 PROVE  chain[m][i] = chain'[p][i]
      BY <1>2, <2>1
    <3>1. i \in 1..Len(chain'[p]) /\ i <= Len(chain'[m])
      BY <1>2, <2>1
    <3> QED
      BY <1>2, <2>3, <3>1
  <2> QED
    BY <2>3, <2>4
<1> SUFFICES ASSUME NEW p \in Founders', NEW m \in Founders' PROVE Same(p, m)
  BY DEF Agree
<1>3. p \in Node /\ m \in Node
  BY DEF Founders
<1>4. CASE p = m
  BY <1>4
<1>5. CASE p # m
  <2>1. CASE chain'[p] = <<>>
    BY <2>1
  <2>2. CASE chain'[m] = <<>>
    BY <2>2
  <2>3. CASE chain'[p] # <<>> /\ chain'[m] # <<>>
    <3>1. ~Start(p) /\ ~Start(m)
      BY <1>3, <2>3 DEF Start, TypeOK
    <3>2. p \in Founders /\ m \in Founders
      BY <3>1, FounderBefore
    <3>3. CASE chain'[p] = chain[p] /\ chain'[m] = chain[m]
      BY <3>2, <3>3 DEF Agree
    <3> QED
      BY <1>2, <1>3, <1>5, <3>1, <3>2, <3>3, ChainChange
  <2> QED
    BY <2>1, <2>2, <2>3
<1> QED
  BY <1>4, <1>5

LEMMA FounderInvHolds ==
  ASSUME ~Lossy, Timely
  PROVE  Spec => []FounderInv
<1>1. Init => FounderInv
  <2> SUFFICES ASSUME Init PROVE FounderInv
    OBVIOUS
  <2>1. NoMutualPass /\ Held
    BY DEF Init, NoMutualPass, Held, Passed, Live
  <2>2. \A p \in Node : /\ chain[p] = <<>> /\ queue[p] = <<>> /\ waiting[p] = {}
                       /\ Len(chain[p]) = 0
    BY DEF Init
  <2>3. NoSiblings /\ Agree
    BY <2>2 DEF NoSiblings, Agree, Blocks, Got, Elements, Founders
  <2> QED
    BY <2>1, <2>3, InitChainInv DEF FounderInv
<1>2. FounderInv /\ [Next]_vars => FounderInv'
  <2> SUFFICES ASSUME FounderInv, [Next]_vars PROVE FounderInv'
    OBVIOUS
  <2>1. NoMutualPass'
    BY NextNoMutualPass DEF FounderInv, ChainInv, PassInv
  <2> QED
    BY <2>1, NextChainInv, NextHeld, NextNoSiblings, NextAgree DEF FounderInv
<1> QED
  BY <1>1, <1>2, PTL DEF Spec

\* The chains of two founders never part, whoever stops and is started again.
THEOREM FoundersNeverFork ==
  ASSUME ~Lossy, Timely
  PROVE  Spec => []NoFork
<1>1. FounderInv => NoFork
  <2> SUFFICES ASSUME FounderInv, NEW n \in Founders, NEW m \in Founders
               PROVE  Prefix(chain[n], chain[m]) \/ Prefix(chain[m], chain[n])
    BY DEF NoFork
  <2>1. Len(chain[n]) \in Nat /\ Len(chain[m]) \in Nat
    BY DEF FounderInv, ChainInv, ClaimInv, TypeInv, TypeOK, Founders
  <2>2. /\ \A i \in 1..Len(chain[n]) : i <= Len(chain[m]) => chain[n][i] = chain[m][i]
        /\ \A i \in 1..Len(chain[m]) : i <= Len(chain[n]) => chain[m][i] = chain[n][i]
    BY DEF FounderInv, Agree
  <2> QED
    BY <2>1, <2>2 DEF Prefix
<1> QED
  BY <1>1, FounderInvHolds, PTL

\* The second round begins with StartPost.
LEMMA PostStarts ==
  ASSUME TypeOK, Next, NEW n \in Node, at[n] # "post", at'[n] = "post"
  PROVE  StartPost(n)
<1>0. at \in [Node -> MinerPlaces]
  BY DEF TypeOK
<1>1. ASSUME NEW x \in Node, MineBlock(x) \/ HealthCheck(x) PROVE FALSE
  <2>1. at' = [at EXCEPT ![x] = "health"] \/ at' = [at EXCEPT ![x] = "sign"]
    BY <1>1 DEF MineBlock, HealthCheck
  <2> QED
    BY <1>0, <2>1
<1>2. ASSUME NEW x \in Node, NEW y \in Node,
             \/ NoAnswer(x, y) \/ Sign(x, y) \/ RefuseToSign(x, y)
             \/ Accept(x, y) \/ Refuse(x, y)
      PROVE  FALSE
  BY <1>2 DEF NoAnswer, Sign, RefuseToSign, Accept, Refuse, minerVars
<1>3. ASSUME NEW x \in Node,
             SendMined(x) \/ GiveUpBlock(x) \/ Crash(x) \/ Start(x)
      PROVE  FALSE
  <2>1. at' = [at EXCEPT ![x] = "idle"]
    BY <1>3 DEF SendMined, GiveUpBlock, Crash, Start, Forget, ExchangeOver
  <2> QED
    BY <1>0, <2>1
<1>4. ASSUME NEW x \in Node, DropBatch(x) \/ Write(x) \/ Release(x) PROVE FALSE
  BY <1>4 DEF DropBatch, Write, Release, minerVars
<1>5. ASSUME NEW x \in Node, NEW b \in Block, Enqueue(x, b) \/ ClaimTimeout(x, b) PROVE FALSE
  BY <1>5 DEF Enqueue, ClaimTimeout, minerVars
<1>6. ASSUME NEW x \in Node, StartPost(x) PROVE StartPost(n)
  BY <1>6 DEF StartPost, TypeOK
<1> QED
  BY <1>1, <1>2, <1>3, <1>4, <1>5, <1>6 DEF Next, Exchange, Writer

\* Every node that ran when a block was mined has its previous block last and
\* keeps the claim for it when the block is sent out.
THEOREM BlocksAreSentOnSharedTip ==
  ASSUME ~Lossy, Timely
  PROVE  Spec => SentOnSharedTip
<1> DEFINE Step == \A n \in Node : at[n] = "sign" /\ at'[n] = "post" =>
                     \A p \in Live : since[p] < own[n] =>
                       Tip(p) = parent[own[n]] /\ claim[p] = own[n]
<1>1. FounderInv /\ [Next]_vars => [Step]_vars
  <2> SUFFICES ASSUME FounderInv, Next,
                      NEW n \in Node, at[n] = "sign", at'[n] = "post",
                      NEW p \in Live, since[p] < own[n]
               PROVE  Tip(p) = parent[own[n]] /\ claim[p] = own[n]
    BY DEF Step
  <2> USE DEF FounderInv, ChainInv, ClaimInv, TypeInv
  <2>1. StartPost(n)
    BY PostStarts
  <2>2. up[n] /\ Passed(n, p)
    BY <2>1 DEF StartPost, Passed
  <2>3. CASE p = n
    BY <2>2, <2>3 DEF OwnClaim, OneInHand, InHand, Live
  <2>4. CASE p # n
    <3>1. Holds(p, n)
      BY <2>2, <2>4 DEF Held, Live
    <3>2. own[n] \notin Elements(chain[p])
      BY <2>2 DEF NotYet, Got, Live
    <3> QED
      BY <3>1, <3>2 DEF Holds
  <2> QED
    BY <2>3, <2>4
<1>2. [Step]_vars => [\A n \in Node : at[n] = "sign" /\ at'[n] = "post" =>
                       \A p \in Live : since[p] < own[n] =>
                         Tip(p) = parent[own[n]] /\ claim[p] = own[n]]_vars
  OBVIOUS
<1> QED
  BY <1>1, FounderInvHolds, PTL DEF Spec, SentOnSharedTip

-----------------------------------------------------------------------------
\* What a step does to the founders and their chains.
LEMMA FoundersChange ==
  ASSUME TypeInv, [Next]_vars
  PROVE  \/ UNCHANGED <<up, since, chain>>
         \/ \E n \in Node : /\ UNCHANGED <<since, chain>>
                            /\ up' = [up EXCEPT ![n] = FALSE]
         \/ \E n \in Node : Start(n)
         \/ \E n \in Node : Write(n) /\ up' = up
<1>1. ASSUME NEW n \in Node, MineBlock(n) \/ Exchange(n) PROVE UNCHANGED <<up, since, chain>>
  BY <1>1 DEF MineBlock, Exchange, HealthCheck, StartPost, SendMined, GiveUpBlock, NoAnswer,
              Sign, RefuseToSign, Accept, Refuse, processVars, writerVars
<1>2. ASSUME NEW n \in Node,
             DropBatch(n) \/ \E b \in Block : Enqueue(n, b) \/ ClaimTimeout(n, b)
      PROVE  UNCHANGED <<up, since, chain>>
  BY <1>2 DEF DropBatch, Enqueue, ClaimTimeout, processVars, writerVars
<1>3. ASSUME NEW n \in Node, Release(n) \/ Crash(n)
      PROVE  /\ UNCHANGED <<since, chain>>
             /\ up' = up \/ up' = [up EXCEPT ![n] = FALSE]
  BY <1>3 DEF Release, Crash
<1>4. ASSUME NEW n \in Node, Write(n)
      PROVE  up' = up \/ (UNCHANGED <<since, chain>> /\ up' = [up EXCEPT ![n] = FALSE])
  BY <1>4 DEF Write
<1>5. CASE UNCHANGED vars
  BY <1>5 DEF vars, processVars, writerVars
<1> QED
  BY <1>1, <1>2, <1>3, <1>4, <1>5 DEF Next, Writer

\* Network implements SharedChain: the founders write one chain among them, in
\* which each block is entered once and copied from there.
THEOREM FoundersKeepOneChain ==
  ASSUME ~Lossy, Timely
  PROVE  Spec => KeepOneChain
<1>1. Init => Shared!Init
  <2> SUFFICES ASSUME Init PROVE Shared!Init
    OBVIOUS
  <2>1. Founders = Node
    BY DEF Init, Founders, IsFounder
  <2>2. FounderChain = [n \in Node |-> <<>>]
    BY DEF Init, FounderChain
  <2> QED
    BY <2>1, <2>2 DEF Shared!Init
<1>2. FounderInv /\ [Next]_vars => [Shared!Next]_(Shared!vars)
  <2> SUFFICES ASSUME FounderInv, [Next]_vars PROVE Shared!Next \/ UNCHANGED <<Founders, FounderChain>>
    BY DEF Shared!vars
  <2> USE DEF FounderInv, ChainInv, ClaimInv, TypeInv
  <2>1. CASE UNCHANGED <<up, since, chain>>
    BY <2>1 DEF Founders, FounderChain, IsFounder
  <2>2. ASSUME NEW n \in Node, UNCHANGED <<since, chain>>, up' = [up EXCEPT ![n] = FALSE]
        PROVE  Shared!Stop(n)
    <3>1. Founders' = Founders \ {n}
      BY <2>2 DEF Founders, IsFounder, TypeOK
    <3>2. FounderChain' = [FounderChain EXCEPT ![n] = <<>>]
      BY <2>2 DEF FounderChain, IsFounder, TypeOK
    <3> QED
      BY <3>1, <3>2 DEF Shared!Stop
  <2>3. ASSUME NEW n \in Node, Start(n) PROVE Shared!Join(n) \/ UNCHANGED <<Founders, FounderChain>>
    <3>1. /\ ~up[n] /\ up' = [up EXCEPT ![n] = TRUE] /\ since' = [since EXCEPT ![n] = mined]
          /\ chain' = [chain EXCEPT ![n] = <<>>]
      BY <2>3 DEF Start
    <3>2. FounderChain' = FounderChain
      BY <3>1 DEF FounderChain, IsFounder, TypeOK
    <3>3. CASE mined = 0
      <4>1. Founders' = Founders \cup {n}
        BY <3>1, <3>3 DEF Founders, IsFounder, TypeOK
      <4>2. \A m \in Founders : FounderChain[m] = <<>>
        <5> SUFFICES ASSUME NEW m \in Founders PROVE chain[m] = <<>>
          BY DEF FounderChain, Founders
        <5>1. m \in Node
          BY DEF Founders
        <5>2. Tip(m) = NoBlock
          BY <3>3, <5>1, TipFacts DEF Block, NoBlock
        <5> QED
          BY <5>1, <5>2, TipFacts
      <4> QED
        BY <3>2, <4>1, <4>2 DEF Shared!Join
    <3>4. CASE mined # 0
      BY <3>1, <3>2, <3>4 DEF Founders, IsFounder, TypeOK
    <3> QED
      BY <3>3, <3>4
  <2>4. ASSUME NEW n \in Node, Write(n), up' = up
        PROVE  Shared!Next \/ UNCHANGED <<Founders, FounderChain>>
    <3>1. since' = since /\ Founders' = Founders /\ ~Start(n)
      BY <2>4 DEF Write, Founders, IsFounder, Start
    <3>2. \A m \in Node : m # n => chain'[m] = chain[m]
      BY <2>4 DEF Write, TypeOK
    <3>3. CASE ~(n \in Founders /\ chain'[n] = Append(chain[n], claim[n]))
      <4>1. n \in Founders => chain'[n] = chain[n]
        BY <3>1, <3>3, ChainChange
      <4> QED
        BY <2>4, <3>1, <3>2, <4>1 DEF FounderChain, IsFounder, Founders
    <3>4. CASE n \in Founders /\ chain'[n] = Append(chain[n], claim[n])
      <4> DEFINE b == claim[n]
                 L == Len(chain[n])
      <4>1. FounderChain' = [FounderChain EXCEPT ![n] = Append(chain[n], b)]
        BY <2>4, <3>1, <3>2, <3>4 DEF FounderChain, IsFounder, Founders
      <4>2. \A m \in Founders : m \in Node /\ FounderChain[m] = chain[m] /\ chain[m] \in Seq(Block)
        BY DEF FounderChain, Founders, TypeOK
      <4>3. b \in Block /\ parent[b] = Tip(n)
        <5>1. chain'[n] # chain[n]
          BY <3>4, <4>2
        <5>2. chain'[n] # <<>>
          BY <3>4, <4>2
        <5> QED
          BY <3>1, <5>1, <5>2, ChainChange
      <4>4. L \in Nat /\ \A m \in Founders : Len(chain[m]) \in Nat
        BY <3>4, <4>2
      <4>5. ASSUME NEW m \in Founders, Len(chain[n]) < Len(chain[m]) PROVE Shared!Copy(n, m)
        <5>1. m # n
          BY <4>4, <4>5
        <5>2. b = chain[m][L + 1]
          <6>1. /\ chain'[m] = chain[m] /\ chain'[n][L + 1] = b /\ Len(chain'[n]) = L + 1
            BY <3>2, <3>4, <4>2, <4>3, <5>1
          <6>2. L + 1 \in 1..Len(chain'[n]) /\ L + 1 <= Len(chain'[m])
            BY <4>4, <4>5, <6>1
          <6>3. chain'[n][L + 1] = chain'[m][L + 1]
            BY <3>1, <3>4, <6>2, NextAgree DEF Agree
          <6> QED
            BY <6>1, <6>3
        <5>3. \A i \in 1..Len(chain[n]) : chain[n][i] = chain[m][i]
          BY <3>4, <4>4, <4>5 DEF Agree
        <5> QED
          BY <3>1, <3>4, <4>1, <4>2, <4>5, <5>2, <5>3 DEF Shared!Copy
      <4>6. ASSUME \A m \in Founders : ~(Len(chain[n]) < Len(chain[m])) PROVE Shared!Extend(n, b)
        <5> SUFFICES ASSUME NEW m \in Founders
                     PROVE  /\ Len(chain[m]) <= Len(chain[n])
                            /\ \A i \in 1..Len(chain[m]) :
                                 chain[m][i] = chain[n][i] /\ chain[m][i] # b
          BY ZenonT(30), <3>1, <3>4, <4>1, <4>2 DEF Shared!Extend
        <5>1. Len(chain[m]) <= Len(chain[n])
          BY <3>4, <4>4, <4>6
        <5>2. ASSUME NEW i \in 1..Len(chain[m])
              PROVE  chain[m][i] = chain[n][i] /\ chain[m][i] # b
          <6>1. i \in 1..Len(chain[n]) /\ chain[m][i] = chain[n][i]
            BY <3>4, <4>4, <5>1, <5>2 DEF Agree
          <6>2. chain[n][i] <= Tip(n) /\ chain[n][i] \in Block
            BY <4>2, <3>4, <6>1 DEF Linked
          <6>3. Tip(n) < b /\ Tip(n) \in Nat
            BY <3>4, <4>2, <4>3, TipFacts DEF Older, Block, NoBlock
          <6> QED
            BY <4>3, <6>1, <6>2, <6>3 DEF Block
        <5> QED
          BY <5>1, <5>2
      <4>7. FounderChain'[n] # FounderChain[n]
        BY <3>4, <4>1, <4>2 DEF FounderChain
      <4>8. Shared!Grow(n)
        BY <3>4, <4>2, <4>3, <4>5, <4>6, <4>7 DEF Shared!Grow
      <4> QED
        BY <4>8 DEF Shared!Next
    <3> QED
      BY <3>3, <3>4
  <2> QED
    BY <2>1, <2>2, <2>3, <2>4, FoundersChange DEF Shared!Next
<1> QED
  BY <1>1, <1>2, FounderInvHolds, PTL DEF Spec, KeepOneChain, Shared!Spec

\* What SharedChain says without a word about forks: chains that grow only at
\* the end of the longest one, or by copying, agree where both have a block.
OneChain ==
  /\ FounderChain \in [Node -> Seq(Block)]
  /\ \A n \in Node \ Founders : FounderChain[n] = <<>>
  /\ \A n, m \in Node : \A i \in 1..Len(FounderChain[n]) :
       i <= Len(FounderChain[m]) => FounderChain[n][i] = FounderChain[m][i]

LEMMA GrowKeepsOneChain ==
  ASSUME OneChain, NEW n \in Node, Shared!Grow(n)
  PROVE  OneChain'
<1> DEFINE f == FounderChain
<1>1. /\ f \in [Node -> Seq(Block)] /\ Founders' = Founders
      /\ \A m \in Node \ Founders : f[m] = <<>>
      /\ \A m, k \in Node : \A i \in 1..Len(f[m]) : i <= Len(f[k]) => f[m][i] = f[k][i]
  BY DEF OneChain, Shared!Grow, Shared!Extend, Shared!Copy
<1>2. PICK b \in Block :
        /\ n \in Founders /\ f' = [f EXCEPT ![n] = Append(f[n], b)]
        /\ \A k \in Founders : Len(f[n]) + 1 <= Len(f[k]) => f[k][Len(f[n]) + 1] = b
  <2>1. ASSUME NEW b \in Block, Shared!Extend(n, b)
        PROVE  /\ n \in Founders /\ f' = [f EXCEPT ![n] = Append(f[n], b)]
               /\ \A k \in Founders : ~(Len(f[n]) + 1 <= Len(f[k]))
    <3>1. /\ n \in Founders /\ f' = [f EXCEPT ![n] = Append(@, b)]
          /\ \A k \in Founders : Len(f[k]) <= Len(f[n])
      BY <2>1 DEF Shared!Extend
    <3>2. \A k \in Founders : Len(f[k]) \in Nat
      BY <1>1 DEF Founders
    <3> QED
      BY <3>1, <3>2
  <2>2. ASSUME NEW m \in Node, Shared!Copy(n, m)
        PROVE  \E b \in Block :
                 /\ n \in Founders /\ f' = [f EXCEPT ![n] = Append(f[n], b)]
                 /\ \A k \in Founders : Len(f[n]) + 1 <= Len(f[k]) => f[k][Len(f[n]) + 1] = b
    <3>1. /\ n \in Founders /\ m \in Founders /\ Len(f[n]) < Len(f[m])
          /\ f' = [f EXCEPT ![n] = Append(f[n], f[m][Len(f[n]) + 1])]
      BY <2>2 DEF Shared!Copy
    <3>2. f[n] \in Seq(Block) /\ f[m] \in Seq(Block)
      BY <1>1
    <3>3. Len(f[n]) + 1 \in 1..Len(f[m]) /\ f[m][Len(f[n]) + 1] \in Block
      BY <3>1, <3>2
    <3>4. \A k \in Founders :
            Len(f[n]) + 1 <= Len(f[k]) => f[k][Len(f[n]) + 1] = f[m][Len(f[n]) + 1]
      BY <1>1, <3>1, <3>3 DEF Founders
    <3> QED
      BY <3>1, <3>3, <3>4
  <2> QED
    BY <2>1, <2>2 DEF Shared!Grow
<1> HIDE DEF f
<1>3. /\ Founders' = Founders /\ n \in Founders /\ Len(f[n]) \in Nat
      /\ f' \in [Node -> Seq(Block)]
      /\ \A m \in Node : m # n => f'[m] = f[m]
      /\ Len(f'[n]) = Len(f[n]) + 1 /\ f'[n][Len(f[n]) + 1] = b
      /\ \A i \in 1..Len(f[n]) : f'[n][i] = f[n][i]
  BY <1>1, <1>2
<1>4. ASSUME NEW m \in Node, m # n, NEW i \in Nat \ {0}, i <= Len(f'[n]), i <= Len(f'[m])
      PROVE  f'[n][i] = f'[m][i]
  <2>1. f'[m] = f[m] /\ Len(f[m]) \in Nat
    BY <1>1, <1>3, <1>4
  <2>2. CASE i = Len(f[n]) + 1
    <3>1. m \in Founders
      BY <1>1, <1>4, <2>1
    <3> QED
      BY <1>2, <1>3, <1>4, <2>1, <2>2, <3>1
  <2>3. CASE i # Len(f[n]) + 1
    <3>1. i \in 1..Len(f[n]) /\ i <= Len(f[m])
      BY <1>3, <1>4, <2>1, <2>3
    <3> QED
      BY <1>1, <1>3, <2>1, <3>1
  <2> QED
    BY <2>2, <2>3
<1>5. ASSUME NEW m \in Node, NEW k \in Node, NEW i \in 1..Len(f'[m]), i <= Len(f'[k])
      PROVE  f'[m][i] = f'[k][i]
  <2>0. i \in Nat \ {0} /\ i <= Len(f'[m]) /\ i <= Len(f'[k])
    BY <1>3, <1>5
  <2>1. CASE m = n \/ k = n
    BY <1>4, <2>0, <2>1
  <2>2. CASE m # n /\ k # n
    BY <1>1, <1>3, <1>5, <2>2
  <2> QED
    BY <2>1, <2>2
<1>6. \A m \in Node \ Founders' : f'[m] = <<>>
  BY <1>1, <1>3
<1> QED
  BY <1>3, <1>5, <1>6 DEF OneChain, f

\* The abstract specification is strong enough: whoever keeps one chain in the
\* sense of SharedChain has no fork, for any number of nodes and blocks.
THEOREM OneChainHasNoFork == KeepOneChain => []NoFork
<1> USE DEF OneChain
<1>1. Shared!Init => OneChain
  <2> SUFFICES ASSUME Shared!Init PROVE OneChain
    OBVIOUS
  <2>1. FounderChain = [n \in Node |-> <<>>]
    BY DEF Shared!Init
  <2>2. \A n \in Node : FounderChain[n] = <<>> /\ Len(FounderChain[n]) = 0
    BY <2>1
  <2> QED
    BY <2>1, <2>2
<1>2. OneChain /\ [Shared!Next]_(Shared!vars) => OneChain'
  <2> SUFFICES ASSUME OneChain, [Shared!Next]_(Shared!vars) PROVE OneChain'
    OBVIOUS
  <2>1. CASE UNCHANGED Shared!vars
    BY <2>1 DEF Shared!vars
  <2>2. ASSUME NEW n \in Node, Shared!Grow(n) PROVE OneChain'
    BY <2>2, GrowKeepsOneChain
  <2>3. ASSUME NEW n \in Node, Shared!Stop(n) PROVE OneChain'
    <3>1. Founders' = Founders \ {n} /\ FounderChain' = [FounderChain EXCEPT ![n] = <<>>]
      BY <2>3 DEF Shared!Stop
    <3>2. \A m \in Node : FounderChain'[m] = FounderChain[m] \/ FounderChain'[m] = <<>>
      BY <3>1
    <3> QED
      BY <3>1, <3>2
  <2>4. ASSUME NEW n \in Node, Shared!Join(n) PROVE OneChain'
    BY <2>4 DEF Shared!Join
  <2> QED
    BY <2>1, <2>2, <2>3, <2>4 DEF Shared!Next
<1>3. OneChain => NoFork
  <2> SUFFICES ASSUME OneChain, NEW n \in Founders, NEW m \in Founders
               PROVE  Prefix(chain[n], chain[m]) \/ Prefix(chain[m], chain[n])
    BY DEF NoFork
  <2>1. /\ n \in Node /\ m \in Node
        /\ FounderChain[n] = chain[n] /\ FounderChain[m] = chain[m]
    BY DEF Founders, FounderChain
  <2>2. Len(chain[n]) \in Nat /\ Len(chain[m]) \in Nat
    BY <2>1
  <2> QED
    BY <2>1, <2>2 DEF Prefix
<1> HIDE DEF OneChain
<1> QED
  BY <1>1, <1>2, <1>3, PTL DEF KeepOneChain, Shared!Spec

-----------------------------------------------------------------------------
\* A node asks every other one that ran when its block was mined, and whoever
\* it has sent the block to has it.
Listed ==
  \A n, p \in Live :
    at[n] \in {"sign", "post"} /\ p # n /\ since[p] < own[n] => p \in active[n]
Sent ==
  \A n, p \in Live :
    at[n] = "post" /\ p # n /\ since[p] < own[n] /\ p \notin todo[n] => own[n] \in Got(p)

\* OwnBlockIsEverywhere, from the moment the block is with the writer.
Everywhere ==
  \A n, p \in Live : \A b \in Got(n) :
    origin[b] = n /\ since[p] < b => b \in Got(p)

SpreadInv == ChainInv /\ NoMutualPass /\ Held /\ Listed /\ Sent /\ Everywhere

\* What a process has of the chain it keeps.
LEMMA GotStays ==
  ASSUME TypeInv, [Next]_vars, NEW p \in Node, up[p], up'[p], NEW x \in Got(p)
  PROVE  x \in Got(p)'
<1> USE DEF TypeInv
<1>1. chain[p] \in Seq(Block) /\ queue[p] \in Seq(Block \cup {Dropped})
  BY DEF TypeOK
<1>2. CASE chain'[p] = chain[p] /\ queue'[p] = queue[p]
  BY <1>2 DEF Got
<1>3. ASSUME NEW b \in Block \cup {Dropped}, queue'[p] = Append(queue[p], b),
             chain'[p] = chain[p]
      PROVE  x \in Got(p)'
  <2>1. Elements(queue'[p]) = Elements(queue[p]) \cup {b}
    BY <1>3, OneMore
  <2>2. Got(p)' = Elements(chain'[p]) \cup (Elements(queue'[p]) \ {Dropped})
    BY DEF Got, Elements
  <2> QED
    BY <1>3, <2>1, <2>2 DEF Got
<1>4. ASSUME NEW k \in Node, NEW b \in Block \cup {Dropped},
             queue' = [queue EXCEPT ![k] = Append(@, b)], chain' = chain
      PROVE  x \in Got(p)'
  <2>1. k # p => queue'[p] = queue[p]
    BY <1>4 DEF TypeOK
  <2>2. k = p => queue'[p] = Append(queue[p], b)
    BY <1>4 DEF TypeOK
  <2> QED
    BY <1>2, <1>3, <1>4, <2>1, <2>2
<1>5. ASSUME NEW k \in Node, Write(k) PROVE x \in Got(p)'
  <2>1. CASE k # p
    BY <1>2, <1>5, <2>1 DEF Write, TypeOK
  <2>2. CASE k = p
    <3>1. /\ queue[p] # <<>> /\ queue'[p] = Tail(queue[p])
          /\ \/ Head(queue[p]) = Dropped /\ chain'[p] = chain[p]
             \/ chain'[p] = Append(chain[p], Head(queue[p]))
      <4>1. up' # [up EXCEPT ![p] = FALSE]
        BY DEF TypeOK
      <4> QED
        BY <1>5, <2>2, <4>1 DEF Write, TypeOK
    <3>2. /\ Elements(queue[p]) = Elements(queue'[p]) \cup {Head(queue[p])}
          /\ Head(queue[p]) \in Block \cup {Dropped}
      <4>1. 1 \in 1..Len(queue[p]) /\ Head(queue[p]) = queue[p][1]
        BY <3>1, OneLess
      <4>2. queue[p][1] \in Block \cup {Dropped}
        BY <1>1, <4>1
      <4>3. Elements(queue[p]) = Elements(queue'[p]) \cup {Head(queue[p])}
        BY <3>1, OneLess
      <4> QED
        BY <4>1, <4>2, <4>3
    <3>3. CASE Head(queue[p]) = Dropped /\ chain'[p] = chain[p]
      BY <3>2, <3>3 DEF Got
    <3>4. CASE chain'[p] = Append(chain[p], Head(queue[p]))
      <4>1. Elements(chain'[p]) = Elements(chain[p]) \cup {Head(queue[p])}
        <5>1. /\ Len(chain'[p]) = Len(chain[p]) + 1 /\ Len(chain[p]) \in Nat
              /\ chain'[p][Len(chain[p]) + 1] = Head(queue[p])
              /\ \A i \in 1..Len(chain[p]) : chain'[p][i] = chain[p][i]
          <6>1. chain[p] \in Seq(Block \cup {Dropped})
            BY <1>1
          <6> QED
            BY <3>2, <3>4, <6>1
        <5> QED
          BY SMTT(30), <5>1 DEF Elements
      <4> QED
        BY <3>2, <4>1 DEF Got
    <3> QED
      BY <3>1, <3>3, <3>4
  <2> QED
    BY <2>1, <2>2
<1>6. ASSUME NEW k \in Node, Crash(k) \/ Start(k) PROVE x \in Got(p)'
  <2>1. k # p
    BY <1>6 DEF Crash, Start, TypeOK
  <2>2. /\ queue' = [queue EXCEPT ![k] = <<>>]
        /\ chain' = chain \/ chain' = [chain EXCEPT ![k] = <<>>]
    BY <1>6 DEF Crash, Start, Forget
  <2> QED
    BY <1>2, <2>1, <2>2 DEF TypeOK
<1>7. ASSUME NEW k \in Node,
             \/ MineBlock(k) \/ Release(k) \/ HealthCheck(k) \/ StartPost(k) \/ GiveUpBlock(k)
             \/ \E q \in Node : \/ NoAnswer(k, q) \/ Sign(k, q) \/ RefuseToSign(k, q)
                               \/ Accept(k, q) \/ Refuse(k, q)
             \/ \E b \in Block : ClaimTimeout(k, b)
      PROVE  UNCHANGED <<chain, queue>>
  BY <1>7 DEF MineBlock, Release, HealthCheck, StartPost, GiveUpBlock, NoAnswer, Sign,
              RefuseToSign, Accept, Refuse, ClaimTimeout, writerVars
<1>8. CASE UNCHANGED vars
  BY <1>2, <1>8 DEF vars, writerVars
<1>9. ASSUME NEW k \in Node, NEW b \in Block, Enqueue(k, b) PROVE x \in Got(p)'
  BY <1>4, <1>9 DEF Enqueue
<1>10. ASSUME NEW k \in Node, SendMined(k) PROVE x \in Got(p)'
  <2>1. own[k] \in Block
    BY <1>10 DEF SendMined, Distributed
  <2> QED
    BY <1>4, <1>10, <2>1 DEF SendMined
<1>11. ASSUME NEW k \in Node, DropBatch(k) PROVE x \in Got(p)'
  BY <1>4, <1>11 DEF DropBatch
<1> QED
  BY <1>2, <1>5, <1>6, <1>7, <1>8, <1>9, <1>10, <1>11 DEF Next, Exchange, Writer

\* The list of an exchange is made by its health check.
LEMMA ActiveStays ==
  ASSUME TypeInv, [Next]_vars, NEW n \in Node, at'[n] \in {"sign", "post"}, ~HealthCheck(n)
  PROVE  at[n] \in {"sign", "post"} /\ active'[n] = active[n]
<1> USE DEF TypeInv, TypeOK
<1>1. CASE UNCHANGED vars
  BY <1>1 DEF vars, minerVars, exchangeVars
<1>2. ASSUME NEW x \in Node, MineBlock(x) \/ HealthCheck(x)
      PROVE  at[n] \in {"sign", "post"} /\ active'[n] = active[n]
  BY <1>2 DEF MineBlock, HealthCheck, exchangeVars
<1>3. ASSUME NEW x \in Node, StartPost(x)
      PROVE  at[n] \in {"sign", "post"} /\ active'[n] = active[n]
  BY <1>3 DEF StartPost
<1>4. ASSUME NEW x \in Node, SendMined(x) \/ GiveUpBlock(x) \/ Crash(x) \/ Start(x)
      PROVE  at[n] \in {"sign", "post"} /\ active'[n] = active[n]
  <2>1. ExchangeOver(x)
    BY <1>4 DEF SendMined, GiveUpBlock, Crash, Start, Forget
  <2>2. n # x
    BY <2>1 DEF ExchangeOver
  <2> QED
    BY <2>1, <2>2 DEF ExchangeOver
<1>5. ASSUME NEW x \in Node, NEW y \in Node,
             \/ NoAnswer(x, y) \/ Sign(x, y) \/ RefuseToSign(x, y)
             \/ Accept(x, y) \/ Refuse(x, y)
      PROVE  UNCHANGED <<at, active>>
  BY <1>5 DEF NoAnswer, Sign, RefuseToSign, Accept, Refuse, minerVars, exchangeVars
<1>6. ASSUME NEW x \in Node, DropBatch(x) \/ Writer(x) PROVE UNCHANGED <<at, active>>
  BY <1>6 DEF DropBatch, Writer, Write, Release, minerVars, exchangeVars
<1>7. ASSUME NEW x \in Node, NEW b \in Block, Enqueue(x, b) \/ ClaimTimeout(x, b)
      PROVE  UNCHANGED <<at, active>>
  BY <1>7 DEF Enqueue, ClaimTimeout, minerVars, exchangeVars
<1> QED
  BY <1>1, <1>2, <1>3, <1>4, <1>5, <1>6, <1>7 DEF Next, Exchange

\* A process that ran when a block was mined ran before this step too.
LEMMA OlderProcess ==
  ASSUME TypeInv, [Next]_vars, NEW p \in Node, up'[p], NEW b \in Block, b <= mined, since'[p] < b
  PROVE  up[p] /\ since[p] = since'[p]
<1>1. ~Start(p)
  <2>1. Start(p) => since'[p] = mined
    BY DEF Start, TypeInv, TypeOK
  <2>2. b \in Nat /\ mined \in Nat
    BY DEF TypeInv, TypeOK, Block
  <2> QED
    BY <2>1, <2>2
<1> QED
  BY <1>1, RanBefore

LEMMA NextListed ==
  ASSUME ChainInv, Listed, [Next]_vars
  PROVE  Listed'
<1> SUFFICES ASSUME NEW n \in Node, NEW p \in Node, up'[n], up'[p],
                    at'[n] \in {"sign", "post"}, p # n, since'[p] < own'[n]
             PROVE  p \in active'[n]
  BY DEF Listed, Live
<1> USE DEF ChainInv, ClaimInv, TypeInv
<1>1. CASE HealthCheck(n)
  BY <1>1 DEF HealthCheck, Others, Live, TypeOK, processVars
<1>2. CASE ~HealthCheck(n)
  <2>1. up[n] /\ at[n] # "idle" /\ own'[n] = own[n] /\ own[n] \in Block /\ own[n] <= mined
    BY OwnChange DEF KnownBlocks
  <2>2. up[p] /\ since[p] < own[n]
    BY <2>1, OlderProcess
  <2>3. at[n] \in {"sign", "post"} /\ active'[n] = active[n]
    BY <1>2, ActiveStays
  <2> QED
    BY <2>1, <2>2, <2>3 DEF Listed, Live
<1> QED
  BY <1>1, <1>2

LEMMA NextSent ==
  ASSUME ~Lossy, SpreadInv, [Next]_vars
  PROVE  Sent'
<1> SUFFICES ASSUME NEW n \in Node, NEW p \in Node, up'[n], up'[p],
                    at'[n] = "post", p # n, since'[p] < own'[n], p \notin todo'[n]
             PROVE  own'[n] \in Got(p)'
  BY DEF Sent, Live
<1> USE DEF SpreadInv, ChainInv, ClaimInv, TypeInv
<1>1. up[n] /\ at[n] # "idle" /\ own'[n] = own[n] /\ own[n] \in Block /\ own[n] <= mined
  BY OwnChange DEF KnownBlocks
<1>2. up[p] /\ since[p] < own[n]
  BY <1>1, OlderProcess
<1>3. CASE at[n] # "post"
  <2>1. StartPost(n)
    <3>1. ~UNCHANGED vars
      BY <1>3 DEF vars, minerVars
    <3> QED
      BY <1>3, <3>1, PostStarts
  <2>2. at[n] = "sign" /\ todo'[n] = active[n]
    BY <2>1 DEF StartPost, PostTo, TypeOK
  <2> QED
    BY <1>1, <1>2, <2>2 DEF Listed, Live
<1>4. CASE at[n] = "post" /\ p \notin todo[n]
  <2>1. own[n] \in Got(p)
    BY <1>1, <1>2, <1>4 DEF Sent, Live
  <2> QED
    BY <1>1, <1>2, <2>1, GotStays
<1>5. CASE at[n] = "post" /\ p \in todo[n]
  <2>1. CanAccept(p, own[n])
    <3>1. Holds(p, n)
      BY <1>1, <1>2, <1>5 DEF Held, Live, Passed
    <3>2. own[n] \notin Elements(chain[p])
      BY <1>1, <1>2, <1>5 DEF NotYet, Got, Live
    <3> QED
      BY <3>1, <3>2 DEF Holds, CanAccept
  <2>2. CASE UNCHANGED vars
    BY <1>5, <2>2 DEF vars, exchangeVars
  <2>3. ASSUME NEW x \in Node, MineBlock(x) \/ DropBatch(x) \/ Writer(x) PROVE FALSE
    BY <1>5, <2>3 DEF MineBlock, DropBatch, Writer, Write, Release, exchangeVars
  <2>4. ASSUME NEW x \in Node, HealthCheck(x) \/ StartPost(x) PROVE FALSE
    <3>1. /\ x # n
          /\ \E S : todo' = [todo EXCEPT ![x] = S]
      BY <1>5, <2>4 DEF HealthCheck, StartPost
    <3> QED
      BY <1>5, <3>1 DEF TypeOK
  <2>5. ASSUME NEW x \in Node, SendMined(x) \/ GiveUpBlock(x) \/ Crash(x) \/ Start(x)
        PROVE  FALSE
    <3>1. ExchangeOver(x) /\ (todo' = todo \/ todo' = [todo EXCEPT ![x] = {}])
      BY <2>5 DEF SendMined, GiveUpBlock, Crash, Start, Forget
    <3>2. x # n
      BY <3>1 DEF ExchangeOver, TypeOK
    <3> QED
      BY <1>5, <3>1, <3>2 DEF TypeOK
  <2>6. ASSUME NEW x \in Node, NEW b \in Block, ClaimTimeout(x, b) PROVE FALSE
    BY <1>5, <2>6 DEF ClaimTimeout, exchangeVars
  <2>7. ASSUME NEW x \in Node, NEW y \in Node,
               NoAnswer(x, y) \/ Sign(x, y) \/ RefuseToSign(x, y) \/ Refuse(x, y)
        PROVE  FALSE
    <3>1. todo' = [todo EXCEPT ![x] = todo[x] \ {y}]
      BY <2>7 DEF NoAnswer, Sign, RefuseToSign, Refuse
    <3>2. x = n /\ y = p
      BY <1>5, <3>1 DEF TypeOK
    <3>3. ~NoAnswer(n, p)
      BY <1>2 DEF NoAnswer
    <3>4. ~Sign(n, p) /\ ~RefuseToSign(n, p)
      BY <1>5 DEF Sign, RefuseToSign, Asking
    <3>5. ~Refuse(n, p)
      BY <2>1 DEF Refuse
    <3> QED
      BY <2>7, <3>2, <3>3, <3>4, <3>5
  <2>8. ASSUME NEW x \in Node, NEW y \in Node, Accept(x, y) PROVE FALSE
    BY <1>5, <2>8 DEF Accept, exchangeVars
  <2>9. ASSUME NEW x \in Node, NEW b \in Block, Enqueue(x, b)
        PROVE  own'[n] \in Got(p)'
    <3>1. Asking(n, x, "post") /\ own[n] = b /\ x = p
      BY <1>5, <2>9 DEF Enqueue
    <3>2. queue'[p] = Append(queue[p], own[n]) /\ own[n] # Dropped
      BY <1>1, <2>9, <3>1, NetworkAssumption DEF Enqueue, TypeOK, Block, Dropped
    <3>3. Elements(queue'[p]) = Elements(queue[p]) \cup {own[n]}
      BY <1>1, <3>2, OneMore
    <3>4. Got(p)' = Elements(chain'[p]) \cup (Elements(queue'[p]) \ {Dropped})
      BY DEF Got, Elements
    <3> QED
      BY <1>1, <3>2, <3>3, <3>4
  <2> QED
    BY <2>2, <2>3, <2>4, <2>5, <2>6, <2>7, <2>8, <2>9 DEF Next, Exchange
<1> QED
  BY <1>3, <1>4, <1>5

LEMMA NextEverywhere ==
  ASSUME SpreadInv, [Next]_vars
  PROVE  Everywhere'
<1> SUFFICES ASSUME NEW n \in Node, NEW p \in Node, up'[n], up'[p],
                    NEW b \in Got(n)', origin'[b] = n, since'[p] < b
             PROVE  b \in Got(p)'
  BY DEF Everywhere, Live
<1> USE DEF SpreadInv, ChainInv, ClaimInv, TypeInv
<1>1. ASSUME up[n], b \in Got(n) PROVE b \in Got(p)'
  <2>1. b \in Block /\ b <= mined /\ origin[b] = n
    BY <1>1, BlocksAreMined, ParentStays DEF Blocks
  <2>2. up[p] /\ since[p] < b
    BY <2>1, OlderProcess
  <2>3. b \in Got(p)
    BY <1>1, <2>1, <2>2 DEF Everywhere, Live
  <2> QED
    BY <2>2, <2>3, GotStays
<1>2. ASSUME Enqueue(n, b), b \in waiting[n] PROVE FALSE
  <2>1. b \in Block /\ b <= mined /\ origin[b] # n
    BY <1>2 DEF KnownBlocks, Foreign, TypeOK
  <2> QED
    BY <2>1, ParentStays
<1>3. ASSUME SendMined(n), b = own[n] PROVE b \in Got(p)'
  <2>1. /\ up[n] /\ at[n] = "post" /\ todo[n] = {}
        /\ own[n] \in Block /\ own[n] <= mined
    BY <1>3 DEF SendMined, Distributed, KnownBlocks
  <2>2. up[p] /\ since[p] < b
    BY <1>3, <2>1, OlderProcess
  <2>3. CASE p # n
    <3>1. b \in Got(p)
      BY <1>3, <2>1, <2>2, <2>3 DEF Sent, Live
    <3> QED
      BY <2>2, <3>1, GotStays
  <2> QED
    BY <2>3
<1> QED
  BY <1>1, <1>2, <1>3, GotChange

LEMMA SpreadInvHolds ==
  ASSUME ~Lossy, Timely
  PROVE  Spec => []SpreadInv
<1>1. Init => SpreadInv
  <2> SUFFICES ASSUME Init PROVE SpreadInv
    OBVIOUS
  <2>1. NoMutualPass /\ Held /\ Listed /\ Sent
    BY DEF Init, NoMutualPass, Held, Listed, Sent, Passed, Live
  <2>2. \A p \in Node : chain[p] = <<>> /\ queue[p] = <<>> /\ Len(chain[p]) = 0
    BY DEF Init
  <2>3. Everywhere
    BY <2>2 DEF Everywhere, Got, Elements, Live
  <2> QED
    BY <2>1, <2>3, InitChainInv DEF SpreadInv
<1>2. SpreadInv /\ [Next]_vars => SpreadInv'
  <2> SUFFICES ASSUME SpreadInv, [Next]_vars PROVE SpreadInv'
    OBVIOUS
  <2>1. NoMutualPass'
    BY NextNoMutualPass DEF SpreadInv, ChainInv, PassInv
  <2>2. ChainInv' /\ Held' /\ Listed'
    BY NextChainInv, NextHeld, NextListed DEF SpreadInv
  <2> QED
    BY <2>1, <2>2, NextSent, NextEverywhere DEF SpreadInv
<1> QED
  BY <1>1, <1>2, PTL DEF Spec

\* Whatever a node has written of its own, every running node that ran when the
\* block was mined has.
THEOREM OwnBlocksAreEverywhere ==
  ASSUME ~Lossy, Timely
  PROVE  Spec => []OwnBlockIsEverywhere
<1>1. SpreadInv => OwnBlockIsEverywhere
  <2> SUFFICES ASSUME SpreadInv, NEW n \in Live, NEW p \in Live, NEW i \in 1..Len(chain[n]),
                      origin[chain[n][i]] = n, since[p] < chain[n][i]
               PROVE  Has(p, chain[n][i])
    BY DEF OwnBlockIsEverywhere
  <2>1. chain[n][i] \in Got(n)
    BY DEF Got, Elements
  <2> QED
    BY <2>1 DEF SpreadInv, Everywhere, Has, Got
<1> QED
  BY <1>1, SpreadInvHolds, PTL

-----------------------------------------------------------------------------
\* How the sending of a block ends.
LEMMA PostStays ==
  ASSUME ~Lossy, TypeInv, [Next]_vars, NEW n \in Node, at[n] = "post"
  PROVE  \/ SendMined(n) \/ GiveUpBlock(n) \/ Crash(n) \/ Start(n)
         \/ /\ at'[n] = "post" /\ own'[n] = own[n]
            /\ rejected'[n] = rejected[n] \/ \E p \in Node : NoAnswer(n, p)
<1> DEFINE Stays == at'[n] = "post" /\ own'[n] = own[n] /\ rejected'[n] = rejected[n]
           Missed == at'[n] = "post" /\ own'[n] = own[n] /\ \E p \in Node : NoAnswer(n, p)
           Ends == SendMined(n) \/ GiveUpBlock(n) \/ Crash(n) \/ Start(n)
<1> USE DEF TypeInv
<1>1. UNCHANGED vars => Stays
  BY DEF vars, minerVars, exchangeVars
<1>2. ASSUME NEW x \in Node, MineBlock(x) PROVE Stays
  BY <1>2 DEF MineBlock, TypeOK, exchangeVars
<1>3. ASSUME NEW x \in Node, HealthCheck(x) \/ StartPost(x) PROVE Stays
  <2>1. /\ x # n /\ own' = own
        /\ \E place : at' = [at EXCEPT ![x] = place]
        /\ rejected' = [rejected EXCEPT ![x] = FALSE]
    BY <1>3 DEF HealthCheck, StartPost
  <2> QED
    BY ZenonT(30), <2>1 DEF TypeOK
<1>4. ASSUME NEW x \in Node, x # n, SendMined(x) \/ GiveUpBlock(x) \/ Crash(x) \/ Start(x)
      PROVE  Stays
  <2>1. ExchangeOver(x)
    BY <1>4 DEF SendMined, GiveUpBlock, Crash, Start, Forget
  <2> QED
    BY <1>4, <2>1 DEF ExchangeOver, TypeOK
<1>5. ASSUME NEW x \in Node, NEW p \in Node, NoAnswer(x, p)
      PROVE  Stays \/ Missed
  BY <1>5 DEF NoAnswer, TypeOK, minerVars
<1>6. ASSUME NEW x \in Node, NEW p \in Node, Sign(x, p) \/ RefuseToSign(x, p) PROVE Stays
  <2>1. x # n /\ UNCHANGED minerVars
    BY <1>6 DEF Sign, RefuseToSign, Asking
  <2>2. rejected' = rejected \/ rejected' = [rejected EXCEPT ![x] = TRUE]
    BY <1>6 DEF Sign, RefuseToSign
  <2> QED
    BY <2>1, <2>2 DEF TypeOK, minerVars
<1>7. ASSUME NEW x \in Node, NEW p \in Node, Accept(x, p) \/ Refuse(x, p) PROVE Stays
  BY <1>7 DEF Accept, Refuse, minerVars, exchangeVars
<1>8. ASSUME NEW x \in Node, DropBatch(x) \/ Writer(x) PROVE Stays
  BY <1>8 DEF DropBatch, Writer, Write, Release, minerVars, exchangeVars
<1>9. ASSUME NEW x \in Node, NEW b \in Block, Enqueue(x, b) \/ ClaimTimeout(x, b) PROVE Stays
  BY <1>9 DEF Enqueue, ClaimTimeout, minerVars, exchangeVars
<1>10. ASSUME NEW x \in Node, Exchange(x) PROVE Stays \/ Ends \/ Missed
  <2>1. CASE HealthCheck(x) \/ StartPost(x)
    BY <1>3, <2>1
  <2>2. CASE SendMined(x) \/ GiveUpBlock(x)
    BY <1>4, <2>2
  <2>3. ASSUME NEW p \in Node, NoAnswer(x, p) PROVE Stays \/ Missed
    BY <1>5, <2>3
  <2>4. ASSUME NEW p \in Node, Sign(x, p) \/ RefuseToSign(x, p) \/ Accept(x, p) \/ Refuse(x, p)
        PROVE  Stays
    BY <1>6, <1>7, <2>4
  <2> HIDE DEF Stays, Ends, Missed
  <2> QED
    BY <1>10, <2>1, <2>2, <2>3, <2>4 DEF Exchange
<1>11. ASSUME NEW x \in Node, Crash(x) \/ Start(x) PROVE Stays \/ Ends
  BY <1>4, <1>11
<1>12. Stays \/ Ends \/ Missed
  <2> HIDE DEF Stays, Ends, Missed
  <2> QED
    BY <1>1, <1>2, <1>8, <1>9, <1>10, <1>11 DEF Next
<1> QED
  BY <1>12

\* Every node runs since before the first block. Then a block that was sent to
\* some node goes to its own node in the end: the sending does not fail.
AllFounders == \A n \in Node : IsFounder(n)
Returns(x) ==
  /\ origin[x] \in Node
  /\ \/ x \in Got(origin[x])
     \/ at[origin[x]] = "post" /\ own[origin[x]] = x
NothingMissed ==
  AllFounders =>
    /\ \A n \in Node : at[n] = "post" => ~rejected[n]
    /\ \A n \in Node : \A x \in Blocks(n) : Returns(x)

\* A node's own block goes to its writer.
LEMMA MinedGot ==
  ASSUME TypeInv, NEW n \in Node, SendMined(n)
  PROVE  own[n] \in Got(n)'
<1>1. own[n] \in Block /\ queue'[n] = Append(queue[n], own[n])
  BY DEF TypeInv, TypeOK, SendMined, Distributed
<1>2. own[n] # Dropped
  BY <1>1, NetworkAssumption DEF Block, Dropped
<1>3. Elements(queue'[n]) = Elements(queue[n]) \cup {own[n]}
  BY <1>1, OneMore DEF TypeInv
<1>4. Got(n)' = Elements(chain'[n]) \cup (Elements(queue'[n]) \ {Dropped})
  BY DEF Got, Elements
<1> QED
  BY <1>2, <1>3, <1>4

LEMMA NextNothingMissed ==
  ASSUME ~Lossy, SpreadInv, NothingMissed, [Next]_vars, AllFounders'
  PROVE  /\ \A n \in Node : at'[n] = "post" => ~rejected'[n]
         /\ \A n \in Node : \A x \in Blocks(n)' : Returns(x)'
<1> USE DEF SpreadInv, ChainInv, ClaimInv, TypeInv
<1>1. \A n \in Node : up'[n] /\ since'[n] = 0
  BY DEF AllFounders, IsFounder
<1>2. ASSUME NEW k \in Node, Start(k)
      PROVE  /\ \A n \in Node : at'[n] # "post"
             /\ \A n \in Node : Blocks(n)' = {}
  <2>1. mined = 0
    BY <1>1, <1>2 DEF Start, TypeOK
  <2>2. \A n \in Node : at[n] = "idle" /\ Blocks(n) = {}
    BY <2>1, BlocksAreMined DEF KnownBlocks, Block
  <2>3. at' = [at EXCEPT ![k] = "idle"]
    BY <1>2 DEF Start, Forget, ExchangeOver
  <2>4. /\ chain' = [chain EXCEPT ![k] = <<>>]
        /\ queue' = [queue EXCEPT ![k] = <<>>]
        /\ waiting' = [waiting EXCEPT ![k] = {}]
    BY <1>2 DEF Start, Forget
  <2>5. \A n \in Node : Blocks(n)' \subseteq Blocks(n)
    <3> SUFFICES ASSUME NEW n \in Node PROVE Blocks(n)' \subseteq Blocks(n)
      OBVIOUS
    <3>1. CASE n = k
      <4>1. chain'[n] = <<>> /\ queue'[n] = <<>> /\ waiting'[n] = {}
        BY <2>4, <3>1 DEF TypeOK
      <4> QED
        BY <4>1 DEF Blocks, Got, Elements
    <3>2. CASE n # k
      BY <2>4, <3>2 DEF Blocks, Got, TypeOK
    <3> QED
      BY <3>1, <3>2
  <2> QED
    BY <2>2, <2>3, <2>5 DEF TypeOK
<1>3. ASSUME \A k \in Node : ~Start(k)
      PROVE  /\ \A n \in Node : at'[n] = "post" => ~rejected'[n]
             /\ \A n \in Node : \A x \in Blocks(n)' : Returns(x)'
  <2>1. \A n \in Node : up[n] /\ since[n] = 0
    BY <1>1, <1>3, RanBefore
  <2>2. /\ \A n \in Node : at[n] = "post" => ~rejected[n]
        /\ \A n \in Node : \A x \in Blocks(n) : Returns(x)
    BY <2>1 DEF NothingMissed, AllFounders, IsFounder
  <2>3. \A n, p \in Node : ~NoAnswer(n, p)
    BY <2>1 DEF NoAnswer
  <2>4. \A n \in Node : ~Crash(n)
    BY <1>1 DEF Crash, TypeOK
  <2>5. ASSUME NEW n \in Node, at'[n] = "post" PROVE ~rejected'[n]
    <3>1. CASE at[n] = "post"
      <4>1. ~SendMined(n) /\ ~GiveUpBlock(n)
        BY <2>5 DEF SendMined, GiveUpBlock, ExchangeOver, TypeOK
      <4> QED
        BY <1>3, <2>2, <2>3, <2>4, <3>1, <4>1, PostStays
    <3>2. CASE at[n] # "post"
      <4>1. ~UNCHANGED vars
        BY <2>5, <3>2 DEF vars, minerVars
      <4>2. StartPost(n)
        BY <2>5, <3>2, <4>1, PostStarts
      <4> QED
        BY <4>2 DEF StartPost, TypeOK
    <3> QED
      BY <3>1, <3>2
  <2>6. ASSUME NEW n \in Node, NEW x \in Blocks(n)' PROVE Returns(x)'
    <3>1. CASE x \in Blocks(n)
      <4> DEFINE o == origin[x]
      <4>1. o \in Node /\ origin'[x] = o
        BY <2>2, <3>1, BlocksAreMined, ParentStays DEF Returns
      <4>2. CASE x \in Got(o)
        BY <1>1, <2>1, <4>1, <4>2, GotStays DEF Returns
      <4>3. CASE at[o] = "post" /\ own[o] = x
        <5>1. ~GiveUpBlock(o)
          BY <2>2, <4>1, <4>3 DEF GiveUpBlock, PhaseFailed
        <5>2. CASE SendMined(o)
          <6>1. x \in Got(o)'
            BY <4>1, <4>3, <5>2, MinedGot
          <6> QED
            BY <4>1, <6>1 DEF Returns
        <5>3. CASE at'[o] = "post" /\ own'[o] = own[o]
          BY <4>1, <4>3, <5>3 DEF Returns
        <5> QED
          BY <1>3, <2>4, <4>1, <4>3, <5>1, <5>2, <5>3, PostStays
      <4> QED
        BY <2>2, <3>1, <4>2, <4>3 DEF Returns
    <3>2. ASSUME NEW k \in Node, Accept(k, n), x = own[k] PROVE Returns(x)'
      <4>1. up[k] /\ at[k] = "post" /\ own[k] \in Block /\ own[k] <= mined
        BY <3>2 DEF Accept, Asking, KnownBlocks
      <4>2. origin'[x] = k
        BY <3>2, <4>1, ParentStays DEF OwnClaim, Live
      <4>3. at' = at /\ own' = own
        BY <3>2 DEF Accept, minerVars
      <4> QED
        BY <3>2, <4>1, <4>2, <4>3 DEF Returns
    <3>3. ASSUME SendMined(n), x = own[n] PROVE Returns(x)'
      <4>1. up[n] /\ at[n] = "post" /\ own[n] \in Block /\ own[n] <= mined
        BY <3>3 DEF SendMined, Distributed, KnownBlocks
      <4>2. origin'[x] = n
        BY <3>3, <4>1, ParentStays DEF OwnClaim, Live
      <4>3. x \in Got(n)'
        BY <3>3, MinedGot
      <4> QED
        BY <4>2, <4>3 DEF Returns
    <3> QED
      BY <1>1, <3>1, <3>2, <3>3, BlocksChange
  <2> QED
    BY <2>5, <2>6
<1> QED
  BY <1>2, <1>3

\* Founders at rest have the same chain.
LEMMA RestIsInSync ==
  ASSUME FounderInv, Everywhere, NothingMissed, AtRest, AllFounders, NEW n \in Node, NEW m \in Node
  PROVE  Len(chain[m]) <= Len(chain[n])
<1> USE DEF FounderInv, ChainInv, ClaimInv, TypeInv
<1>1. \A p \in Node : up[p] /\ since[p] = 0 /\ queue[p] = <<>> /\ at[p] = "idle"
  BY DEF AllFounders, IsFounder, AtRest, Live
<1>2. chain[n] \in Seq(Block) /\ chain[m] \in Seq(Block)
  BY DEF TypeOK
<1>3. ASSUME Len(chain[n]) < Len(chain[m]) PROVE FALSE
  <2> DEFINE j == Len(chain[n]) + 1
             x == chain[m][j]
  <2>1. j \in 1..Len(chain[m]) /\ x \in Block
    BY <1>2, <1>3
  <2>2. x \in Blocks(m)
    BY <2>1 DEF Blocks, Got, Elements
  <2>3. origin[x] \in Node /\ x \in Got(origin[x])
    BY <1>1, <2>2 DEF NothingMissed, Returns
  <2>4. x \in Got(n)
    <3>1. since[n] < x
      BY <1>1, <2>1 DEF Block
    <3> QED
      BY <1>1, <2>3, <3>1 DEF Everywhere, Live
  <2>5. PICK i \in 1..Len(chain[n]) : x = chain[n][i]
    BY <1>1, <2>4 DEF Got, Elements
  <2>6. i < j /\ i \in 1..Len(chain[m])
    BY <1>2, <1>3
  <2>7. chain[n][i] = chain[m][i]
    BY <2>6 DEF Agree, Founders, AllFounders
  <2>8. chain[m][i] < x
    BY <2>1, <2>6 DEF Linked
  <2> QED
    BY <2>1, <2>5, <2>7, <2>8 DEF Block
<1> QED
  BY <1>2, <1>3

\* When nothing is under way and no node stopped or came late, all nodes have
\* the same chain.
THEOREM FoundersAtRestAreInSync ==
  ASSUME ~Lossy, Timely
  PROVE  Spec => []InSyncAtRest
<1>1. Init => NothingMissed
  <2> SUFFICES ASSUME Init PROVE NothingMissed
    OBVIOUS
  <2>1. \A p \in Node : /\ chain[p] = <<>> /\ queue[p] = <<>> /\ waiting[p] = {}
                       /\ Len(chain[p]) = 0 /\ at[p] = "idle"
    BY DEF Init
  <2> QED
    BY <2>1 DEF NothingMissed, Blocks, Got, Elements
<1>2. SpreadInv /\ NothingMissed /\ [Next]_vars => NothingMissed'
  BY NextNothingMissed DEF NothingMissed
<1>3. FounderInv /\ SpreadInv /\ NothingMissed => InSyncAtRest
  <2> SUFFICES ASSUME FounderInv, SpreadInv, NothingMissed, AtRest,
                      Live = Node, \A p \in Node : since[p] = 0,
                      NEW n \in Node, NEW m \in Node
               PROVE  chain[n] = chain[m]
    BY DEF InSyncAtRest
  <2>1. AllFounders
    BY DEF AllFounders, IsFounder, Live
  <2>2. Len(chain[m]) <= Len(chain[n]) /\ Len(chain[n]) <= Len(chain[m])
    BY <2>1, RestIsInSync DEF SpreadInv
  <2>3. chain[n] \in Seq(Block) /\ chain[m] \in Seq(Block)
    BY DEF SpreadInv, ChainInv, ClaimInv, TypeInv, TypeOK
  <2>4. Len(chain[n]) = Len(chain[m])
    BY <2>2, <2>3
  <2>5. \A i \in 1..Len(chain[n]) : chain[n][i] = chain[m][i]
    BY <2>1, <2>4 DEF FounderInv, Agree, Founders, AllFounders
  <2> QED
    BY <2>3, <2>4, <2>5
<1> QED
  BY <1>1, <1>2, <1>3, FounderInvHolds, SpreadInvHolds, PTL DEF Spec

-----------------------------------------------------------------------------
(* Every exchange comes to its end *)

\* The nodes a phase of n has still to ask, and those the block of n has not
\* come to.
Undelivered(n) == {p \in todo[n] : own[n] \notin waiting[p]}

\* The steps the exchange of n has left at most: one for the health check, one
\* for each signature, two for each node that is sent the block, and one for
\* the end of each phase.
StepsLeft(n) ==
  CASE ~Exchanging(n) -> 0
    [] Exchanging(n) /\ at[n] = "health" -> 3 * NumNodes
    [] Exchanging(n) /\ at[n] = "sign" -> 2 * NumNodes + Cardinality(todo[n])
    [] Exchanging(n) /\ at[n] = "post" ->
         1 + Cardinality(todo[n]) + Cardinality(Undelivered(n))

\* p answers the /block request of n.
Answers(p, n) == Asking(n, p, "post") /\ Enqueue(p, own[n])

\* The process of p ends, or a new one takes its place.
Restarts(p) == Crash(p) \/ Start(p)

\* n never asks itself, so that at least one node is not left to be asked.
LEMMA AskedLeft ==
  ASSUME NEW n \in Node, NEW S \in SUBSET (Node \ {n})
  PROVE  /\ Cardinality(S) \in 0..(NumNodes - 1)
         /\ \A T \in SUBSET S : /\ Cardinality(T) \in 0..Cardinality(S)
                                /\ T # S => Cardinality(T) < Cardinality(S)
         /\ \A p : Cardinality(S \cup {p}) <= Cardinality(S) + 1
<1>1. IsFiniteSet(Node) /\ Cardinality(Node) = NumNodes
  BY FS_Interval, NetworkAssumption DEF Node
<1>2. IsFiniteSet(Node \ {n}) /\ Cardinality(Node \ {n}) = NumNodes - 1
  BY <1>1, FS_RemoveElement
<1>3. IsFiniteSet(S) /\ Cardinality(S) <= NumNodes - 1
  BY <1>2, FS_Subset
<1>4. Cardinality(S) \in Nat
  BY <1>3, FS_CardinalityType
<1>5. ASSUME NEW T \in SUBSET S
      PROVE  Cardinality(T) \in 0..Cardinality(S) /\ (T # S => Cardinality(T) < Cardinality(S))
  <2>1. /\ IsFiniteSet(T) /\ Cardinality(T) <= Cardinality(S)
        /\ T # S => Cardinality(S) # Cardinality(T)
    BY <1>3, FS_Subset
  <2>2. Cardinality(T) \in Nat
    BY <2>1, FS_CardinalityType
  <2> QED
    BY <1>4, <2>1, <2>2
<1>6. ASSUME NEW p PROVE Cardinality(S \cup {p}) <= Cardinality(S) + 1
  <2>1. Cardinality(S \cup {p}) = IF p \in S THEN Cardinality(S) ELSE Cardinality(S) + 1
    BY <1>3, FS_AddElement
  <2> QED
    BY <1>4, <2>1
<1>7. Cardinality(S) \in 0..(NumNodes - 1)
  BY <1>3, <1>4, NetworkAssumption
<1> QED
  BY <1>5, <1>6, <1>7

LEMMA StepsLeftRange ==
  ASSUME TypeOK, NEW n \in Node
  PROVE  /\ StepsLeft(n) \in 0..(3 * NumNodes)
         /\ ~Exchanging(n) => StepsLeft(n) = 0
         /\ Exchanging(n) /\ at[n] = "sign" => StepsLeft(n) \in (2 * NumNodes)..(3 * NumNodes - 1)
         /\ Exchanging(n) /\ at[n] = "post" => StepsLeft(n) \in 1..(2 * NumNodes - 1)
<1>1. todo[n] \in SUBSET (Node \ {n}) /\ Undelivered(n) \in SUBSET (Node \ {n})
  BY DEF TypeOK, Undelivered
<1>2. /\ Cardinality(todo[n]) \in 0..(NumNodes - 1)
      /\ Cardinality(Undelivered(n)) \in 0..(NumNodes - 1)
  BY <1>1, AskedLeft
<1>3. (at[n] = "idle" => ~Exchanging(n)) /\ at[n] \in {"idle", "health", "sign", "post"}
  BY DEF TypeOK, MinerPlaces, Exchanging
<1>4. NumNodes \in Nat \ {0}
  BY NetworkAssumption
<1>5. /\ ~Exchanging(n) => StepsLeft(n) = 0
      /\ Exchanging(n) /\ at[n] = "health" => StepsLeft(n) = 3 * NumNodes
      /\ Exchanging(n) /\ at[n] = "sign" => StepsLeft(n) = 2 * NumNodes + Cardinality(todo[n])
      /\ Exchanging(n) /\ at[n] = "post" =>
           StepsLeft(n) = 1 + Cardinality(todo[n]) + Cardinality(Undelivered(n))
  BY DEF StepsLeft
<1>6. /\ Exchanging(n) /\ at[n] = "sign" => StepsLeft(n) \in (2 * NumNodes)..(3 * NumNodes - 1)
      /\ Exchanging(n) /\ at[n] = "post" => StepsLeft(n) \in 1..(2 * NumNodes - 1)
  BY <1>2, <1>4, <1>5
<1> QED
  BY <1>3, <1>4, <1>5, <1>6

\* The same of the state after a step.
LEMMA StepsLeftThen ==
  ASSUME TypeOK', NEW n \in Node
  PROVE  /\ StepsLeft(n)' \in 0..(3 * NumNodes)
         /\ ~Exchanging(n)' => StepsLeft(n)' = 0
         /\ Exchanging(n)' /\ at'[n] = "sign" =>
              StepsLeft(n)' \in (2 * NumNodes)..(3 * NumNodes - 1)
         /\ Exchanging(n)' /\ at'[n] = "post" => StepsLeft(n)' \in 1..(2 * NumNodes - 1)
<1>1. todo'[n] \in SUBSET (Node \ {n}) /\ Undelivered(n)' \in SUBSET (Node \ {n})
  BY DEF TypeOK, Undelivered
<1>2. /\ Cardinality(todo'[n]) \in 0..(NumNodes - 1)
      /\ Cardinality(Undelivered(n)') \in 0..(NumNodes - 1)
  BY <1>1, AskedLeft
<1>3. (at'[n] = "idle" => ~Exchanging(n)') /\ at'[n] \in {"idle", "health", "sign", "post"}
  BY DEF TypeOK, MinerPlaces, Exchanging
<1>4. NumNodes \in Nat \ {0}
  BY NetworkAssumption
<1>5. /\ ~Exchanging(n)' => StepsLeft(n)' = 0
      /\ Exchanging(n)' /\ at'[n] = "health" => StepsLeft(n)' = 3 * NumNodes
      /\ Exchanging(n)' /\ at'[n] = "sign" => StepsLeft(n)' = 2 * NumNodes + Cardinality(todo'[n])
      /\ Exchanging(n)' /\ at'[n] = "post" =>
           StepsLeft(n)' = 1 + Cardinality(todo'[n]) + Cardinality(Undelivered(n)')
  BY DEF StepsLeft, Exchanging, Undelivered
<1>6. /\ Exchanging(n)' /\ at'[n] = "sign" =>
           StepsLeft(n)' \in (2 * NumNodes)..(3 * NumNodes - 1)
      /\ Exchanging(n)' /\ at'[n] = "post" => StepsLeft(n)' \in 1..(2 * NumNodes - 1)
  BY <1>2, <1>4, <1>5
<1> QED
  BY <1>3, <1>4, <1>5, <1>6

\* Within a phase.
LEMMA LessLeft ==
  ASSUME TypeOK, TypeOK', NEW n \in Node, Exchanging(n), Exchanging(n)', at'[n] = at[n],
         todo'[n] \subseteq todo[n]
  PROVE  /\ Undelivered(n)' \subseteq Undelivered(n) => StepsLeft(n)' <= StepsLeft(n)
         /\ Undelivered(n)' \subseteq Undelivered(n) /\ todo'[n] # todo[n] /\ at[n] # "health" =>
              StepsLeft(n)' < StepsLeft(n)
         /\ /\ Undelivered(n)' \subseteq Undelivered(n) /\ Undelivered(n)' # Undelivered(n)
            /\ at[n] = "post"
            => StepsLeft(n)' < StepsLeft(n)
         /\ \A p : Undelivered(n)' \subseteq Undelivered(n) \cup {p} =>
              StepsLeft(n)' <= StepsLeft(n) + 1
<1> DEFINE t == Cardinality(todo[n])
           u == Cardinality(Undelivered(n))
           t1 == Cardinality(todo'[n])
           u1 == Cardinality(Undelivered(n)')
<1>1. todo[n] \in SUBSET (Node \ {n}) /\ Undelivered(n) \in SUBSET (Node \ {n})
  BY DEF TypeOK, Undelivered
<1>2. Undelivered(n)' \in SUBSET (Node \ {n})
  BY DEF TypeOK, Undelivered
<1>3. t1 \in 0..t /\ (todo'[n] # todo[n] => t1 < t) /\ t \in Nat
  BY <1>1, AskedLeft
<1>4. /\ u \in Nat
      /\ Undelivered(n)' \subseteq Undelivered(n) =>
           u1 <= u /\ (Undelivered(n)' # Undelivered(n) => u1 < u)
  BY <1>1, AskedLeft
<1>5. u1 \in Nat
  BY <1>2, AskedLeft
<1>6. ASSUME NEW p, Undelivered(n)' \subseteq Undelivered(n) \cup {p} PROVE u1 <= u + 1
  <2>1. Undelivered(n)' \ {p} \in SUBSET Undelivered(n)
    BY <1>6
  <2>2. Cardinality(Undelivered(n)' \ {p}) \in 0..u
    BY <1>1, <2>1, AskedLeft
  <2>3. Undelivered(n)' \ {p} \in SUBSET (Node \ {n})
    BY <1>2
  <2>4. Cardinality((Undelivered(n)' \ {p}) \cup {p}) <= Cardinality(Undelivered(n)' \ {p}) + 1
    BY <2>3, AskedLeft
  <2>5. CASE p \in Undelivered(n)'
    <3>1. (Undelivered(n)' \ {p}) \cup {p} = Undelivered(n)'
      BY <2>5
    <3> QED
      BY <1>4, <1>5, <2>2, <2>4, <3>1
  <2>6. CASE p \notin Undelivered(n)'
    <3>1. Undelivered(n)' \ {p} = Undelivered(n)'
      BY <2>6
    <3> QED
      BY <1>4, <2>2, <3>1
  <2> QED
    BY <2>5, <2>6
<1>7. at[n] \in {"health", "sign", "post"} /\ NumNodes \in Nat
  BY NetworkAssumption DEF TypeOK, MinerPlaces, Exchanging
<1>8. /\ at[n] = "health" => StepsLeft(n) = 3 * NumNodes
      /\ at[n] = "sign" => StepsLeft(n) = 2 * NumNodes + t
      /\ at[n] = "post" => StepsLeft(n) = 1 + t + u
  BY DEF StepsLeft
<1>9. /\ at[n] = "health" => StepsLeft(n)' = 3 * NumNodes
      /\ at[n] = "sign" => StepsLeft(n)' = 2 * NumNodes + t1
      /\ at[n] = "post" => StepsLeft(n)' = 1 + t1 + u1
  BY DEF StepsLeft, Undelivered
<1> HIDE DEF t, u, t1, u1
<1> QED
  BY <1>3, <1>4, <1>5, <1>6, <1>7, <1>8, <1>9

\* A block leaves a handler when it is answered, or when the process ends.
LEMMA WaitingLost ==
  ASSUME TypeOK, [Next]_vars, NEW p \in Node, NEW b \in waiting[p], b \notin waiting'[p]
  PROVE  Enqueue(p, b) \/ Restarts(p)
<1>0. waiting \in [Node -> SUBSET Block]
  BY DEF TypeOK
<1>1. ASSUME NEW x \in Node, NEW c \in Block, Enqueue(x, c) PROVE Enqueue(p, b)
  <2>1. waiting' = [waiting EXCEPT ![x] = waiting[x] \ {c}]
    BY <1>1 DEF Enqueue
  <2>2. x = p /\ c = b
    BY <1>0, <2>1
  <2> QED
    BY <1>1, <2>2
<1>2. ASSUME NEW x \in Node, NEW y \in Node, Accept(x, y) PROVE FALSE
  <2>1. waiting' = [waiting EXCEPT ![y] = waiting[y] \cup {own[x]}]
    BY <1>2 DEF Accept
  <2> QED
    BY <1>0, <2>1
<1>3. ASSUME NEW x \in Node, Restarts(x) PROVE Restarts(p)
  <2>1. waiting' = [waiting EXCEPT ![x] = {}]
    BY <1>3 DEF Restarts, Crash, Start, Forget
  <2>2. x = p
    BY <1>0, <2>1
  <2> QED
    BY <1>3, <2>2
<1>4. ASSUME NEW x \in Node,
             \/ MineBlock(x) \/ DropBatch(x) \/ Write(x) \/ Release(x)
             \/ HealthCheck(x) \/ StartPost(x) \/ SendMined(x) \/ GiveUpBlock(x)
             \/ \E y \in Node : NoAnswer(x, y) \/ Sign(x, y) \/ RefuseToSign(x, y) \/ Refuse(x, y)
             \/ \E c \in Block : ClaimTimeout(x, c)
      PROVE  waiting' = waiting
  BY <1>4 DEF MineBlock, DropBatch, Write, Release, HealthCheck, StartPost, SendMined, GiveUpBlock,
              NoAnswer, Sign, RefuseToSign, Refuse, ClaimTimeout, writerVars
<1>5. UNCHANGED vars => waiting' = waiting
  BY DEF vars, writerVars
<1> QED
  BY <1>1, <1>2, <1>3, <1>4, <1>5 DEF Next, Exchange, Writer, Restarts

\* What the others do to the exchange of n: p answers it.
LEMMA OthersLeave ==
  ASSUME TypeInv, [Next]_vars, NEW n \in Node,
         ~MineBlock(n), ~Exchange(n), ~Restarts(n), up'[n]
  PROVE  /\ up[n] /\ at'[n] = at[n] /\ own'[n] = own[n]
         /\ \/ todo'[n] = todo[n]
            \/ \E p \in Node : Answers(p, n) /\ todo'[n] = todo[n] \ {p}
<1> USE DEF TypeInv
<1> DEFINE Same == at'[n] = at[n] /\ own'[n] = own[n] /\ todo'[n] = todo[n]
           Goal == /\ at'[n] = at[n] /\ own'[n] = own[n]
                   /\ \/ todo'[n] = todo[n]
                      \/ \E p \in Node : Answers(p, n) /\ todo'[n] = todo[n] \ {p}
<1>0. /\ at \in [Node -> MinerPlaces] /\ todo \in [Node -> SUBSET Node]
      /\ own \in [Node -> Block \cup {NoBlock}]
  BY DEF TypeOK
<1>1. up[n]
  BY ComesUp DEF Restarts
<1>2. ASSUME NEW x \in Node, x # n, MineBlock(x) \/ Exchange(x) \/ Restarts(x) PROVE Same
  <2>1. ASSUME MineBlock(x) \/ HealthCheck(x) \/ StartPost(x) PROVE Same
    <3>1. /\ \E place : at' = [at EXCEPT ![x] = place]
          /\ todo' = todo \/ \E S : todo' = [todo EXCEPT ![x] = S]
          /\ own' = own \/ \E b : own' = [own EXCEPT ![x] = b]
      BY <2>1 DEF MineBlock, HealthCheck, StartPost, exchangeVars
    <3> QED
      BY ZenonT(30), <1>0, <1>2, <3>1
  <2>2. ASSUME SendMined(x) \/ GiveUpBlock(x) \/ Restarts(x) PROVE Same
    <3>1. /\ at' = [at EXCEPT ![x] = "idle"] /\ own' = [own EXCEPT ![x] = NoBlock]
          /\ todo' = todo \/ todo' = [todo EXCEPT ![x] = {}]
      BY <2>2 DEF SendMined, GiveUpBlock, Restarts, Crash, Start, Forget, ExchangeOver
    <3> QED
      BY <1>0, <1>2, <3>1
  <2>3. ASSUME NEW p \in Node,
               \/ NoAnswer(x, p) \/ Sign(x, p) \/ RefuseToSign(x, p)
               \/ Accept(x, p) \/ Refuse(x, p)
        PROVE  Same
    <3>1. /\ UNCHANGED <<at, own>>
          /\ todo' = todo \/ todo' = [todo EXCEPT ![x] = @ \ {p}]
      BY <2>3 DEF NoAnswer, Sign, RefuseToSign, Accept, Refuse, minerVars, exchangeVars
    <3> QED
      BY <1>0, <1>2, <3>1
  <2> HIDE DEF Same
  <2> QED
    BY <1>2, <2>1, <2>2, <2>3 DEF Exchange
<1>3. ASSUME \/ UNCHANGED vars
             \/ \E x \in Node : DropBatch(x) \/ Writer(x) \/ \E b \in Block : ClaimTimeout(x, b)
      PROVE  Same
  BY <1>3 DEF vars, DropBatch, Writer, Write, Release, ClaimTimeout, minerVars, exchangeVars
<1>4. ASSUME NEW p \in Node, NEW b \in Block, Enqueue(p, b) PROVE Goal
  <2>1. at' = at /\ own' = own
    BY <1>4 DEF Enqueue, minerVars
  <2>2. todo'[n] = IF Asking(n, p, "post") /\ own[n] = b THEN todo[n] \ {p} ELSE todo[n]
    BY <1>4 DEF Enqueue
  <2> QED
    BY <1>4, <2>1, <2>2 DEF Answers
<1>5. Same => Goal
  OBVIOUS
<1>6. Goal
  <2> HIDE DEF Same, Goal
  <2> QED
    BY <1>2, <1>3, <1>4, <1>5 DEF Next, Restarts
<1> QED
  BY <1>1, <1>6

PendingInv == ClaimInv /\ Pending

\* What the others take from the exchange of n, or give back to it.
LEMMA OthersAdd ==
  ASSUME PendingInv, [Next]_vars, NEW n \in Node, ~MineBlock(n), ~Exchange(n)
  PROVE  /\ \A p \in Node : Answers(p, n) => StepsLeft(n)' < StepsLeft(n)
         /\ (\A p \in Node : ~Restarts(p)) => StepsLeft(n)' <= StepsLeft(n)
         /\ \A p \in Node : Restarts(p) => StepsLeft(n)' <= StepsLeft(n) + 1
<1> USE DEF PendingInv, ClaimInv, TypeInv
<1>1. TypeOK /\ TypeOK' /\ NumNodes \in Nat
  BY NextType, NetworkAssumption
<1>2. StepsLeft(n) \in Nat /\ StepsLeft(n)' \in Nat
  BY <1>1, StepsLeftRange, StepsLeftThen
<1>3. ASSUME NEW p \in Node, Answers(p, n)
      PROVE  /\ Exchanging(n) /\ up'[n] /\ at'[n] = at[n] /\ at[n] = "post" /\ own'[n] = own[n]
             /\ todo'[n] = todo[n] \ {p} /\ p \in todo[n]
  BY <1>3 DEF Answers, Asking, Enqueue, Exchanging, processVars, minerVars
<1>4. CASE ~Exchanging(n)'
  <2>1. StepsLeft(n)' = 0
    BY <1>1, <1>4, StepsLeftThen
  <2>2. \A p \in Node : ~Answers(p, n)
    BY <1>3, <1>4 DEF Exchanging
  <2> QED
    BY <1>2, <2>1, <2>2
<1>5. CASE Exchanging(n)'
  <2>1. ~Restarts(n)
    BY <1>5 DEF Restarts, Crash, Start, Forget, ExchangeOver, Exchanging, TypeOK
  <2>2. /\ up[n] /\ at'[n] = at[n] /\ own'[n] = own[n]
        /\ \/ todo'[n] = todo[n]
           \/ \E p \in Node : Answers(p, n) /\ todo'[n] = todo[n] \ {p}
    BY <1>5, <2>1, OthersLeave DEF Exchanging
  <2>3. Exchanging(n) /\ todo'[n] \subseteq todo[n]
    BY <1>5, <2>2 DEF Exchanging
  <2>4. ASSUME NEW x \in Undelivered(n)', x \notin Undelivered(n) PROVE x \in Node /\ Restarts(x)
    <3>1. x \in todo'[n] /\ x \in todo[n] /\ x \in Node /\ own[n] \in waiting[x] \ waiting'[x]
      BY <2>2, <2>3, <2>4 DEF Undelivered, TypeOK
    <3>2. CASE Enqueue(x, own[n])
      <4>1. up[x] /\ at[n] = "post" /\ \A q \in todo[n] : x <= q
        BY <2>2, <2>3, <3>1, <3>2 DEF Pending, Live, Enqueue, Exchanging
      <4>2. todo'[n] = todo[n] \ {x}
        BY <2>2, <3>1, <3>2, <4>1 DEF Enqueue, Asking
      <4> QED
        BY <3>1, <4>2
    <3> QED
      BY <1>1, <3>1, <3>2, WaitingLost
  <2>5. ASSUME NEW p \in Node, Restarts(p)
        PROVE  StepsLeft(n)' <= StepsLeft(n) + 1
    <3>1. \A x \in Node : Restarts(x) => x = p
      <4> SUFFICES ASSUME NEW x \in Node, Restarts(x) PROVE x = p
        OBVIOUS
      <4>1. up'[p] # up[p] /\ \A q \in Node : q # p => up'[q] = up[q]
        BY <2>5 DEF Restarts, Crash, Start, TypeOK
      <4>2. up'[x] # up[x]
        BY DEF Restarts, Crash, Start, TypeOK
      <4> QED
        BY <4>1, <4>2
    <3>2. Undelivered(n)' \subseteq Undelivered(n) \cup {p}
      BY <2>4, <3>1
    <3> QED
      BY <1>1, <1>5, <2>2, <2>3, <3>2, LessLeft
  <2>6. ASSUME \A p \in Node : ~Restarts(p) PROVE StepsLeft(n)' <= StepsLeft(n)
    <3>1. Undelivered(n)' \subseteq Undelivered(n)
      BY <2>4, <2>6
    <3> QED
      BY <1>1, <1>5, <2>2, <2>3, <3>1, LessLeft
  <2>7. ASSUME NEW p \in Node, Answers(p, n) PROVE StepsLeft(n)' < StepsLeft(n)
    <3>1. \A x \in Node : ~Restarts(x)
      <4>1. up' = up
        BY <2>7 DEF Answers, Enqueue, processVars
      <4> QED
        BY <4>1 DEF Restarts, Crash, Start, TypeOK
    <3>2. Undelivered(n)' \subseteq Undelivered(n)
      BY <2>4, <3>1
    <3>3. todo'[n] # todo[n] /\ at[n] # "health"
      BY <1>3, <2>7
    <3> QED
      BY <1>1, <1>5, <2>2, <2>3, <3>2, <3>3, LessLeft
  <2> QED
    BY <2>5, <2>6, <2>7
<1> QED
  BY <1>4, <1>5

\* Every step of the exchange takes one from it.
LEMMA ExchangeShrinks ==
  ASSUME TypeInv, NEW n \in Node, Exchange(n)
  PROVE  StepsLeft(n)' < StepsLeft(n)
<1> USE DEF TypeInv
<1>1. TypeOK /\ TypeOK'
  BY NextType DEF Next
<1>2. NumNodes \in Nat \ {0} /\ StepsLeft(n) \in Nat /\ StepsLeft(n)' \in Nat
  BY <1>1, StepsLeftRange, StepsLeftThen, NetworkAssumption
<1>3. CASE HealthCheck(n) \/ StartPost(n)
  <2>1. up[n] /\ up'[n] /\ at' = [at EXCEPT ![n] = IF at[n] = "health" THEN "sign" ELSE "post"]
    BY <1>3 DEF HealthCheck, StartPost, processVars
  <2>2. CASE HealthCheck(n)
    <3>1. at[n] = "health" /\ Exchanging(n) /\ at'[n] = "sign" /\ Exchanging(n)'
      BY <1>1, <2>1, <2>2 DEF HealthCheck, Exchanging, TypeOK
    <3>2. StepsLeft(n) = 3 * NumNodes
      BY <3>1 DEF StepsLeft
    <3>3. StepsLeft(n)' \in (2 * NumNodes)..(3 * NumNodes - 1)
      BY <1>1, <3>1, StepsLeftThen
    <3> QED
      BY <1>2, <3>2, <3>3
  <2>3. CASE StartPost(n)
    <3>1. at[n] = "sign" /\ Exchanging(n) /\ at'[n] = "post" /\ Exchanging(n)'
      BY <1>1, <2>1, <2>3 DEF StartPost, Exchanging, TypeOK
    <3>2. StepsLeft(n) \in (2 * NumNodes)..(3 * NumNodes - 1)
      BY <1>1, <3>1, StepsLeftRange
    <3>3. StepsLeft(n)' \in 1..(2 * NumNodes - 1)
      BY <1>1, <3>1, StepsLeftThen
    <3> QED
      BY <1>2, <3>2, <3>3
  <2> QED
    BY <1>3, <2>2, <2>3
<1>4. CASE SendMined(n) \/ GiveUpBlock(n)
  <2>1. Exchanging(n) /\ at[n] \in {"sign", "post"} /\ at'[n] = "idle"
    BY <1>4 DEF SendMined, Distributed, GiveUpBlock, ExchangeOver, Exchanging, TypeOK
  <2>2. StepsLeft(n)' = 0
    BY <1>1, <2>1, StepsLeftThen DEF Exchanging
  <2>3. StepsLeft(n) > 0
    BY <1>1, <1>2, <2>1, StepsLeftRange
  <2> QED
    BY <1>2, <2>2, <2>3
<1>5. ASSUME NEW p \in Node,
             \/ NoAnswer(n, p) \/ Sign(n, p) \/ RefuseToSign(n, p)
             \/ Accept(n, p) \/ Refuse(n, p)
      PROVE  StepsLeft(n)' < StepsLeft(n)
  <2>1. /\ up[n] /\ at[n] \in {"sign", "post"} /\ p \in todo[n]
        /\ UNCHANGED <<up, at, own>>
    BY <1>5 DEF NoAnswer, Sign, RefuseToSign, Accept, Refuse, Asking, minerVars, processVars
  <2>2. Exchanging(n) /\ Exchanging(n)' /\ at'[n] = at[n] /\ own'[n] = own[n] /\ at[n] # "health"
    BY <2>1 DEF Exchanging
  <2>3. CASE NoAnswer(n, p) \/ Sign(n, p) \/ RefuseToSign(n, p) \/ Refuse(n, p)
    <3>1. waiting' = waiting /\ todo' = [todo EXCEPT ![n] = todo[n] \ {p}]
      BY <2>3 DEF NoAnswer, Sign, RefuseToSign, Refuse, writerVars
    <3>2. todo'[n] = todo[n] \ {p}
      BY <3>1 DEF TypeOK
    <3>3. Undelivered(n)' \subseteq Undelivered(n)
      BY <2>2, <3>1, <3>2 DEF Undelivered
    <3> QED
      BY <1>1, <2>1, <2>2, <3>2, <3>3, LessLeft
  <2>4. CASE Accept(n, p)
    <3>1. /\ at[n] = "post" /\ todo'[n] = todo[n] /\ p \in Undelivered(n)
          /\ waiting' = [waiting EXCEPT ![p] = waiting[p] \cup {own[n]}]
      BY <2>4 DEF Accept, Asking, exchangeVars, Undelivered
    <3>2. own[n] \in waiting'[p] /\ \A q \in Node : waiting[q] \subseteq waiting'[q]
      BY <3>1 DEF TypeOK
    <3>3. Undelivered(n)' \subseteq Undelivered(n) /\ p \notin Undelivered(n)'
      BY <2>2, <3>1, <3>2 DEF Undelivered, TypeOK
    <3> QED
      BY <1>1, <2>2, <3>1, <3>3, LessLeft
  <2> QED
    BY <1>5, <2>3, <2>4
<1> QED
  BY <1>3, <1>4, <1>5 DEF Exchange

\* An exchange is over after at most 3 * NumNodes steps, its own and the
\* answers of the others to /block, whichever requests fail and whatever the
\* other nodes do meanwhile; only a process that ends or starts with its request
\* in hand adds one.
THEOREM ExchangesAreShort ==
  Spec => /\ [](\A n \in Node : StepsLeft(n) \in 0..(3 * NumNodes))
          /\ [][\A n \in Node :
                  /\ Exchange(n) => StepsLeft(n)' < StepsLeft(n)
                  /\ ~MineBlock(n) =>
                       /\ \A p \in Node : Answers(p, n) => StepsLeft(n)' < StepsLeft(n)
                       /\ (\A p \in Node : ~Restarts(p)) => StepsLeft(n)' <= StepsLeft(n)
                       /\ \A p \in Node : Restarts(p) => StepsLeft(n)' <= StepsLeft(n) + 1]_vars
<1> DEFINE Bounded == \A n \in Node : StepsLeft(n) \in 0..(3 * NumNodes)
           Step == \A n \in Node :
                     /\ Exchange(n) => StepsLeft(n)' < StepsLeft(n)
                     /\ ~MineBlock(n) =>
                          /\ \A p \in Node : Answers(p, n) => StepsLeft(n)' < StepsLeft(n)
                          /\ (\A p \in Node : ~Restarts(p)) => StepsLeft(n)' <= StepsLeft(n)
                          /\ \A p \in Node : Restarts(p) => StepsLeft(n)' <= StepsLeft(n) + 1
<1>1. PendingInv => Bounded
  BY StepsLeftRange DEF PendingInv, ClaimInv, TypeInv
<1>2. PendingInv /\ [Next]_vars => [Step]_vars
  <2> SUFFICES ASSUME PendingInv, Next, NEW n \in Node
               PROVE  /\ Exchange(n) => StepsLeft(n)' < StepsLeft(n)
                      /\ ~MineBlock(n) =>
                           /\ \A p \in Node : Answers(p, n) => StepsLeft(n)' < StepsLeft(n)
                           /\ (\A p \in Node : ~Restarts(p)) => StepsLeft(n)' <= StepsLeft(n)
                           /\ \A p \in Node : Restarts(p) => StepsLeft(n)' <= StepsLeft(n) + 1
    OBVIOUS
  <2>1. StepsLeft(n) \in Nat /\ StepsLeft(n)' \in Nat
    BY StepsLeftRange, StepsLeftThen, NextType, NetworkAssumption
    DEF PendingInv, ClaimInv, TypeInv
  <2>2. CASE Exchange(n)
    <3>1. StepsLeft(n)' < StepsLeft(n)
      BY <2>2, ExchangeShrinks DEF PendingInv, ClaimInv
    <3> QED
      BY <2>1, <3>1
  <2>3. CASE ~Exchange(n)
    BY <2>3, OthersAdd
  <2> QED
    BY <2>2, <2>3
<1>3. Init => PendingInv
  BY InitClaimInv DEF PendingInv, Init, Pending, Live
<1>4. PendingInv /\ [Next]_vars => PendingInv'
  BY NextClaimInv, NextPending DEF PendingInv
<1> HIDE DEF Bounded, Step
<1>5. Spec => []Bounded /\ [][Step]_vars
  BY <1>1, <1>2, <1>3, <1>4, PTL DEF Spec
<1> QED
  BY <1>5 DEF Bounded, Step

\* The least of the nodes still to be asked.
LEMMA FirstToAsk ==
  ASSUME TypeOK, NEW n \in Node, todo[n] # {}
  PROVE  \E p \in todo[n] : \A q \in todo[n] : p <= q
<1> DEFINE R == {pair \in Nat \X Nat : pair[1] < pair[2]}
<1>1. todo[n] \subseteq Nat
  BY DEF TypeOK, Node
<1>2. IsWellFoundedOn(R, Nat)
  BY NatLessThanWellFounded DEF OpToRel
<1>3. \A p, q \in Nat : p < q => <<p, q>> \in R
  OBVIOUS
<1> HIDE DEF R
<1>4. PICK p \in todo[n] : \A q \in todo[n] : <<q, p>> \notin R
  BY <1>1, <1>2, WFMin
<1>5. \A q \in todo[n] : ~(q < p)
  BY <1>1, <1>3, <1>4
<1> QED
  BY <1>1, <1>5

\* The writer of p has only dropped blocks before it, which it saves without a
\* claim: it needs no other node to go on.
ClearsDropped(p) == queue[p] # <<>> /\ written[p] = NoBlock /\ OnlyDropped(p)
WillTake(p) == HasRoom(p) \/ ClearsDropped(p)

\* The next step of the exchange has its guard, or waits for such a writer.
GoesOn(n) ==
  \/ at[n] = "health"
  \/ todo[n] = {} /\ (at[n] = "sign" \/ PhaseFailed(n) \/ WillTake(n))
  \/ \E p \in todo[n] : /\ \A q \in todo[n] : p <= q
                        /\ up[p] /\ own[n] \in waiting[p] => WillTake(p)

\* An exchange waits only for room on a writeChan that dropped blocks take up,
\* its own or that of the node it sends its block to, and whose writer goes on
\* without any other node: no two exchanges wait for each other.
THEOREM ExchangesWaitOnlyForDropped ==
  ASSUME Timely
  PROVE  Spec => [](\A n \in Node : Exchanging(n) => GoesOn(n))
<1> DEFINE AllGoOn == \A n \in Node : Exchanging(n) => GoesOn(n)
<1>1. ChainInv => AllGoOn
  <2> SUFFICES ASSUME ChainInv, NEW n \in Node, Exchanging(n) PROVE GoesOn(n)
    OBVIOUS
  <2> USE DEF ChainInv, ClaimInv, TypeInv
  <2>1. n \in Live /\ at[n] \in {"health", "sign", "post"} /\ Free(n)
    BY DEF Exchanging, Live, TypeOK, MinerPlaces, OneInHand, InHand
  <2>2. ASSUME NEW p \in Node, OnlyDropped(p), written[p] = NoBlock PROVE WillTake(p)
    <3>1. queue[p] = <<>> => HasRoom(p)
      BY <2>2, NetworkAssumption DEF HasRoom
    <3> QED
      BY <2>2, <3>1 DEF WillTake, ClearsDropped
  <2>3. CASE todo[n] = {}
    BY <2>1, <2>2, <2>3 DEF GoesOn, Free
  <2>4. CASE todo[n] # {}
    <3>1. PICK p \in todo[n] : \A q \in todo[n] : p <= q
      BY <2>4, FirstToAsk
    <3>2. ASSUME up[p], own[n] \in waiting[p] PROVE WillTake(p)
      <4>1. p \in Node /\ InHand(p)
        BY <3>2 DEF OneInHand, Live, TypeOK
      <4>2. OnlyDropped(p) /\ written[p] = NoBlock
        BY <3>2, <4>1 DEF InHand, OnlyDropped
      <4> QED
        BY <2>2, <4>1, <4>2
    <3> QED
      BY <3>1, <3>2 DEF GoesOn
  <2> QED
    BY <2>3, <2>4
<1>2. ChainInv /\ [Next]_vars => ChainInv'
  BY NextChainInv
<1> HIDE DEF AllGoOn
<1>3. Spec => []AllGoOn
  BY <1>1, <1>2, InitChainInv, PTL DEF Spec
<1> QED
  BY <1>3 DEF AllGoOn
=============================================================================
