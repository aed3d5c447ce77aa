--------------------------- MODULE NetworkProofs ---------------------------
(***************************************************************************)
(* Theorems about Network, for any number of nodes and blocks and any      *)
(* behaviour of the release goroutines.                                    *)
(*                                                                         *)
(* A node that shows its block around holds its own claim with it, and     *)
(* that claim has no timer (OwnClaim): it refuses every other block as     *)
(* long as the exchange lasts. Whoever has passed a running node has its   *)
(* signature, so that node was not showing a block around then; two nodes  *)
(* cannot have passed each other (NoMutualPass).                           *)
(***************************************************************************)
EXTENDS Network, TLAPS

\* A block has been mined before it is shown around.
TypeInv ==
  /\ TypeOK
  /\ \A n \in Node : at[n] # "idle" => own[n] \in Block

LEMMA TipType ==
  ASSUME TypeOK, NEW n \in Node
  PROVE  Tip(n) \in Block \cup {NoBlock}
BY DEF TypeOK, Tip

LEMMA InitType == Init => TypeInv
<1> SUFFICES ASSUME Init PROVE TypeInv
  OBVIOUS
<1>1. <<>> \in Seq(Block) /\ <<>> \in Seq(Block \cup {Dropped}) /\ Len(<<>>) <= WriteCap + 1
  BY NetworkAssumption
<1>2. /\ chain \in [Node -> Seq(Block)] /\ queue \in [Node -> Seq(Block \cup {Dropped})]
      /\ \A n \in Node : Len(queue[n]) <= WriteCap + 1
  BY <1>1 DEF Init
<1>3. mined \in 0..MaxBlocks
  BY NetworkAssumption DEF Init
<1>4. /\ up \in [Node -> BOOLEAN] /\ starts \in 0..MaxStart
      /\ since \in [Node -> 0..mined] /\ rejected \in [Node -> BOOLEAN]
      /\ lastErr \in [Node -> BOOLEAN]
  BY NetworkAssumption DEF Init
<1>5. /\ origin \in [Block -> Node \cup {0}]
      /\ parent \in [Block -> Block \cup {NoBlock}]
      /\ claim \in [Node -> Block \cup {NoBlock}]
      /\ written \in [Node -> Block \cup {NoBlock}]
      /\ own \in [Node -> Block \cup {NoBlock}]
      /\ at \in [Node -> MinerPlaces]
  BY DEF Init, MinerPlaces
<1>6. /\ timers \in [Node -> SUBSET Block] /\ waiting \in [Node -> SUBSET Block]
      /\ active \in [Node -> SUBSET Node]
      /\ todo \in [Node -> SUBSET Node]
      /\ \A n \in Node : todo[n] \subseteq active[n] /\ n \notin active[n]
  BY DEF Init
<1>7. \A n \in Node : at[n] = "idle"
  BY DEF Init
<1> QED
  BY <1>2, <1>3, <1>4, <1>5, <1>6, <1>7 DEF TypeOK, TypeInv

\* Where there is room, one more keeps to the capacity.
LEMMA RoomForOne ==
  ASSUME TypeOK, NEW n \in Node, HasRoom(n), NEW b \in Block \cup {Dropped},
         queue' = [queue EXCEPT ![n] = Append(@, b)]
  PROVE  /\ queue' \in [Node -> Seq(Block \cup {Dropped})]
         /\ \A q \in Node : Len(queue'[q]) <= WriteCap + 1
<1>1. /\ queue \in [Node -> Seq(Block \cup {Dropped})] /\ Len(queue[n]) <= WriteCap
      /\ WriteCap \in Nat
  BY NetworkAssumption DEF HasRoom, TypeOK
<1>2. /\ Append(queue[n], b) \in Seq(Block \cup {Dropped})
      /\ Len(Append(queue[n], b)) <= WriteCap + 1
  BY <1>1
<1> QED
  BY <1>1, <1>2 DEF TypeOK

LEMMA NextType == TypeInv /\ [Next]_vars => TypeInv'
<1> SUFFICES ASSUME TypeInv, [Next]_vars PROVE TypeInv'
  OBVIOUS
<1> USE NetworkAssumption DEF TypeInv
<1>1. CASE UNCHANGED vars
  BY <1>1 DEF TypeOK, vars, processVars, minerVars, blockVars, exchangeVars, writerVars, claimVars
<1>2. ASSUME NEW n \in Node, MineBlock(n) PROVE TypeInv'
  <2>1. mined' \in Block /\ mined' \in 0..MaxBlocks
    BY <1>2 DEF MineBlock, TypeOK, Block
  <2>2. Tip(n) \in Block \cup {NoBlock}
    BY TipType
  <2> QED
    BY SMTT(30), <1>2, <2>1, <2>2
    DEF MineBlock, TypeOK, MinerPlaces, processVars, exchangeVars, writerVars
<1>3. ASSUME NEW n \in Node, HealthCheck(n) PROVE TypeInv'
  <2>1. Others(n) \in SUBSET Node /\ n \notin Others(n)
    BY DEF Others, Live
  <2> QED
    BY <1>3, <2>1
    DEF HealthCheck, TypeOK, MinerPlaces, processVars, blockVars, writerVars, claimVars
<1>4. ASSUME NEW n \in Node, StartPost(n) PROVE TypeInv'
  BY <1>4 DEF StartPost, PostTo, TypeOK, MinerPlaces, processVars, blockVars, writerVars, claimVars
<1>5. ASSUME NEW n \in Node, SendMined(n) PROVE TypeInv'
  <2>1. /\ queue' \in [Node -> Seq(Block \cup {Dropped})]
        /\ \A q \in Node : Len(queue'[q]) <= WriteCap + 1
    BY <1>5, RoomForOne DEF SendMined, Distributed
  <2>2. at' \in [Node -> MinerPlaces] /\ at' = [at EXCEPT ![n] = "idle"]
    BY <1>5 DEF SendMined, ExchangeOver, TypeOK, MinerPlaces
  <2>3. UNCHANGED <<processVars, blockVars, chain, waiting, written, claimVars>>
    BY <1>5 DEF SendMined
  <2>4. /\ own' \in [Node -> Block \cup {NoBlock}]
        /\ active' \in [Node -> SUBSET Node] /\ todo' \in [Node -> SUBSET Node]
        /\ \A q \in Node : todo'[q] \subseteq active'[q] /\ q \notin active'[q]
        /\ \A q \in Node : at'[q] # "idle" => own'[q] \in Block
        /\ rejected' \in [Node -> BOOLEAN] /\ lastErr' \in [Node -> BOOLEAN]
    BY <1>5 DEF SendMined, ExchangeOver, TypeOK
  <2> QED
    BY <2>1, <2>2, <2>3, <2>4 DEF TypeOK, processVars, blockVars, claimVars
<1>6. ASSUME NEW n \in Node, GiveUpBlock(n) PROVE TypeInv'
  BY <1>6 DEF GiveUpBlock, ExchangeOver, NoBlock, TypeOK, MinerPlaces, processVars, blockVars,
              writerVars
<1>7. ASSUME NEW n \in Node, NEW p \in Node, NoAnswer(n, p) PROVE TypeInv'
  BY <1>7 DEF NoAnswer, TypeOK, processVars, minerVars, blockVars, writerVars, claimVars
<1>8. ASSUME NEW n \in Node, NEW p \in Node, Sign(n, p) PROVE TypeInv'
  <2>1. own[n] \in Block
    BY <1>8 DEF Sign, Asking
  <2>2. rejected' \in [Node -> BOOLEAN]
    <3>1. rejected' = rejected \/ rejected' = [rejected EXCEPT ![n] = TRUE]
      BY <1>8 DEF Sign
    <3> QED
      BY <3>1 DEF TypeOK
  <2>3. claim' \in [Node -> Block \cup {NoBlock}]
    BY <1>8, <2>1 DEF Sign, TypeOK
  <2>4. timers' \in [Node -> SUBSET Block]
    BY <1>8, <2>1 DEF Sign, TypeOK
  <2>5. /\ todo' \in [Node -> SUBSET Node]
        /\ \A q \in Node : todo'[q] \subseteq active[q]
    BY <1>8 DEF Sign, TypeOK
  <2> QED
    BY <1>8, <2>2, <2>3, <2>4, <2>5 DEF Sign, TypeOK, processVars, minerVars, blockVars, writerVars
<1>9. ASSUME NEW n \in Node, NEW p \in Node, RefuseToSign(n, p) PROVE TypeInv'
  BY <1>9 DEF RefuseToSign, TypeOK, processVars, minerVars, blockVars, writerVars, claimVars
<1>10. ASSUME NEW n \in Node, NEW p \in Node, Accept(n, p) PROVE TypeInv'
  <2>1. own[n] \in Block
    BY <1>10 DEF Accept, Asking
  <2>2. claim' \in [Node -> Block \cup {NoBlock}] /\ waiting' \in [Node -> SUBSET Block]
    BY <1>10, <2>1 DEF Accept, TypeOK
  <2> QED
    BY <1>10, <2>2 DEF Accept, TypeOK, processVars, minerVars, blockVars, exchangeVars
<1>11. ASSUME NEW n \in Node, NEW p \in Node, Refuse(n, p) PROVE TypeInv'
  BY <1>11 DEF Refuse, TypeOK, processVars, minerVars, blockVars, writerVars, claimVars
<1>12. ASSUME NEW n \in Node, Write(n) PROVE TypeInv'
  <2> DEFINE b == Head(queue[n])
  <2>1. /\ queue \in [Node -> Seq(Block \cup {Dropped})] /\ chain \in [Node -> Seq(Block)]
        /\ queue[n] # <<>> /\ Len(queue[n]) <= WriteCap + 1
    BY <1>12 DEF Write, TypeOK
  <2>2. /\ b \in Block \cup {Dropped} /\ Tail(queue[n]) \in Seq(Block \cup {Dropped})
        /\ Len(Tail(queue[n])) <= WriteCap + 1
    BY <2>1
  <2>3. /\ queue' \in [Node -> Seq(Block \cup {Dropped})]
        /\ \A q \in Node : Len(queue'[q]) <= WriteCap + 1
    BY <1>12, <2>1, <2>2 DEF Write, TypeOK
  <2>4. /\ chain' \in [Node -> Seq(Block)]
        /\ written' \in [Node -> Block \cup {NoBlock}]
        /\ up' \in [Node -> BOOLEAN]
    <3>1. CASE /\ b # Dropped
               /\ chain' = [chain EXCEPT ![n] = Append(chain[n], b)]
               /\ written' = [written EXCEPT ![n] = b]
               /\ up' = up
      <4>1. b \in Block /\ Append(chain[n], b) \in Seq(Block)
        BY <2>1, <2>2, <3>1
      <4> QED
        BY <2>1, <3>1, <4>1 DEF TypeOK
    <3>2. CASE /\ UNCHANGED <<chain, written>>
               /\ up' = up \/ up' = [up EXCEPT ![n] = FALSE]
      BY <3>2 DEF TypeOK
    <3> QED
      BY <1>12, <3>1, <3>2 DEF Write
  <2> QED
    BY <1>12, <2>3, <2>4
    DEF Write, TypeOK, processVars, minerVars, blockVars, exchangeVars, claimVars
<1>13. ASSUME NEW n \in Node, Release(n) PROVE TypeInv'
  BY ZenonT(30), <1>13 DEF Release, TypeOK, processVars, minerVars, blockVars, exchangeVars
<1>14. ASSUME NEW n \in Node, Crash(n) \/ Start(n) PROVE TypeInv'
  <2>1. Forget(n)
    BY <1>14 DEF Crash, Start
  <2>2. <<>> \in Seq(Block) /\ <<>> \in Seq(Block \cup {Dropped}) /\ Len(<<>>) <= WriteCap + 1
    OBVIOUS
  <2>3. /\ queue' \in [Node -> Seq(Block \cup {Dropped})]
        /\ \A q \in Node : Len(queue'[q]) <= WriteCap + 1
    BY <2>1, <2>2 DEF Forget, TypeOK
  <2>4. /\ up' \in [Node -> BOOLEAN] /\ starts' \in 0..MaxStart
        /\ since' \in [Node -> 0..mined] /\ chain' \in [Node -> Seq(Block)]
    <3>1. CASE Crash(n)
      BY <3>1 DEF Crash, TypeOK
    <3>2. CASE Start(n)
      <4>1. starts' \in 0..MaxStart
        BY <3>2 DEF Start, TypeOK
      <4>2. since' \in [Node -> 0..mined]
        BY <3>2 DEF Start, TypeOK
      <4>3. up' \in [Node -> BOOLEAN] /\ chain' \in [Node -> Seq(Block)]
        BY <2>2, <3>2 DEF Start, TypeOK
      <4> QED
        BY <4>1, <4>2, <4>3
    <3> QED
      BY <1>14, <3>1, <3>2
  <2>5. UNCHANGED <<mined, origin, parent>>
    BY <2>1 DEF Forget, blockVars
  <2>6. /\ written' \in [Node -> Block \cup {NoBlock}]
        /\ claim' \in [Node -> Block \cup {NoBlock}]
        /\ timers' \in [Node -> SUBSET Block] /\ waiting' \in [Node -> SUBSET Block]
    BY <2>1 DEF Forget, TypeOK
  <2>7. /\ own' \in [Node -> Block \cup {NoBlock}] /\ at' \in [Node -> MinerPlaces]
        /\ active' \in [Node -> SUBSET Node] /\ todo' \in [Node -> SUBSET Node]
        /\ \A q \in Node : todo'[q] \subseteq active'[q] /\ q \notin active'[q]
        /\ \A q \in Node : at'[q] # "idle" => own'[q] \in Block
        /\ rejected' \in [Node -> BOOLEAN] /\ lastErr' \in [Node -> BOOLEAN]
    BY <2>1 DEF Forget, ExchangeOver, TypeOK, MinerPlaces
  <2> QED
    BY <2>3, <2>4, <2>5, <2>6, <2>7 DEF TypeOK
<1>15. ASSUME NEW n \in Node, NEW b \in Block, ClaimTimeout(n, b) PROVE TypeInv'
  BY <1>15 DEF ClaimTimeout, TypeOK, processVars, minerVars, blockVars, exchangeVars, writerVars
<1>16. ASSUME NEW n \in Node, NEW b \in Block, Enqueue(n, b) PROVE TypeInv'
  <2>1. /\ queue' \in [Node -> Seq(Block \cup {Dropped})]
        /\ \A q \in Node : Len(queue'[q]) <= WriteCap + 1
    BY <1>16, RoomForOne DEF Enqueue
  <2>2. waiting' \in [Node -> SUBSET Block]
    BY <1>16 DEF Enqueue, TypeOK
  <2>3. \A q \in Node : todo'[q] \subseteq todo[q]
    BY <1>16 DEF Enqueue
  <2>4. todo' \in [Node -> SUBSET Node] /\ \A q \in Node : todo'[q] \subseteq active[q]
    BY <1>16, <2>3 DEF Enqueue, TypeOK
  <2> QED
    BY <1>16, <2>1, <2>2, <2>4 DEF Enqueue, TypeOK, processVars, minerVars, blockVars, claimVars
<1>17. ASSUME NEW n \in Node, DropBatch(n) PROVE TypeInv'
  <2>1. /\ queue' \in [Node -> Seq(Block \cup {Dropped})]
        /\ \A q \in Node : Len(queue'[q]) <= WriteCap + 1
    BY <1>17, RoomForOne DEF DropBatch
  <2> QED
    BY <1>17, <2>1
    DEF DropBatch, TypeOK, processVars, minerVars, blockVars, exchangeVars, claimVars
<1> QED
  BY <1>1, <1>2, <1>3, <1>4, <1>5, <1>6, <1>7, <1>8, <1>9, <1>10, <1>11, <1>12,
     <1>13, <1>14, <1>15, <1>16, <1>17
  DEF Next, Exchange, Writer

\* The claims, channels, files and exchanges of every node keep their types,
\* writeChan its capacity, and no node is to ask itself.
THEOREM NetworkTypeCorrect == Spec => []TypeOK
<1>1. TypeInv => TypeOK
  BY DEF TypeInv
<1> QED
  BY <1>1, InitType, NextType, PTL DEF Spec

-----------------------------------------------------------------------------
\* Only mined blocks are about, and no node starts a release goroutine, nor a
\* handler of /block, for a block of its own.
Foreign(n) == timers[n] \cup waiting[n]
KnownBlocks ==
  \A n \in Node :
    /\ own[n] <= mined /\ claim[n] <= mined /\ written[n] <= mined
    /\ \A i \in 1..Len(queue[n]) : queue[n][i] # Dropped => queue[n][i] <= mined
    /\ \A b \in Foreign(n) : b <= mined /\ origin[b] # n

\* A node that shows its block around holds its claim with it, and the writer
\* has not got it yet.
OwnClaim ==
  \A n \in Live : at[n] # "idle" =>
    /\ origin[own[n]] = n
    /\ claim[n] = own[n]
    /\ written[n] # own[n]
    /\ \A i \in 1..Len(queue[n]) : queue[n][i] # own[n]

ClaimInv == TypeInv /\ KnownBlocks /\ OwnClaim

LEMMA InitClaimInv == Init => ClaimInv
<1> SUFFICES ASSUME Init PROVE ClaimInv
  OBVIOUS
<1>1. \A n \in Node : Len(queue[n]) = 0
  BY DEF Init
<1>2. KnownBlocks
  BY <1>1 DEF Init, KnownBlocks, Foreign, NoBlock
<1>3. OwnClaim
  BY DEF Init, OwnClaim, Live
<1> QED
  BY <1>2, <1>3, InitType DEF ClaimInv

LEMMA NextClaimInv == ClaimInv /\ [Next]_vars => ClaimInv'
<1> SUFFICES ASSUME ClaimInv, [Next]_vars PROVE KnownBlocks' /\ OwnClaim'
  BY NextType DEF ClaimInv
<1> USE NetworkAssumption DEF ClaimInv, TypeInv, Live, Foreign
<1>1. CASE UNCHANGED vars
  BY <1>1 DEF KnownBlocks, OwnClaim, vars, processVars, minerVars, blockVars, exchangeVars,
              writerVars, claimVars
<1>2. ASSUME NEW n \in Node, MineBlock(n) PROVE KnownBlocks' /\ OwnClaim'
  <2>1. /\ mined \in Nat /\ mined' = mined + 1 /\ mined' \in Block
        /\ \A q \in Node : own[q] \in Nat /\ claim[q] \in Nat /\ written[q] \in Nat
        /\ \A q \in Node : \A i \in 1..Len(queue[q]) :
             queue[q][i] # Dropped => queue[q][i] \in Nat
        /\ Dropped # mined'
        /\ \A q \in Node : Foreign(q) \subseteq Nat
    <3>1. mined \in Nat /\ mined' = mined + 1 /\ mined' \in Block
      BY <1>2 DEF MineBlock, TypeOK, Block
    <3>2. \A q \in Node : own[q] \in Nat /\ claim[q] \in Nat /\ written[q] \in Nat
      BY DEF TypeOK, Block, NoBlock
    <3>3. \A q \in Node : \A i \in 1..Len(queue[q]) : queue[q][i] \in Block \cup {Dropped}
      BY DEF TypeOK
    <3>4. \A q \in Node : Foreign(q) \subseteq Nat
      BY DEF TypeOK, Block
    <3>5. Dropped # mined'
      BY <1>2 DEF MineBlock, TypeOK, Dropped
    <3> QED
      BY <3>1, <3>2, <3>3, <3>4, <3>5 DEF Block
  <2>2. /\ own' = [own EXCEPT ![n] = mined'] /\ claim' = [claim EXCEPT ![n] = mined']
        /\ origin' = [origin EXCEPT ![mined'] = n]
        /\ UNCHANGED <<up, written, queue, timers, waiting>>
        /\ at' = [at EXCEPT ![n] = "health"]
    BY <1>2 DEF MineBlock, processVars, writerVars
  <2>3. KnownBlocks'
    <3> SUFFICES ASSUME NEW q \in Node
                 PROVE  (/\ own[q] <= mined /\ claim[q] <= mined /\ written[q] <= mined
                         /\ \A i \in 1..Len(queue[q]) : queue[q][i] # Dropped => queue[q][i] <= mined
                         /\ \A b \in Foreign(q) : b <= mined /\ origin[b] # q)'
      BY DEF KnownBlocks
    <3>1. own'[q] <= mined' /\ claim'[q] <= mined' /\ written'[q] <= mined'
      BY SMTT(30), <2>1, <2>2 DEF KnownBlocks, TypeOK
    <3>2. \A i \in 1..Len(queue'[q]) : queue'[q][i] # Dropped => queue'[q][i] <= mined'
      BY SMTT(30), <2>1, <2>2 DEF KnownBlocks
    <3>3. ASSUME NEW b \in Foreign(q)' PROVE b <= mined' /\ origin'[b] # q
      BY SMTT(30), <2>1, <2>2, <3>3 DEF KnownBlocks, TypeOK
    <3> QED
      BY <3>1, <3>2, <3>3
  <2>4. OwnClaim'
    <3> SUFFICES ASSUME NEW q \in Node, up[q], at'[q] # "idle"
                 PROVE  (/\ origin[own[q]] = q /\ claim[q] = own[q]
                         /\ written[q] # own[q]
                         /\ \A i \in 1..Len(queue[q]) : queue[q][i] # own[q])'
      BY <2>2 DEF OwnClaim
    <3>1. CASE q = n
      BY <2>1, <2>2, <3>1 DEF KnownBlocks, TypeOK
    <3>2. CASE q # n
      <4>1. own[q] \in Block /\ own[q] # mined' /\ at[q] # "idle"
        BY <2>1, <2>2, <3>2 DEF KnownBlocks, TypeOK
      <4> QED
        BY <2>2, <3>2, <4>1 DEF OwnClaim, TypeOK
    <3> QED
      BY <3>1, <3>2
  <2> QED
    BY <2>3, <2>4
<1>3. ASSUME NEW n \in Node,
             \/ HealthCheck(n) \/ StartPost(n)
             \/ \E p \in Node : NoAnswer(n, p) \/ RefuseToSign(n, p) \/ Refuse(n, p)
      PROVE  KnownBlocks' /\ OwnClaim'
  <2>1. /\ UNCHANGED <<up, mined, origin, own, chain, queue, written, claim, timers, waiting>>
        /\ \A q \in Node : at'[q] # "idle" => at[q] # "idle"
    BY <1>3 DEF HealthCheck, StartPost, NoAnswer, RefuseToSign, Refuse, TypeOK,
                processVars, minerVars, blockVars, writerVars, claimVars
  <2> QED
    BY <2>1 DEF KnownBlocks, OwnClaim
<1>4. ASSUME NEW n \in Node, SendMined(n) PROVE KnownBlocks' /\ OwnClaim'
  <2>1. /\ UNCHANGED <<up, mined, origin, written, claim, timers, waiting>>
        /\ at' = [at EXCEPT ![n] = "idle"]
        /\ own' = [own EXCEPT ![n] = NoBlock]
        /\ queue' = [queue EXCEPT ![n] = Append(queue[n], own[n])]
    BY <1>4 DEF SendMined, ExchangeOver, processVars, blockVars, claimVars
  <2>2. \A q \in Node : \A i \in 1..Len(queue'[q]) :
          (i \in 1..Len(queue[q]) /\ queue'[q][i] = queue[q][i]) \/ (q = n /\ queue'[q][i] = own[n])
    BY <2>1 DEF TypeOK
  <2>3. KnownBlocks'
    BY <2>1, <2>2 DEF KnownBlocks, TypeOK, NoBlock
  <2>4. OwnClaim'
    BY <2>1, <2>2 DEF OwnClaim, TypeOK
  <2> QED
    BY <2>3, <2>4
<1>5. ASSUME NEW n \in Node, GiveUpBlock(n) PROVE KnownBlocks' /\ OwnClaim'
  <2>1. /\ UNCHANGED <<up, mined, origin, queue, written, timers, waiting>>
        /\ at' = [at EXCEPT ![n] = "idle"]
        /\ own' = [own EXCEPT ![n] = NoBlock]
        /\ claim' = [claim EXCEPT ![n] = NoBlock]
    BY <1>5 DEF GiveUpBlock, ExchangeOver, processVars, blockVars, writerVars
  <2>2. NoBlock <= mined
    BY DEF TypeOK, NoBlock
  <2> QED
    BY <2>1, <2>2 DEF KnownBlocks, OwnClaim, TypeOK
<1>6. ASSUME NEW n \in Node, NEW p \in Node, Sign(n, p) PROVE KnownBlocks' /\ OwnClaim'
  <2>1. /\ UNCHANGED <<up, mined, origin, own, at, queue, written, waiting>>
        /\ claim' = [claim EXCEPT ![p] = own[n]]
        /\ timers' = [timers EXCEPT ![p] = timers[p] \cup {own[n]}]
    BY <1>6 DEF Sign, processVars, minerVars, blockVars, writerVars
  <2>2. up[n] /\ at[n] # "idle" /\ p # n /\ own[n] \in Block /\ claim[p] = NoBlock /\ up[p]
    BY <1>6 DEF Sign, Asking, CanSign, TypeOK
  <2>3. origin[own[n]] = n
    BY <2>2 DEF OwnClaim
  <2>4. at[p] = "idle"
    BY <2>2 DEF OwnClaim, NoBlock, Block
  <2>5. KnownBlocks'
    BY <2>1, <2>2, <2>3 DEF KnownBlocks, TypeOK
  <2>6. OwnClaim'
    BY <2>1, <2>4 DEF OwnClaim, TypeOK
  <2> QED
    BY <2>5, <2>6
<1>7. ASSUME NEW n \in Node, NEW p \in Node, Accept(n, p) PROVE KnownBlocks' /\ OwnClaim'
  <2>1. /\ UNCHANGED <<up, mined, origin, own, at, queue, written, timers>>
        /\ claim' = [claim EXCEPT ![p] = own[n]]
        /\ waiting' = [waiting EXCEPT ![p] = waiting[p] \cup {own[n]}]
    BY <1>7 DEF Accept, processVars, minerVars, blockVars
  <2>2. /\ up[n] /\ at[n] # "idle" /\ p # n /\ own[n] \in Block
        /\ claim[p] \in {NoBlock, own[n]} /\ up[p]
    BY <1>7 DEF Accept, Asking, CanAccept, TypeOK
  <2>3. origin[own[n]] = n
    BY <2>2 DEF OwnClaim
  <2>4. at[p] = "idle"
    BY <2>2, <2>3 DEF OwnClaim, NoBlock, Block
  <2>5. KnownBlocks'
    BY <2>1, <2>2, <2>3 DEF KnownBlocks, TypeOK
  <2>6. OwnClaim'
    BY <2>1, <2>4 DEF OwnClaim, TypeOK
  <2> QED
    BY <2>5, <2>6
<1>8. ASSUME NEW n \in Node, Write(n) PROVE KnownBlocks' /\ OwnClaim'
  <2>1. /\ UNCHANGED <<mined, origin, own, at, claim, timers, waiting>>
        /\ queue[n] # <<>>
        /\ queue' = [queue EXCEPT ![n] = Tail(queue[n])]
        /\ \/ written' = written
           \/ Head(queue[n]) # Dropped /\ written' = [written EXCEPT ![n] = Head(queue[n])]
        /\ \A q \in Node : up'[q] => up[q]
    BY ZenonT(30), <1>8 DEF Write, TypeOK, processVars, minerVars, blockVars, claimVars
  <2>2. /\ 1 \in 1..Len(queue[n]) /\ Head(queue[n]) = queue[n][1]
        /\ \A q \in Node : \A i \in 1..Len(queue'[q]) :
             \E j \in 1..Len(queue[q]) : queue'[q][i] = queue[q][j]
    <3>1. queue \in [Node -> Seq(Block \cup {Dropped})]
      BY DEF TypeOK
    <3>2. \A i \in 1..Len(Tail(queue[n])) :
            i + 1 \in 1..Len(queue[n]) /\ Tail(queue[n])[i] = queue[n][i + 1]
      BY <2>1, <3>1
    <3>3. 1 \in 1..Len(queue[n]) /\ Head(queue[n]) = queue[n][1]
      BY <2>1, <3>1
    <3> QED
      BY <2>1, <3>1, <3>2, <3>3
  <2>3. KnownBlocks'
    BY <2>1, <2>2 DEF KnownBlocks, TypeOK
  <2>4. OwnClaim'
    BY <2>1, <2>2 DEF OwnClaim, TypeOK
  <2> QED
    BY <2>3, <2>4
<1>9. ASSUME NEW n \in Node, Release(n) PROVE KnownBlocks' /\ OwnClaim'
  <2>1. /\ UNCHANGED <<mined, origin, own, at, queue, timers, waiting>>
        /\ written[n] # NoBlock
        /\ written' = [written EXCEPT ![n] = NoBlock]
        /\ \/ claim' = claim
           \/ claim[n] = written[n] /\ claim' = [claim EXCEPT ![n] = NoBlock]
    BY <1>9 DEF Release, minerVars, blockVars
  <2>5. \A q \in Node : up'[q] => up[q]
    <3>1. up' = up \/ up' = [up EXCEPT ![n] = FALSE]
      BY <1>9 DEF Release
    <3>2. up \in [Node -> BOOLEAN]
      BY DEF TypeOK
    <3> QED
      BY <3>1, <3>2
  <2>2. NoBlock <= mined
    BY DEF TypeOK, NoBlock
  <2>3. KnownBlocks'
    BY <2>1, <2>2 DEF KnownBlocks, TypeOK
  <2>4. OwnClaim'
    <3>1. \A q \in Node : at[q] # "idle" => own[q] # NoBlock
      BY DEF NoBlock, Block
    <3> QED
      BY <2>1, <2>5, <3>1 DEF OwnClaim, TypeOK
  <2> QED
    BY <2>3, <2>4
<1>10. ASSUME NEW n \in Node, Crash(n) \/ Start(n) PROVE KnownBlocks' /\ OwnClaim'
  <2>1. /\ UNCHANGED <<mined, origin>>
        /\ \A q \in Node : q # n => up'[q] = up[q]
        /\ queue' = [queue EXCEPT ![n] = <<>>]
        /\ written' = [written EXCEPT ![n] = NoBlock]
        /\ claim' = [claim EXCEPT ![n] = NoBlock]
        /\ timers' = [timers EXCEPT ![n] = {}]
        /\ waiting' = [waiting EXCEPT ![n] = {}]
        /\ own' = [own EXCEPT ![n] = NoBlock]
        /\ at' = [at EXCEPT ![n] = "idle"]
    BY <1>10 DEF Crash, Start, Forget, ExchangeOver, TypeOK, blockVars
  <2>2. NoBlock <= mined
    BY DEF TypeOK, NoBlock
  <2>3. KnownBlocks'
    BY <2>1, <2>2 DEF KnownBlocks, TypeOK
  <2>4. OwnClaim'
    BY <2>1 DEF OwnClaim, TypeOK
  <2> QED
    BY <2>3, <2>4
<1>11. ASSUME NEW n \in Node, NEW b \in Block, ClaimTimeout(n, b)
       PROVE  KnownBlocks' /\ OwnClaim'
  <2>1. /\ UNCHANGED <<up, mined, origin, own, at, queue, written, waiting>>
        /\ b \in timers[n]
        /\ timers' = [timers EXCEPT ![n] = timers[n] \ {b}]
        /\ claim' = [claim EXCEPT ![n] = IF claim[n] = b THEN NoBlock ELSE claim[n]]
    BY <1>11 DEF ClaimTimeout, processVars, minerVars, blockVars, writerVars
  <2>2. NoBlock <= mined
    BY DEF TypeOK, NoBlock
  <2>3. KnownBlocks'
    BY <2>1, <2>2 DEF KnownBlocks, TypeOK
  <2>4. up[n] /\ at[n] # "idle" => claim[n] # b
    BY <2>1 DEF KnownBlocks, OwnClaim
  <2>5. OwnClaim'
    BY <2>1, <2>4 DEF OwnClaim, TypeOK
  <2> QED
    BY <2>3, <2>5
<1>12. ASSUME NEW n \in Node, NEW b \in Block \cup {Dropped},
              \/ b \in waiting[n] /\ Enqueue(n, b)
              \/ b = Dropped /\ DropBatch(n)
       PROVE  KnownBlocks' /\ OwnClaim'
  <2>1. /\ UNCHANGED <<up, mined, origin, own, at, written, claim, timers>>
        /\ queue' = [queue EXCEPT ![n] = Append(queue[n], b)]
        /\ \A q \in Node : waiting'[q] \subseteq waiting[q]
    <3>1. CASE Enqueue(n, b)
      <4>1. /\ UNCHANGED <<up, mined, origin, own, at, written, claim, timers>>
            /\ queue' = [queue EXCEPT ![n] = Append(queue[n], b)]
            /\ waiting' = [waiting EXCEPT ![n] = waiting[n] \ {b}]
        BY <3>1 DEF Enqueue, processVars, minerVars, blockVars, claimVars
      <4> QED
        BY <4>1 DEF TypeOK
    <3>2. CASE b = Dropped /\ DropBatch(n)
      BY <3>2 DEF DropBatch, processVars, minerVars, blockVars, claimVars
    <3> QED
      BY <1>12, <3>1, <3>2
  <2>2. \A q \in Node : \A i \in 1..Len(queue'[q]) :
          (i \in 1..Len(queue[q]) /\ queue'[q][i] = queue[q][i]) \/ (q = n /\ queue'[q][i] = b)
    BY SMTT(30), <2>1 DEF TypeOK
  <2>3. b # Dropped => b <= mined /\ origin[b] # n
    BY <1>12 DEF KnownBlocks
  <2>4. KnownBlocks'
    BY <2>1, <2>2, <2>3 DEF KnownBlocks
  <2>5. \A q \in Node : at[q] # "idle" => own[q] # Dropped
    BY DEF Block, Dropped
  <2>6. OwnClaim'
    BY <2>1, <2>2, <2>3, <2>5 DEF OwnClaim
  <2> QED
    BY <2>4, <2>6
<1>13. ASSUME NEW n \in Node, NEW b \in Block, Enqueue(n, b) PROVE KnownBlocks' /\ OwnClaim'
  BY <1>12, <1>13 DEF Enqueue
<1>14. ASSUME NEW n \in Node, DropBatch(n) PROVE KnownBlocks' /\ OwnClaim'
  BY <1>12, <1>14
<1> QED
  BY <1>1, <1>2, <1>3, <1>4, <1>5, <1>6, <1>7, <1>8, <1>9, <1>10, <1>11, <1>13, <1>14
  DEF Next, Exchange, Writer

-----------------------------------------------------------------------------
\* In the round for signatures n has passed m without an error, or the round is
\* over.
Passed(n, m) ==
  \/ at[n] = "post"
  \/ at[n] = "sign" /\ m \notin todo[n] /\ ~PhaseFailed(n)

NoMutualPass == \A n, m \in Live : n # m => ~(Passed(n, m) /\ Passed(m, n))

PassInv == ClaimInv /\ NoMutualPass

\* A node that comes to run has been started.
LEMMA ComesUp ==
  ASSUME TypeOK, [Next]_vars, NEW q \in Node, ~up[q], up'[q]
  PROVE  Start(q)
<1>1. ASSUME NEW x \in Node, MineBlock(x) \/ Exchange(x) \/ DropBatch(x) PROVE up' = up
  BY <1>1 DEF MineBlock, Exchange, HealthCheck, StartPost, SendMined, GiveUpBlock,
              NoAnswer, Sign, RefuseToSign, Accept, Refuse, DropBatch, processVars
<1>2. ASSUME NEW x \in Node, NEW b \in Block, Enqueue(x, b) \/ ClaimTimeout(x, b)
      PROVE  up' = up
  BY <1>2 DEF Enqueue, ClaimTimeout, processVars
<1>3. ASSUME NEW x \in Node, Write(x) \/ Release(x) \/ Crash(x)
      PROVE  up' = up \/ up' = [up EXCEPT ![x] = FALSE]
  BY <1>3 DEF Write, Release, Crash
<1>4. CASE UNCHANGED vars
  BY <1>4 DEF vars, processVars
<1>5. ASSUME NEW x \in Node, Start(x) PROVE Start(q)
  <2>1. up' = [up EXCEPT ![x] = TRUE]
    BY <1>5 DEF Start
  <2>2. x = q
    BY <2>1 DEF TypeOK
  <2> QED
    BY <1>5, <2>2
<1>6. ASSUME NEW x \in Node, Write(x) \/ Release(x) \/ Crash(x) PROVE FALSE
  BY ZenonT(30), <1>3, <1>6 DEF TypeOK
<1> QED
  BY <1>1, <1>2, <1>4, <1>5, <1>6 DEF Next, Writer

\* A step that makes q pass r is the answer of r, which is idle.
LEMMA PassStep ==
  ASSUME ~Lossy, ClaimInv, [Next]_vars,
         NEW q \in Node, NEW r \in Node, q # r, up'[q], up'[r],
         Passed(q, r)', ~Passed(q, r)
  PROVE  /\ Sign(q, r)
         /\ at[r] = "idle" /\ at' = at
<1> USE DEF ClaimInv, TypeInv, TypeOK
<1>1. ~UNCHANGED vars
  BY DEF Passed, PhaseFailed, vars, minerVars, exchangeVars
<1>2. ASSUME NEW x \in Node, MineBlock(x) PROVE FALSE
  BY <1>2 DEF MineBlock, Passed, PhaseFailed, exchangeVars
<1>3. ASSUME NEW x \in Node, HealthCheck(x) PROVE FALSE
  <2>1. CASE x = q
    BY <1>3, <2>1 DEF HealthCheck, Others, Passed, Live, processVars
  <2>2. CASE x # q
    BY <1>3, <2>2 DEF HealthCheck, Passed, PhaseFailed
  <2> QED
    BY <2>1, <2>2
<1>4. ASSUME NEW x \in Node, StartPost(x) PROVE FALSE
  <2>1. CASE x = q
    BY <1>4, <2>1 DEF StartPost, Passed
  <2>2. CASE x # q
    BY <1>4, <2>2 DEF StartPost, Passed, PhaseFailed
  <2> QED
    BY <2>1, <2>2
<1>5. ASSUME NEW x \in Node, SendMined(x) \/ GiveUpBlock(x) PROVE FALSE
  <2>1. ExchangeOver(x) /\ (todo' = todo \/ todo' = [todo EXCEPT ![x] = {}])
    BY <1>5 DEF SendMined, GiveUpBlock
  <2>2. x # q
    BY <2>1 DEF ExchangeOver, Passed
  <2> QED
    BY <2>1, <2>2 DEF ExchangeOver, Passed, PhaseFailed
<1>6. ASSUME NEW x \in Node, NEW y \in Node, NoAnswer(x, y) PROVE FALSE
  <2>1. ~up[y] /\ up' = up
    BY <1>6 DEF NoAnswer, processVars
  <2>2. r # y
    BY <2>1
  <2>3. at' = at /\ (r \notin todo'[q] => r \notin todo[q])
        /\ (PhaseFailed(q) => PhaseFailed(q)')
    BY <1>6, <2>2 DEF NoAnswer, minerVars, PhaseFailed
  <2> QED
    BY <2>3 DEF Passed
<1>7. ASSUME NEW x \in Node, NEW y \in Node, Sign(x, y), ~(x = q /\ y = r) PROVE FALSE
  <2>1. at' = at /\ (r \notin todo'[q] => r \notin todo[q])
        /\ rejected' = rejected /\ lastErr' = lastErr
    BY <1>7 DEF Sign, minerVars
  <2> QED
    BY <2>1 DEF Passed, PhaseFailed
<1>8. ASSUME NEW x \in Node, NEW y \in Node, RefuseToSign(x, y) PROVE FALSE
  <2>1. CASE x = q
    <3>1. at'[q] = "sign" /\ rejected'[q] /\ lastErr'[q]
      BY <1>8, <2>1 DEF RefuseToSign, Asking, minerVars
    <3> QED
      BY <3>1 DEF Passed, PhaseFailed
  <2>2. CASE x # q
    BY <1>8, <2>2 DEF RefuseToSign, Passed, PhaseFailed, minerVars
  <2> QED
    BY <2>1, <2>2
<1>9. ASSUME NEW x \in Node, NEW y \in Node, Accept(x, y) \/ Refuse(x, y) PROVE FALSE
  <2>1. CASE x = q
    BY <1>9, <2>1 DEF Accept, Refuse, Asking, Passed, minerVars
  <2>2. CASE x # q
    BY <1>9, <2>2 DEF Accept, Refuse, Passed, PhaseFailed, minerVars, exchangeVars
  <2> QED
    BY <2>1, <2>2
<1>10. ASSUME NEW x \in Node, Write(x) \/ Release(x) \/ Crash(x) \/ Start(x) PROVE FALSE
  <2>1. CASE Write(x) \/ Release(x)
    BY <2>1 DEF Write, Release, Passed, PhaseFailed, minerVars, exchangeVars
  <2>2. CASE Crash(x) \/ Start(x)
    <3>1. ExchangeOver(x) /\ todo' = [todo EXCEPT ![x] = {}]
      BY <2>2 DEF Crash, Start, Forget
    <3>2. x # q
      BY <3>1 DEF ExchangeOver, Passed
    <3> QED
      BY <3>1, <3>2 DEF ExchangeOver, Passed, PhaseFailed
  <2> QED
    BY <1>10, <2>1, <2>2
<1>11. ASSUME NEW x \in Node, NEW b \in Block, ClaimTimeout(x, b) PROVE FALSE
  BY <1>11 DEF ClaimTimeout, Passed, PhaseFailed, minerVars, exchangeVars
<1>12. ASSUME NEW x \in Node, NEW b \in Block, Enqueue(x, b) PROVE FALSE
  <2>1. /\ at' = at /\ rejected' = rejected /\ lastErr' = lastErr
        /\ at[q] # "post" => todo'[q] = todo[q]
    BY <1>12 DEF Enqueue, Asking, minerVars
  <2> QED
    BY <2>1 DEF Passed, PhaseFailed
<1>13. ASSUME NEW x \in Node, DropBatch(x) PROVE FALSE
  BY <1>13 DEF DropBatch, Passed, PhaseFailed, minerVars, exchangeVars
<1>14. Sign(q, r)
  BY <1>1, <1>2, <1>3, <1>4, <1>5, <1>6, <1>7, <1>8, <1>9, <1>10, <1>11, <1>12, <1>13
  DEF Next, Exchange, Writer
<1>15. up[r] /\ claim[r] = NoBlock /\ at' = at
  BY <1>14 DEF Sign, CanSign, minerVars
<1>16. at[r] = "idle"
  BY <1>15 DEF OwnClaim, Live, NoBlock, Block
<1> QED
  BY <1>14, <1>15, <1>16

LEMMA NextNoMutualPass ==
  ASSUME ~Lossy, PassInv, [Next]_vars
  PROVE  NoMutualPass'
<1> SUFFICES ASSUME NEW n \in Node, NEW m \in Node, up'[n], up'[m], n # m,
                    Passed(n, m)', Passed(m, n)'
             PROVE  FALSE
  BY DEF NoMutualPass, Live
<1> USE DEF PassInv, ClaimInv, TypeInv
<1>1. at'[n] # "idle" /\ at'[m] # "idle"
  BY DEF Passed
<1>2. Passed(n, m) /\ Passed(m, n)
  <2>1. CASE ~Passed(n, m)
    BY <1>1, <2>1, PassStep
  <2>2. CASE ~Passed(m, n)
    BY <1>1, <2>2, PassStep
  <2> QED
    BY <2>1, <2>2
<1>3. ASSUME NEW q \in Node, ~up[q], up'[q] PROVE at'[q] = "idle"
  BY SMTT(30), <1>3, ComesUp DEF Start, Forget, ExchangeOver, TypeOK
<1>4. up[n] /\ up[m]
  BY <1>1, <1>3
<1> QED
  BY <1>2, <1>4 DEF NoMutualPass, Live

\* If no request between running nodes is lost, no two of them ever send their
\* blocks out at the same time, however early the claims of signed blocks are
\* released, and whichever nodes stop and are started
\* again.
THEOREM DistributorIsAlone ==
  ASSUME ~Lossy
  PROVE  Spec => []OneDistributor
<1>1. Init => PassInv
  <2>1. Init => NoMutualPass
    BY DEF Init, NoMutualPass, Passed, Live
  <2> QED
    BY <2>1, InitClaimInv DEF PassInv
<1>2. PassInv /\ [Next]_vars => PassInv'
  BY NextClaimInv, NextNoMutualPass DEF PassInv
<1>3. PassInv => OneDistributor
  BY DEF PassInv, NoMutualPass, OneDistributor, Passed
<1> QED
  BY <1>1, <1>2, <1>3, PTL DEF Spec
=============================================================================
