------------------------------ MODULE Network ------------------------------
(***************************************************************************)
(* The nodes of the network and the requests they exchange.                *)
(*                                                                         *)
(* A node that has mined a block claims its own previous hash, asks which  *)
(* nodes answer a health check, asks each of them in turn to sign the      *)
(* block (/block-sign), sends it to each of them in turn (/block), and     *)
(* then hands it to its own writer. Requests are synchronous: the miner    *)
(* waits for an answer or for an error of the connection.                  *)
(*                                                                         *)
(* A process may end at any time and be started again, with an empty       *)
(* memory: what it wrote to files before is never read.                    *)
(*                                                                         *)
(* What BlockNode shows in detail is coarser here: /block-sign runs in one *)
(* step, /block in two, as it may wait for room in writeChan with the      *)
(* claim in its hand, and a miner whose claim fails has done nothing.      *)
(* Batches and retries are left out: a miner simply mines another block,   *)
(* or gives a batch up, whose dropped block then takes room in writeChan.  *)
(***************************************************************************)
EXTENDS Naturals, Sequences, FiniteSets

CONSTANTS
  NumNodes,  \* nodes, named by their place in localHostPorts
  MaxBlocks, \* blocks the nodes mine in all
  MaxCrash,  \* nodes that may be stopped at a time
  MaxStart,  \* processes started again in all
  WriteCap,  \* capacity of writeChan (1 in the code)
  MaxDropped, \* dropped blocks in the queues of all nodes at a time
  Lossy,     \* whether a request between running nodes may fail
  Timely     \* whether a claim outlives the exchange it was given to

ASSUME NetworkAssumption ==
  /\ NumNodes \in Nat \ {0}
  /\ MaxBlocks \in Nat
  /\ MaxCrash \in Nat
  /\ MaxStart \in Nat
  /\ WriteCap \in Nat \ {0}
  /\ MaxDropped \in Nat
  /\ Lossy \in BOOLEAN
  /\ Timely \in BOOLEAN

Node == 1..NumNodes

\* Blocks are numbered as they are mined. NoBlock is the empty hash: the
\* previous hash of a first block, and no claim.
Block == 1..MaxBlocks
NoBlock == 0

\* What the writer gets for a batch that was given up: a block outside the
\* chain, with no claim.
Dropped == MaxBlocks + 1

VARIABLES
  up,        \* up[n]: the process of n runs
  starts,    \* processes started again
  since,     \* since[n], history: the blocks mined before the process started
  mined,     \* the number of blocks mined
  origin,    \* origin[b]: the node that mined block b
  parent,    \* parent[b]: the previous hash in the header of block b
  chain,     \* chain[n]: blocks the process of n has written, the oldest first
  claim,     \* claim[n]: the block that holds the claim at n
  timers,    \* timers[n]: blocks whose release goroutine sleeps at n
  waiting,   \* waiting[n]: blocks whose /block handler waits to send them
  queue,     \* queue[n]: blocks with the writer of n or in its writeChan
  written,   \* written[n]: block in a file of n whose claim is to be released
  own,       \* own[n]: the block the miner of n works on
  at,        \* at[n]: where the miner of n is
  active,    \* active[n]: activeLocalHostPorts without n
  todo,      \* todo[n]: those of them the loop of this phase has still to ask
  rejected,  \* rejected[n]: countRejected > 0
  lastErr    \* lastErr[n]: lastFoundResponseErr is set

exchangeVars == <<active, todo, rejected, lastErr>>
blockVars    == <<mined, origin, parent>>
minerVars    == <<blockVars, own, at>>
writerVars   == <<chain, waiting, queue, written>>
claimVars    == <<claim, timers>>
processVars  == <<up, starts, since>>
vars == <<processVars, minerVars, exchangeVars, writerVars, claimVars>>

MinerPlaces == {"idle", "health", "sign", "post"}

\* previousBlockHash: the block last written.
Tip(n) == IF chain[n] = <<>> THEN NoBlock ELSE chain[n][Len(chain[n])]

Live == {n \in Node : up[n]}

-----------------------------------------------------------------------------
(* CreateNewBlocks *)

\* A proof of work is found and the claim taken: the previous hash of the
\* header is still that of the node and nobody claims it.
MineBlock(n) ==
  /\ up[n]
  /\ at[n] = "idle"
  /\ mined < MaxBlocks
  /\ claim[n] = NoBlock
  /\ mined' = mined + 1
  /\ origin' = [origin EXCEPT ![mined'] = n]
  /\ parent' = [parent EXCEPT ![mined'] = Tip(n)]
  /\ own' = [own EXCEPT ![n] = mined']
  /\ claim' = [claim EXCEPT ![n] = mined']
  /\ at' = [at EXCEPT ![n] = "health"]
  /\ UNCHANGED <<processVars, exchangeVars, writerVars, timers>>

\* Faulty variant: the node does not leave itself out.
OthersAndSelf(n) == Live

Others(n) == Live \ {n}

\* getSignaturesAndDistrubute asks who is there: every process that runs.
HealthCheck(n) ==
  /\ up[n]
  /\ at[n] = "health"
  /\ active' = [active EXCEPT ![n] = Others(n)]
  /\ todo' = [todo EXCEPT ![n] = Others(n)]
  /\ at' = [at EXCEPT ![n] = "sign"]
  /\ rejected' = [rejected EXCEPT ![n] = FALSE]
  /\ lastErr' = [lastErr EXCEPT ![n] = FALSE]
  /\ UNCHANGED <<processVars, blockVars, own, writerVars, claimVars>>

\* The end of getSignaturesAndDistrubute, and of its variables.
ExchangeOver(n) ==
  /\ at' = [at EXCEPT ![n] = "idle"]
  /\ own' = [own EXCEPT ![n] = NoBlock]
  /\ active' = [active EXCEPT ![n] = {}]
  /\ rejected' = [rejected EXCEPT ![n] = FALSE]
  /\ lastErr' = [lastErr EXCEPT ![n] = FALSE]

\* In phase `place`, n comes to p, the next in the order of localHostPorts.
Asking(n, p, place) ==
  /\ up[n]
  /\ at[n] = place
  /\ p \in todo[n]
  /\ \A q \in todo[n] : p <= q

\* The request is not delivered: the node counts as rejecting, and no error is
\* kept.
NoAnswer(n, p) ==
  /\ Asking(n, p, "sign") \/ Asking(n, p, "post")
  /\ ~up[p] \/ Lossy
  /\ todo' = [todo EXCEPT ![n] = @ \ {p}]
  /\ rejected' = [rejected EXCEPT ![n] = TRUE]
  /\ UNCHANGED <<processVars, minerVars, active, lastErr, writerVars, claimVars>>

-----------------------------------------------------------------------------
(* getSignatures, and /block-sign at the other node *)

\* Faulty variant: the claim is not looked at.
CanSignAgain(p, b) == parent[b] = Tip(p)

\* Faulty variant: the previous hash is not compared.
CanSignAnyTip(p, b) == claim[p] = NoBlock

CanSign(p, b) == parent[b] = Tip(p) /\ claim[p] = NoBlock

\* The other node claims its previous hash for the block and signs it. The
\* answer may get lost.
Sign(n, p) ==
  /\ Asking(n, p, "sign")
  /\ up[p]
  /\ CanSign(p, own[n])
  /\ claim' = [claim EXCEPT ![p] = own[n]]
  /\ timers' = [timers EXCEPT ![p] = @ \cup {own[n]}]
  /\ todo' = [todo EXCEPT ![n] = @ \ {p}]
  /\ \/ UNCHANGED rejected
     \/ Lossy /\ rejected' = [rejected EXCEPT ![n] = TRUE]
  /\ UNCHANGED <<processVars, minerVars, active, lastErr, writerVars>>

\* The other node answers with an error.
RefuseToSign(n, p) ==
  /\ Asking(n, p, "sign")
  /\ up[p]
  /\ ~CanSign(p, own[n])
  /\ todo' = [todo EXCEPT ![n] = @ \ {p}]
  /\ rejected' = [rejected EXCEPT ![n] = TRUE]
  /\ lastErr' = [lastErr EXCEPT ![n] = TRUE]
  /\ UNCHANGED <<processVars, minerVars, active, writerVars, claimVars>>

\* Faulty variant: no error is returned.
PhaseFailedNever(n) == FALSE

\* The end of a phase: an error is returned when a node rejected and an error
\* was kept; a rejection without one returns nil.
PhaseFailed(n) == rejected[n] /\ lastErr[n]

\* Faulty variant: the list of nodes is not taken up again.
PostToNone(n) == {}

PostTo(n) == active[n]

\* The signatures are complete: the same nodes are sent the block.
StartPost(n) ==
  /\ up[n]
  /\ at[n] = "sign"
  /\ todo[n] = {}
  /\ ~PhaseFailed(n)
  /\ at' = [at EXCEPT ![n] = "post"]
  /\ todo' = [todo EXCEPT ![n] = PostTo(n)]
  /\ rejected' = [rejected EXCEPT ![n] = FALSE]
  /\ lastErr' = [lastErr EXCEPT ![n] = FALSE]
  /\ UNCHANGED <<processVars, blockVars, own, active, writerVars, claimVars>>

\* The miner releases its claim and will mine another block.
GiveUpBlock(n) ==
  /\ up[n]
  /\ at[n] \in {"sign", "post"}
  /\ todo[n] = {}
  /\ PhaseFailed(n)
  /\ claim' = [claim EXCEPT ![n] = NoBlock]
  /\ ExchangeOver(n)
  /\ UNCHANGED <<processVars, blockVars, todo, writerVars, timers>>

-----------------------------------------------------------------------------
(* distribute, and /block at the other node *)

CanAccept(p, b) == parent[b] = Tip(p) /\ claim[p] \in {NoBlock, b}

\* The other node claims its previous hash for the block, unless the block
\* has the claim from /block-sign, and goes on to the send on its writeChan.
Accept(n, p) ==
  /\ Asking(n, p, "post")
  /\ up[p]
  /\ own[n] \notin waiting[p]
  /\ CanAccept(p, own[n])
  /\ claim' = [claim EXCEPT ![p] = own[n]]
  /\ waiting' = [waiting EXCEPT ![p] = @ \cup {own[n]}]
  /\ UNCHANGED <<processVars, minerVars, exchangeVars, chain, queue, written, timers>>


\* One block is with the writer, the others are in the channel.
HasRoom(p) == Len(queue[p]) + (IF written[p] = NoBlock THEN 0 ELSE 1) <= WriteCap

\* There is room: the handler sends the block and answers, if the miner is
\* still there and has not given up the connection.
Enqueue(p, b) ==
  /\ up[p]
  /\ b \in waiting[p]
  /\ HasRoom(p)
  /\ queue' = [queue EXCEPT ![p] = Append(@, b)]
  /\ waiting' = [waiting EXCEPT ![p] = @ \ {b}]
  /\ todo' = [n \in Node |-> IF Asking(n, p, "post") /\ own[n] = b
                              THEN todo[n] \ {p} ELSE todo[n]]
  /\ UNCHANGED <<processVars, minerVars, active, rejected, lastErr, chain, written, claimVars>>

\* The other node answers with an error, which is kept but not counted.
Refuse(n, p) ==
  /\ Asking(n, p, "post")
  /\ up[p]
  /\ own[n] \notin waiting[p]
  /\ ~CanAccept(p, own[n])
  /\ todo' = [todo EXCEPT ![n] = @ \ {p}]
  /\ lastErr' = [lastErr EXCEPT ![n] = TRUE]
  /\ UNCHANGED <<processVars, minerVars, active, rejected, writerVars, claimVars>>

\* Faulty variant: the block is written before it is distributed.
DistributedEarly(n) == at[n] = "post"

Distributed(n) == at[n] = "post" /\ todo[n] = {}

\* The exchange succeeded: the miner puts the block on its own writeChan.
SendMined(n) ==
  /\ up[n]
  /\ Distributed(n)
  /\ ~PhaseFailed(n)
  /\ HasRoom(n)
  /\ queue' = [queue EXCEPT ![n] = Append(@, own[n])]
  /\ ExchangeOver(n)
  /\ todo' = [todo EXCEPT ![n] = {}]
  /\ UNCHANGED <<processVars, blockVars, chain, waiting, written, claimVars>>

\* Ten attempts have failed: the batch is written as a dropped block.
DroppedOnes == {e \in Node \X (1..(WriteCap + 1)) :
                  e[2] <= Len(queue[e[1]]) /\ queue[e[1]][e[2]] = Dropped}
DropBatch(n) ==
  /\ up[n]
  /\ at[n] = "idle"
  /\ Cardinality(DroppedOnes) < MaxDropped
  /\ HasRoom(n)
  /\ queue' = [queue EXCEPT ![n] = Append(@, Dropped)]
  /\ UNCHANGED <<processVars, minerVars, exchangeVars, chain, waiting, written, claimVars>>

-----------------------------------------------------------------------------
(* WriteBlocks *)

\* The writer saves the next block. A dropped one changes nothing else, the
\* others move the previous hash forward; one that does not fit ends the
\* process.
Fits(n, b) == Tip(n) = NoBlock \/ parent[b] = Tip(n)

Write(n) ==
  /\ up[n]
  /\ written[n] = NoBlock
  /\ queue[n] # <<>>
  /\ queue' = [queue EXCEPT ![n] = Tail(@)]
  /\ LET b == Head(queue[n]) IN
       \/ /\ b = Dropped
          /\ UNCHANGED <<up, chain, written>>
       \/ /\ b # Dropped /\ Fits(n, b)
          /\ chain' = [chain EXCEPT ![n] = Append(@, b)]
          /\ written' = [written EXCEPT ![n] = b]
          /\ UNCHANGED up
       \/ /\ b # Dropped /\ ~Fits(n, b)
          /\ up' = [up EXCEPT ![n] = FALSE]
          /\ UNCHANGED <<chain, written>>
  /\ UNCHANGED <<starts, since, minerVars, exchangeVars, waiting, claimVars>>

\* The writer releases the claim; a claim of another block ends the process.
Release(n) ==
  /\ up[n]
  /\ written[n] # NoBlock
  /\ written' = [written EXCEPT ![n] = NoBlock]
  /\ IF claim[n] = written[n]
       THEN claim' = [claim EXCEPT ![n] = NoBlock] /\ UNCHANGED up
       ELSE up' = [up EXCEPT ![n] = FALSE] /\ UNCHANGED claim
  /\ UNCHANGED <<starts, since, minerVars, exchangeVars, chain, waiting, queue, timers>>

-----------------------------------------------------------------------------
(* The release goroutine, and the end of a process *)

\* Block b is on its way: its origin shows it around, or n has it and will
\* write it.
Elements(s) == {s[i] : i \in 1..Len(s)}
Exchanging(o) == up[o] /\ at[o] # "idle"
Underway(n, b) ==
  \/ Exchanging(origin[b]) /\ own[origin[b]] = b
  \/ b \in waiting[n] \cup Elements(queue[n]) \cup {written[n]}

ClaimTimeout(n, b) ==
  /\ up[n]
  /\ b \in timers[n]
  /\ Timely => ~Underway(n, b)
  /\ timers' = [timers EXCEPT ![n] = @ \ {b}]
  /\ claim' = [claim EXCEPT ![n] = IF @ = b THEN NoBlock ELSE @]
  /\ UNCHANGED <<processVars, minerVars, exchangeVars, writerVars>>

\* The memory of a process is empty.
Forget(n) ==
  /\ waiting' = [waiting EXCEPT ![n] = {}]
  /\ queue' = [queue EXCEPT ![n] = <<>>]
  /\ written' = [written EXCEPT ![n] = NoBlock]
  /\ claim' = [claim EXCEPT ![n] = NoBlock]
  /\ timers' = [timers EXCEPT ![n] = {}]
  /\ ExchangeOver(n)
  /\ todo' = [todo EXCEPT ![n] = {}]
  /\ UNCHANGED blockVars

\* A process is stopped.
Crash(n) ==
  /\ up[n]
  /\ Cardinality(Node \ Live) < MaxCrash
  /\ up' = [up EXCEPT ![n] = FALSE]
  /\ Forget(n)
  /\ UNCHANGED <<starts, since, chain>>

\* Serve: a process starts on the first free port, with an empty chain.
Start(n) ==
  /\ ~up[n]
  /\ \A p \in Node \ Live : n <= p
  /\ starts < MaxStart
  /\ starts' = starts + 1
  /\ up' = [up EXCEPT ![n] = TRUE]
  /\ since' = [since EXCEPT ![n] = mined]
  /\ chain' = [chain EXCEPT ![n] = <<>>]
  /\ Forget(n)

-----------------------------------------------------------------------------
Init ==
  /\ up = [n \in Node |-> TRUE]
  /\ starts = 0
  /\ since = [n \in Node |-> 0]
  /\ mined = 0
  /\ origin = [b \in Block |-> 0]
  /\ parent = [b \in Block |-> NoBlock]
  /\ chain = [n \in Node |-> <<>>]
  /\ claim = [n \in Node |-> NoBlock]
  /\ timers = [n \in Node |-> {}]
  /\ waiting = [n \in Node |-> {}]
  /\ queue = [n \in Node |-> <<>>]
  /\ written = [n \in Node |-> NoBlock]
  /\ own = [n \in Node |-> NoBlock]
  /\ at = [n \in Node |-> "idle"]
  /\ active = [n \in Node |-> {}]
  /\ todo = [n \in Node |-> {}]
  /\ rejected = [n \in Node |-> FALSE]
  /\ lastErr = [n \in Node |-> FALSE]

Exchange(n) ==
  \/ HealthCheck(n) \/ StartPost(n) \/ SendMined(n) \/ GiveUpBlock(n)
  \/ \E p \in Node :
       \/ NoAnswer(n, p)
       \/ Sign(n, p) \/ RefuseToSign(n, p)
       \/ Accept(n, p) \/ Refuse(n, p)

Writer(n) == Write(n) \/ Release(n)

Next ==
  \E n \in Node :
    \/ MineBlock(n) \/ Exchange(n) \/ DropBatch(n) \/ Writer(n) \/ Crash(n) \/ Start(n)
    \/ \E b \in Block : Enqueue(n, b) \/ ClaimTimeout(n, b)

Spec == Init /\ [][Next]_vars

\* Requests are answered and goroutines that can run do run. A channel serves
\* those that wait to send in their order, so that a node that goes on dropping
\* batches cannot keep a handler waiting for ever. A node need not mine.
LiveSpec ==
  /\ Spec
  /\ \A n \in Node :
       /\ WF_vars(Exchange(n)) /\ WF_vars(Writer(n))
       /\ SF_vars(\E b \in Block : Enqueue(n, b))

-----------------------------------------------------------------------------
(* Properties *)

TypeOK ==
  /\ up \in [Node -> BOOLEAN]
  /\ starts \in 0..MaxStart
  /\ since \in [Node -> 0..mined]
  /\ mined \in 0..MaxBlocks
  /\ origin \in [Block -> Node \cup {0}]
  /\ parent \in [Block -> Block \cup {NoBlock}]
  /\ chain \in [Node -> Seq(Block)]
  /\ claim \in [Node -> Block \cup {NoBlock}]
  /\ timers \in [Node -> SUBSET Block]
  /\ waiting \in [Node -> SUBSET Block]
  /\ queue \in [Node -> Seq(Block \cup {Dropped})]
  /\ \A n \in Node : Len(queue[n]) <= WriteCap + 1
  /\ written \in [Node -> Block \cup {NoBlock}]
  /\ own \in [Node -> Block \cup {NoBlock}]
  /\ at \in [Node -> MinerPlaces]
  /\ active \in [Node -> SUBSET Node]
  /\ todo \in [Node -> SUBSET Node]
  /\ \A n \in Node : todo[n] \subseteq active[n] /\ n \notin active[n]
  /\ rejected \in [Node -> BOOLEAN]
  /\ lastErr \in [Node -> BOOLEAN]

Prefix(s, t) == Len(s) <= Len(t) /\ \A i \in 1..Len(s) : s[i] = t[i]

\* The nodes that run since before the first block was mined.
IsFounder(n) == up[n] /\ since[n] = 0
Founders == {n \in Node : IsFounder(n)}

\* "So as a network, there are no forks allowed": of the chains of two founders
\* one begins with the other, whoever stops and is started again beside them.
NoFork ==
  \A n, m \in Founders : Prefix(chain[n], chain[m]) \/ Prefix(chain[m], chain[n])

\* Two running nodes never send their blocks out at the same time: whoever got
\* all signatures is the only one.
OneDistributor == \A n, m \in Live : at[n] = "post" /\ at[m] = "post" => n = m

\* A node writes its own block only when every running node has it, except
\* those started after it was mined: "if it can't get 70% to 100% of the network
\* to agree, then it can only write dropped transactions".
Has(p, b) == b \in Elements(chain[p]) \cup Elements(queue[p])
OwnBlockIsEverywhere ==
  \A n, p \in Live : \A i \in 1..Len(chain[n]) :
    LET b == chain[n][i] IN origin[b] = n /\ since[p] < b => Has(p, b)

\* When nothing is under way, no node has stopped and none was started after
\* the first block, all have the same chain.
AtRest ==
  \A n \in Live :
    at[n] = "idle" /\ waiting[n] = {} /\ queue[n] = <<>> /\ written[n] = NoBlock
InSyncAtRest ==
  Live = Node /\ AtRest /\ (\A n \in Node : since[n] = 0) =>
    \A n, m \in Node : chain[n] = chain[m]

\* A node sends a block out only if every running node that ran when it was
\* mined has come to its previous block and keeps the claim for it: one node
\* that was started late, or missed a block, stops all the others.
SentOnSharedTip ==
  [][\A n \in Node : at[n] = "sign" /\ at'[n] = "post" =>
       \A p \in Live : since[p] < own[n] =>
         Tip(p) = parent[own[n]] /\ claim[p] = own[n]]_vars

\* As long as its process is not stopped or started, every node does what
\* BlockNode shows of a single one, whatever the others do and whichever
\* answers get lost: it says yes to the block that holds its claim, and keeps
\* the claim until that block is written. No assertion of its writer fails.
Promise(n) == INSTANCE NodePromise WITH
  chain    <- chain[n],
  claim    <- claim[n],
  accepted <- Elements(queue[n]) \ {Dropped},
  written  <- written[n]
FollowsPromise(n) ==
  /\ Crash(n) \/ Start(n) \/ Promise(n)!Next \/ UNCHANGED Promise(n)!vars
  /\ Writer(n) => up'[n]
KeepPromises ==
  /\ \A n \in Node : Promise(n)!Init
  /\ [][\A n \in Node : FollowsPromise(n)]_vars

\* The founders keep one chain among them.
FounderChain == [n \in Node |-> IF IsFounder(n) THEN chain[n] ELSE <<>>]
Shared == INSTANCE SharedChain WITH running <- Founders, chain <- FounderChain
KeepOneChain == Shared!Spec

=============================================================================
