-------------------------- MODULE BlockNodeProofs --------------------------
(***************************************************************************)
(* Theorems about BlockNode, for every set of hashes and batches, every    *)
(* retry limit and every capacity of writeChan.                            *)
(*                                                                         *)
(* The three inductive invariants build on each other: TypeInv says where  *)
(* the miner and the writer really hold a block, ChainInv adds that what   *)
(* the writer is about to save fits the chain, and ClaimInv follows the    *)
(* node's own block from the claim to the release. They hold whatever the  *)
(* 120 second timers do; BlockNodeTimelyProofs goes on under the           *)
(* assumption that these are long enough.                                  *)
(***************************************************************************)
EXTENDS BlockNode, TLAPS

\* A block passes from the miner to the writer only after it was mined, and
\* the writer advances only on a block that was accepted.
HoldsBlock ==
  /\ minerAt \in {"mining", "exchange"} => retry < MaxRetries
  /\ minerAt \in {"exchange", "send"} => mined \in Own
  /\ writerAt \in {"advance", "release"} => writing.hash \in Hash

TypeInv == TypeOK /\ HoldsBlock

\* An accepted block is an entry for writeChan.
LEMMA AcceptedEntryType ==
  ASSUME NEW h \in Hash
  PROVE  AcceptedEntry(h) \in Entry /\ AcceptedEntry(h).hash = h
  BY NodeAssumption DEF AcceptedEntry, Entry

\* So is the batch of a dropped block.
LEMMA DroppedEntryType ==
  ASSUME NEW b \in Batch \cup {NoBatch}
  PROVE  DroppedEntry(b) \in Entry /\ DroppedEntry(b).hash = Dropped
  BY DEF DroppedEntry, Entry

LEMMA InitTypeInv == Init => TypeInv
  BY NodeAssumption DEF Init, TypeInv, TypeOK, HoldsBlock, NoEntry, Entry,
     MinerPlaces, WriterPlaces, HandlerPlaces

\* Every step of the miner keeps the types.
LEMMA MinerTypeInv == TypeInv /\ Miner => TypeInv'
<1> SUFFICES ASSUME TypeInv, Miner PROVE TypeInv'
  OBVIOUS
<1> USE NodeAssumption DEF TypeInv, HoldsBlock, MinerPlaces
<1>1. CASE \E b \in Batch : TakeBatch(b)
  BY <1>1 DEF TypeOK, TakeBatch, runnerVars, writerVars
<1>2. CASE ReadPrev
  BY <1>2 DEF TypeOK, ReadPrev, AttemptsLeft, runnerVars, writerVars
<1>3. CASE \E h \in Own : MinerClaim(h)
  <2> PICK h \in Own : MinerClaim(h)
    BY <1>3
  <2>1. CASE CanClaim(h)
    BY <2>1 DEF TypeOK, MinerClaim, Counted, writerVars
  <2>2. CASE ~CanClaim(h)
    BY <2>2 DEF TypeOK, MinerClaim, Counted, writerVars
  <2> QED
    BY <2>1, <2>2
<1>4. CASE ExchangeAccepted
  BY <1>4 DEF TypeOK, ExchangeAccepted, runnerVars, writerVars
<1>5. CASE ExchangeRefused
  BY <1>5 DEF TypeOK, ExchangeRefused, ReleaseClaim, writerVars
<1>6. CASE SendMined
  <2>1. mined \in Hash /\ AcceptedEntry(mined) \in Entry
    BY <1>6, AcceptedEntryType DEF SendMined
  <2> QED
    BY <1>6, <2>1 DEF TypeOK, SendMined, MinerIdle, runnerVars, writerVars
<1>7. CASE GiveUp
  <2>1. DroppedEntry(batch) \in Entry
    BY DroppedEntryType DEF TypeOK
  <2> QED
    BY <1>7, <2>1 DEF TypeOK, GiveUp, MinerIdle, runnerVars, writerVars
<1> QED
  BY <1>1, <1>2, <1>3, <1>4, <1>5, <1>6, <1>7 DEF Miner

\* Every step of the writer keeps the types.
LEMMA WriterTypeInv == TypeInv /\ Writer => TypeInv'
<1> SUFFICES ASSUME TypeInv, Writer PROVE TypeInv'
  OBVIOUS
<1> USE NodeAssumption DEF TypeInv, HoldsBlock, WriterPlaces, minerVars, runnerVars
<1>1. CASE WriterReceive
  <2>1. Head(writeChan) \in Entry /\ Tail(writeChan) \in Seq(Entry)
        /\ Len(Tail(writeChan)) = Len(writeChan) - 1
    BY <1>1 DEF TypeOK, WriterReceive
  <2> QED
    BY <1>1, <2>1 DEF TypeOK, WriterReceive
<1>2. CASE WriterSave
  <2>1. writing.hash # Dropped => writing.hash \in Hash
    BY DEF TypeOK, Entry
  <2>2. writing.batch # NoBatch => writing.batch \in Batch
    BY DEF TypeOK, Entry
  <2>3. writing.hash # Dropped => Append(chain, writing.hash) \in Seq(Hash)
    BY <2>1 DEF TypeOK
  <2>4. outcome' \in [Batch -> {"none", "accepted", "dropped"}]
    BY <1>2, <2>2 DEF TypeOK, WriterSave
  <2> QED
    BY <1>2, <2>1, <2>3, <2>4 DEF TypeOK, WriterSave
<1>3. CASE WriterAdvance
  BY <1>3 DEF TypeOK, WriterAdvance
<1>4. CASE WriterRelease
  BY <1>4 DEF TypeOK, WriterRelease, ReleaseClaim
<1> QED
  BY <1>1, <1>2, <1>3, <1>4 DEF Writer

\* Every step of a handler or of a release goroutine keeps the types.
LEMMA HandlerTypeInv ==
  ASSUME TypeInv, NEW h \in Foreign,
         SignRequest(h) \/ AcceptValidate(h) \/ AcceptHandler(h) \/ ClaimTimeout(h)
  PROVE  TypeInv'
<1> USE NodeAssumption DEF TypeInv, HoldsBlock, HandlerPlaces, Foreign,
        minerVars, writerVars, runnerVars
<1>1. CASE SignRequest(h)
  BY <1>1 DEF TypeOK, SignRequest, TimersWith
<1>2. CASE AcceptValidate(h)
  BY <1>2 DEF TypeOK, AcceptValidate
<1>3. CASE AcceptClaim(h)
  BY <1>3 DEF TypeOK, AcceptClaim
<1>4. CASE AcceptRecheck(h)
  BY <1>4 DEF TypeOK, AcceptRecheck, IsClaimedBy
<1>5. CASE AcceptEnqueue(h)
  <2>1. AcceptedEntry(h) \in Entry
    BY AcceptedEntryType
  <2> QED
    BY <1>5, <2>1 DEF TypeOK, AcceptEnqueue
<1>6. CASE ClaimTimeout(h)
  BY <1>6 DEF TypeOK, ClaimTimeout, ClaimAfter
<1> QED
  BY <1>1, <1>2, <1>3, <1>4, <1>5, <1>6 DEF AcceptHandler

LEMMA NextTypeInv == TypeInv /\ [Next]_vars => TypeInv'
<1> SUFFICES ASSUME TypeInv, [Next]_vars PROVE TypeInv'
  OBVIOUS
<1>1. CASE UNCHANGED vars
  BY <1>1 DEF TypeInv, TypeOK, HoldsBlock, vars
<1>2. CASE Next
  BY <1>2, MinerTypeInv, WriterTypeInv, HandlerTypeInv DEF Next, Step
<1> QED
  BY <1>1, <1>2

\* Every variable of the node keeps its type, whatever order the goroutines
\* run in: attempts are counted to MaxRetries at most, and what is sent on
\* writeChan and held by the writer is always a block.
THEOREM TypeCorrect == Spec => []TypeOK
<1>1. Spec => []TypeInv
  BY InitTypeInv, NextTypeInv, PTL DEF Spec
<1>2. TypeInv => TypeOK
  BY DEF TypeInv
<1> QED
  BY <1>1, <1>2, PTL

-----------------------------------------------------------------------------
(* The chain *)

\* Before the first block is written, whatever has passed the first test of
\* a previous hash is a first block. WriteBlocks needs this: it does not test
\* the place of a block while its own previous hash is empty.
FirstBlocksOnly ==
  prevHash = NoHash =>
    /\ \A h \in Foreign : handler[h] # "none" => PrevOf[h] = NoHash
    /\ minerAt \in {"exchange", "send"} => PrevOf[mined] = NoHash
    /\ \A i \in 1..Len(writeChan) :
         writeChan[i].hash # Dropped => PrevOf[writeChan[i].hash] = NoHash

\* What the writer is about to save is built on the last block it saved.
SaveFits ==
  writerAt = "save" /\ writing.hash # Dropped => PrevOf[writing.hash] = prevHash

ChainInv == TypeInv /\ LinkedChain /\ HeadIsOnDisk /\ FirstBlocksOnly /\ SaveFits

LEMMA InitChainInv == Init => ChainInv
  BY InitTypeInv, NodeAssumption
  DEF Init, ChainInv, LinkedChain, HeadIsOnDisk, TipOf, FirstBlocksOnly, SaveFits

\* The miner never touches the chain. It claims on the current previous hash.
LEMMA MinerChainInv == ChainInv /\ Miner => ChainInv'
<1> SUFFICES ASSUME ChainInv, Miner PROVE ChainInv'
  OBVIOUS
<1> USE NodeAssumption DEF ChainInv
<1>1. TypeInv'
  BY MinerTypeInv
<1>2. UNCHANGED <<prevHash, handler, writerAt, writing, chain>>
  BY DEF Miner, TakeBatch, ReadPrev, AttemptsLeft, MinerClaim, Counted, ExchangeAccepted,
     ExchangeRefused, SendMined, GiveUp, runnerVars, writerVars
<1>3. LinkedChain' /\ HeadIsOnDisk' /\ SaveFits'
  BY <1>2 DEF LinkedChain, HeadIsOnDisk, TipOf, SaveFits
<1>4. FirstBlocksOnly'
  <2>1. CASE \E h \in Own : MinerClaim(h)
    <3> PICK h \in Own : MinerClaim(h)
      BY <2>1
    <3>1. CASE CanClaim(h)
      BY <1>2, <3>1 DEF FirstBlocksOnly, MinerClaim, Counted, CanClaim
    <3>2. CASE ~CanClaim(h)
      BY <1>2, <3>2 DEF FirstBlocksOnly, MinerClaim, Counted
    <3> QED
      BY <3>1, <3>2
  <2>2. CASE SendMined
    <3>1. mined \in Hash /\ AcceptedEntry(mined).hash = mined
          /\ AcceptedEntry(mined) \in Entry
      BY <2>2, AcceptedEntryType DEF SendMined, TypeInv, HoldsBlock
    <3> QED
      BY <1>2, <2>2, <3>1 DEF FirstBlocksOnly, SendMined, MinerIdle, TypeInv, TypeOK
  <2>3. CASE GiveUp
    <3>1. DroppedEntry(batch).hash = Dropped /\ DroppedEntry(batch) \in Entry
      BY DroppedEntryType DEF TypeInv, TypeOK
    <3> QED
      BY <1>2, <2>3, <3>1 DEF FirstBlocksOnly, GiveUp, MinerIdle, TypeInv, TypeOK
  <2>4. CASE \/ \E b \in Batch : TakeBatch(b)
             \/ ReadPrev \/ ExchangeAccepted \/ ExchangeRefused
    BY <1>2, <2>4 DEF FirstBlocksOnly, TakeBatch, ReadPrev, AttemptsLeft, ExchangeAccepted,
       ExchangeRefused
  <2> QED
    BY <2>1, <2>2, <2>3, <2>4 DEF Miner
<1> QED
  BY <1>1, <1>3, <1>4

\* The writer adds a block to the chain only where it belongs.
LEMMA WriterChainInv == ChainInv /\ Writer => ChainInv'
<1> SUFFICES ASSUME ChainInv, Writer PROVE ChainInv'
  OBVIOUS
<1> USE NodeAssumption DEF ChainInv
<1>1. TypeInv'
  BY WriterTypeInv
<1>2. chain \in Seq(Hash)
  BY DEF TypeInv, TypeOK
<1>3. CASE WriterReceive
  <2>1. UNCHANGED <<prevHash, minerAt, mined, handler, chain>>
    BY <1>3 DEF WriterReceive, runnerVars, minerVars
  <2>2. /\ writeChan \in Seq(Entry)
        /\ Len(writeChan) \in Nat \ {0}
        /\ Head(writeChan) = writeChan[1]
        /\ Head(writeChan) \in Entry
        /\ Len(Tail(writeChan)) = Len(writeChan) - 1
        /\ \A i \in 1..Len(Tail(writeChan)) : Tail(writeChan)[i] = writeChan[i + 1]
    BY <1>3 DEF WriterReceive, TypeInv, TypeOK
  <2>3. LinkedChain'
    BY <2>1 DEF LinkedChain
  <2>4. HeadIsOnDisk'
    BY <1>3, <2>1 DEF WriterReceive, HeadIsOnDisk, TipOf
  <2>5. FirstBlocksOnly'
    <3> SUFFICES ASSUME prevHash' = NoHash, NEW i \in 1..Len(writeChan'),
                        writeChan'[i].hash # Dropped
                 PROVE  PrevOf[writeChan'[i].hash] = NoHash
      BY <2>1 DEF FirstBlocksOnly
    <3>1. i + 1 \in 1..Len(writeChan) /\ writeChan'[i] = writeChan[i + 1]
      BY <1>3, <2>2 DEF WriterReceive
    <3> QED
      BY <2>1, <3>1 DEF FirstBlocksOnly
  <2>6. SaveFits'
    <3> SUFFICES ASSUME writerAt' = "save", writing'.hash # Dropped
                 PROVE  PrevOf[writing'.hash] = prevHash
      BY <2>1 DEF SaveFits
    <3>1. writing' = writeChan[1] /\ writing'.hash \in Hash /\ ~Misplaced(writing'.hash)
      BY <1>3, <2>2 DEF WriterReceive, Entry
    <3>2. CASE prevHash = NoHash
      BY <2>2, <3>1, <3>2 DEF FirstBlocksOnly
    <3>3. CASE prevHash # NoHash
      BY <3>1, <3>3 DEF Misplaced
    <3> QED
      BY <3>2, <3>3
  <2> QED
    BY <1>1, <2>3, <2>4, <2>5, <2>6
<1>4. CASE WriterSave
  <2>1. UNCHANGED <<prevHash, minerAt, mined, handler, writeChan, writing>>
    BY <1>4 DEF WriterSave, runnerVars, minerVars
  <2>2. CASE writing.hash = Dropped
    BY <1>1, <1>4, <2>1, <2>2
    DEF WriterSave, LinkedChain, HeadIsOnDisk, TipOf, FirstBlocksOnly, SaveFits
  <2>3. CASE writing.hash # Dropped
    <3>1. /\ writing.hash \in Hash
          /\ chain' = Append(chain, writing.hash)
          /\ writerAt' = "advance"
          /\ writerAt = "save"
      BY <1>4, <2>3 DEF WriterSave, TypeInv, TypeOK, Entry
    <3>2. /\ chain' # <<>>
          /\ Len(chain') = Len(chain) + 1
          /\ chain'[Len(chain')] = writing.hash
          /\ \A i \in 1..Len(chain) : chain'[i] = chain[i]
      BY <1>2, <3>1
    <3>3. PrevOf[writing.hash] = prevHash /\ prevHash = TipOf(chain)
      BY <2>3, <3>1 DEF SaveFits, HeadIsOnDisk
    <3>4. HeadIsOnDisk'
      BY <2>1, <3>1, <3>2, <3>3 DEF HeadIsOnDisk, TipOf
    <3>5. LinkedChain'
      <4> SUFFICES ASSUME NEW i \in 1..Len(chain')
                   PROVE  PrevOf[chain'[i]] = IF i = 1 THEN NoHash ELSE chain'[i - 1]
        BY DEF LinkedChain
      <4>1. CASE i = Len(chain) + 1
        BY <1>2, <3>2, <3>3, <4>1 DEF TipOf
      <4>2. CASE i \in 1..Len(chain)
        <5>1. PrevOf[chain[i]] = IF i = 1 THEN NoHash ELSE chain[i - 1]
          BY <4>2 DEF LinkedChain
        <5> QED
          BY <1>2, <3>2, <4>2, <5>1
      <4> QED
        BY <1>2, <3>2, <4>1, <4>2
    <3> QED
      BY <1>1, <2>1, <3>1, <3>4, <3>5 DEF FirstBlocksOnly, SaveFits
  <2> QED
    BY <2>2, <2>3
<1>5. CASE WriterAdvance
  <2>1. writing.hash \in Hash /\ prevHash' = writing.hash /\ writerAt = "advance"
    BY <1>5 DEF WriterAdvance, TypeInv, HoldsBlock
  <2> QED
    BY <1>1, <1>5, <2>1
    DEF WriterAdvance, LinkedChain, HeadIsOnDisk, TipOf, FirstBlocksOnly, SaveFits
<1>6. CASE WriterRelease
  BY <1>1, <1>6
  DEF WriterRelease, minerVars, LinkedChain, HeadIsOnDisk, TipOf, FirstBlocksOnly, SaveFits
<1> QED
  BY <1>3, <1>4, <1>5, <1>6 DEF Writer

\* The handlers look at the previous hash before anything else.
LEMMA HandlerChainInv ==
  ASSUME ChainInv, NEW h \in Foreign,
         SignRequest(h) \/ AcceptValidate(h) \/ AcceptHandler(h) \/ ClaimTimeout(h)
  PROVE  ChainInv'
<1> USE NodeAssumption DEF ChainInv
<1>1. TypeInv'
  BY HandlerTypeInv
<1>2. UNCHANGED <<prevHash, minerAt, mined, writerAt, writing, chain>>
  BY DEF AcceptHandler, SignRequest, TimersWith, AcceptValidate, AcceptClaim,
     AcceptRecheck, IsClaimedBy, AcceptEnqueue, ClaimTimeout, ClaimAfter, runnerVars, minerVars, writerVars
<1>3. LinkedChain' /\ HeadIsOnDisk' /\ SaveFits'
  BY <1>2 DEF LinkedChain, HeadIsOnDisk, TipOf, SaveFits
<1>4. FirstBlocksOnly'
  <2>1. CASE SignRequest(h) \/ ClaimTimeout(h)
    BY <1>2, <2>1 DEF FirstBlocksOnly, SignRequest, TimersWith, ClaimTimeout, ClaimAfter
  <2>2. CASE AcceptValidate(h) \/ AcceptClaim(h) \/ AcceptRecheck(h)
    BY <1>2, <2>2
    DEF FirstBlocksOnly, AcceptValidate, AcceptClaim, AcceptRecheck, IsClaimedBy, TypeInv, TypeOK
  <2>3. CASE AcceptEnqueue(h)
    <3>1. h \in Hash /\ AcceptedEntry(h).hash = h /\ AcceptedEntry(h) \in Entry
      BY AcceptedEntryType DEF Foreign
    <3> QED
      BY <1>2, <2>3, <3>1 DEF FirstBlocksOnly, AcceptEnqueue, minerVars, TypeInv, TypeOK
  <2> QED
    BY <2>1, <2>2, <2>3 DEF AcceptHandler
<1> QED
  BY <1>1, <1>3, <1>4

LEMMA NextChainInv == ChainInv /\ [Next]_vars => ChainInv'
<1> SUFFICES ASSUME ChainInv, [Next]_vars PROVE ChainInv'
  OBVIOUS
<1>1. CASE UNCHANGED vars
  BY <1>1, NextTypeInv
  DEF ChainInv, LinkedChain, HeadIsOnDisk, TipOf, FirstBlocksOnly, SaveFits, vars
<1>2. CASE Next
  BY <1>2, MinerChainInv, WriterChainInv, HandlerChainInv DEF Next, Step
<1> QED
  BY <1>1, <1>2

LEMMA SpecChainInv == Spec => []ChainInv
  BY InitChainInv, NextChainInv, PTL DEF Spec

\* The blocks in the files of a node are always linked by their headers, from
\* a first block without predecessor on, even when 120 second timeouts let two
\* blocks pass the claim for the same previous hash.
THEOREM ChainIsLinked == Spec => []LinkedChain
<1>1. ChainInv => LinkedChain
  BY DEF ChainInv
<1> QED
  BY <1>1, SpecChainInv, PTL

\* The previous hash that handlers and miner read under the mutex is the last
\* block on disk, or the one before it while setPrevBlockHash is still to come.
THEOREM HeadFollowsDisk == Spec => []HeadIsOnDisk
<1>1. ChainInv => HeadIsOnDisk
  BY DEF ChainInv
<1> QED
  BY <1>1, SpecChainInv, PTL

\* The previous hash of a node only ever moves to a block built on it.
THEOREM HashAdvances == Spec => PrevHashAdvances
<1>1. ASSUME ChainInv, [Next]_vars, prevHash' # prevHash
      PROVE  PrevOf[prevHash'] = prevHash
  <2>1. Writer
    BY <1>1
    DEF Next, Step, Miner, TakeBatch, ReadPrev, AttemptsLeft, MinerClaim, Counted, ExchangeAccepted,
        ExchangeRefused, SendMined, GiveUp, AcceptHandler, SignRequest, TimersWith,
        AcceptValidate, AcceptClaim, AcceptRecheck, IsClaimedBy, AcceptEnqueue,
        ClaimTimeout, ClaimAfter, runnerVars, vars
  <2>2. WriterAdvance
    BY <1>1, <2>1 DEF Writer, WriterReceive, WriterSave, WriterRelease, runnerVars
  <2> QED
    BY <1>1, <2>2 DEF WriterAdvance, ChainInv, HeadIsOnDisk
<1>2. ChainInv /\ [Next]_vars => [prevHash' # prevHash => PrevOf[prevHash'] = prevHash]_vars
  BY <1>1
<1> QED
  BY <1>2, SpecChainInv, PTL DEF Spec, PrevHashAdvances

-----------------------------------------------------------------------------
(* The claim of the node's own block *)

\* From the end of the exchange to the release the node's own block holds the
\* claim, and only one own block is on that way: a second one would have
\* needed the claim.
OwnBlockHoldsClaim ==
  /\ \A i \in 1..Len(writeChan) : writeChan[i].hash \in Own =>
       claim = writeChan[i].hash /\ minerAt \notin {"exchange", "send"}
  /\ \A i, j \in 1..Len(writeChan) :
       writeChan[i].hash \in Own /\ writeChan[j].hash \in Own => i = j
  /\ writerAt # "idle" /\ writing.hash \in Own =>
       /\ claim = writing.hash
       /\ minerAt \notin {"exchange", "send"}
       /\ \A i \in 1..Len(writeChan) : writeChan[i].hash \notin Own

ClaimInv == TypeInv /\ MinerHoldsClaim /\ OwnBlockHoldsClaim

LEMMA InitClaimInv == Init => ClaimInv
  BY InitTypeInv DEF Init, ClaimInv, MinerHoldsClaim, OwnBlockHoldsClaim

\* The miner claims when no own block is on its way, and moves its block to
\* writeChan with the claim.
LEMMA MinerClaimInv == ClaimInv /\ Miner => ClaimInv'
<1> SUFFICES ASSUME ClaimInv, Miner PROVE ClaimInv'
  OBVIOUS
<1> USE NodeAssumption DEF ClaimInv
<1>1. TypeInv'
  BY MinerTypeInv
<1>2. UNCHANGED <<writerAt, writing>>
  BY DEF Miner, TakeBatch, ReadPrev, AttemptsLeft, MinerClaim, Counted, ExchangeAccepted,
     ExchangeRefused, SendMined, GiveUp, writerVars
<1>3. CASE \/ \E b \in Batch : TakeBatch(b)
           \/ ReadPrev \/ ExchangeAccepted
  BY <1>1, <1>2, <1>3
  DEF MinerHoldsClaim, OwnBlockHoldsClaim, TakeBatch, ReadPrev, AttemptsLeft,
      ExchangeAccepted, runnerVars
<1>4. CASE \E h \in Own : MinerClaim(h)
  <2> PICK h \in Own : MinerClaim(h)
    BY <1>4
  <2>1. CASE CanClaim(h)
    BY <1>1, <1>2, <2>1 DEF MinerClaim, Counted, CanClaim, MinerHoldsClaim, OwnBlockHoldsClaim
  <2>2. CASE ~CanClaim(h)
    BY <1>1, <1>2, <2>2 DEF MinerClaim, Counted, MinerHoldsClaim, OwnBlockHoldsClaim
  <2> QED
    BY <2>1, <2>2
<1>5. CASE ExchangeRefused
  BY <1>1, <1>2, <1>5
  DEF ExchangeRefused, ReleaseClaim, MinerHoldsClaim, OwnBlockHoldsClaim
<1>6. CASE SendMined
  <2>1. /\ mined \in Own
        /\ AcceptedEntry(mined).hash = mined
        /\ claim = mined
        /\ writeChan \in Seq(Entry)
    BY <1>6, AcceptedEntryType
    DEF SendMined, TypeInv, TypeOK, HoldsBlock, MinerHoldsClaim
  <2>2. \A i \in 1..Len(writeChan) : writeChan[i].hash \notin Own
    BY <1>6 DEF SendMined, OwnBlockHoldsClaim
  <2> QED
    BY <1>1, <1>2, <1>6, <2>1, <2>2
    DEF SendMined, MinerIdle, runnerVars, MinerHoldsClaim, OwnBlockHoldsClaim
<1>7. CASE GiveUp
  <2>1. DroppedEntry(batch).hash = Dropped /\ writeChan \in Seq(Entry)
    BY DroppedEntryType DEF TypeInv, TypeOK
  <2> QED
    BY <1>1, <1>2, <1>7, <2>1
    DEF GiveUp, MinerIdle, runnerVars, MinerHoldsClaim, OwnBlockHoldsClaim
<1> QED
  BY <1>3, <1>4, <1>5, <1>6, <1>7 DEF Miner

\* The writer takes the claim away only from the block it has written.
LEMMA WriterClaimInv == ClaimInv /\ Writer => ClaimInv'
<1> SUFFICES ASSUME ClaimInv, Writer PROVE ClaimInv'
  OBVIOUS
<1> USE NodeAssumption DEF ClaimInv
<1>1. TypeInv'
  BY WriterTypeInv
<1>2. CASE WriterReceive
  <2>1. /\ writeChan \in Seq(Entry)
        /\ 1 \in 1..Len(writeChan)
        /\ writing' = writeChan[1]
        /\ writeChan' = Tail(writeChan)
        /\ \A i \in 1..Len(Tail(writeChan)) :
             i + 1 \in 1..Len(writeChan) /\ Tail(writeChan)[i] = writeChan[i + 1]
    BY <1>2 DEF WriterReceive, TypeInv, TypeOK
  <2>2. UNCHANGED <<claim, minerAt, mined>>
    BY <1>2 DEF WriterReceive, runnerVars, minerVars
  <2>3. writing'.hash \in Own =>
          /\ claim = writing'.hash
          /\ minerAt \notin {"exchange", "send"}
          /\ \A i \in 1..Len(writeChan') : writeChan'[i].hash \notin Own
    <3> SUFFICES ASSUME writeChan[1].hash \in Own, NEW i \in 1..Len(writeChan'),
                        writeChan'[i].hash \in Own
                 PROVE  FALSE
      BY <2>1 DEF OwnBlockHoldsClaim
    <3>1. 1 = i + 1
      BY <2>1 DEF OwnBlockHoldsClaim
    <3> QED
      BY <2>1, <3>1
  <2>4. OwnBlockHoldsClaim'
    BY <2>1, <2>2, <2>3 DEF OwnBlockHoldsClaim
  <2> QED
    BY <1>1, <2>2, <2>4 DEF MinerHoldsClaim
<1>3. CASE WriterSave \/ WriterAdvance
  BY <1>1, <1>3
  DEF WriterSave, WriterAdvance, runnerVars, minerVars, MinerHoldsClaim, OwnBlockHoldsClaim
<1>4. CASE WriterRelease
  <2>1. writing.hash \in Hash
    BY <1>4 DEF WriterRelease, TypeInv, HoldsBlock
  <2>2. CASE claim # writing.hash
    BY <1>1, <1>4, <2>2
    DEF WriterRelease, ReleaseClaim, minerVars, MinerHoldsClaim, OwnBlockHoldsClaim
  <2>3. CASE claim = writing.hash
    <3>1. minerAt \notin {"exchange", "send"}
      BY <1>4, <2>1, <2>3
      DEF WriterRelease, OwnBlockHoldsClaim, MinerHoldsClaim, TypeInv, HoldsBlock
    <3>2. \A i \in 1..Len(writeChan) : writeChan[i].hash \notin Own
      BY <1>4, <2>1, <2>3 DEF WriterRelease, OwnBlockHoldsClaim
    <3> QED
      BY <1>1, <1>4, <2>3, <3>1, <3>2
      DEF WriterRelease, ReleaseClaim, minerVars, MinerHoldsClaim, OwnBlockHoldsClaim
  <2> QED
    BY <2>2, <2>3
<1> QED
  BY <1>2, <1>3, <1>4 DEF Writer

\* A handler claims only what is free, and a release goroutine gives back
\* only what it claimed for another node.
LEMMA HandlerClaimInv ==
  ASSUME ClaimInv, NEW h \in Foreign,
         SignRequest(h) \/ AcceptValidate(h) \/ AcceptHandler(h) \/ ClaimTimeout(h)
  PROVE  ClaimInv'
<1> USE NodeAssumption DEF ClaimInv
<1>1. TypeInv'
  BY HandlerTypeInv
<1>2. UNCHANGED <<minerAt, mined, writerAt, writing>>
  BY DEF AcceptHandler, SignRequest, TimersWith, AcceptValidate, AcceptClaim,
     AcceptRecheck, IsClaimedBy, AcceptEnqueue, ClaimTimeout, ClaimAfter, minerVars, writerVars
<1>3. h \in Hash \ Own
  BY DEF Foreign
<1>4. CASE SignRequest(h) \/ AcceptClaim(h)
  <2>1. UNCHANGED writeChan /\ (claim' = claim \/ claim = NoHash)
    BY <1>4 DEF SignRequest, TimersWith, AcceptClaim, CanClaim
  <2>2. minerAt \in {"exchange", "send"} => claim' = claim
    BY <2>1 DEF MinerHoldsClaim, TypeInv, HoldsBlock
  <2> QED
    BY <1>1, <1>2, <2>1, <2>2 DEF MinerHoldsClaim, OwnBlockHoldsClaim
<1>5. CASE AcceptValidate(h) \/ AcceptRecheck(h)
  BY <1>1, <1>2, <1>5
  DEF AcceptValidate, AcceptRecheck, IsClaimedBy, runnerVars, MinerHoldsClaim, OwnBlockHoldsClaim
<1>6. CASE AcceptEnqueue(h)
  <2>1. AcceptedEntry(h).hash = h /\ writeChan \in Seq(Entry)
    BY <1>3, AcceptedEntryType DEF TypeInv, TypeOK
  <2> QED
    BY <1>1, <1>2, <1>3, <1>6, <2>1
    DEF AcceptEnqueue, runnerVars, MinerHoldsClaim, OwnBlockHoldsClaim
<1>7. CASE ClaimTimeout(h)
  <2>1. UNCHANGED writeChan /\ (claim' = claim \/ claim = h)
    BY <1>7 DEF ClaimTimeout, ClaimAfter
  <2>2. minerAt \in {"exchange", "send"} => claim' = claim
    BY <1>3, <2>1 DEF MinerHoldsClaim, TypeInv, HoldsBlock
  <2> QED
    BY <1>1, <1>2, <1>3, <2>1, <2>2 DEF MinerHoldsClaim, OwnBlockHoldsClaim
<1> QED
  BY <1>4, <1>5, <1>6, <1>7 DEF AcceptHandler

LEMMA NextClaimInv == ClaimInv /\ [Next]_vars => ClaimInv'
<1> SUFFICES ASSUME ClaimInv, [Next]_vars PROVE ClaimInv'
  OBVIOUS
<1>1. CASE UNCHANGED vars
  BY <1>1, NextTypeInv DEF ClaimInv, MinerHoldsClaim, OwnBlockHoldsClaim, vars
<1>2. CASE Next
  BY <1>2, MinerClaimInv, WriterClaimInv, HandlerClaimInv DEF Next, Step
<1> QED
  BY <1>1, <1>2

-----------------------------------------------------------------------------
(* Every claim has an owner *)

Owner(h) ==
  \/ h \in timers
  \/ minerAt = "exchange" /\ mined = h
  \/ InFlight(h)
HasOwner == halted = "no" /\ claim # NoHash => Owner(claim)

OwnerInv == ClaimInv /\ HasOwner

LEMMA InitOwnerInv == Init => OwnerInv
  BY InitClaimInv DEF Init, OwnerInv, HasOwner

\* A send on writeChan keeps what is there and adds its entry.
LEMMA SendKeeps ==
  ASSUME NEW e \in Entry, writeChan \in Seq(Entry), writeChan' = Append(writeChan, e)
  PROVE  /\ \A i \in 1..Len(writeChan) : i \in 1..Len(writeChan') /\ writeChan'[i] = writeChan[i]
         /\ \E i \in 1..Len(writeChan') : writeChan'[i] = e
<1>1. /\ Len(writeChan') = Len(writeChan) + 1
      /\ writeChan'[Len(writeChan')] = e
      /\ Len(writeChan') \in 1..Len(writeChan')
      /\ \A i \in 1..Len(writeChan) : i \in 1..Len(writeChan') /\ writeChan'[i] = writeChan[i]
  OBVIOUS
<1> QED
  BY <1>1

LEMMA MinerOwnerInv == OwnerInv /\ Miner => OwnerInv'
<1> SUFFICES ASSUME OwnerInv, Miner PROVE OwnerInv'
  OBVIOUS
<1> USE NodeAssumption DEF OwnerInv
<1>1. ClaimInv'
  BY MinerClaimInv
<1>2. UNCHANGED <<timers, handler, writerAt, writing>>
  BY DEF Miner, TakeBatch, ReadPrev, AttemptsLeft, MinerClaim, Counted, ExchangeAccepted,
     ExchangeRefused, SendMined, GiveUp, runnerVars, writerVars
<1>3. halted = "no"
  BY DEF Miner, TakeBatch, ReadPrev, MinerClaim, ExchangeAccepted, ExchangeRefused, SendMined, GiveUp
<1>4. CASE (\E b \in Batch : TakeBatch(b)) \/ ReadPrev
  BY <1>1, <1>2, <1>3, <1>4
  DEF TakeBatch, ReadPrev, AttemptsLeft, runnerVars, HasOwner, Owner, InFlight
<1>5. CASE \E h \in Own : MinerClaim(h)
  <2> PICK h \in Own : MinerClaim(h)
    BY <1>5
  <2>1. CASE CanClaim(h)
    BY <1>1, <2>1 DEF MinerClaim, HasOwner, Owner
  <2>2. CASE ~CanClaim(h)
    BY <1>1, <1>2, <1>3, <2>2 DEF MinerClaim, Counted, HasOwner, Owner, InFlight
  <2> QED
    BY <2>1, <2>2
<1>6. CASE ExchangeAccepted
  BY <1>1, <1>2, <1>3, <1>6 DEF ExchangeAccepted, runnerVars, HasOwner, Owner, InFlight
<1>7. CASE ExchangeRefused
  <2>1. claim' = NoHash
    BY <1>7 DEF ExchangeRefused, ReleaseClaim, ClaimInv, MinerHoldsClaim
  <2> QED
    BY <1>1, <2>1 DEF HasOwner
<1>8. CASE SendMined
  <2>1. /\ AcceptedEntry(mined) \in Entry /\ AcceptedEntry(mined).hash = mined
        /\ writeChan \in Seq(Entry)
        /\ writeChan' = Append(writeChan, AcceptedEntry(mined))
        /\ UNCHANGED claim
    BY <1>8, AcceptedEntryType
    DEF SendMined, runnerVars, ClaimInv, TypeInv, TypeOK, HoldsBlock
  <2>2. claim = mined
    BY <1>8 DEF SendMined, ClaimInv, MinerHoldsClaim
  <2>3. InFlight(claim)'
    BY <2>1, <2>2, SendKeeps DEF InFlight
  <2> QED
    BY <1>1, <2>3 DEF HasOwner, Owner
<1>9. CASE GiveUp
  <2>1. /\ DroppedEntry(batch) \in Entry /\ writeChan \in Seq(Entry)
        /\ writeChan' = Append(writeChan, DroppedEntry(batch))
        /\ UNCHANGED claim /\ minerAt = "retry"
    BY <1>9, DroppedEntryType DEF GiveUp, runnerVars, ClaimInv, TypeInv, TypeOK
  <2>2. \A i \in 1..Len(writeChan) : i \in 1..Len(writeChan') /\ writeChan'[i] = writeChan[i]
    BY <2>1, SendKeeps
  <2>3. Owner(claim) => Owner(claim)'
    BY <1>2, <2>1, <2>2 DEF Owner, InFlight
  <2> QED
    BY <1>1, <1>3, <2>1, <2>3 DEF HasOwner
<1> QED
  BY <1>4, <1>5, <1>6, <1>7, <1>8, <1>9 DEF Miner

LEMMA WriterOwnerInv == OwnerInv /\ Writer => OwnerInv'
<1> SUFFICES ASSUME OwnerInv, Writer PROVE OwnerInv'
  OBVIOUS
<1> USE NodeAssumption DEF OwnerInv
<1>1. ClaimInv'
  BY WriterClaimInv
<1> SUFFICES ASSUME halted' = "no", claim' # NoHash PROVE Owner(claim)'
  BY <1>1 DEF HasOwner
<1>2. UNCHANGED <<timers, handler, minerAt, mined>> /\ halted = "no"
  BY DEF Writer, WriterReceive, WriterSave, WriterAdvance, WriterRelease, runnerVars, minerVars
<1>3. CASE WriterReceive
  <2>1. /\ writeChan \in Seq(Entry) /\ writeChan # <<>>
        /\ writerAt = "idle" /\ writerAt' = "save"
        /\ writing' = writeChan[1] /\ writeChan' = Tail(writeChan)
        /\ UNCHANGED claim
    BY <1>3 DEF WriterReceive, runnerVars, ClaimInv, TypeInv, TypeOK
  <2>2. ASSUME NEW i \in 1..Len(writeChan)
        PROVE  i = 1 \/ (i - 1 \in 1..Len(writeChan') /\ writeChan'[i - 1] = writeChan[i])
    BY <2>1
  <2>3. InFlight(claim) => InFlight(claim)'
    BY <1>2, <2>1, <2>2 DEF InFlight
  <2> QED
    BY <1>2, <2>1, <2>3 DEF HasOwner, Owner
<1>4. CASE WriterSave
  <2>1. /\ writerAt = "save" /\ UNCHANGED <<claim, writeChan, writing>>
        /\ writing.hash # Dropped => writerAt' = "advance"
    BY <1>4 DEF WriterSave, runnerVars
  <2>2. claim \in Hash
    BY <2>1 DEF ClaimInv, TypeInv, TypeOK
  <2> QED
    BY <1>2, <2>1, <2>2 DEF HasOwner, Owner, InFlight
<1>5. CASE WriterAdvance
  BY <1>2, <1>5 DEF WriterAdvance, HasOwner, Owner, InFlight
<1>6. CASE WriterRelease
  BY <1>6 DEF WriterRelease, ReleaseClaim
<1> QED
  BY <1>3, <1>4, <1>5, <1>6 DEF Writer

LEMMA HandlerOwnerInv ==
  ASSUME OwnerInv, NEW h \in Foreign,
         SignRequest(h) \/ AcceptValidate(h) \/ AcceptHandler(h) \/ ClaimTimeout(h)
  PROVE  OwnerInv'
<1> USE NodeAssumption DEF OwnerInv
<1>1. ClaimInv'
  BY HandlerClaimInv
<1>2. UNCHANGED <<minerAt, mined, writerAt, writing, halted>> /\ halted = "no"
  BY DEF AcceptHandler, SignRequest, TimersWith, AcceptValidate, AcceptClaim,
     AcceptRecheck, IsClaimedBy, AcceptEnqueue, ClaimTimeout, ClaimAfter, minerVars, writerVars
<1>3. h \in Hash /\ h # NoHash /\ handler \in [Foreign -> HandlerPlaces]
  BY DEF Foreign, ClaimInv, TypeInv, TypeOK
<1>4. CASE SignRequest(h)
  BY <1>1, <1>4 DEF SignRequest, TimersWith, HasOwner, Owner
<1>5. CASE AcceptValidate(h)
  BY <1>1, <1>2, <1>3, <1>5 DEF AcceptValidate, runnerVars, HasOwner, Owner, InFlight
<1>6. CASE AcceptClaim(h)
  <2>1. CASE CanClaim(h)
    BY <1>1, <1>3, <1>6, <2>1 DEF AcceptClaim, HasOwner, Owner, InFlight
  <2>2. CASE ~CanClaim(h)
    BY <1>1, <1>2, <1>3, <1>6, <2>2 DEF AcceptClaim, HasOwner, Owner, InFlight
  <2> QED
    BY <2>1, <2>2
<1>7. CASE AcceptRecheck(h)
  BY <1>1, <1>2, <1>3, <1>7
  DEF AcceptRecheck, IsClaimedBy, runnerVars, HasOwner, Owner, InFlight
<1>8. CASE AcceptEnqueue(h)
  <2>1. /\ AcceptedEntry(h) \in Entry /\ AcceptedEntry(h).hash = h
        /\ writeChan \in Seq(Entry)
        /\ writeChan' = Append(writeChan, AcceptedEntry(h))
        /\ handler' = [handler EXCEPT ![h] = "answered"]
        /\ UNCHANGED <<claim, timers>>
    BY <1>3, <1>8, AcceptedEntryType
    DEF AcceptEnqueue, runnerVars, ClaimInv, TypeInv, TypeOK
  <2>2. /\ \A i \in 1..Len(writeChan) : i \in 1..Len(writeChan') /\ writeChan'[i] = writeChan[i]
        /\ \E i \in 1..Len(writeChan') : writeChan'[i] = AcceptedEntry(h)
    BY <2>1, SendKeeps
  <2>3. CASE claim = h
    BY <1>1, <2>1, <2>2, <2>3 DEF HasOwner, Owner, InFlight
  <2>4. CASE claim # h
    <3>1. Owner(claim) => Owner(claim)'
      BY <1>2, <1>3, <2>1, <2>2, <2>4 DEF Owner, InFlight
    <3> QED
      BY <1>1, <1>2, <2>1, <3>1 DEF HasOwner
  <2> QED
    BY <2>3, <2>4
<1>9. CASE ClaimTimeout(h)
  BY <1>1, <1>2, <1>9 DEF ClaimTimeout, ClaimAfter, HasOwner, Owner, InFlight
<1> QED
  BY <1>4, <1>5, <1>6, <1>7, <1>8, <1>9 DEF AcceptHandler

\* While the miner shows its block to the other nodes, and until it is on
\* writeChan, that block holds the claim; the release after a refused
\* exchange therefore never ends the process. And no claim is left behind:
\* whoever holds it, a goroutine of the process is on its way to release it,
\* however signing, accepting, timeouts and the writer interleave.
THEOREM ClaimsHaveOwners == Spec => []ClaimHasOwner
<1>1. OwnerInv /\ [Next]_vars => OwnerInv'
  <2> SUFFICES ASSUME OwnerInv, [Next]_vars PROVE OwnerInv'
    OBVIOUS
  <2>1. CASE UNCHANGED vars
    BY <2>1, NextClaimInv DEF OwnerInv, HasOwner, Owner, InFlight, vars
  <2>2. CASE Next
    BY <2>2, MinerOwnerInv, WriterOwnerInv, HandlerOwnerInv DEF Next, Step
  <2> QED
    BY <2>1, <2>2
<1>2. OwnerInv => ClaimHasOwner
  BY DEF OwnerInv, ClaimInv, HasOwner, Owner, ClaimHasOwner
<1> QED
  BY <1>1, <1>2, InitOwnerInv, PTL DEF Spec

-----------------------------------------------------------------------------
(* The miner comes to the end of every batch *)

\* The steps the miner can still make on its batch: three for an attempt that
\* fails after the exchange, and the send of the accepted or dropped block.
MinerStepsLeft ==
  LET left == 3 * (MaxRetries - retry) IN
  CASE minerAt = "retry" -> left + 1
    [] minerAt = "mining" -> left
    [] minerAt = "exchange" -> left - 1
    [] minerAt = "send" -> left - 2
    [] minerAt = "idle" -> 0

\* The accepted block is sent on an attempt that was left.
SendsInTime == minerAt = "send" => retry < MaxRetries

LEMMA NextSendsInTime ==
  ASSUME TypeInv, SendsInTime, [Next]_vars
  PROVE  SendsInTime'
<1>1. CASE UNCHANGED minerVars
  BY <1>1 DEF SendsInTime, minerVars
<1>2. CASE Miner
  BY <1>2
  DEF Miner, TakeBatch, ReadPrev, MinerClaim, ExchangeAccepted, ExchangeRefused, SendMined,
      GiveUp, MinerIdle, SendsInTime, TypeInv, HoldsBlock
<1>3. UNCHANGED minerVars \/ Miner
  BY DEF Next, Step, Writer, WriterReceive, WriterSave, WriterAdvance, WriterRelease,
         SignRequest, AcceptValidate, AcceptHandler, AcceptClaim, AcceptRecheck,
         AcceptEnqueue, ClaimTimeout, vars, minerVars
<1> QED
  BY <1>1, <1>2, <1>3

LEMMA MinerShrinks ==
  ASSUME TypeInv, SendsInTime, Miner, minerAt # "idle"
  PROVE  MinerStepsLeft' < MinerStepsLeft
<1> USE NodeAssumption DEF TypeInv, HoldsBlock, SendsInTime
<1>1. retry \in 0..MaxRetries /\ MaxRetries \in Nat
  BY DEF TypeOK
<1>2. CASE ReadPrev
  BY <1>1, <1>2 DEF ReadPrev, AttemptsLeft, MinerStepsLeft
<1>3. CASE \E h \in Own : MinerClaim(h)
  <2>1. /\ minerAt = "mining" /\ retry < MaxRetries
        /\ \/ minerAt' = "exchange" /\ retry' = retry
           \/ minerAt' = "retry" /\ retry' = retry + 1
    BY <1>3 DEF MinerClaim, Counted
  <2> QED
    BY <1>1, <2>1 DEF MinerStepsLeft
<1>4. CASE ExchangeAccepted
  BY <1>1, <1>4 DEF ExchangeAccepted, MinerStepsLeft
<1>5. CASE ExchangeRefused
  BY <1>1, <1>5 DEF ExchangeRefused, MinerStepsLeft
<1>6. CASE SendMined \/ GiveUp
  BY <1>1, <1>6 DEF SendMined, GiveUp, MinerIdle, MinerStepsLeft
<1> QED
  BY <1>2, <1>3, <1>4, <1>5, <1>6 DEF Miner, TakeBatch

\* A batch keeps the miner for at most 3 * MaxRetries + 1 of its steps, and
\* nothing the writer, the other nodes or the timers do adds to them: however
\* often the previous hash moves or is claimed by others, the batch is sent to
\* the writer, in a block or dropped.
THEOREM BatchesAreShort ==
  Spec => /\ [](MinerStepsLeft \in 0..(3 * MaxRetries + 1))
          /\ [][/\ Miner /\ minerAt # "idle" => MinerStepsLeft' < MinerStepsLeft
                /\ ~Miner => MinerStepsLeft' = MinerStepsLeft]_vars
<1> DEFINE Inv == TypeInv /\ SendsInTime
           Range == MinerStepsLeft \in 0..(3 * MaxRetries + 1)
           Shrinks == /\ Miner /\ minerAt # "idle" => MinerStepsLeft' < MinerStepsLeft
                      /\ ~Miner => MinerStepsLeft' = MinerStepsLeft
<1>1. Init => Inv
  BY InitTypeInv DEF Init, SendsInTime
<1>2. Inv /\ [Next]_vars => Inv'
  BY NextTypeInv, NextSendsInTime
<1>3. Inv => Range
  <2> SUFFICES ASSUME Inv PROVE Range
    OBVIOUS
  <2>1. /\ retry \in 0..MaxRetries /\ MaxRetries \in Nat
        /\ minerAt \in {"idle", "retry", "mining", "exchange", "send"}
        /\ minerAt \in {"mining", "exchange", "send"} => retry < MaxRetries
    BY NodeAssumption DEF TypeInv, TypeOK, HoldsBlock, SendsInTime, MinerPlaces
  <2> QED
    BY <2>1 DEF MinerStepsLeft
<1>4. Inv /\ [Next]_vars => [Shrinks]_vars
  <2> SUFFICES ASSUME Inv, Next PROVE Shrinks
    OBVIOUS
  <2>1. UNCHANGED <<minerAt, retry>> \/ Miner
    BY DEF Next, Step, Writer, WriterReceive, WriterSave, WriterAdvance, WriterRelease,
           SignRequest, AcceptValidate, AcceptHandler, AcceptClaim, AcceptRecheck,
           AcceptEnqueue, ClaimTimeout, minerVars
  <2>2. ASSUME UNCHANGED <<minerAt, retry>> PROVE MinerStepsLeft' = MinerStepsLeft
    BY Zenon, <2>2 DEF MinerStepsLeft
  <2> QED
    BY <2>1, <2>2, MinerShrinks
<1> HIDE DEF Inv, Range, Shrinks
<1>5. Spec => []Range /\ [][Shrinks]_vars
  BY <1>1, <1>2, <1>3, <1>4, PTL DEF Spec
<1> QED
  BY <1>5 DEF Range, Shrinks
=============================================================================
