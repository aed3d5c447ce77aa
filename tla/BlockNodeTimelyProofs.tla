------------------------ MODULE BlockNodeTimelyProofs ------------------------
(***************************************************************************)
(* What a node keeps to when the 120 seconds of a claim suffice for its    *)
(* own writer: no assertion of the code fails, and no previous hash is     *)
(* given to two blocks.                                                    *)
(*                                                                         *)
(* The argument follows the claim. TimelyInv says that every block between *)
(* the claim check and the release is the one that holds the claim, so     *)
(* there is only one and it is built on the current previous hash. YesInv  *)
(* adds where a block goes after its release: it is on disk, and no block  *)
(* on disk has the same predecessor as another.                            *)
(***************************************************************************)
EXTENDS BlockNodeProofs

-----------------------------------------------------------------------------
(* The claim is held as long as it is needed *)

\* A block of the writer: in writeChan, or held by it.
InPipe(h) ==
  \/ \E i \in 1..Len(writeChan) : writeChan[i].hash = h
  \/ writerAt # "idle" /\ writing.hash = h

\* The claim covers a block from the claim check to the release.
InFlightClaims == \A h \in Hash : InFlight(h) => claim = h

\* A block goes into the pipe once: a handler is done before its block is in.
PostedOnce == \A h \in Foreign : InPipe(h) => handler[h] = "answered"

\* There is at most one accepted block in the pipe.
OneInPipe ==
  /\ \A i, j \in 1..Len(writeChan) :
       writeChan[i].hash \in Hash /\ writeChan[j].hash \in Hash => i = j
  /\ writerAt # "idle" /\ writing.hash \in Hash =>
       \A i \in 1..Len(writeChan) : writeChan[i].hash \notin Hash

\* Whoever holds the claim is built on the current previous hash, but for the
\* written block in the moment before its release.
ClaimOnHead == claim # NoHash /\ writerAt # "release" => PrevOf[claim] = prevHash

TimelyInv ==
  /\ ChainInv
  /\ ClaimInv
  /\ InFlightClaims
  /\ PostedOnce
  /\ OneInPipe
  /\ ClaimOnHead
  /\ NeverHalts

LEMMA InitTimelyInv == Init => TimelyInv
  BY InitChainInv, InitClaimInv
  DEF Init, TimelyInv, InFlightClaims, InFlight, PostedOnce, InPipe, OneInPipe,
      ClaimOnHead, NeverHalts

LEMMA MinerTimelyInv == TimelyInv /\ Miner => TimelyInv'
<1> SUFFICES ASSUME TimelyInv, Miner PROVE TimelyInv'
  OBVIOUS
<1> USE NodeAssumption DEF TimelyInv
<1>1. ChainInv' /\ ClaimInv'
  BY MinerChainInv, MinerClaimInv
<1>2. UNCHANGED <<prevHash, handler, writerAt, writing>>
  BY DEF Miner, TakeBatch, ReadPrev, AttemptsLeft, MinerClaim, Counted, ExchangeAccepted,
     ExchangeRefused, SendMined, GiveUp, runnerVars, writerVars
<1>3. CASE (\E b \in Batch : TakeBatch(b)) \/ ReadPrev
  BY <1>1, <1>2, <1>3
  DEF TakeBatch, ReadPrev, AttemptsLeft, runnerVars, InFlightClaims, InFlight, PostedOnce,
      InPipe, OneInPipe, ClaimOnHead, NeverHalts
<1>4. CASE \E h \in Own : MinerClaim(h)
  <2> PICK h \in Own : MinerClaim(h)
    BY <1>4
  <2>1. CASE CanClaim(h)
    BY <1>1, <1>2, <2>1
    DEF MinerClaim, Counted, CanClaim, InFlightClaims, InFlight, PostedOnce, InPipe,
        OneInPipe, ClaimOnHead, NeverHalts
  <2>2. CASE ~CanClaim(h)
    BY <1>1, <1>2, <2>2
    DEF MinerClaim, Counted, InFlightClaims, InFlight, PostedOnce, InPipe, OneInPipe,
        ClaimOnHead, NeverHalts
  <2> QED
    BY <2>1, <2>2
<1>5. CASE ExchangeAccepted
  <2>1. claim = mined
    BY <1>5 DEF ExchangeAccepted, ClaimInv, MinerHoldsClaim
  <2> QED
    BY <1>1, <1>2, <1>5, <2>1
    DEF ExchangeAccepted, runnerVars, InFlightClaims, InFlight, PostedOnce,
        InPipe, OneInPipe, ClaimOnHead, NeverHalts
<1>6. CASE ExchangeRefused
  <2>1. claim = mined /\ mined \in Own
    BY <1>6 DEF ExchangeRefused, ClaimInv, MinerHoldsClaim, TypeInv, HoldsBlock
  <2>2. UNCHANGED <<writeChan, halted>> /\ claim' = NoHash /\ minerAt' = "retry"
    BY <1>6, <2>1 DEF ExchangeRefused, ReleaseClaim
  <2>3. \A h \in Hash : ~InFlight(h)
    <3> SUFFICES ASSUME NEW h \in Hash, InFlight(h) PROVE FALSE
      OBVIOUS
    <3>1. h = mined
      BY <2>1 DEF InFlightClaims
    <3>2. InPipe(mined)
      BY <1>6, <2>1, <3>1 DEF ExchangeRefused, InFlight, InPipe, Foreign
    <3> QED
      BY <1>6, <2>1, <3>2 DEF ExchangeRefused, InPipe, ClaimInv, OwnBlockHoldsClaim
  <2>4. InFlightClaims'
    BY <1>2, <2>2, <2>3 DEF InFlightClaims, InFlight
  <2> QED
    BY <1>1, <1>2, <2>2, <2>4 DEF PostedOnce, InPipe, OneInPipe, ClaimOnHead, NeverHalts
<1>7. CASE SendMined
  <2>1. /\ mined \in Own
        /\ AcceptedEntry(mined).hash = mined
        /\ writeChan \in Seq(Entry)
        /\ writeChan' = Append(writeChan, AcceptedEntry(mined))
        /\ minerAt' = "idle"
        /\ UNCHANGED <<claim, halted>>
    BY <1>7, AcceptedEntryType
    DEF SendMined, MinerIdle, runnerVars, ClaimInv, TypeInv, TypeOK, HoldsBlock
  <2>2. claim = mined
    BY <1>7 DEF SendMined, ClaimInv, MinerHoldsClaim
  <2>3. \A h \in Hash : ~InPipe(h)
    <3> SUFFICES ASSUME NEW h \in Hash, InPipe(h) PROVE FALSE
      OBVIOUS
    <3>1. h = mined
      BY <2>2 DEF InFlightClaims, InFlight, InPipe
    <3> QED
      BY <1>7, <2>1, <3>1 DEF SendMined, InPipe, ClaimInv, OwnBlockHoldsClaim
  <2>4. /\ \A i \in 1..Len(writeChan) : writeChan[i].hash \notin Hash
        /\ writerAt # "idle" => writing.hash \notin Hash
    BY <2>3 DEF InPipe
  <2>5. PostedOnce' /\ OneInPipe'
    BY <1>2, <2>1, <2>4 DEF PostedOnce, InPipe, OneInPipe, Foreign
  <2>6. InFlightClaims'
    BY <1>2, <2>1, <2>2 DEF InFlightClaims, InFlight
  <2> QED
    BY <1>1, <1>2, <2>1, <2>5, <2>6 DEF ClaimOnHead, NeverHalts
<1>8. CASE GiveUp
  <2>1. /\ DroppedEntry(batch).hash = Dropped
        /\ writeChan \in Seq(Entry)
        /\ writeChan' = Append(writeChan, DroppedEntry(batch))
        /\ minerAt = "retry" /\ minerAt' = "idle"
        /\ UNCHANGED <<claim, halted>>
    BY <1>8, DroppedEntryType
    DEF GiveUp, MinerIdle, runnerVars, ClaimInv, TypeInv, TypeOK
  <2> QED
    BY <1>1, <1>2, <2>1
    DEF InFlightClaims, InFlight, PostedOnce, InPipe, OneInPipe, ClaimOnHead,
        NeverHalts, Foreign
<1> QED
  BY <1>3, <1>4, <1>5, <1>6, <1>7, <1>8 DEF Miner

LEMMA WriterTimelyInv == TimelyInv /\ Writer => TimelyInv'
<1> SUFFICES ASSUME TimelyInv, Writer PROVE TimelyInv'
  OBVIOUS
<1> USE NodeAssumption DEF TimelyInv
<1>1. ChainInv' /\ ClaimInv'
  BY WriterChainInv, WriterClaimInv
<1>2. UNCHANGED <<minerAt, mined, handler>>
  BY DEF Writer, WriterReceive, WriterSave, WriterAdvance, WriterRelease, minerVars
<1>3. CASE WriterReceive
  <2>1. /\ writeChan \in Seq(Entry)
        /\ 1 \in 1..Len(writeChan)
        /\ writing' = writeChan[1]
        /\ writeChan' = Tail(writeChan)
        /\ \A i \in 1..Len(Tail(writeChan)) :
             i + 1 \in 1..Len(writeChan) /\ Tail(writeChan)[i] = writeChan[i + 1]
        /\ UNCHANGED <<prevHash, claim>>
    BY <1>3 DEF WriterReceive, runnerVars, ClaimInv, TypeInv, TypeOK
  <2>2. writing'.hash \in Hash => ~Misplaced(writing'.hash)
    <3> SUFFICES ASSUME writing'.hash \in Hash PROVE ~Misplaced(writing'.hash)
      OBVIOUS
    <3>1. claim = writing'.hash
      BY <2>1 DEF InFlightClaims, InFlight
    <3>2. PrevOf[writing'.hash] = prevHash
      BY <1>3, <3>1 DEF WriterReceive, ClaimOnHead
    <3>3. prevHash = TipOf(chain)
      BY <1>3 DEF WriterReceive, ChainInv, HeadIsOnDisk
    <3> QED
      BY <3>2, <3>3 DEF Misplaced
  <2>3. writerAt = "idle" /\ writerAt' = "save" /\ UNCHANGED halted
    BY <1>3, <2>1, <2>2 DEF WriterReceive
  <2>4. \A h \in Hash : InPipe(h)' => InPipe(h)
    BY <2>1 DEF InPipe
  <2>5. InFlightClaims' /\ PostedOnce'
    BY <1>2, <2>1, <2>4 DEF InFlightClaims, InFlight, PostedOnce, InPipe, Foreign
  <2>6. OneInPipe'
    <3>1. \A i, j \in 1..Len(writeChan') :
            writeChan'[i].hash \in Hash /\ writeChan'[j].hash \in Hash => i = j
      BY <2>1 DEF OneInPipe
    <3>2. ASSUME writing'.hash \in Hash, NEW i \in 1..Len(writeChan')
          PROVE  writeChan'[i].hash \notin Hash
      <4> SUFFICES ASSUME writeChan'[i].hash \in Hash PROVE FALSE
        OBVIOUS
      <4>1. 1 = i + 1
        BY <2>1, <3>2 DEF OneInPipe
      <4> QED
        BY <2>1, <4>1
    <3> QED
      BY <3>1, <3>2 DEF OneInPipe
  <2> QED
    BY <1>1, <2>1, <2>3, <2>5, <2>6 DEF ClaimOnHead, NeverHalts
<1>4. CASE WriterSave
  <2>1. UNCHANGED <<prevHash, claim, writeChan, writing, halted>>
        /\ writerAt = "save" /\ writerAt' \in {"idle", "advance"}
    BY <1>4 DEF WriterSave, runnerVars
  <2> QED
    BY <1>1, <1>2, <2>1
    DEF InFlightClaims, InFlight, PostedOnce, InPipe, OneInPipe, ClaimOnHead,
        NeverHalts
<1>5. CASE WriterAdvance
  BY <1>1, <1>2, <1>5
  DEF WriterAdvance, InFlightClaims, InFlight, PostedOnce, InPipe, OneInPipe,
      ClaimOnHead, NeverHalts
<1>6. CASE WriterRelease
  <2>1. /\ writing.hash \in Hash /\ writerAt = "release" /\ writerAt' = "idle"
        /\ UNCHANGED <<prevHash, writeChan, writing>>
    BY <1>6 DEF WriterRelease, ClaimInv, TypeInv, HoldsBlock
  <2>2. claim = writing.hash
    BY <2>1 DEF InFlightClaims, InFlight
  <2>3. claim' = NoHash /\ UNCHANGED halted
    BY <1>6, <2>2 DEF WriterRelease, ReleaseClaim
  <2>4. \A i \in 1..Len(writeChan) : writeChan[i].hash \notin Hash
    BY <2>1 DEF OneInPipe
  <2>5. \A h \in Hash : ~InFlight(h)'
    <3> SUFFICES ASSUME NEW h \in Hash, InFlight(h)' PROVE FALSE
      OBVIOUS
    <3>1. \/ h \in Foreign /\ handler[h] = "claimed"
          \/ minerAt = "send" /\ mined = h
      BY <1>2, <2>1, <2>4 DEF InFlight
    <3>2. h = writing.hash
      BY <2>2, <3>1 DEF InFlightClaims, InFlight
    <3>3. CASE h \in Foreign /\ handler[h] = "claimed"
      BY <2>1, <3>2, <3>3 DEF PostedOnce, InPipe
    <3>4. CASE minerAt = "send" /\ mined = h
      BY <2>1, <3>2, <3>4 DEF ClaimInv, OwnBlockHoldsClaim, TypeInv, HoldsBlock
    <3> QED
      BY <3>1, <3>3, <3>4
  <2> QED
    BY <1>1, <1>2, <2>1, <2>3, <2>5
    DEF InFlightClaims, PostedOnce, InPipe, OneInPipe, ClaimOnHead, NeverHalts
<1> QED
  BY <1>3, <1>4, <1>5, <1>6 DEF Writer

LEMMA HandlerTimelyInv ==
  ASSUME TimelyInv, NEW g \in Foreign,
         \/ SignRequest(g) \/ AcceptValidate(g) \/ AcceptHandler(g)
         \/ ~InFlight(g) /\ ClaimTimeout(g)
  PROVE  TimelyInv'
<1> USE NodeAssumption DEF TimelyInv
<1>1. ChainInv' /\ ClaimInv'
  BY HandlerChainInv, HandlerClaimInv
<1>2. UNCHANGED <<prevHash, minerAt, mined, writerAt, writing, halted>>
  BY DEF AcceptHandler, SignRequest, TimersWith, AcceptValidate, AcceptClaim,
     AcceptRecheck, IsClaimedBy, AcceptEnqueue, ClaimTimeout, ClaimAfter, runnerVars, minerVars, writerVars
<1>3. g \in Hash /\ g # NoHash
  BY DEF Foreign
<1>4. handler \in [Foreign -> HandlerPlaces]
  BY DEF ClaimInv, TypeInv, TypeOK
<1>5. CASE SignRequest(g)
  BY <1>1, <1>2, <1>3, <1>5
  DEF SignRequest, TimersWith, CanClaim, InFlightClaims, InFlight, PostedOnce, InPipe,
      OneInPipe, ClaimOnHead, NeverHalts
<1>6. CASE AcceptValidate(g)
  BY <1>1, <1>2, <1>4, <1>6
  DEF AcceptValidate, runnerVars, InFlightClaims, InFlight, PostedOnce, InPipe,
      OneInPipe, ClaimOnHead, NeverHalts
<1>7. CASE AcceptClaim(g)
  <2>1. CASE CanClaim(g)
    BY <1>1, <1>2, <1>3, <1>4, <1>7, <2>1
    DEF AcceptClaim, CanClaim, InFlightClaims, InFlight, PostedOnce, InPipe,
        OneInPipe, ClaimOnHead, NeverHalts
  <2>2. CASE ~CanClaim(g)
    BY <1>1, <1>2, <1>4, <1>7, <2>2
    DEF AcceptClaim, InFlightClaims, InFlight, PostedOnce, InPipe, OneInPipe,
        ClaimOnHead, NeverHalts
  <2> QED
    BY <2>1, <2>2
<1>8. CASE AcceptRecheck(g)
  BY <1>1, <1>2, <1>4, <1>8
  DEF AcceptRecheck, IsClaimedBy, runnerVars, InFlightClaims, InFlight, PostedOnce, InPipe,
      OneInPipe, ClaimOnHead, NeverHalts
<1>9. CASE AcceptEnqueue(g)
  <2>1. /\ AcceptedEntry(g).hash = g
        /\ writeChan \in Seq(Entry)
        /\ writeChan' = Append(writeChan, AcceptedEntry(g))
        /\ handler[g] = "claimed"
        /\ handler' = [handler EXCEPT ![g] = "answered"]
        /\ UNCHANGED claim
    BY <1>3, <1>9, AcceptedEntryType
    DEF AcceptEnqueue, runnerVars, ClaimInv, TypeInv, TypeOK
  <2>2. claim = g
    BY <1>3, <2>1 DEF InFlightClaims, InFlight
  <2>3. \A h \in Hash : ~InPipe(h)
    <3> SUFFICES ASSUME NEW h \in Hash, InPipe(h) PROVE FALSE
      OBVIOUS
    <3>1. h = g
      BY <2>2 DEF InFlightClaims, InFlight, InPipe
    <3> QED
      BY <2>1, <3>1 DEF PostedOnce
  <2>4. /\ \A i \in 1..Len(writeChan) : writeChan[i].hash \notin Hash
        /\ writerAt # "idle" => writing.hash \notin Hash
    BY <2>3 DEF InPipe
  <2>5. PostedOnce'
    BY <1>2, <1>4, <2>1, <2>4 DEF PostedOnce, InPipe, Foreign
  <2>6. OneInPipe'
    BY <1>2, <2>1, <2>4 DEF OneInPipe
  <2>7. InFlightClaims'
    BY <1>2, <1>4, <2>1, <2>2 DEF InFlightClaims, InFlight
  <2> QED
    BY <1>1, <1>2, <2>1, <2>5, <2>6, <2>7 DEF ClaimOnHead, NeverHalts
<1>10. CASE ~InFlight(g) /\ ClaimTimeout(g)
  BY <1>1, <1>2, <1>10
  DEF ClaimTimeout, ClaimAfter, InFlightClaims, InFlight, PostedOnce, InPipe, OneInPipe,
      ClaimOnHead, NeverHalts
<1> QED
  BY <1>5, <1>6, <1>7, <1>8, <1>9, <1>10 DEF AcceptHandler

LEMMA NextTimelyInv == TimelyInv /\ [TimelyNext]_vars => TimelyInv'
<1> SUFFICES ASSUME TimelyInv, [TimelyNext]_vars PROVE TimelyInv'
  OBVIOUS
<1>1. CASE UNCHANGED vars
  BY <1>1, NextChainInv, NextClaimInv
  DEF TimelyInv, InFlightClaims, InFlight, PostedOnce, InPipe, OneInPipe,
      ClaimOnHead, NeverHalts, vars
<1>2. CASE TimelyNext
  BY <1>2, MinerTimelyInv, WriterTimelyInv, HandlerTimelyInv DEF TimelyNext, Step
<1> QED
  BY <1>1, <1>2

\* If no release goroutine wakes up while the node itself is busy saving the
\* block, no assertion of the code ever fails: the claim of every block that
\* reaches the writer is still its own, and every such block fits the chain.
THEOREM TimelyNeverHalts == TimelySpec => []NeverHalts
<1>1. TimelySpec => []TimelyInv
  BY InitTimelyInv, NextTimelyInv, PTL DEF TimelySpec
<1>2. TimelyInv => NeverHalts
  BY DEF TimelyInv
<1> QED
  BY <1>1, <1>2, PTL

-----------------------------------------------------------------------------
(* One yes for every previous hash *)

OnDisk(h) == \E i \in 1..Len(chain) : chain[i] = h

\* No block is in two files.
NoBlockTwice == \A i, j \in 1..Len(chain) : chain[i] = chain[j] => i = j

\* A block answered with status 200 is not forgotten.
AnsweredIsKept == \A h \in Foreign : handler[h] = "answered" => InPipe(h) \/ OnDisk(h)

\* What the writer advances to and releases is its last file.
WrittenIsTip ==
  writerAt \in {"advance", "release"} => chain # <<>> /\ TipOf(chain) = writing.hash

YesInv == TimelyInv /\ NoBlockTwice /\ AnsweredIsKept /\ WrittenIsTip

LEMMA InitYesInv == Init => YesInv
  BY InitTimelyInv
  DEF Init, YesInv, NoBlockTwice, AnsweredIsKept, WrittenIsTip

\* Steps outside the writer leave the files alone and only add to the pipe.
LEMMA OtherYesInv ==
  ASSUME YesInv, TimelyInv', UNCHANGED <<chain, writerAt, writing>>,
         \A h \in Foreign : InPipe(h) => InPipe(h)',
         \A h \in Foreign : handler'[h] = "answered" => handler[h] = "answered" \/ InPipe(h)'
  PROVE  YesInv'
  BY DEF YesInv, NoBlockTwice, AnsweredIsKept, WrittenIsTip, OnDisk, TipOf

\* A send on writeChan adds to the pipe.
LEMMA SendKeepsPipe ==
  ASSUME NEW e \in Entry, writeChan \in Seq(Entry),
         writeChan' = Append(writeChan, e), UNCHANGED <<writerAt, writing>>
  PROVE  InPipe(e.hash)' /\ \A h \in Foreign : InPipe(h) => InPipe(h)'
<1>1. /\ Len(writeChan') = Len(writeChan) + 1
      /\ writeChan'[Len(writeChan')] = e
      /\ Len(writeChan') \in 1..Len(writeChan')
      /\ \A i \in 1..Len(writeChan) : writeChan'[i] = writeChan[i] /\ i \in 1..Len(writeChan')
  OBVIOUS
<1> QED
  BY <1>1 DEF InPipe

LEMMA MinerYesInv == YesInv /\ Miner => YesInv'
<1> SUFFICES ASSUME YesInv, Miner PROVE YesInv'
  OBVIOUS
<1> USE DEF YesInv
<1>1. TimelyInv'
  BY MinerTimelyInv
<1>2. UNCHANGED <<chain, writerAt, writing, handler>>
  BY DEF Miner, TakeBatch, ReadPrev, AttemptsLeft, MinerClaim, Counted, ExchangeAccepted,
     ExchangeRefused, SendMined, GiveUp, writerVars
<1>3. \A h \in Foreign : InPipe(h) => InPipe(h)'
  <2>1. CASE SendMined
    <3>1. AcceptedEntry(mined) \in Entry /\ writeChan \in Seq(Entry)
      BY <2>1, NodeAssumption, AcceptedEntryType
      DEF SendMined, TimelyInv, ClaimInv, TypeInv, TypeOK, HoldsBlock
    <3> QED
      BY <1>2, <2>1, <3>1, SendKeepsPipe DEF SendMined
  <2>2. CASE GiveUp
    <3>1. DroppedEntry(batch) \in Entry /\ writeChan \in Seq(Entry)
      BY DroppedEntryType DEF TimelyInv, ClaimInv, TypeInv, TypeOK
    <3> QED
      BY <1>2, <2>2, <3>1, SendKeepsPipe DEF GiveUp
  <2>3. CASE ~SendMined /\ ~GiveUp
    <3>1. UNCHANGED writeChan
      BY <2>3 DEF Miner, TakeBatch, ReadPrev, AttemptsLeft, MinerClaim, Counted, ExchangeAccepted, ExchangeRefused
    <3> QED
      BY <1>2, <3>1 DEF InPipe
  <2> QED
    BY <2>1, <2>2, <2>3
<1> QED
  BY <1>1, <1>2, <1>3, OtherYesInv

LEMMA HandlerYesInv ==
  ASSUME YesInv, NEW g \in Foreign,
         \/ SignRequest(g) \/ AcceptValidate(g) \/ AcceptHandler(g)
         \/ ~InFlight(g) /\ ClaimTimeout(g)
  PROVE  YesInv'
<1> USE DEF YesInv
<1>1. TimelyInv'
  BY HandlerTimelyInv
<1>2. UNCHANGED <<chain, writerAt, writing>>
  BY DEF AcceptHandler, SignRequest, TimersWith, AcceptValidate, AcceptClaim,
     AcceptRecheck, IsClaimedBy, AcceptEnqueue, ClaimTimeout, ClaimAfter, writerVars
<1>3. handler \in [Foreign -> HandlerPlaces]
  BY DEF TimelyInv, ClaimInv, TypeInv, TypeOK
<1>4. CASE AcceptEnqueue(g)
  <2>1. AcceptedEntry(g) \in Entry /\ AcceptedEntry(g).hash = g /\ writeChan \in Seq(Entry)
    BY AcceptedEntryType DEF Foreign, TimelyInv, ClaimInv, TypeInv, TypeOK
  <2>2. InPipe(g)' /\ \A h \in Foreign : InPipe(h) => InPipe(h)'
    BY <1>2, <1>4, <2>1, SendKeepsPipe DEF AcceptEnqueue
  <2>3. \A h \in Foreign : handler'[h] = "answered" => handler[h] = "answered" \/ InPipe(h)'
    BY <1>3, <1>4, <2>2 DEF AcceptEnqueue
  <2> QED
    BY <1>1, <1>2, <2>2, <2>3, OtherYesInv
<1>5. CASE ~AcceptEnqueue(g)
  <2>1. UNCHANGED writeChan
    BY <1>5 DEF AcceptHandler, SignRequest, TimersWith, AcceptValidate, AcceptClaim,
       AcceptRecheck, IsClaimedBy, ClaimTimeout, ClaimAfter
  <2>2. \A h \in Foreign : handler'[h] = "answered" => handler[h] = "answered"
    BY <1>3, <1>5 DEF AcceptHandler, SignRequest, TimersWith, AcceptValidate, AcceptClaim,
       AcceptRecheck, IsClaimedBy, ClaimTimeout, ClaimAfter
  <2>3. \A h \in Foreign : InPipe(h) => InPipe(h)'
    BY <1>2, <2>1 DEF InPipe
  <2> QED
    BY <1>1, <1>2, <2>2, <2>3, OtherYesInv
<1> QED
  BY <1>4, <1>5

LEMMA WriterYesInv == YesInv /\ Writer => YesInv'
<1> SUFFICES ASSUME YesInv, Writer PROVE YesInv'
  OBVIOUS
<1> USE NodeAssumption DEF YesInv
<1>1. TimelyInv'
  BY WriterTimelyInv
<1>2. UNCHANGED handler
  BY DEF Writer, WriterReceive, WriterSave, WriterAdvance, WriterRelease, minerVars
<1>3. chain \in Seq(Hash) /\ writeChan \in Seq(Entry) /\ writing \in Entry
  BY DEF TimelyInv, ClaimInv, TypeInv, TypeOK
<1>4. CASE WriterReceive
  <2>1. /\ writerAt = "idle" /\ writerAt' = "save"
        /\ writing' = writeChan[1]
        /\ writeChan' = Tail(writeChan)
        /\ UNCHANGED chain
    BY <1>1, <1>3, <1>4 DEF WriterReceive, TimelyInv, NeverHalts
  <2>2. \A h \in Foreign : InPipe(h) => InPipe(h)'
    <3> SUFFICES ASSUME NEW h \in Foreign,
                        NEW i \in 1..Len(writeChan), writeChan[i].hash = h
                 PROVE  InPipe(h)'
      BY <2>1 DEF InPipe
    <3>1. CASE i = 1
      BY <2>1, <3>1 DEF InPipe
    <3>2. CASE i # 1
      <4>1. i - 1 \in 1..Len(writeChan') /\ writeChan'[i - 1] = writeChan[i]
        BY <1>3, <2>1, <3>2
      <4> QED
        BY <4>1 DEF InPipe
    <3> QED
      BY <3>1, <3>2
  <2> QED
    BY <1>1, <1>2, <2>1, <2>2
    DEF NoBlockTwice, AnsweredIsKept, WrittenIsTip, OnDisk
<1>5. CASE WriterSave
  <2>1. UNCHANGED <<writeChan, writing, prevHash>> /\ writerAt = "save"
    BY <1>5 DEF WriterSave, runnerVars
  <2>2. CASE writing.hash = Dropped
    <3>1. writerAt' = "idle" /\ UNCHANGED chain
      BY <1>5, <2>2 DEF WriterSave
    <3>2. \A h \in Foreign : InPipe(h) => InPipe(h)'
      BY <2>1, <2>2 DEF InPipe, Foreign
    <3> QED
      BY <1>1, <1>2, <3>1, <3>2
      DEF NoBlockTwice, AnsweredIsKept, WrittenIsTip, OnDisk
  <2>3. CASE writing.hash # Dropped
    <3>1. /\ writing.hash \in Hash
          /\ writerAt' = "advance"
          /\ chain' = Append(chain, writing.hash)
      BY <1>3, <1>5, <2>3 DEF WriterSave, Entry
    <3>2. /\ Len(chain') = Len(chain) + 1
          /\ chain'[Len(chain) + 1] = writing.hash
          /\ \A i \in 1..Len(chain) : chain'[i] = chain[i]
      BY <1>3, <3>1
    <3>3. \A i \in 1..Len(chain) : chain[i] # writing.hash
      <4> SUFFICES ASSUME NEW i \in 1..Len(chain), chain[i] = writing.hash PROVE FALSE
        OBVIOUS
      <4>1. PrevOf[chain[i]] = TipOf(chain)
        BY <2>1, <2>3 DEF TimelyInv, ChainInv, SaveFits, HeadIsOnDisk
      <4>2. TipOf(chain) = chain[Len(chain)] /\ chain[Len(chain)] \in Hash
        BY <1>3 DEF TipOf
      <4>3. i # 1 /\ chain[i - 1] = chain[Len(chain)]
        BY <4>1, <4>2 DEF TimelyInv, ChainInv, LinkedChain
      <4> QED
        BY <1>3, <4>3 DEF NoBlockTwice
    <3>4. NoBlockTwice'
      BY <1>3, <3>2, <3>3 DEF NoBlockTwice
    <3>5. \A h \in Foreign : InPipe(h) \/ OnDisk(h) => InPipe(h)' \/ OnDisk(h)'
      BY <1>3, <2>1, <3>1, <3>2 DEF InPipe, OnDisk
    <3>6. WrittenIsTip'
      BY <1>3, <2>1, <3>1, <3>2 DEF WrittenIsTip, TipOf
    <3> QED
      BY <1>1, <1>2, <3>4, <3>5, <3>6 DEF AnsweredIsKept
  <2> QED
    BY <2>2, <2>3
<1>6. CASE WriterAdvance
  BY <1>1, <1>2, <1>6
  DEF WriterAdvance, NoBlockTwice, AnsweredIsKept, WrittenIsTip, InPipe, OnDisk, TipOf
<1>7. CASE WriterRelease
  <2>1. writerAt = "release" /\ writerAt' = "idle" /\ UNCHANGED <<writeChan, writing, chain>>
    BY <1>7 DEF WriterRelease
  <2>2. OnDisk(writing.hash)
    BY <1>3, <2>1 DEF WrittenIsTip, TipOf, OnDisk
  <2>3. \A h \in Foreign : InPipe(h) \/ OnDisk(h) => InPipe(h)' \/ OnDisk(h)'
    BY <2>1, <2>2 DEF InPipe, OnDisk
  <2> QED
    BY <1>1, <1>2, <2>1, <2>3 DEF NoBlockTwice, AnsweredIsKept, WrittenIsTip
<1> QED
  BY <1>4, <1>5, <1>6, <1>7 DEF Writer

LEMMA NextYesInv == YesInv /\ [TimelyNext]_vars => YesInv'
<1> SUFFICES ASSUME YesInv, [TimelyNext]_vars PROVE YesInv'
  OBVIOUS
<1>1. CASE UNCHANGED vars
  BY <1>1, NextTimelyInv
  DEF YesInv, NoBlockTwice, AnsweredIsKept, WrittenIsTip, InPipe, OnDisk, TipOf, vars
<1>2. CASE TimelyNext
  BY <1>2, MinerYesInv, WriterYesInv, HandlerYesInv DEF TimelyNext, Step
<1> QED
  BY <1>1, <1>2

\* An accepted block is on its way under the claim, or on disk.
LEMMA AcceptedSomewhere ==
  ASSUME YesInv, NEW h \in Hash, Accepted(h)
  PROVE  InFlight(h) \/ OnDisk(h)
  BY DEF YesInv, AnsweredIsKept, Accepted, InFlight, InPipe, OnDisk

\* A block that is on its way and not on disk is built on the last block on
\* disk.
LEMMA InFlightOnTip ==
  ASSUME YesInv, NEW h \in Hash, InFlight(h), ~OnDisk(h)
  PROVE  PrevOf[h] = TipOf(chain)
<1> USE NodeAssumption DEF YesInv, TimelyInv
<1>1. claim = h
  BY DEF InFlightClaims
<1>2. writerAt \notin {"advance", "release"}
  <2> SUFFICES ASSUME writerAt \in {"advance", "release"} PROVE FALSE
    OBVIOUS
  <2>1. writing.hash \in Hash /\ InFlight(writing.hash)
    BY DEF ClaimInv, TypeInv, HoldsBlock, InFlight
  <2>2. writing.hash = h
    BY <1>1, <2>1 DEF InFlightClaims
  <2>3. chain \in Seq(Hash)
    BY DEF ClaimInv, TypeInv, TypeOK
  <2> QED
    BY <2>2, <2>3 DEF WrittenIsTip, TipOf, OnDisk
<1> QED
  BY <1>1, <1>2 DEF ClaimOnHead, ChainInv, HeadIsOnDisk

\* A node never says yes to two blocks on the same previous hash, to itself or
\* to another node, as long as no release goroutine wakes up on a block the
\* node is busy saving. With more than one node this is what keeps the network
\* from forking.
THEOREM OneYesPerParent == TimelySpec => []OneAcceptedPerParent
<1>1. TimelySpec => []YesInv
  BY InitYesInv, NextYesInv, PTL DEF TimelySpec
<1>2. YesInv => OneAcceptedPerParent
  <2> SUFFICES ASSUME YesInv, NEW g \in Hash, NEW h \in Hash,
                      Accepted(g), Accepted(h), PrevOf[g] = PrevOf[h]
               PROVE  g = h
    BY DEF OneAcceptedPerParent
  <2> USE NodeAssumption DEF YesInv
  <2>1. chain \in Seq(Hash)
    BY DEF TimelyInv, ClaimInv, TypeInv, TypeOK
  <2>2. ASSUME NEW k \in Hash, ~OnDisk(k), InFlight(k), NEW i \in 1..Len(chain)
        PROVE  PrevOf[k] # PrevOf[chain[i]]
    <3>1. PrevOf[k] = TipOf(chain) /\ TipOf(chain) = chain[Len(chain)]
          /\ Len(chain) \in 1..Len(chain) /\ chain[Len(chain)] \in Hash
      BY <2>1, <2>2, InFlightOnTip DEF TipOf
    <3>2. PrevOf[chain[i]] = IF i = 1 THEN NoHash ELSE chain[i - 1]
      BY DEF TimelyInv, ChainInv, LinkedChain
    <3> QED
      BY <2>1, <3>1, <3>2 DEF NoBlockTwice
  <2>3. CASE OnDisk(g) /\ OnDisk(h)
    <3> PICK i \in 1..Len(chain), j \in 1..Len(chain) : chain[i] = g /\ chain[j] = h
      BY <2>3 DEF OnDisk
    <3>1. /\ PrevOf[g] = IF i = 1 THEN NoHash ELSE chain[i - 1]
          /\ PrevOf[h] = IF j = 1 THEN NoHash ELSE chain[j - 1]
      BY DEF TimelyInv, ChainInv, LinkedChain
    <3>2. \A k \in 1..Len(chain) : chain[k] \in Hash /\ (k # 1 => k - 1 \in 1..Len(chain))
      BY <2>1
    <3>3. CASE i = 1 \/ j = 1
      BY <3>1, <3>2, <3>3
    <3>4. CASE i # 1 /\ j # 1
      <4>1. chain[i - 1] = chain[j - 1]
        BY <3>1, <3>4
      <4>2. i - 1 = j - 1
        BY <3>2, <3>4, <4>1 DEF NoBlockTwice
      <4> QED
        BY <4>2
    <3> QED
      BY <3>3, <3>4
  <2>4. CASE ~OnDisk(g) /\ ~OnDisk(h)
    BY <2>4, AcceptedSomewhere DEF TimelyInv, InFlightClaims
  <2>5. CASE OnDisk(g) /\ ~OnDisk(h)
    BY <2>2, <2>5, AcceptedSomewhere DEF OnDisk
  <2>6. CASE ~OnDisk(g) /\ OnDisk(h)
    BY <2>2, <2>6, AcceptedSomewhere DEF OnDisk
  <2> QED
    BY <2>3, <2>4, <2>5, <2>6
<1> QED
  BY <1>1, <1>2, PTL

-----------------------------------------------------------------------------
(* The node keeps its promise *)

\* What the mapping of KeepsPromise takes for accepted and for written.
ToWrite == ToSave \ {Dropped}
ToRelease == IF writerAt \in {"advance", "release"} THEN writing.hash ELSE NoHash

\* Every step changes what the promise is about in one of these ways.
StutterStep == UNCHANGED <<chain, claim, ToWrite, ToRelease>>
ClaimStep(h) ==
  /\ claim = NoHash /\ PrevOf[h] = TipOf(chain)
  /\ claim' = h
  /\ UNCHANGED <<chain, ToWrite, ToRelease>>
UnclaimStep ==
  /\ claim \notin ToWrite \cup {ToRelease}
  /\ claim' = NoHash
  /\ UNCHANGED <<chain, ToWrite, ToRelease>>
AcceptStep(h) ==
  /\ claim = h /\ PrevOf[h] = TipOf(chain)
  /\ ToWrite = {} /\ ToRelease = NoHash
  /\ ToWrite' = {h}
  /\ UNCHANGED <<chain, claim, ToRelease>>
WriteStep(h) ==
  /\ ToWrite = {h} /\ ToRelease = NoHash
  /\ chain' = Append(chain, h)
  /\ ToWrite' = {} /\ ToRelease' = h
  /\ UNCHANGED claim
ReleaseStep ==
  /\ ToRelease # NoHash /\ claim = ToRelease
  /\ claim' = NoHash /\ ToRelease' = NoHash
  /\ UNCHANGED <<chain, ToWrite>>
PromiseStep ==
  \/ StutterStep
  \/ \E h \in Hash : ClaimStep(h) \/ AcceptStep(h) \/ WriteStep(h)
  \/ UnclaimStep
  \/ ReleaseStep

\* They are the steps of NodePromise under the mapping.
LEMMA PromiseStepIsStep == PromiseStep => [Promise!Next]_(Promise!vars)
<1> USE DEF ToWrite, ToRelease
<1>1. Promise!TipOf(chain) = TipOf(chain)
  BY DEF Promise!TipOf, TipOf
<1>2. ASSUME StutterStep PROVE UNCHANGED Promise!vars
  BY <1>2 DEF StutterStep, Promise!vars
<1>3. ASSUME NEW h \in Hash, ClaimStep(h) PROVE Promise!Next
  <2>1. Promise!Claim(h)
    BY <1>1, <1>3 DEF ClaimStep, Promise!Claim
  <2> QED
    BY <2>1 DEF Promise!Next
<1>4. ASSUME NEW h \in Hash, AcceptStep(h) PROVE Promise!Next
  <2>1. Promise!Accept(h)
    BY <1>1, <1>4 DEF AcceptStep, Promise!Accept
  <2> QED
    BY <2>1 DEF Promise!Next
<1>5. ASSUME NEW h \in Hash, WriteStep(h) PROVE Promise!Next
  <2>1. Promise!Write(h) /\ h \in ToWrite
    BY <1>5 DEF WriteStep, Promise!Write
  <2> QED
    BY <2>1 DEF Promise!Next
<1>6. ASSUME UnclaimStep PROVE Promise!Next
  <2>1. Promise!Unclaim
    BY <1>6 DEF UnclaimStep, Promise!Unclaim
  <2> QED
    BY <2>1 DEF Promise!Next
<1>7. ASSUME ReleaseStep PROVE Promise!Next
  <2>1. Promise!Release
    BY <1>7 DEF ReleaseStep, Promise!Release
  <2> QED
    BY <2>1 DEF Promise!Next
<1> QED
  BY <1>2, <1>3, <1>4, <1>5, <1>6, <1>7 DEF PromiseStep

\* What is to be written or released is under the claim.
LEMMA ToWriteIsClaimed ==
  ASSUME TimelyInv
  PROVE  /\ \A h \in ToWrite : h \in Hash /\ InPipe(h) /\ claim = h
         /\ ToRelease # NoHash =>
              ToRelease \in Hash /\ InPipe(ToRelease) /\ claim = ToRelease
<1> USE NodeAssumption DEF TimelyInv, ClaimInv, TypeInv
<1>1. writeChan \in Seq(Entry) /\ writing \in Entry
  BY DEF TypeOK
<1>2. ASSUME NEW h \in ToWrite PROVE h \in Hash /\ InPipe(h)
  <2>1. \A i \in 1..Len(writeChan) : writeChan[i] \in Entry
    BY <1>1
  <2>2. CASE \E i \in 1..Len(writeChan) : h = writeChan[i].hash
    BY <1>2, <2>1, <2>2 DEF ToWrite, InPipe, Entry
  <2>3. CASE writerAt = "save" /\ h = writing.hash
    BY <1>1, <1>2, <2>3 DEF ToWrite, InPipe, Entry
  <2> QED
    BY <1>2, <2>2, <2>3 DEF ToWrite, ToSave
<1>3. ToRelease # NoHash => ToRelease \in Hash /\ InPipe(ToRelease)
  BY DEF ToRelease, InPipe, HoldsBlock
<1>4. \A h \in Hash : InPipe(h) => claim = h
  BY DEF InFlightClaims, InFlight, InPipe
<1> QED
  BY <1>2, <1>3, <1>4

\* While no block is in the pipe, the current previous hash is the last block
\* on disk, and the claim is for a block built on it.
LEMMA EmptyPipe ==
  ASSUME TimelyInv, \A h \in Hash : ~InPipe(h)
  PROVE  /\ ToWrite = {} /\ ToRelease = NoHash
         /\ prevHash = TipOf(chain)
         /\ claim # NoHash => PrevOf[claim] = TipOf(chain)
<1>1. ToWrite = {} /\ ToRelease = NoHash
  BY ToWriteIsClaimed
<1>2. writerAt \notin {"advance", "release"}
  BY DEF TimelyInv, ClaimInv, TypeInv, HoldsBlock, InPipe
<1> QED
  BY <1>1, <1>2 DEF TimelyInv, ChainInv, HeadIsOnDisk, ClaimOnHead

\* An unclaimed hash means an empty pipe.
LEMMA UnclaimedIsEmpty ==
  ASSUME TimelyInv, claim = NoHash
  PROVE  \A h \in Hash : ~InPipe(h)
  BY NodeAssumption DEF TimelyInv, InFlightClaims, InFlight, InPipe

\* A send on writeChan adds its hash.
LEMMA SendAddsToSave ==
  ASSUME NEW e \in Entry, writeChan \in Seq(Entry),
         writeChan' = Append(writeChan, e), UNCHANGED <<writerAt, writing>>
  PROVE  ToSave' = ToSave \cup {e.hash} /\ UNCHANGED ToRelease
<1>1. /\ Len(writeChan') = Len(writeChan) + 1
      /\ writeChan'[Len(writeChan')] = e
      /\ \A i \in 1..Len(writeChan) : writeChan'[i] = writeChan[i]
  OBVIOUS
<1>2. Len(writeChan) \in Nat
  OBVIOUS
<1>3. {writeChan'[i].hash : i \in 1..Len(writeChan')}
        = {writeChan[i].hash : i \in 1..Len(writeChan)} \cup {e.hash}
  BY <1>1, <1>2
<1> QED
  BY <1>3 DEF ToSave, ToRelease

LEMMA MinerPromise == TimelyInv /\ Miner => PromiseStep
<1> SUFFICES ASSUME TimelyInv, Miner PROVE PromiseStep
  OBVIOUS
<1> USE NodeAssumption
<1>1. UNCHANGED <<chain, writerAt, writing>>
  BY DEF Miner, TakeBatch, ReadPrev, AttemptsLeft, MinerClaim, Counted, ExchangeAccepted,
     ExchangeRefused, SendMined, GiveUp, writerVars
<1>2. ASSUME UNCHANGED writeChan PROVE UNCHANGED <<chain, ToWrite, ToRelease>>
  BY <1>1, <1>2 DEF ToWrite, ToSave, ToRelease
<1>3. CASE (\E b \in Batch : TakeBatch(b)) \/ ReadPrev \/ ExchangeAccepted
  <2>1. UNCHANGED <<claim, writeChan>>
    BY <1>3 DEF TakeBatch, ReadPrev, ExchangeAccepted, runnerVars
  <2> QED
    BY <1>2, <2>1 DEF PromiseStep, StutterStep
<1>4. CASE \E h \in Own : MinerClaim(h)
  <2> PICK h \in Own : MinerClaim(h)
    BY <1>4
  <2>1. UNCHANGED writeChan
    BY DEF MinerClaim
  <2>2. CASE CanClaim(h)
    <3>1. claim = NoHash /\ PrevOf[h] = prevHash /\ claim' = h /\ h \in Hash
      BY <2>2 DEF MinerClaim, CanClaim
    <3>2. prevHash = TipOf(chain)
      BY <3>1, UnclaimedIsEmpty, EmptyPipe
    <3>3. ClaimStep(h)
      BY <1>2, <2>1, <3>1, <3>2 DEF ClaimStep
    <3> QED
      BY <3>1, <3>3 DEF PromiseStep
  <2>3. CASE ~CanClaim(h)
    BY <1>2, <2>1, <2>3 DEF MinerClaim, PromiseStep, StutterStep
  <2> QED
    BY <2>2, <2>3
<1>5. CASE ExchangeRefused
  <2>1. claim = mined /\ mined \in Own /\ mined # NoHash
    BY <1>5 DEF ExchangeRefused, TimelyInv, ClaimInv, MinerHoldsClaim, TypeInv, HoldsBlock
  <2>2. claim' = NoHash /\ UNCHANGED writeChan
    BY <1>5, <2>1 DEF ExchangeRefused, ReleaseClaim
  <2>3. ~InPipe(mined)
    BY <1>5, <2>1 DEF ExchangeRefused, InPipe, TimelyInv, ClaimInv, OwnBlockHoldsClaim
  <2>4. claim \notin ToWrite \cup {ToRelease}
    BY <2>1, <2>3, ToWriteIsClaimed
  <2> QED
    BY <1>2, <2>2, <2>4 DEF PromiseStep, UnclaimStep
<1>6. CASE SendMined
  <2>1. /\ mined \in Own /\ mined \in Hash
        /\ AcceptedEntry(mined) \in Entry /\ AcceptedEntry(mined).hash = mined
        /\ writeChan \in Seq(Entry)
        /\ writeChan' = Append(writeChan, AcceptedEntry(mined))
        /\ UNCHANGED claim
    BY <1>6, AcceptedEntryType
    DEF SendMined, runnerVars, TimelyInv, ClaimInv, TypeInv, TypeOK, HoldsBlock
  <2>2. claim = mined
    BY <1>6 DEF SendMined, TimelyInv, ClaimInv, MinerHoldsClaim
  <2>3. \A h \in Hash : ~InPipe(h)
    <3>1. ~InPipe(mined)
      BY <1>6, <2>1 DEF SendMined, InPipe, TimelyInv, ClaimInv, OwnBlockHoldsClaim
    <3>2. \A h \in Hash : InPipe(h) => claim = h
      BY DEF TimelyInv, InFlightClaims, InFlight, InPipe
    <3> QED
      BY <2>2, <3>1, <3>2
  <2>4. ToSave' = ToSave \cup {mined} /\ UNCHANGED ToRelease
    BY <1>1, <2>1, SendAddsToSave
  <2>5. ToWrite' = {mined}
    BY <2>1, <2>3, <2>4, EmptyPipe DEF ToWrite
  <2>6. AcceptStep(mined)
    BY <1>1, <2>1, <2>2, <2>3, <2>4, <2>5, EmptyPipe DEF AcceptStep
  <2> QED
    BY <2>1, <2>6 DEF PromiseStep
<1>7. CASE GiveUp
  <2>1. /\ DroppedEntry(batch) \in Entry /\ DroppedEntry(batch).hash = Dropped
        /\ writeChan \in Seq(Entry)
        /\ writeChan' = Append(writeChan, DroppedEntry(batch))
        /\ UNCHANGED claim
    BY <1>7, DroppedEntryType DEF GiveUp, runnerVars, TimelyInv, ClaimInv, TypeInv, TypeOK
  <2>2. ToSave' = ToSave \cup {Dropped} /\ UNCHANGED ToRelease
    BY <1>1, <2>1, SendAddsToSave
  <2> QED
    BY <1>1, <2>1, <2>2 DEF ToWrite, PromiseStep, StutterStep
<1> QED
  BY <1>3, <1>4, <1>5, <1>6, <1>7 DEF Miner

LEMMA WriterPromise == TimelyInv /\ TimelyInv' /\ Writer => PromiseStep
<1> SUFFICES ASSUME TimelyInv, TimelyInv', Writer PROVE PromiseStep
  OBVIOUS
<1> USE NodeAssumption
<1>1. writeChan \in Seq(Entry) /\ writing \in Entry
  BY DEF TimelyInv, ClaimInv, TypeInv, TypeOK
<1>2. CASE WriterReceive
  <2>1. /\ writerAt = "idle" /\ writerAt' = "save"
        /\ writeChan # <<>>
        /\ writing' = writeChan[1] /\ writeChan' = Tail(writeChan)
        /\ UNCHANGED <<chain, claim>>
    BY <1>1, <1>2 DEF WriterReceive, runnerVars, TimelyInv, NeverHalts
  <2>2. {writeChan[i].hash : i \in 1..Len(writeChan)}
          = {writeChan'[i].hash : i \in 1..Len(writeChan')} \cup {writing'.hash}
    <3>1. /\ Len(writeChan') = Len(writeChan) - 1 /\ Len(writeChan) \in Nat \ {0}
          /\ \A i \in 1..Len(writeChan') : writeChan'[i] = writeChan[i + 1]
      BY <1>1, <2>1
    <3>2. ASSUME NEW i \in 1..Len(writeChan)
          PROVE  i = 1 \/ (i - 1 \in 1..Len(writeChan') /\ writeChan'[i - 1] = writeChan[i])
      BY <3>1
    <3>3. ASSUME NEW i \in 1..Len(writeChan')
          PROVE  i + 1 \in 1..Len(writeChan) /\ writeChan'[i] = writeChan[i + 1]
      BY <3>1
    <3>4. 1 \in 1..Len(writeChan)
      BY <3>1
    <3> DEFINE S == {writeChan[i].hash : i \in 1..Len(writeChan)}
               T == {writeChan'[i].hash : i \in 1..Len(writeChan')}
    <3>5. S \subseteq T \cup {writing'.hash}
      <4> SUFFICES ASSUME NEW i \in 1..Len(writeChan)
                   PROVE  writeChan[i].hash \in T \cup {writing'.hash}
        OBVIOUS
      <4> QED
        BY <2>1, <3>2
    <3>6. T \cup {writing'.hash} \subseteq S
      <4>1. ASSUME NEW i \in 1..Len(writeChan') PROVE writeChan'[i].hash \in S
        BY <3>3
      <4> QED
        BY <2>1, <3>4, <4>1
    <3> QED
      BY <3>5, <3>6
  <2>3. ToSave = {writeChan[i].hash : i \in 1..Len(writeChan)}
    BY <2>1 DEF ToSave
  <2>4. ToSave' = {writeChan'[i].hash : i \in 1..Len(writeChan')} \cup {writing'.hash}
    BY <2>1 DEF ToSave
  <2>5. UNCHANGED <<ToWrite, ToRelease>>
    BY <2>1, <2>2, <2>3, <2>4 DEF ToWrite, ToRelease
  <2> QED
    BY <2>1, <2>5 DEF PromiseStep, StutterStep
<1>3. CASE WriterSave
  <2>1. writerAt = "save" /\ UNCHANGED <<claim, writeChan, writing>>
    BY <1>3 DEF WriterSave, runnerVars
  <2>2. CASE writing.hash = Dropped
    <3>1. writerAt' = "idle" /\ UNCHANGED chain
      BY <1>3, <2>2 DEF WriterSave
    <3> QED
      BY <2>1, <2>2, <3>1 DEF ToWrite, ToSave, ToRelease, PromiseStep, StutterStep
  <2>3. CASE writing.hash # Dropped
    <3>1. /\ writing.hash \in Hash
          /\ writerAt' = "advance" /\ chain' = Append(chain, writing.hash)
      BY <1>1, <1>3, <2>3 DEF WriterSave, Entry
    <3>2. \A i \in 1..Len(writeChan) : writeChan[i].hash = Dropped
      <4>1. \A i \in 1..Len(writeChan) : writeChan[i] \in Entry
        BY <1>1
      <4>2. \A i \in 1..Len(writeChan) : writeChan[i].hash \notin Hash
        BY <2>1, <3>1 DEF TimelyInv, OneInPipe
      <4> QED
        BY <4>1, <4>2 DEF Entry
    <3>3. WriteStep(writing.hash)
      BY <2>1, <3>1, <3>2 DEF WriteStep, ToWrite, ToSave, ToRelease
    <3> QED
      BY <3>1, <3>3 DEF PromiseStep
  <2> QED
    BY <2>2, <2>3
<1>4. CASE WriterAdvance
  BY <1>4 DEF WriterAdvance, minerVars, ToWrite, ToSave, ToRelease, PromiseStep, StutterStep
<1>5. CASE WriterRelease
  <2>1. /\ writing.hash \in Hash /\ writing.hash # NoHash
        /\ writerAt = "release" /\ writerAt' = "idle"
        /\ UNCHANGED <<writeChan, writing, chain>>
    BY <1>5 DEF WriterRelease, TimelyInv, ClaimInv, TypeInv, HoldsBlock
  <2>2. ToRelease = writing.hash /\ ToRelease' = NoHash /\ UNCHANGED ToWrite
    BY <2>1 DEF ToRelease, ToWrite, ToSave
  <2>3. claim = writing.hash
    BY <2>1, <2>2, ToWriteIsClaimed
  <2>4. claim' = NoHash
    BY <1>5, <2>3 DEF WriterRelease, ReleaseClaim
  <2> QED
    BY <2>1, <2>2, <2>3, <2>4 DEF PromiseStep, ReleaseStep
<1> QED
  BY <1>2, <1>3, <1>4, <1>5 DEF Writer

LEMMA HandlerPromise ==
  ASSUME TimelyInv, NEW g \in Foreign,
         \/ SignRequest(g) \/ AcceptValidate(g) \/ AcceptHandler(g)
         \/ ~InFlight(g) /\ ClaimTimeout(g)
  PROVE  PromiseStep
<1> USE NodeAssumption
<1>1. g \in Hash
  BY DEF Foreign
<1>2. UNCHANGED <<chain, writerAt, writing>>
  BY DEF AcceptHandler, SignRequest, TimersWith, AcceptValidate, AcceptClaim,
     AcceptRecheck, IsClaimedBy, AcceptEnqueue, ClaimTimeout, ClaimAfter, writerVars
<1>3. ASSUME UNCHANGED writeChan PROVE UNCHANGED <<chain, ToWrite, ToRelease>>
  BY <1>2, <1>3 DEF ToWrite, ToSave, ToRelease
<1>4. ASSUME CanClaim(g), claim' = g, UNCHANGED writeChan PROVE PromiseStep
  <2>1. claim = NoHash /\ PrevOf[g] = TipOf(chain)
    BY <1>4, UnclaimedIsEmpty, EmptyPipe DEF CanClaim
  <2>2. ClaimStep(g)
    BY <1>3, <1>4, <2>1 DEF ClaimStep
  <2> QED
    BY <1>1, <2>2 DEF PromiseStep
<1>5. CASE SignRequest(g)
  BY <1>4, <1>5 DEF SignRequest
<1>6. CASE AcceptValidate(g) \/ AcceptRecheck(g)
  <2>1. UNCHANGED <<claim, writeChan>>
    BY <1>6 DEF AcceptValidate, AcceptRecheck, runnerVars
  <2> QED
    BY <1>3, <2>1 DEF PromiseStep, StutterStep
<1>7. CASE AcceptClaim(g)
  <2>1. UNCHANGED writeChan
    BY <1>7 DEF AcceptClaim
  <2>2. CASE CanClaim(g)
    BY <1>4, <1>7, <2>1, <2>2 DEF AcceptClaim
  <2>3. CASE ~CanClaim(g)
    BY <1>3, <1>7, <2>1, <2>3 DEF AcceptClaim, PromiseStep, StutterStep
  <2> QED
    BY <2>2, <2>3
<1>8. CASE AcceptEnqueue(g)
  <2>1. /\ AcceptedEntry(g) \in Entry /\ AcceptedEntry(g).hash = g
        /\ writeChan \in Seq(Entry)
        /\ writeChan' = Append(writeChan, AcceptedEntry(g))
        /\ handler[g] = "claimed"
        /\ UNCHANGED claim
    BY <1>1, <1>8, AcceptedEntryType
    DEF AcceptEnqueue, runnerVars, TimelyInv, ClaimInv, TypeInv, TypeOK
  <2>2. claim = g
    BY <1>1, <2>1 DEF TimelyInv, InFlightClaims, InFlight
  <2>3. \A h \in Hash : ~InPipe(h)
    <3>1. ~InPipe(g)
      BY <2>1 DEF TimelyInv, PostedOnce
    <3>2. \A h \in Hash : InPipe(h) => claim = h
      BY DEF TimelyInv, InFlightClaims, InFlight, InPipe
    <3> QED
      BY <2>2, <3>1, <3>2
  <2>4. ToSave' = ToSave \cup {g} /\ UNCHANGED ToRelease
    BY <1>2, <2>1, SendAddsToSave
  <2>5. ToWrite' = {g}
    BY <1>1, <2>3, <2>4, EmptyPipe DEF ToWrite
  <2>6. AcceptStep(g)
    BY <1>1, <1>2, <2>1, <2>2, <2>3, <2>4, <2>5, EmptyPipe DEF AcceptStep
  <2> QED
    BY <1>1, <2>6 DEF PromiseStep
<1>9. CASE ~InFlight(g) /\ ClaimTimeout(g)
  <2>1. UNCHANGED writeChan /\ claim' = IF claim = g THEN NoHash ELSE claim
    BY <1>9 DEF ClaimTimeout, ClaimAfter
  <2>2. CASE claim = g
    <3>1. ~InPipe(g) /\ g # NoHash
      BY <1>1, <1>9 DEF InFlight, InPipe
    <3>2. claim \notin ToWrite \cup {ToRelease}
      BY <2>2, <3>1, ToWriteIsClaimed
    <3> QED
      BY <1>3, <2>1, <2>2, <3>2 DEF PromiseStep, UnclaimStep
  <2>3. CASE claim # g
    BY <1>3, <2>1, <2>3 DEF PromiseStep, StutterStep
  <2> QED
    BY <2>2, <2>3
<1> QED
  BY <1>5, <1>6, <1>7, <1>8, <1>9 DEF AcceptHandler

\* A node keeps its promise to the others: seen from outside, its miner, its
\* handlers, its release goroutines and its writer together only claim the
\* previous hash, say yes to the block of the claim, write it and release the
\* claim, whatever their critical sections interleave to, as long as no claim
\* times out on a block the node is busy saving.
THEOREM NodeKeepsPromise == TimelySpec => KeepsPromise
<1>1. Init => Promise!Init
  BY DEF Init, Promise!Init, ToSave, NoEntry
<1>2. ASSUME TimelyInv, TimelyInv', [TimelyNext]_vars PROVE [Promise!Next]_(Promise!vars)
  <2>1. CASE UNCHANGED vars
    BY <2>1 DEF vars, Promise!vars, ToSave
  <2>2. CASE TimelyNext
    <3>1. PromiseStep
      BY <1>2, <2>2, MinerPromise, WriterPromise, HandlerPromise DEF TimelyNext, Step
    <3> QED
      BY <3>1, PromiseStepIsStep
  <2> QED
    BY <1>2, <2>1, <2>2
<1>3. TimelySpec => []TimelyInv
  BY InitTimelyInv, NextTimelyInv, PTL DEF TimelySpec
<1> QED
  BY <1>1, <1>2, <1>3, PTL DEF TimelySpec, KeepsPromise, Promise!Spec
=============================================================================
