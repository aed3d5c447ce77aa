----------------------- MODULE BlockNodeLedgerProofs -----------------------
(***************************************************************************)
(* The block files of a node behave as the Ledger promises.               *)
(*                                                                         *)
(* A batch moves from the queue to the miner, to writeChan, to the writer  *)
(* and into a file, and BatchInv says that it is at one of these places    *)
(* only and that the entry that settles it is the right one for its block. *)
(* Only WriterSave changes the files; with BatchInv and ChainInv it is one *)
(* of the three steps of the Ledger, and every other step is a stutter.    *)
(***************************************************************************)
EXTENDS BlockNodeProofs

\* The miner holds a batch exactly while it works, and the block it shows to
\* the other nodes contains that batch.
MinerHoldsBatch ==
  /\ (minerAt = "idle") <=> (batch = NoBatch)
  /\ minerAt \in {"exchange", "send"} => BatchOf[mined] = batch

\* An entry settles the batch of its block, or the batch it drops.
Settles(e) ==
  \/ e.hash \in Own /\ e.batch = BatchOf[e.hash]
  \/ e.hash \in Foreign /\ e.batch = NoBatch
  \/ e.hash = Dropped /\ e.batch \in Batch

EntriesSettle ==
  /\ \A i \in 1..Len(writeChan) : Settles(writeChan[i])
  /\ writerAt = "save" => Settles(writing)

BatchInv == ChainInv /\ BatchInOnePlace /\ MinerHoldsBatch /\ EntriesSettle

LEMMA InitBatchInv == Init => BatchInv
  BY InitChainInv, NodeAssumption
  DEF Init, BatchInv, BatchInOnePlace, Queued, Saving, MinerHoldsBatch, EntriesSettle

\* The blocks the handlers send carry no batch of this node.
LEMMA ForeignSend ==
  ASSUME BatchInv, NEW h \in Foreign, AcceptEnqueue(h)
  PROVE  EntriesSettle' /\ \A b \in Batch : Queued(b)' <=> Queued(b)
<1> USE NodeAssumption DEF BatchInv
<1>1. /\ writeChan \in Seq(Entry)
      /\ AcceptedEntry(h) \in Entry
      /\ AcceptedEntry(h).hash = h
      /\ AcceptedEntry(h).batch = NoBatch
      /\ writeChan' = Append(writeChan, AcceptedEntry(h))
      /\ UNCHANGED <<writerAt, writing>>
  BY AcceptedEntryType
  DEF Foreign, AcceptEnqueue, AcceptedEntry, writerVars, ChainInv, TypeInv, TypeOK
<1>2. Settles(AcceptedEntry(h))
  BY <1>1 DEF Settles
<1>3. /\ Len(writeChan') = Len(writeChan) + 1
      /\ writeChan'[Len(writeChan')] = AcceptedEntry(h)
      /\ \A i \in 1..Len(writeChan) : writeChan'[i] = writeChan[i]
  BY <1>1
<1>4. EntriesSettle'
  BY <1>1, <1>2, <1>3 DEF EntriesSettle, Settles
<1>5. \A b \in Batch : Queued(b)' <=> Queued(b)
  BY <1>1, <1>3 DEF Queued
<1> QED
  BY <1>4, <1>5

LEMMA HandlerBatchInv ==
  ASSUME BatchInv, NEW h \in Foreign,
         SignRequest(h) \/ AcceptValidate(h) \/ AcceptHandler(h) \/ ClaimTimeout(h)
  PROVE  BatchInv'
<1> USE NodeAssumption DEF BatchInv
<1>1. ChainInv'
  BY HandlerChainInv
<1>2. UNCHANGED <<waiting, minerAt, batch, mined, writerAt, writing, outcome, halted>>
  BY DEF AcceptHandler, SignRequest, TimersWith, AcceptValidate, AcceptClaim,
     AcceptRecheck, IsClaimedBy, AcceptEnqueue, ClaimTimeout, ClaimAfter, minerVars, writerVars
<1>3. MinerHoldsBatch'
  BY <1>2 DEF MinerHoldsBatch
<1>4. CASE AcceptEnqueue(h)
  <2>1. EntriesSettle' /\ \A b \in Batch : Queued(b)' <=> Queued(b)
    BY <1>4, ForeignSend
  <2>2. /\ writeChan \in Seq(Entry)
        /\ AcceptedEntry(h) \in Entry
        /\ AcceptedEntry(h).batch = NoBatch
        /\ writeChan' = Append(writeChan, AcceptedEntry(h))
    BY <1>4, AcceptedEntryType
    DEF Foreign, AcceptEnqueue, AcceptedEntry, ChainInv, TypeInv, TypeOK
  <2>3. \A b \in Batch : \A i, j \in 1..Len(writeChan') :
          writeChan'[i].batch = b /\ writeChan'[j].batch = b => i = j
    BY <2>2 DEF BatchInOnePlace
  <2>4. BatchInOnePlace'
    BY <1>2, <2>1, <2>3 DEF BatchInOnePlace, Saving
  <2> QED
    BY <1>1, <1>3, <2>1, <2>4
<1>5. CASE ~AcceptEnqueue(h)
  <2>1. UNCHANGED writeChan
    BY <1>5 DEF AcceptHandler, SignRequest, TimersWith, AcceptValidate, AcceptClaim,
       AcceptRecheck, IsClaimedBy, ClaimTimeout, ClaimAfter
  <2> QED
    BY <1>1, <1>2, <1>3, <2>1
    DEF BatchInOnePlace, Queued, Saving, EntriesSettle, Settles
<1> QED
  BY <1>4, <1>5

\* The send that ends the miner's turn moves its batch into writeChan.
LEMMA MinerSend ==
  ASSUME BatchInv, NEW e \in Entry, minerAt # "idle",
         e.batch = batch, Settles(e),
         writeChan' = Append(writeChan, e),
         MinerIdle, UNCHANGED <<writerVars, halted>>
  PROVE  BatchInOnePlace' /\ EntriesSettle' /\ MinerHoldsBatch'
<1> USE NodeAssumption DEF BatchInv
<1>1. writeChan \in Seq(Entry) /\ batch \in Batch \cup {NoBatch} /\ batch # NoBatch
  BY DEF ChainInv, TypeInv, TypeOK, MinerHoldsBatch
<1>2. /\ Len(writeChan') = Len(writeChan) + 1
      /\ Len(writeChan') \in 1..Len(writeChan')
      /\ writeChan'[Len(writeChan')] = e
      /\ \A i \in 1..Len(writeChan) : writeChan'[i] = writeChan[i]
  BY <1>1
<1>3. UNCHANGED <<waiting, writerAt, writing, outcome, halted>>
      /\ batch' = NoBatch /\ minerAt' = "idle"
  BY DEF MinerIdle, writerVars
<1>4. EntriesSettle'
  BY <1>1, <1>2, <1>3 DEF EntriesSettle, Settles
<1>5. MinerHoldsBatch'
  BY <1>3 DEF MinerHoldsBatch
<1>6. \A b \in Batch : Queued(b)' <=> (Queued(b) \/ b = batch)
  BY <1>1, <1>2 DEF Queued
<1>7. batch \notin waiting /\ ~Queued(batch) /\ ~Saving(batch) /\ outcome[batch] = "none"
  BY <1>1 DEF BatchInOnePlace
<1>8. ASSUME NEW b \in Batch, NEW i \in 1..Len(writeChan'), NEW j \in 1..Len(writeChan'),
             writeChan'[i].batch = b, writeChan'[j].batch = b
      PROVE  i = j
  <2>1. CASE b = batch
    BY <1>1, <1>2, <1>7, <1>8, <2>1 DEF Queued
  <2>2. CASE b # batch
    <3>1. i \in 1..Len(writeChan) /\ j \in 1..Len(writeChan)
      BY <1>1, <1>2, <1>8, <2>2
    <3> QED
      BY <1>2, <1>8, <3>1 DEF BatchInOnePlace
  <2> QED
    BY <2>1, <2>2
<1>9. BatchInOnePlace'
  BY <1>1, <1>3, <1>6, <1>7, <1>8 DEF BatchInOnePlace, Saving
<1> QED
  BY <1>4, <1>5, <1>9

LEMMA MinerBatchInv == BatchInv /\ Miner => BatchInv'
<1> SUFFICES ASSUME BatchInv, Miner PROVE BatchInv'
  OBVIOUS
<1> USE NodeAssumption DEF BatchInv
<1>1. ChainInv'
  BY MinerChainInv
<1>2. batch \in Batch \cup {NoBatch}
  BY DEF ChainInv, TypeInv, TypeOK
<1>3. CASE \E b \in Batch : TakeBatch(b)
  BY <1>1, <1>3
  DEF TakeBatch, runnerVars, writerVars, BatchInOnePlace, Queued, Saving,
      MinerHoldsBatch, EntriesSettle, Settles
<1>4. CASE ReadPrev \/ ExchangeAccepted \/ ExchangeRefused
  <2>1. UNCHANGED <<waiting, batch, writeChan, writerAt, writing, outcome>>
        /\ (halted' = halted \/ halted' # "no")
    BY <1>4 DEF ReadPrev, AttemptsLeft, ExchangeAccepted, ExchangeRefused, ReleaseClaim,
       runnerVars, writerVars
  <2>2. MinerHoldsBatch'
    BY <1>4 DEF ReadPrev, AttemptsLeft, ExchangeAccepted, ExchangeRefused, MinerHoldsBatch
  <2> QED
    BY <1>1, <2>1, <2>2 DEF BatchInOnePlace, Queued, Saving, EntriesSettle, Settles
<1>5. CASE \E h \in Own : MinerClaim(h)
  <2> PICK h \in Own : MinerClaim(h)
    BY <1>5
  <2>1. UNCHANGED <<waiting, batch, writeChan, writerAt, writing, outcome, halted>>
    BY DEF MinerClaim, Counted, writerVars
  <2>2. MinerHoldsBatch'
    <3>1. CASE CanClaim(h)
      BY <3>1 DEF MinerClaim, Counted, MinerHoldsBatch
    <3>2. CASE ~CanClaim(h)
      BY <3>2 DEF MinerClaim, Counted, MinerHoldsBatch
    <3> QED
      BY <3>1, <3>2
  <2> QED
    BY <1>1, <2>1, <2>2 DEF BatchInOnePlace, Queued, Saving, EntriesSettle, Settles
<1>6. CASE SendMined
  <2>1. mined \in Own /\ BatchOf[mined] = batch
    BY <1>6 DEF SendMined, ChainInv, TypeInv, HoldsBlock, MinerHoldsBatch
  <2>2. /\ AcceptedEntry(mined) \in Entry
        /\ AcceptedEntry(mined).hash = mined
        /\ AcceptedEntry(mined).batch = batch
    BY <2>1, AcceptedEntryType DEF AcceptedEntry
  <2>3. Settles(AcceptedEntry(mined))
    BY <2>1, <2>2 DEF Settles
  <2> QED
    BY <1>1, <1>6, <2>2, <2>3, MinerSend DEF SendMined
<1>7. CASE GiveUp
  <2>1. /\ batch \in Batch
        /\ DroppedEntry(batch) \in Entry
        /\ DroppedEntry(batch).hash = Dropped
        /\ DroppedEntry(batch).batch = batch
    BY <1>2, <1>7, DroppedEntryType DEF GiveUp, MinerHoldsBatch, DroppedEntry
  <2>2. Settles(DroppedEntry(batch))
    BY <2>1 DEF Settles
  <2> QED
    BY <1>1, <1>7, <2>1, <2>2, MinerSend DEF GiveUp
<1> QED
  BY <1>3, <1>4, <1>5, <1>6, <1>7 DEF Miner

LEMMA WriterBatchInv == BatchInv /\ Writer => BatchInv'
<1> SUFFICES ASSUME BatchInv, Writer PROVE BatchInv'
  OBVIOUS
<1> USE NodeAssumption DEF BatchInv
<1>1. ChainInv'
  BY WriterChainInv
<1>2. UNCHANGED <<waiting, minerAt, batch, mined>>
  BY DEF Writer, WriterReceive, WriterSave, WriterAdvance, WriterRelease, minerVars
<1>3. MinerHoldsBatch'
  BY <1>2 DEF MinerHoldsBatch
<1>4. writeChan \in Seq(Entry) /\ writing \in Entry
      /\ outcome \in [Batch -> {"none", "accepted", "dropped"}]
  BY DEF ChainInv, TypeInv, TypeOK
<1>5. CASE WriterReceive
  <2>1. /\ writerAt = "idle" /\ writeChan # <<>>
        /\ writeChan' = Tail(writeChan)
        /\ writing' = writeChan[1]
        /\ UNCHANGED outcome
        /\ \/ writerAt' = "save" /\ halted' = halted
           \/ writerAt' = "idle" /\ halted' # "no"
    BY <1>4, <1>5 DEF WriterReceive
  <2>2. /\ 1 \in 1..Len(writeChan)
        /\ \A i \in 1..Len(writeChan') :
             i + 1 \in 1..Len(writeChan) /\ writeChan'[i] = writeChan[i + 1]
        /\ \A i \in 1..Len(writeChan) : i # 1 =>
             i - 1 \in 1..Len(writeChan') /\ writeChan'[i - 1] = writeChan[i]
    BY <1>4, <2>1
  <2>3. EntriesSettle'
    BY <2>1, <2>2 DEF EntriesSettle, Settles
  <2>4. ASSUME NEW b \in Batch
        PROVE  /\ Queued(b)' => Queued(b) /\ writeChan[1].batch # b
               /\ Queued(b) => Queued(b)' \/ writeChan[1].batch = b
    <3>1. ASSUME NEW i \in 1..Len(writeChan'), writeChan'[i].batch = b
          PROVE  Queued(b) /\ writeChan[1].batch # b
      <4>1. i + 1 # 1 /\ i + 1 \in 1..Len(writeChan) /\ writeChan[i + 1].batch = b
        BY <2>2, <3>1
      <4> QED
        BY <2>2, <4>1 DEF Queued, BatchInOnePlace
    <3>2. ASSUME NEW i \in 1..Len(writeChan), writeChan[i].batch = b
          PROVE  Queued(b)' \/ writeChan[1].batch = b
      BY <2>2, <3>2 DEF Queued
    <3> QED
      BY <3>1, <3>2 DEF Queued
  <2>5. \A b \in Batch : writeChan[1].batch = b => Queued(b)
    BY <2>2 DEF Queued
  <2>6. \A b \in Batch : \A i, j \in 1..Len(writeChan') :
          writeChan'[i].batch = b /\ writeChan'[j].batch = b => i = j
    <3> SUFFICES ASSUME NEW b \in Batch,
                        NEW i \in 1..Len(writeChan'), NEW j \in 1..Len(writeChan'),
                        writeChan'[i].batch = b, writeChan'[j].batch = b
                 PROVE  i = j
      OBVIOUS
    <3>1. /\ i + 1 \in 1..Len(writeChan) /\ writeChan[i + 1].batch = b
          /\ j + 1 \in 1..Len(writeChan) /\ writeChan[j + 1].batch = b
      BY <2>2
    <3>2. i + 1 = j + 1
      BY <3>1 DEF BatchInOnePlace
    <3> QED
      BY <3>2
  <2>7. BatchInOnePlace'
    BY <1>2, <2>1, <2>4, <2>5, <2>6 DEF BatchInOnePlace, Saving
  <2> QED
    BY <1>1, <1>3, <2>3, <2>7
<1>6. CASE WriterSave
  <2>1. UNCHANGED <<writeChan, writing, halted>> /\ writerAt = "save" /\ writerAt' # "save"
    BY <1>6 DEF WriterSave
  <2>2. \A b \in Batch : outcome'[b] = "none" <=> outcome[b] = "none" /\ writing.batch # b
    BY <1>4, <1>6 DEF WriterSave
  <2>3. BatchInOnePlace'
    BY <1>2, <2>1, <2>2 DEF BatchInOnePlace, Queued, Saving
  <2> QED
    BY <1>1, <1>3, <2>1, <2>3 DEF EntriesSettle, Settles
<1>7. CASE WriterAdvance \/ WriterRelease
  <2>1. UNCHANGED <<writeChan, writing, outcome>>
        /\ writerAt # "save" /\ writerAt' # "save"
        /\ (halted' = halted \/ halted' # "no")
    BY <1>7 DEF WriterAdvance, WriterRelease, ReleaseClaim
  <2> QED
    BY <1>1, <1>2, <1>3, <2>1
    DEF BatchInOnePlace, Queued, Saving, EntriesSettle, Settles
<1> QED
  BY <1>5, <1>6, <1>7 DEF Writer

LEMMA NextBatchInv == BatchInv /\ [Next]_vars => BatchInv'
<1> SUFFICES ASSUME BatchInv, [Next]_vars PROVE BatchInv'
  OBVIOUS
<1>1. CASE UNCHANGED vars
  BY <1>1, NextChainInv
  DEF BatchInv, BatchInOnePlace, Queued, Saving, MinerHoldsBatch, EntriesSettle,
      Settles, vars
<1>2. CASE Next
  BY <1>2, MinerBatchInv, WriterBatchInv, HandlerBatchInv DEF Next, Step
<1> QED
  BY <1>1, <1>2

LEMMA SpecBatchInv == Spec => []BatchInv
  BY InitBatchInv, NextBatchInv, PTL DEF Spec

\* Every batch the node has taken is at one place at a time until it is
\* settled: with the miner, in writeChan, or with the writer. No retry and no
\* refused exchange duplicates it or loses it.
THEOREM BatchStaysInOnePlace == Spec => []BatchInOnePlace
<1>1. BatchInv => BatchInOnePlace
  BY DEF BatchInv
<1> QED
  BY <1>1, SpecBatchInv, PTL

\* The step that saves a block is a step of the Ledger.
LEMMA SaveIsLedgerStep ==
  ASSUME BatchInv, WriterSave
  PROVE  L!Next
<1> USE NodeAssumption DEF BatchInv
<1>1. Settles(writing) /\ writerAt = "save"
  BY DEF WriterSave, EntriesSettle
<1>2. writing.hash # Dropped =>
        PrevOf[writing.hash] = L!TipOf(chain) /\ chain' = Append(chain, writing.hash)
  BY <1>1 DEF WriterSave, ChainInv, SaveFits, HeadIsOnDisk, TipOf, L!TipOf
<1>3. writing.batch \in Batch => outcome[writing.batch] = "none"
  BY <1>1 DEF BatchInOnePlace, Saving
<1>4. CASE writing.hash \in Foreign /\ writing.batch = NoBatch
  <2>1. L!ExtendForeign(writing.hash)
    BY <1>2, <1>4 DEF WriterSave, L!ExtendForeign, Foreign
  <2> QED
    BY <1>4, <2>1 DEF L!Next, Foreign
<1>5. CASE writing.hash \in Own /\ writing.batch = BatchOf[writing.hash]
  <2>1. BatchOf[writing.hash] \in Batch /\ writing.hash # Dropped
        /\ writing.batch # NoBatch
    BY <1>5
  <2>2. outcome' = [outcome EXCEPT ![BatchOf[writing.hash]] = "accepted"]
    BY <1>5, <2>1 DEF WriterSave
  <2>3. L!ExtendOwn(writing.hash)
    BY <1>2, <1>3, <1>5, <2>1, <2>2 DEF L!ExtendOwn
  <2> QED
    BY <1>5, <2>3 DEF L!Next
<1>6. CASE writing.hash = Dropped /\ writing.batch \in Batch
  <2>1. L!Drop(writing.batch)
    BY <1>3, <1>6 DEF WriterSave, L!Drop
  <2> QED
    BY <1>6, <2>1 DEF L!Next
<1> QED
  BY <1>1, <1>4, <1>5, <1>6 DEF Settles

\* No other step touches the files.
LEMMA OthersKeepLedger ==
  ASSUME Next, ~WriterSave
  PROVE  UNCHANGED <<chain, outcome>>
  BY DEF Next, Step, Miner, TakeBatch, ReadPrev, AttemptsLeft, MinerClaim, Counted, ExchangeAccepted,
     ExchangeRefused, SendMined, GiveUp, Writer, WriterReceive, WriterAdvance,
     WriterRelease, AcceptHandler, SignRequest, TimersWith, AcceptValidate, AcceptClaim,
     AcceptRecheck, IsClaimedBy, AcceptEnqueue, ClaimTimeout, ClaimAfter, writerVars

\* A node implements the Ledger: its files form one chain that only grows at
\* the tip, and every batch is settled at most once, accepted with its own
\* block or dropped, whatever the goroutines, the other nodes and the timers
\* do.
THEOREM NodeImplementsLedger == Spec => ImplementsLedger
<1>1. Init => L!Init
  BY DEF Init, L!Init
<1>2. BatchInv /\ [Next]_vars => [L!Next]_(L!ledgerVars)
  BY SaveIsLedgerStep, OthersKeepLedger DEF vars, L!ledgerVars
<1> QED
  BY <1>1, <1>2, SpecBatchInv, PTL DEF Spec, ImplementsLedger, L!Spec
=============================================================================
