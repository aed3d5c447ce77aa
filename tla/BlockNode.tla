----------------------------- MODULE BlockNode -----------------------------
(***************************************************************************)
(* One node of the network: the goroutines of a process and the claim on  *)
(* the previous block hash they share.                                    *)
(*                                                                         *)
(*   - CreateNewBlocks, the miner, takes a batch of transactions, mines a  *)
(*     block on the previous hash, claims that hash, shows the block to    *)
(*     the other nodes and hands it to the writer, or retries;             *)
(*   - the /block-sign handler claims the hash for another node's block    *)
(*     and starts a goroutine that releases the claim 120 seconds later;   *)
(*   - the /block handler checks the claim and hands the block to the      *)
(*     writer;                                                             *)
(*   - WriteBlocks, the writer, saves blocks in files, moves the previous  *)
(*     hash forward and releases the claim.                                *)
(*                                                                         *)
(* A block is named by its proof-of-work hash. The code keeps a claim as   *)
(* the pair (claimedBy, blockIDHash) and compares both; a hash determines  *)
(* its block's origin, so the hash alone stands for the pair, and NoHash   *)
(* for the unclaimed pair ("", ""). Every block that reaches a handler is  *)
(* one whose signatures and proof of work verify: a block that does not    *)
(* verify is answered with an error and changes nothing.                   *)
(***************************************************************************)
EXTENDS Naturals, Sequences

CONSTANTS
  Hash,        \* proof-of-work hashes; a hash names a block
  NoHash,      \* the empty hash
  PrevOf,      \* PrevOf[h]: the previous block hash in the header of block h
  Own,         \* the blocks this node can mine
  Batch,       \* the batches BuildNewTransactionsList hands to the miner
  NoBatch,     \* the miner holds no batch
  BatchOf,     \* BatchOf[h]: the batch in block h, for h in Own
  Dropped,     \* dto.StatusDropped, the "hash" of a dropped block
  MaxRetries,  \* attempts to get a block accepted (10 in the code)
  WriteCap     \* capacity of writeChan (1 in the code)

Foreign == Hash \ Own

ASSUME NodeAssumption ==
  /\ NoHash \notin Hash
  /\ Dropped \notin Hash
  /\ NoBatch \notin Batch
  /\ Own \subseteq Hash
  /\ PrevOf \in [Hash -> Hash \cup {NoHash}]
  /\ BatchOf \in [Own -> Batch]
  /\ MaxRetries \in Nat \ {0}
  /\ WriteCap \in Nat \ {0}

VARIABLES
  \* PreviousBlockHashRunner, under its mutex
  prevHash,    \* prevHashString
  claim,       \* claimed, claimedBy and blockIDHash in one
  timers,      \* blocks whose 120 second release goroutine still sleeps
  \* CreateNewBlocks
  waiting,     \* batches not handed over yet
  minerAt,     \* where the miner is
  batch,       \* blockTransactions
  retry,       \* retry
  prevRead,    \* the previous hash the header was built with
  mined,       \* the block of this attempt
  \* the /block handlers
  handler,     \* handler[h]: how far the handler of block h has got
  \* writeChan and WriteBlocks
  writeChan,   \* blocks accepted or dropped, waiting for the writer
  writerAt,    \* where the writer is
  writing,     \* the block the writer holds
  chain,       \* accepted blocks saved in files, in order
  outcome,     \* outcome[b]: how the files record batch b
  \* the process
  halted       \* "no", or the assertion whose failure ended the process

runnerVars  == <<prevHash, claim, timers>>
minerVars   == <<waiting, minerAt, batch, retry, prevRead, mined>>
writerVars  == <<writerAt, writing, chain, outcome>>
vars == <<prevHash, claim, timers, waiting, minerAt, batch, retry, prevRead,
          mined, handler, writeChan, writerAt, writing, chain, outcome,
          halted>>

MinerPlaces   == {"idle", "retry", "mining", "exchange", "send"}
WriterPlaces  == {"idle", "save", "advance", "release"}
HandlerPlaces == {"none", "validated", "contested", "claimed", "answered"}

\* An element of writeChan: a block on its way to a file, with the batch of
\* this node it settles (NoBatch for a block of another node).
Entry == [hash : Hash \cup {Dropped}, batch : Batch \cup {NoBatch}]

NoEntry == [hash |-> Dropped, batch |-> NoBatch]

AcceptedEntry(h) ==
  [hash |-> h, batch |-> IF h \in Own THEN BatchOf[h] ELSE NoBatch]

DroppedEntry(b) == [hash |-> Dropped, batch |-> b]

\* WriteBlocks keeps its own copy of the last accepted hash.
TipOf(c) == IF c = <<>> THEN NoHash ELSE c[Len(c)]

-----------------------------------------------------------------------------
(* PreviousBlockHashRunner *)

\* Faulty variant: the test of r.claimed is missing.
CanClaimTwice(h) == PrevOf[h] = prevHash

\* SetPrevBlockHashAsClaimed succeeds: nobody holds the claim and block h is
\* built on the current previous hash.
CanClaim(h) ==
  /\ claim = NoHash
  /\ PrevOf[h] = prevHash

\* setPrevBlockHashAsUnclaimed: releases the claim of block h, and ends the
\* process (log.Fatalln) when another block, or none, holds it.
ReleaseClaim(h) ==
  IF claim = h
    THEN claim' = NoHash /\ UNCHANGED halted
    ELSE halted' = "unclaim" /\ UNCHANGED claim

\* Faulty variant: whatever claim is found is released.
ClaimAfterAny(h) == NoHash

ClaimAfter(h) == IF claim = h THEN NoHash ELSE claim

\* The goroutine of SetPrevBlockHashAsClaimedFromSignRequest wakes up. It
\* releases the claim only if block h still holds it.
ClaimTimeout(h) ==
  /\ halted = "no"
  /\ h \in timers
  /\ timers' = timers \ {h}
  /\ claim' = ClaimAfter(h)
  /\ UNCHANGED <<prevHash, minerVars, handler, writeChan, writerVars, halted>>

-----------------------------------------------------------------------------
(* The /block-sign handler *)

\* Faulty variant: no goroutine releases the claim.
TimersForever(h) == timers

TimersWith(h) == timers \cup {h}

\* VerifyAndSign: claims the previous hash for block h and starts the release
\* goroutine. The earlier look at the previous hash in validateSignRequest is
\* part of this step, since SetPrevBlockHashAsClaimed tests it again under the
\* lock; a request that fails a test changes nothing.
SignRequest(h) ==
  /\ halted = "no"
  /\ CanClaim(h)
  /\ claim' = h
  /\ timers' = TimersWith(h)
  /\ UNCHANGED <<prevHash, minerVars, handler, writeChan, writerVars, halted>>

-----------------------------------------------------------------------------
(* The /block handler, VerifyAndAppend. Each other node posts a block once. *)

\* validateAcceptRequest finds the current previous hash in the header. A
\* block built on another hash is refused and leaves no trace.
AcceptValidate(h) ==
  /\ halted = "no"
  /\ handler[h] = "none"
  /\ PrevOf[h] = prevHash
  /\ handler' = [handler EXCEPT ![h] = "validated"]
  /\ UNCHANGED <<runnerVars, minerVars, writeChan, writerVars, halted>>

\* SetPrevBlockHashAsClaimed, which fails when the claim was taken already,
\* in the usual case by the signing of the same block.
AcceptClaim(h) ==
  /\ halted = "no"
  /\ handler[h] = "validated"
  /\ IF CanClaim(h)
       THEN /\ claim' = h
            /\ handler' = [handler EXCEPT ![h] = "claimed"]
       ELSE /\ handler' = [handler EXCEPT ![h] = "contested"]
            /\ UNCHANGED claim
  /\ UNCHANGED <<prevHash, timers, minerVars, writeChan, writerVars, halted>>

\* Faulty variant: any claim is taken for this block's own.
IsClaimed(h) == claim # NoHash

IsClaimedBy(h) == claim = h

\* After a failed claim the handler reads the claim again, in a second
\* critical section, and goes on only if the claim is this block's own.
AcceptRecheck(h) ==
  /\ halted = "no"
  /\ handler[h] = "contested"
  /\ handler' = [handler EXCEPT ![h] = IF IsClaimedBy(h) THEN "claimed" ELSE "none"]
  /\ UNCHANGED <<runnerVars, minerVars, writeChan, writerVars, halted>>

\* Faulty variant: the previous hash moves before the block is on disk.
AcceptEnqueueEarly(h) ==
  /\ halted = "no"
  /\ handler[h] = "claimed"
  /\ Len(writeChan) < WriteCap
  /\ writeChan' = Append(writeChan, AcceptedEntry(h))
  /\ handler' = [handler EXCEPT ![h] = "answered"]
  /\ prevHash' = h
  /\ UNCHANGED <<claim, timers, minerVars, writerVars, halted>>

\* The send on writeChan, which blocks while the channel is full; then the
\* handler returns and the other node sees status 200.
AcceptEnqueue(h) ==
  /\ halted = "no"
  /\ handler[h] = "claimed"
  /\ Len(writeChan) < WriteCap
  /\ writeChan' = Append(writeChan, AcceptedEntry(h))
  /\ handler' = [handler EXCEPT ![h] = "answered"]
  /\ UNCHANGED <<runnerVars, minerVars, writerVars, halted>>

-----------------------------------------------------------------------------
(* CreateNewBlocks *)

\* BuildNewTransactionsList hands over a batch on transactionsWaiting.
TakeBatch(b) ==
  /\ halted = "no"
  /\ minerAt = "idle"
  /\ b \in waiting
  /\ waiting' = waiting \ {b}
  /\ batch' = b
  /\ retry' = 0
  /\ minerAt' = "retry"
  /\ UNCHANGED <<runnerVars, prevRead, mined, handler, writeChan, writerVars,
                 halted>>

\* Faulty variant: the loop makes one attempt more.
AttemptsAndOne == retry <= MaxRetries

AttemptsLeft == retry < MaxRetries

\* The head of the retry loop reads the previous hash for the new header.
ReadPrev ==
  /\ halted = "no"
  /\ minerAt = "retry"
  /\ AttemptsLeft
  /\ prevRead' = prevHash
  /\ minerAt' = "mining"
  /\ UNCHANGED <<runnerVars, waiting, batch, retry, mined, handler, writeChan,
                 writerVars, halted>>

\* Faulty variant: a failed claim is not counted as an attempt.
NotCounted == retry

Counted == retry + 1

\* getProofOfWork has found a block for the batch on the hash read before;
\* only now, however long that took, is the claim tried.
MinerClaim(h) ==
  /\ halted = "no"
  /\ minerAt = "mining"
  /\ BatchOf[h] = batch
  /\ PrevOf[h] = prevRead
  /\ mined' = h
  /\ IF CanClaim(h)
       THEN claim' = h /\ minerAt' = "exchange" /\ UNCHANGED retry
       ELSE retry' = Counted /\ minerAt' = "retry" /\ UNCHANGED claim
  /\ UNCHANGED <<prevHash, timers, waiting, batch, prevRead, handler,
                 writeChan, writerVars, halted>>

\* getSignaturesAndDistrubute returns nil.
ExchangeAccepted ==
  /\ halted = "no"
  /\ minerAt = "exchange"
  /\ minerAt' = "send"
  /\ UNCHANGED <<runnerVars, waiting, batch, retry, prevRead, mined, handler,
                 writeChan, writerVars, halted>>

\* getSignaturesAndDistrubute returns an error: release the claim and retry.
ExchangeRefused ==
  /\ halted = "no"
  /\ minerAt = "exchange"
  /\ ReleaseClaim(mined)
  /\ retry' = retry + 1
  /\ minerAt' = "retry"
  /\ UNCHANGED <<prevHash, timers, waiting, batch, prevRead, mined, handler,
                 writeChan, writerVars>>

\* Faulty variant: the retry loop goes on.
MinerRetries ==
  /\ minerAt' = "retry"
  /\ retry' = retry + 1
  /\ UNCHANGED <<waiting, batch, prevRead, mined>>

\* The miner's turn for this batch ends.
MinerIdle ==
  /\ minerAt' = "idle"
  /\ batch' = NoBatch
  /\ UNCHANGED <<waiting, retry, prevRead, mined>>

\* The send of the accepted block on writeChan. The miner goes on to its next
\* batch without waiting for the writer; the claim stays with the block.
SendMined ==
  /\ halted = "no"
  /\ minerAt = "send"
  /\ Len(writeChan) < WriteCap
  /\ writeChan' = Append(writeChan, AcceptedEntry(mined))
  /\ MinerIdle
  /\ UNCHANGED <<runnerVars, handler, writerVars, halted>>

\* All attempts failed: writeDroppedBlock marks the batch dropped and sends it.
GiveUp ==
  /\ halted = "no"
  /\ minerAt = "retry"
  /\ retry = MaxRetries
  /\ Len(writeChan) < WriteCap
  /\ writeChan' = Append(writeChan, DroppedEntry(batch))
  /\ MinerIdle
  /\ UNCHANGED <<runnerVars, handler, writerVars, halted>>

-----------------------------------------------------------------------------
(* WriteBlocks *)

\* Faulty variant: the guard for the first block is the wrong way round.
MisplacedFirst(h) ==
  \/ prevHash = NoHash /\ PrevOf[h] # prevHash
  \/ TipOf(chain) = NoHash /\ PrevOf[h] # TipOf(chain)

\* The header is not built on the last written block, by the runner's account
\* or by the writer's own; the first block is not tested.
Misplaced(h) ==
  \/ prevHash # NoHash /\ PrevOf[h] # prevHash
  \/ TipOf(chain) # NoHash /\ PrevOf[h] # TipOf(chain)

\* Receives the next block and tests its place, with a panic if it is wrong.
WriterReceive ==
  /\ halted = "no"
  /\ writerAt = "idle"
  /\ writeChan # <<>>
  /\ writeChan' = Tail(writeChan)
  /\ writing' = Head(writeChan)
  /\ IF Head(writeChan).hash \in Hash /\ Misplaced(Head(writeChan).hash)
       THEN halted' = "misplaced" /\ UNCHANGED writerAt
       ELSE writerAt' = "save" /\ UNCHANGED halted
  /\ UNCHANGED <<runnerVars, minerVars, handler, chain, outcome>>

\* Indexes the transactions and writes the file.
WriterSave ==
  /\ halted = "no"
  /\ writerAt = "save"
  /\ IF writing.hash = Dropped
       THEN writerAt' = "idle" /\ UNCHANGED chain
       ELSE writerAt' = "advance" /\ chain' = Append(chain, writing.hash)
  /\ outcome' = IF writing.batch = NoBatch THEN outcome
                ELSE [outcome EXCEPT ![writing.batch] =
                        IF writing.hash = Dropped THEN "dropped" ELSE "accepted"]
  /\ UNCHANGED <<runnerVars, minerVars, handler, writeChan, writing, halted>>

\* setPrevBlockHash: the written block is what the next one must build on.
WriterAdvance ==
  /\ halted = "no"
  /\ writerAt = "advance"
  /\ prevHash' = writing.hash
  /\ writerAt' = "release"
  /\ UNCHANGED <<claim, timers, minerVars, handler, writeChan, writing, chain,
                 outcome, halted>>

\* setPrevBlockHashAsUnclaimed for the written block, in a critical section
\* of its own.
WriterRelease ==
  /\ halted = "no"
  /\ writerAt = "release"
  /\ ReleaseClaim(writing.hash)
  /\ writerAt' = "idle"
  /\ UNCHANGED <<prevHash, timers, minerVars, handler, writeChan, writing,
                 chain, outcome>>

-----------------------------------------------------------------------------
Init ==
  /\ prevHash = NoHash
  /\ claim = NoHash
  /\ timers = {}
  /\ waiting = Batch
  /\ minerAt = "idle"
  /\ batch = NoBatch
  /\ retry = 0
  /\ prevRead = NoHash
  /\ mined = NoHash
  /\ handler = [h \in Foreign |-> "none"]
  /\ writeChan = <<>>
  /\ writerAt = "idle"
  /\ writing = NoEntry
  /\ chain = <<>>
  /\ outcome = [b \in Batch |-> "none"]
  /\ halted = "no"

Miner ==
  \/ \E b \in Batch : TakeBatch(b)
  \/ ReadPrev
  \/ \E h \in Own : MinerClaim(h)
  \/ ExchangeAccepted
  \/ ExchangeRefused
  \/ SendMined
  \/ GiveUp

AcceptHandler(h) ==
  \/ AcceptClaim(h)
  \/ AcceptRecheck(h)
  \/ AcceptEnqueue(h)

Writer == WriterReceive \/ WriterSave \/ WriterAdvance \/ WriterRelease

\* Everything but the passing of the 120 seconds.
Step ==
  \/ Miner
  \/ Writer
  \/ \E h \in Foreign : SignRequest(h) \/ AcceptValidate(h) \/ AcceptHandler(h)

Next == Step \/ \E h \in Foreign : ClaimTimeout(h)

Spec == Init /\ [][Next]_vars

\* Blocks accepted by the claim check and not released by the writer yet.
InFlight(h) ==
  \/ h \in Foreign /\ handler[h] = "claimed"
  \/ minerAt = "send" /\ mined = h
  \/ \E i \in 1..Len(writeChan) : writeChan[i].hash = h
  \/ writerAt # "idle" /\ writing.hash = h

\* The 120 seconds do not run out on a block that has passed the claim check:
\* from there to the release the node only waits for its own writer.
TimelyNext ==
  \/ Step
  \/ \E h \in Foreign : ~InFlight(h) /\ ClaimTimeout(h)

TimelySpec == Init /\ [][TimelyNext]_vars

\* Goroutines that can run do run, and calls to other nodes come back: the
\* HTTP client has no timeout, but a peer answers or its connection breaks.
\* Requests and batches need not arrive.
Fairness ==
  /\ WF_vars(ReadPrev)
  /\ WF_vars(\E h \in Own : MinerClaim(h))
  /\ WF_vars(ExchangeAccepted \/ ExchangeRefused)
  /\ WF_vars(SendMined)
  /\ WF_vars(GiveUp)
  /\ WF_vars(Writer)
  /\ \A h \in Foreign : WF_vars(AcceptHandler(h))
  /\ \A h \in Foreign : WF_vars(~InFlight(h) /\ ClaimTimeout(h))

LiveSpec == TimelySpec /\ Fairness

-----------------------------------------------------------------------------
(* Properties *)

TypeOK ==
  /\ prevHash \in Hash \cup {NoHash}
  /\ claim \in Hash \cup {NoHash}
  /\ timers \subseteq Foreign
  /\ waiting \subseteq Batch
  /\ minerAt \in MinerPlaces
  /\ batch \in Batch \cup {NoBatch}
  /\ retry \in 0..MaxRetries
  /\ prevRead \in Hash \cup {NoHash}
  /\ mined \in Own \cup {NoHash}
  /\ handler \in [Foreign -> HandlerPlaces]
  /\ writeChan \in Seq(Entry)
  /\ Len(writeChan) <= WriteCap
  /\ writerAt \in WriterPlaces
  /\ writing \in Entry
  /\ chain \in Seq(Hash)
  /\ outcome \in [Batch -> {"none", "accepted", "dropped"}]
  /\ halted \in {"no", "unclaim", "misplaced"}

\* Every written block names the block written before it as its previous
\* block, the first one the empty hash, whatever order signing, timeouts and
\* acceptance interleave in (WriteBlocks and SetPrevBlockHashAsClaimed).
LinkedChain ==
  \A i \in 1..Len(chain) :
    PrevOf[chain[i]] = IF i = 1 THEN NoHash ELSE chain[i - 1]

\* While the miner waits for the other nodes its own block holds the claim:
\* no timeout, handler or writer takes it away, so the Fatalln in the retry
\* branch of CreateNewBlocks is never reached.
MinerHoldsClaim == minerAt \in {"exchange", "send"} => claim = mined

\* And every claim has someone who will give it up: the goroutine of 120
\* seconds, the miner in its exchange, or whoever brings the block to the
\* writer. A claim nobody releases would have the node refuse every block, its
\* own included, for as long as the process runs.
ClaimHasOwner ==
  /\ MinerHoldsClaim
  /\ halted = "no" /\ claim # NoHash =>
       \/ claim \in timers
       \/ minerAt = "exchange" /\ mined = claim
       \/ InFlight(claim)

\* A batch is on its way to a file: in writeChan or with the writer.
Queued(b) == \E i \in 1..Len(writeChan) : writeChan[i].batch = b
Saving(b) == writerAt = "save" /\ writing.batch = b

\* A batch is at exactly one place: not handed over, with the miner, in
\* writeChan, with the writer, or settled in a file. At two places it would be
\* recorded twice, accepted and dropped; at none it would be lost. (A crash
\* loses what is in memory: nothing of it is on disk.)
BatchInOnePlace ==
  \A b \in Batch :
    /\ b \in waiting => batch # b
    /\ b \in waiting \/ batch = b => ~Queued(b) /\ ~Saving(b)
    /\ b \in waiting \/ batch = b \/ Queued(b) \/ Saving(b) => outcome[b] = "none"
    /\ Saving(b) => ~Queued(b)
    /\ \A i, j \in 1..Len(writeChan) :
         writeChan[i].batch = b /\ writeChan[j].batch = b => i = j
    /\ halted = "no" =>
         \/ b \in waiting \/ batch = b \/ Queued(b) \/ Saving(b)
         \/ outcome[b] # "none"

\* The runner's previous hash is the last block on disk, but for the moment
\* between the write of the file and setPrevBlockHash. A handler that reads it
\* then sees the block before; it never sees a block that is not on disk.
HeadIsOnDisk ==
  IF writerAt = "advance"
    THEN TipOf(chain) = writing.hash /\ prevHash = PrevOf[writing.hash]
    ELSE prevHash = TipOf(chain)

\* The previous hash only moves from a block to one built on it: a node never
\* turns to another branch or back.
PrevHashAdvances == [][prevHash' # prevHash => PrevOf[prevHash'] = prevHash]_vars

\* The block files behave as the Ledger promises.
L == INSTANCE Ledger WITH chain <- chain, outcome <- outcome
ImplementsLedger == L!Spec

\* With timers that do not run out on an accepted block, no assertion of the
\* code fails: neither the Fatalln of setPrevBlockHashAsUnclaimed nor the
\* panic of WriteBlocks.
NeverHalts == halted = "no"

\* The Fatalln of setPrevBlockHashAsUnclaimed is never reached, as its text
\* demands: "don't call setPrevBlockHashAsUnclaimed() with a block that didn't
\* make the claim".
NoUnclaimFatal == halted # "unclaim"

\* Blocks for which the node has said yes: to itself after the exchange, or to
\* another node with status 200.
Accepted(h) ==
  \/ h \in Foreign /\ handler[h] \in {"claimed", "answered"}
  \/ h \in Own /\ (InFlight(h) \/ \E i \in 1..Len(chain) : chain[i] = h)

\* A node never says yes to two blocks on the same previous hash, although
\* the claim is tested in one critical section and used after it.
OneAcceptedPerParent ==
  LET Yes == {h \in Hash : Accepted(h)} IN
  \A g, h \in Yes : PrevOf[g] = PrevOf[h] => g = h

\* The node keeps what it promises the others about its previous hash: all
\* that its goroutines do, one critical section at a time, comes to claiming
\* the hash for one block, saying yes to that block, writing it and releasing
\* the claim, with no claim released and no other block accepted in between.
ToSave ==
  {writeChan[i].hash : i \in 1..Len(writeChan)} \cup
    (IF writerAt = "save" THEN {writing.hash} ELSE {})
Promise == INSTANCE NodePromise WITH
  Block    <- Hash,
  NoBlock  <- NoHash,
  parent   <- PrevOf,
  accepted <- ToSave \ {Dropped},
  written  <- IF writerAt \in {"advance", "release"} THEN writing.hash ELSE NoHash
KeepsPromise == Promise!Spec

\* Every claim is given up again: by the writer, by the retrying miner or by
\* the 120 second goroutine.
ClaimIsReleased == claim # NoHash ~> claim = NoHash

\* A batch the miner has taken is settled in a file, however often its blocks
\* are refused.
BatchIsSettled == \A b \in Batch : batch = b ~> outcome[b] # "none"
=============================================================================
