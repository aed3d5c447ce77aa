------------------------------ MODULE Batching ------------------------------
(***************************************************************************)
(* From the /transaction handler to the miner: how a node collects its     *)
(* users' transactions into batches.                                       *)
(*                                                                         *)
(*   - the handlers put transactions on tranChan;                          *)
(*   - BuildNewTransactionsList, the builder, takes them off again and     *)
(*     hands a batch to CreateNewBlocks on transactionsWaiting, a channel  *)
(*     without a buffer, when the batch is full or when the timer says so; *)
(*   - BlockTimer counts seconds down, signals on timerChan at zero, and   *)
(*     starts again when the builder signals on resetTimerChan.            *)
(*                                                                         *)
(* Builder and timer each wait for the other on a channel of capacity one, *)
(* and both signals carry no data, so the model counts them. What the      *)
(* miner does with a batch is the subject of BlockNode.                    *)
(***************************************************************************)
EXTENDS Naturals, Sequences

CONSTANTS
  Txn,              \* transactions that pass the tests of the handler
  TranCap,          \* capacity of tranChan (100 in the code)
  MaxTransactions,  \* MAX_TRANSACTIONS
  TimeLimit         \* TIME_LIMIT in ticks of the timer

ASSUME BatchingAssumption ==
  /\ TranCap \in Nat \ {0}
  /\ MaxTransactions \in Nat \ {0}
  /\ TimeLimit \in Nat \ {0}

VARIABLES
  submitted,  \* history: transactions sent on tranChan, in this order
  tranChan,   \* transactions waiting for the builder
  list,       \* blockTransactions, the batch under construction
  held,       \* the transaction received while the batch was full, if any
  builderAt,  \* where the builder is
  minerBusy,  \* CreateNewBlocks works on a batch
  minerBatch, \* that batch
  handed,     \* history: transactions handed to the miner, in this order
  countDown,  \* countDownTimer
  timerAt,    \* where the timer is
  timerChan,  \* signals in timerChan
  resetChan   \* signals in resetTimerChan

builderVars == <<list, held, builderAt>>
minerVars   == <<minerBusy, minerBatch, handed>>
timerVars   == <<countDown, timerAt>>
vars == <<submitted, tranChan, list, held, builderAt, minerBusy, minerBatch,
          handed, countDown, timerAt, timerChan, resetChan>>

BuilderPlaces == {"select", "reset", "handOver"}

-----------------------------------------------------------------------------
\* Transaction: the handler sends a transaction on tranChan, waiting while it
\* is full, and answers.
Submit(t) ==
  /\ \A i \in 1..Len(submitted) : submitted[i] # t
  /\ Len(tranChan) < TranCap
  /\ tranChan' = Append(tranChan, t)
  /\ submitted' = Append(submitted, t)
  /\ UNCHANGED <<builderVars, minerVars, timerVars, timerChan, resetChan>>

-----------------------------------------------------------------------------
(* BuildNewTransactionsList *)

HasRoom == Len(list) < MaxTransactions

\* The builder receives a transaction. While the batch has room it goes into
\* the batch; otherwise it waits until the batch has been handed over.
Receive ==
  /\ builderAt = "select"
  /\ tranChan # <<>>
  /\ tranChan' = Tail(tranChan)
  /\ IF HasRoom
       THEN /\ list' = Append(list, Head(tranChan))
            /\ UNCHANGED <<held, builderAt>>
       ELSE /\ held' = <<Head(tranChan)>>
            /\ builderAt' = "reset"
            /\ UNCHANGED list
  /\ UNCHANGED <<submitted, minerVars, timerVars, timerChan, resetChan>>

\* A full batch resets the timer before it is handed over.
SendReset ==
  /\ builderAt = "reset"
  /\ resetChan = 0
  /\ resetChan' = 1
  /\ builderAt' = "handOver"
  /\ UNCHANGED <<submitted, tranChan, list, held, minerVars, timerVars, timerChan>>

\* Faulty variant: the signal of the timer is dropped.
PlaceAfterNoSignal == "select"

\* Faulty variant: the batch is handed over whatever is in it.
PlaceAfterAnySignal == "handOver"

PlaceAfterSignal == IF list = <<>> THEN "select" ELSE "handOver"

\* The builder receives the signal of the timer; an empty batch is not handed
\* over.
ReceiveTimer ==
  /\ builderAt = "select"
  /\ timerChan = 1
  /\ timerChan' = 0
  /\ builderAt' = PlaceAfterSignal
  /\ UNCHANGED <<submitted, tranChan, list, held, minerVars, timerVars, resetChan>>

\* Faulty variant: the transaction that found the batch full is forgotten.
NextListEmpty == <<>>

NextList == held

\* The builder and the miner meet on transactionsWaiting. The next batch
\* begins with the transaction that found this one full.
HandOver ==
  /\ builderAt = "handOver"
  /\ ~minerBusy
  /\ minerBusy' = TRUE
  /\ minerBatch' = list
  /\ handed' = handed \o list
  /\ list' = NextList
  /\ held' = <<>>
  /\ builderAt' = "select"
  /\ UNCHANGED <<submitted, tranChan, timerVars, timerChan, resetChan>>

\* CreateNewBlocks is done with its batch: it wrote it or dropped it.
MinerDone ==
  /\ minerBusy
  /\ minerBusy' = FALSE
  /\ minerBatch' = <<>>
  /\ UNCHANGED <<submitted, tranChan, builderVars, handed, timerVars, timerChan, resetChan>>

-----------------------------------------------------------------------------
(* BlockTimer *)

\* Faulty variant: the timer signals one second late.
TimeIsOver == countDown = 0

TimeIsUp == countDown = 1

\* A second passes.
Tick ==
  /\ timerAt = "select"
  /\ IF TimeIsUp
       THEN countDown' = TimeLimit /\ timerAt' = "signal"
       ELSE countDown' = countDown - 1 /\ UNCHANGED timerAt
  /\ UNCHANGED <<submitted, tranChan, builderVars, minerVars, timerChan, resetChan>>

\* The send on timerChan, which blocks while the last signal is not received.
SendSignal ==
  /\ timerAt = "signal"
  /\ timerChan = 0
  /\ timerChan' = 1
  /\ timerAt' = "select"
  /\ UNCHANGED <<submitted, tranChan, builderVars, minerVars, countDown, resetChan>>

\* The timer receives a reset.
Reset ==
  /\ timerAt = "select"
  /\ resetChan = 1
  /\ resetChan' = 0
  /\ countDown' = TimeLimit
  /\ UNCHANGED <<submitted, tranChan, builderVars, minerVars, timerAt, timerChan>>

-----------------------------------------------------------------------------
Init ==
  /\ submitted = <<>>
  /\ tranChan = <<>>
  /\ list = <<>>
  /\ held = <<>>
  /\ builderAt = "select"
  /\ minerBusy = FALSE
  /\ minerBatch = <<>>
  /\ handed = <<>>
  /\ countDown = TimeLimit
  /\ timerAt = "select"
  /\ timerChan = 0
  /\ resetChan = 0

\* Everything but the passing of time.
Step ==
  \/ \E t \in Txn : Submit(t)
  \/ Receive \/ SendReset \/ ReceiveTimer \/ HandOver
  \/ MinerDone
  \/ SendSignal \/ Reset

Next == Step \/ Tick

Spec == Init /\ [][Next]_vars

\* Goroutines that can run do run, the miner settles every batch (BatchIsSettled
\* of BlockNode), time passes, and select, which chooses at random among the
\* channels that are ready, does not pass over one of them for ever. Users
\* need not submit anything.
Fairness ==
  /\ SF_vars(Receive)
  /\ SF_vars(ReceiveTimer)
  /\ WF_vars(SendReset)
  /\ WF_vars(HandOver)
  /\ WF_vars(MinerDone)
  /\ WF_vars(SendSignal)
  /\ SF_vars(Reset)

LiveSpec == Spec /\ Fairness /\ WF_vars(Tick)

-----------------------------------------------------------------------------
(* Properties *)

TypeOK ==
  /\ submitted \in Seq(Txn)
  /\ tranChan \in Seq(Txn)
  /\ Len(tranChan) <= TranCap
  /\ list \in Seq(Txn)
  /\ held \in Seq(Txn)
  /\ builderAt \in BuilderPlaces
  /\ minerBusy \in BOOLEAN
  /\ minerBatch \in Seq(Txn)
  /\ handed \in Seq(Txn)
  /\ countDown \in 1..TimeLimit
  /\ timerAt \in {"select", "signal"}
  /\ timerChan \in {0, 1}
  /\ resetChan \in {0, 1}

\* First come, first served: the transactions the handlers have sent, and will
\* answer with success, are in this order those handed to the miner, those in
\* the batch under construction and those in the channel. None is lost, doubled
\* or overtaken between the handler and the miner.
FirstComeFirstServed == submitted = handed \o list \o held \o tranChan

\* No batch is empty or larger than MAX_TRANSACTIONS, whichever of the two
\* reasons had it handed over.
BatchWithinMax == minerBusy => Len(minerBatch) \in 1..MaxTransactions

\* Channels, batch under construction and timer together are one queue, from
\* whose head the miner, when it waits, takes a batch that is neither empty nor
\* over the limit, whether it was full or the timer had it handed over.
Queue == INSTANCE BatchQueue WITH
  promised <- list \o held \o tranChan,
  batch    <- minerBatch,
  busy     <- minerBusy
IsBatchQueue == Queue!Spec

\* "Valid transactions should not get lost": each one is handed to the miner.
Handed(t) == \E i \in 1..Len(handed) : handed[i] = t
Answered(t) == \E i \in 1..Len(submitted) : submitted[i] = t
EveryTransactionIsHanded == \A t \in Txn : Answered(t) ~> Handed(t)

\* It is so as long as the builder has received the last signal of the timer
\* before the next one is due: no batch keeps the miner, and no run of choices
\* of select the builder, for as long as TIME_LIMIT.
Late == timerAt = "signal" /\ timerChan = 1
HandedUnlessLate == []~Late => EveryTransactionIsHanded
=============================================================================
