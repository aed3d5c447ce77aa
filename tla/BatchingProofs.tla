--------------------------- MODULE BatchingProofs ---------------------------
(***************************************************************************)
(* Theorems about Batching, for any transactions, capacity, batch size and *)
(* time limit.                                                             *)
(*                                                                         *)
(* Order and completeness are one equation between sequences, which holds  *)
(* because the builder holds a transaction back only while it is on its    *)
(* way to hand a full batch over (HeldOnlyFull). Batches are non-empty     *)
(* because the builder looks at its list before it goes to hand it over.   *)
(***************************************************************************)
EXTENDS Batching, SequenceTheorems, TLAPS

\* While the builder waits for its channels it holds nothing back; on the way
\* to the miner the batch is not empty.
HeldOnlyFull ==
  /\ builderAt = "select" => held = <<>>
  /\ builderAt # "select" => list # <<>>
  /\ Len(held) <= 1

ListInv ==
  /\ TypeOK
  /\ HeldOnlyFull
  /\ Len(list) <= MaxTransactions
  /\ BatchWithinMax

\* A transaction moves from the head of one sequence to the end of another
\* without changing the two put together.
LEMMA FirstMoves ==
  ASSUME NEW p \in Seq(Txn), NEW s \in Seq(Txn), s # <<>>
  PROVE  p \o s = Append(p, Head(s)) \o Tail(s)
  OBVIOUS

\* The same for one more element at the end.
LEMMA AppendToLast ==
  ASSUME NEW p \in Seq(Txn), NEW s \in Seq(Txn), NEW e \in Txn
  PROVE  Append(p \o s, e) = p \o Append(s, e)
  OBVIOUS

LEMMA InitListInv == Init => ListInv
<1> SUFFICES ASSUME Init PROVE ListInv
  OBVIOUS
<1>1. TypeOK
  <2>1. /\ <<>> \in Seq(Txn) /\ Len(<<>>) <= TranCap
        /\ TimeLimit \in 1..TimeLimit
    BY BatchingAssumption
  <2> QED
    BY <2>1 DEF Init, TypeOK, BuilderPlaces
<1>2. HeldOnlyFull /\ Len(list) <= MaxTransactions
  BY BatchingAssumption DEF Init, HeldOnlyFull
<1>3. BatchWithinMax
  BY DEF Init, BatchWithinMax
<1> QED
  BY <1>1, <1>2, <1>3 DEF ListInv

LEMMA NextListInv == ListInv /\ [Next]_vars => ListInv'
<1> SUFFICES ASSUME ListInv, [Next]_vars PROVE ListInv'
  OBVIOUS
<1> USE BatchingAssumption DEF ListInv, BuilderPlaces
<1>1. CASE UNCHANGED vars
  BY <1>1 DEF TypeOK, HeldOnlyFull, BatchWithinMax, vars
<1>2. CASE \E t \in Txn : Submit(t)
  BY <1>2
  DEF Submit, TypeOK, HeldOnlyFull, BatchWithinMax, builderVars, minerVars, timerVars
<1>3. CASE Receive
  <2>1. /\ Head(tranChan) \in Txn /\ Tail(tranChan) \in Seq(Txn)
        /\ Len(Tail(tranChan)) <= TranCap /\ list \in Seq(Txn)
    BY <1>3 DEF Receive, HasRoom, TypeOK
  <2>2. CASE Len(list) < MaxTransactions
    <3>1. /\ Append(list, Head(tranChan)) \in Seq(Txn)
          /\ Append(list, Head(tranChan)) # <<>>
          /\ Len(Append(list, Head(tranChan))) <= MaxTransactions
      BY <2>1, <2>2
    <3>2. TypeOK'
      BY <1>3, <2>1, <2>2, <3>1 DEF Receive, HasRoom, TypeOK, minerVars, timerVars
    <3>3. HeldOnlyFull' /\ (Len(list) <= MaxTransactions)'
      BY <1>3, <2>2, <3>1 DEF Receive, HasRoom, HeldOnlyFull
    <3>4. BatchWithinMax'
      BY <1>3 DEF Receive, HasRoom, BatchWithinMax, minerVars
    <3> QED
      BY <3>2, <3>3, <3>4
  <2>3. CASE Len(list) >= MaxTransactions
    <3>1. /\ <<Head(tranChan)>> \in Seq(Txn) /\ Len(<<Head(tranChan)>>) = 1
          /\ list # <<>> /\ ~(Len(list) < MaxTransactions)
      BY <2>1, <2>3
    <3>2. TypeOK'
      BY <1>3, <2>1, <3>1 DEF Receive, HasRoom, TypeOK, minerVars, timerVars
    <3>3. list' = list /\ held' = <<Head(tranChan)>> /\ builderAt' = "reset"
      BY <1>3, <3>1 DEF Receive, HasRoom
    <3>5. HeldOnlyFull' /\ (Len(list) <= MaxTransactions)'
      BY <3>1, <3>3 DEF HeldOnlyFull
    <3>4. BatchWithinMax'
      BY <1>3 DEF Receive, HasRoom, BatchWithinMax, minerVars
    <3> QED
      BY <3>2, <3>4, <3>5
  <2> QED
    BY <2>2, <2>3 DEF TypeOK
<1>4. CASE SendReset
  BY <1>4 DEF SendReset, TypeOK, HeldOnlyFull, BatchWithinMax, minerVars, timerVars
<1>5. CASE ReceiveTimer
  BY <1>5 DEF ReceiveTimer, PlaceAfterSignal, TypeOK, HeldOnlyFull, BatchWithinMax, minerVars, timerVars
<1>6. CASE HandOver
  <2>1. handed \o list \in Seq(Txn)
    BY DEF TypeOK
  <2>2. Len(list) \in 1..MaxTransactions
    BY <1>6 DEF HandOver, NextList, TypeOK, HeldOnlyFull
  <2> QED
    BY <1>6, <2>1, <2>2
    DEF HandOver, NextList, TypeOK, HeldOnlyFull, BatchWithinMax, timerVars
<1>7. CASE MinerDone
  <2>1. minerBusy' = FALSE /\ minerBatch' = <<>> /\ <<>> \in Seq(Txn)
    BY <1>7 DEF MinerDone
  <2>2. TypeOK'
    BY <1>7, <2>1 DEF MinerDone, TypeOK, builderVars, timerVars
  <2>3. HeldOnlyFull' /\ (Len(list) <= MaxTransactions)'
    BY <1>7 DEF MinerDone, HeldOnlyFull, builderVars
  <2>4. BatchWithinMax'
    BY <1>7 DEF MinerDone, BatchWithinMax
  <2> QED
    BY <2>2, <2>3, <2>4
<1>8. CASE SendSignal \/ Reset
  BY SMTT(30), <1>8
  DEF SendSignal, Reset, TypeOK, HeldOnlyFull, BatchWithinMax, builderVars, minerVars
<1>9. CASE Tick
  BY <1>9 DEF Tick, TimeIsUp, TypeOK, HeldOnlyFull, BatchWithinMax, builderVars, minerVars
<1> QED
  BY <1>1, <1>2, <1>3, <1>4, <1>5, <1>6, <1>7, <1>8, <1>9 DEF Next, Step

LEMMA SpecListInv == Spec => []ListInv
  BY InitListInv, NextListInv, PTL DEF Spec

\* Channels, lists and the countdown keep their types and limits.
THEOREM BatchingTypeCorrect == Spec => []TypeOK
<1>1. ListInv => TypeOK
  BY DEF ListInv
<1> QED
  BY <1>1, SpecListInv, PTL

\* The miner never gets an empty batch or one larger than MAX_TRANSACTIONS,
\* whether a full batch or the timer had it handed over.
THEOREM BatchesWithinMax == Spec => []BatchWithinMax
<1>1. ListInv => BatchWithinMax
  BY DEF ListInv
<1> QED
  BY <1>1, SpecListInv, PTL

LEMMA NextFirstCome ==
  ASSUME ListInv, FirstComeFirstServed, [Next]_vars
  PROVE  FirstComeFirstServed'
<1> USE DEF ListInv
<1>1. /\ submitted \in Seq(Txn) /\ handed \in Seq(Txn) /\ list \in Seq(Txn)
      /\ held \in Seq(Txn) /\ tranChan \in Seq(Txn)
  BY DEF TypeOK
<1>2. /\ handed \o list \in Seq(Txn)
      /\ handed \o list \o held \in Seq(Txn)
  BY <1>1
<1>3. CASE \E t \in Txn : Submit(t)
  <2> PICK t \in Txn : Submit(t)
    BY <1>3
  <2>1. Append(handed \o list \o held \o tranChan, t)
          = handed \o list \o held \o Append(tranChan, t)
    BY ZenonT(30), <1>1, <1>2, AppendToLast
  <2> QED
    BY <2>1 DEF FirstComeFirstServed, Submit, builderVars, minerVars
<1>4. CASE Receive
  <2>1. held = <<>> /\ handed \o list \o held = handed \o list
    BY <1>2, <1>4 DEF Receive, HasRoom, HeldOnlyFull
  <2>2. (handed \o list) \o tranChan
          = Append(handed \o list, Head(tranChan)) \o Tail(tranChan)
    BY <1>1, <1>2, <1>4, FirstMoves DEF Receive, HasRoom
  <2>3. Head(tranChan) \in Txn
    BY <1>1, <1>4 DEF Receive, HasRoom
  <2>4. CASE Len(list) < MaxTransactions
    <3>1. Append(handed \o list, Head(tranChan)) = handed \o Append(list, Head(tranChan))
      BY <1>1, <2>3, AppendToLast
    <3>2. handed \o Append(list, Head(tranChan)) \o <<>>
            = handed \o Append(list, Head(tranChan))
      BY <1>1, <2>3
    <3> QED
      BY <1>4, <2>1, <2>2, <2>4, <3>1, <3>2 DEF FirstComeFirstServed, Receive, HasRoom, minerVars
  <2>5. CASE ~(Len(list) < MaxTransactions)
    <3>1. Append(handed \o list, Head(tranChan)) = handed \o list \o <<Head(tranChan)>>
      BY <1>2, <2>3
    <3> QED
      BY <1>4, <2>1, <2>2, <2>5, <3>1 DEF FirstComeFirstServed, Receive, HasRoom, minerVars
  <2> QED
    BY <2>4, <2>5
<1>5. CASE HandOver
  <2>1. handed \o list \o held \o <<>> = handed \o list \o held
    BY <1>2
  <2> QED
    BY <1>5, <2>1 DEF FirstComeFirstServed, HandOver, NextList
<1>6. CASE \/ UNCHANGED vars
           \/ SendReset \/ ReceiveTimer \/ MinerDone \/ SendSignal \/ Reset \/ Tick
  BY <1>6
  DEF FirstComeFirstServed, SendReset, ReceiveTimer, PlaceAfterSignal, MinerDone, SendSignal,
      Reset, Tick, TimeIsUp, builderVars, minerVars, vars
<1> QED
  BY <1>3, <1>4, <1>5, <1>6 DEF Next, Step

\* No transaction a user was promised is lost, doubled or overtaken on its way
\* to the miner, whatever the batch size, the timer and the speed of the miner.
THEOREM FirstComeIsFirstServed == Spec => []FirstComeFirstServed
<1>1. Init => FirstComeFirstServed
  <2>1. <<>> \o <<>> \o <<>> \o <<>> = <<>>
    OBVIOUS
  <2> QED
    BY <2>1 DEF Init, FirstComeFirstServed
<1> QED
  BY <1>1, SpecListInv, NextFirstCome, PTL DEF Spec

-----------------------------------------------------------------------------
(* Batching implements BatchQueue *)

\* What is taken from the head of a sequence, and what stays.
LEMMA HeadOfConcat ==
  ASSUME NEW s \in Seq(Txn), NEW t \in Seq(Txn), s # <<>>
  PROVE  /\ SubSeq(s \o t, 1, Len(s)) = s
         /\ SubSeq(s \o t, Len(s) + 1, Len(s \o t)) = t
<1>1. /\ s \o t \in Seq(Txn) /\ Len(s \o t) = Len(s) + Len(t)
      /\ Len(s) \in Nat \ {0} /\ Len(t) \in Nat
      /\ \A i \in 1..(Len(s) + Len(t)) :
           (s \o t)[i] = IF i <= Len(s) THEN s[i] ELSE t[i - Len(s)]
  BY ConcatProperties
<1>2. SubSeq(s \o t, 1, Len(s)) = s
  <2>1. 1 \in 1..Len(s) /\ Len(s) \in 1..Len(s)
    BY <1>1
  <2> QED
    BY <2>1, SubSeqOfConcat1, SubSeqFull
<1>3. SubSeq(s \o t, Len(s) + 1, Len(s \o t)) = t
  <2>1. CASE t = <<>>
    <3>1. Len(s \o t) < Len(s) + 1
      BY <1>1, <2>1
    <3> QED
      BY <1>1, <2>1, <3>1, SubSeqEmpty
  <2>2. CASE t # <<>>
    <3>1. /\ Len(s) + 1 \in Len(s) + 1 .. Len(s) + Len(t)
          /\ Len(s) + Len(t) \in Len(s) + 1 .. Len(s) + Len(t)
          /\ Len(s) + 1 - Len(s) = 1 /\ Len(s) + Len(t) - Len(s) = Len(t)
      BY <1>1, <2>2
    <3>2. SubSeq(s \o t, Len(s) + 1, Len(s) + Len(t)) = SubSeq(t, 1, Len(t))
      BY <3>1, SubSeqOfConcat2
    <3> QED
      BY <1>1, <3>2, SubSeqFull
  <2> QED
    BY <2>1, <2>2
<1> QED
  BY <1>2, <1>3

LEMMA QueueStep ==
  ASSUME ListInv, [Next]_vars
  PROVE  [Queue!Next]_(Queue!vars)
<1> DEFINE promised == list \o held \o tranChan
<1> USE DEF ListInv
<1>1. /\ list \in Seq(Txn) /\ held \in Seq(Txn) /\ tranChan \in Seq(Txn)
      /\ list \o held \in Seq(Txn) /\ promised \in Seq(Txn)
  BY DEF TypeOK
<1>2. ASSUME NEW t \in Txn, Submit(t) PROVE Queue!Put(t)
  <2>1. Append(promised, t) = list \o held \o Append(tranChan, t)
    BY <1>1, AppendToLast
  <2> QED
    BY <1>2, <2>1 DEF Submit, Queue!Put, builderVars, minerVars
<1>3. CASE Receive
  <2>1. /\ tranChan # <<>> /\ held = <<>> /\ Head(tranChan) \in Txn
        /\ tranChan' = Tail(tranChan) /\ UNCHANGED <<minerBatch, minerBusy>>
        /\ list \o held = list
    BY <1>1, <1>3 DEF Receive, HeldOnlyFull, minerVars
  <2>2. promised = Append(list, Head(tranChan)) \o Tail(tranChan)
    BY <1>1, <2>1, FirstMoves
  <2>3. list' \o held' = Append(list, Head(tranChan))
    <3>1. CASE HasRoom
      <4>1. list' = Append(list, Head(tranChan)) /\ held' = <<>>
        BY <1>3, <2>1, <3>1 DEF Receive
      <4> QED
        BY <1>1, <2>1, <4>1
    <3>2. CASE ~HasRoom
      <4>1. list' = list /\ held' = <<Head(tranChan)>>
        BY <1>3, <3>2 DEF Receive
      <4> QED
        BY <1>1, <2>1, <4>1
    <3> QED
      BY <3>1, <3>2
  <2> QED
    BY <2>1, <2>2, <2>3 DEF Queue!vars
<1>4. CASE HandOver
  <2>1. /\ list # <<>> /\ ~minerBusy /\ minerBusy' = TRUE /\ Len(list) \in 1..MaxTransactions
        /\ minerBatch' = list /\ list' = held /\ held' = <<>> /\ tranChan' = tranChan
    BY <1>1, <1>4 DEF HandOver, NextList, HeldOnlyFull
  <2>2. promised = list \o (held \o tranChan) /\ held \o tranChan \in Seq(Txn)
    BY <1>1, ConcatAssociative, ConcatProperties
  <2>3. /\ SubSeq(promised, 1, Len(list)) = list
        /\ SubSeq(promised, Len(list) + 1, Len(promised)) = held \o tranChan
    <3> DEFINE rest == held \o tranChan
    <3> HIDE DEF promised, rest
    <3>1. promised = list \o rest /\ rest \in Seq(Txn)
      BY <2>2 DEF rest
    <3>2. SubSeq(promised, 1, Len(list)) = list
      BY <1>1, <2>1, <3>1, HeadOfConcat
    <3>3. SubSeq(promised, Len(list) + 1, Len(promised)) = rest
      BY <1>1, <2>1, <3>1, HeadOfConcat
    <3> QED
      BY <3>2, <3>3 DEF rest
  <2>4. Len(list) <= Len(promised)
    <3>1. Len(promised) = Len(list) + Len(held \o tranChan)
      BY <1>1, <2>2, ConcatProperties
    <3>2. Len(held \o tranChan) \in Nat /\ Len(list) \in Nat
      BY <1>1, <2>2
    <3> QED
      BY <3>1, <3>2
  <2>5. list' \o held' \o tranChan' = held \o tranChan
    BY <1>1, <2>1
  <2> HIDE DEF promised
  <2>6. /\ minerBatch' = SubSeq(promised, 1, Len(list))
        /\ list' \o held' \o tranChan' = SubSeq(promised, Len(list) + 1, Len(promised))
    BY <2>1, <2>3, <2>5
  <2>7. Queue!Take(Len(list))
    BY <2>1, <2>4, <2>6 DEF Queue!Take, promised
  <2> QED
    BY <2>1, <2>7 DEF Queue!Next
<1>5. CASE MinerDone
  <2>1. Queue!Done
    BY <1>5 DEF MinerDone, Queue!Done, builderVars
  <2> QED
    BY <2>1 DEF Queue!Next
<1>6. CASE UNCHANGED vars \/ SendReset \/ ReceiveTimer \/ SendSignal \/ Reset \/ Tick
  BY <1>6
  DEF SendReset, ReceiveTimer, SendSignal, Reset, Tick, minerVars, builderVars, vars, Queue!vars
<1> QED
  BY <1>2, <1>3, <1>4, <1>5, <1>6 DEF Next, Step, Queue!Next

\* The way of the transactions from the handlers to the miner is one queue,
\* for any number of them, any batch size, capacity and time limit.
THEOREM BatchingIsAQueue == Spec => IsBatchQueue
<1>1. Init => Queue!Init
  <2>1. <<>> \o <<>> \o <<>> = <<>>
    OBVIOUS
  <2> QED
    BY <2>1 DEF Init, Queue!Init
<1> QED
  BY <1>1, SpecListInv, QueueStep, PTL DEF Spec, IsBatchQueue, Queue!Spec

-----------------------------------------------------------------------------
(* What the deadlock of builder and timer costs *)

\* The builder waits for room on resetTimerChan, the timer for room on
\* timerChan: each would have to take what the other has sent.
Stuck ==
  /\ builderAt = "reset" /\ resetChan = 1
  /\ timerAt = "signal" /\ timerChan = 1

\* A batch that waits for the reset is full, and one more transaction is held.
FullAtReset == builderAt = "reset" => Len(list) = MaxTransactions /\ Len(held) = 1

LEMMA NextFullAtReset ==
  ASSUME ListInv, FullAtReset, [Next]_vars
  PROVE  FullAtReset'
<1> USE BatchingAssumption DEF ListInv
<1>1. CASE Receive
  <2>1. CASE HasRoom
    BY <1>1, <2>1 DEF Receive, FullAtReset
  <2>2. CASE ~HasRoom
    <3>1. Len(list) = MaxTransactions /\ Len(<<Head(tranChan)>>) = 1
      BY <2>2 DEF HasRoom, TypeOK
    <3> QED
      BY <1>1, <2>2, <3>1 DEF Receive, FullAtReset
  <2> QED
    BY <2>1, <2>2
<1>2. CASE \/ UNCHANGED vars \/ \E t \in Txn : Submit(t)
           \/ SendReset \/ ReceiveTimer \/ HandOver \/ MinerDone
           \/ SendSignal \/ Reset \/ Tick
  BY <1>2
  DEF Submit, SendReset, ReceiveTimer, PlaceAfterSignal, HandOver, MinerDone, SendSignal,
      Reset, Tick, FullAtReset, builderVars, vars
<1> QED
  BY <1>1, <1>2 DEF Next, Step

\* The deadlock is for ever, nothing is handed over again, and more than a
\* whole batch of answered transactions is lost in it, whatever the users, the
\* miner and the clock do from then on.
THEOREM DeadlockIsForEver ==
  Spec => /\ [](Stuck => Len(submitted) >= Len(handed) + MaxTransactions + 1)
          /\ [][Stuck => Stuck' /\ handed' = handed]_vars
<1>1. Init => FullAtReset
  BY DEF Init, FullAtReset
<1>2. ListInv /\ FullAtReset /\ FirstComeFirstServed =>
        (Stuck => Len(submitted) >= Len(handed) + MaxTransactions + 1)
  <2> SUFFICES ASSUME ListInv, FullAtReset, FirstComeFirstServed, Stuck
               PROVE  Len(submitted) >= Len(handed) + MaxTransactions + 1
    OBVIOUS
  <2>0. handed \in Seq(Txn) /\ list \in Seq(Txn) /\ held \in Seq(Txn) /\ tranChan \in Seq(Txn)
    BY DEF ListInv, TypeOK
  <2>1. MaxTransactions \in Nat /\ Len(list) = MaxTransactions /\ Len(held) = 1
    BY BatchingAssumption DEF FullAtReset, Stuck
  <2>2. Len(submitted) = Len(handed) + Len(list) + Len(held) + Len(tranChan)
    <3> DEFINE a == handed \o list
               b == a \o held
    <3>1. a \in Seq(Txn) /\ Len(a) = Len(handed) + Len(list)
      BY <2>0
    <3> HIDE DEF a
    <3>2. b \in Seq(Txn) /\ Len(b) = Len(a) + Len(held)
      BY Zenon, <2>0, <3>1, ConcatProperties DEF b
    <3> HIDE DEF b
    <3>3. Len(b \o tranChan) = Len(b) + Len(tranChan)
      BY Zenon, <2>0, <3>2, ConcatProperties
    <3>4. submitted = b \o tranChan
      BY DEF FirstComeFirstServed, a, b
    <3> QED
      BY <3>1, <3>2, <3>3, <3>4
  <2>3. Len(handed) \in Nat /\ Len(tranChan) \in Nat
    BY <2>0
  <2> QED
    BY <2>1, <2>2, <2>3
<1>3. [Next]_vars => [Stuck => Stuck' /\ handed' = handed]_vars
  BY DEF Stuck, Next, Step, Submit, Receive, SendReset, ReceiveTimer, HandOver, MinerDone,
         SendSignal, Reset, Tick, builderVars, minerVars, timerVars
<1> QED
  BY <1>1, <1>2, <1>3, SpecListInv, FirstComeIsFirstServed, NextFullAtReset, PTL DEF Spec
=============================================================================
