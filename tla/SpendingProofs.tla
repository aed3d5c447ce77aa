--------------------------- MODULE SpendingProofs ---------------------------
(***************************************************************************)
(* Proofs about Spending, for any set of users and any amounts.            *)
(*                                                                         *)
(* The two loops do not share a variable, so that each has an invariant of *)
(* its own. Both say the same of their map: a user the loop has not come   *)
(* to has neither paid nor received, and the balance of every other user   *)
(* is at most what the files and the transfers so far give him. The        *)
(* signer's is exactly that unless a lookup has failed. As long as the     *)
(* signer goes on, the two have gone through the same transfers: those it  *)
(* counts are those the origin accepts and those it marks.                 *)
(***************************************************************************)
EXTENDS Spending, TLAPS

\* What the origin's loop keeps true.
OriginInv ==
  /\ written \in [User -> Nat]
  /\ known \subseteq User
  /\ balances \in [User -> Nat]
  /\ accepted \in [User -> Int]
  /\ \A u \in User \ known : balances[u] = 0 /\ accepted[u] = 0
  /\ \A u \in known : balances[u] <= written[u] + accepted[u]

\* What the two loops keep true of what they count: a transfer the signer counts
\* is one the origin accepts, or one it marks, which then has `brought' its coin.
CountedInv ==
  /\ accepted \in [User -> Int]
  /\ brought \in [User -> Nat]
  /\ all \in [User -> Int]
  /\ refused \in BOOLEAN
  /\ ~refused => \A u \in User : all[u] <= accepted[u] + brought[u]

\* What the signer's loop keeps true until it refuses.
SignerMapInv ==
  /\ \A u \in User \ signerKnown : signerBalances[u] = 0 /\ all[u] = 0
  /\ \A u \in signerKnown :
       /\ signerBalances[u] <= chain[u] + all[u]
       /\ ~misread => signerBalances[u] = chain[u] + all[u]

SignerInv ==
  /\ chain \in [User -> Nat]
  /\ signerKnown \subseteq User
  /\ signerBalances \in [User -> Nat]
  /\ all \in [User -> Int]
  /\ refused \in BOOLEAN
  /\ misread \in BOOLEAN
  /\ ~refused => SignerMapInv
  /\ refused /\ ~misread => \E u \in User : chain[u] + all[u] < 0

-----------------------------------------------------------------------------
\* The fields of a transfer.
LEMMA TransferFields ==
  ASSUME NEW t \in Transfer
  PROVE  t.from \in User /\ t.to \in User /\ t.coin \in Nat /\ (t.from = t.to => t.coin = 0)
BY SpendingAssumption DEF Transfer

\* A transfer takes its coin from the sender and gives it to the receiver.
LEMMA PayIs ==
  ASSUME NEW f \in [User -> Int], NEW t \in Transfer
  PROVE  /\ Pay(f, t) \in [User -> Int]
         /\ \A u \in User : u # t.from /\ u # t.to => Pay(f, t)[u] = f[u]
         /\ t.from # t.to => /\ Pay(f, t)[t.from] = f[t.from] - t.coin
                             /\ Pay(f, t)[t.to] = f[t.to] + t.coin
         /\ t.from = t.to => Pay(f, t)[t.from] = f[t.from]
<1>1. t.from \in User /\ t.to \in User /\ t.coin \in Nat /\ (t.from = t.to => t.coin = 0)
  BY TransferFields
<1>2. \A u \in User : Pay(f, t)[u] = f[u] + (IF u = t.to THEN t.coin ELSE 0)
                                          - (IF u = t.from THEN t.coin ELSE 0)
  BY DEF Pay
<1>3. Pay(f, t) \in [User -> Int]
  BY <1>1 DEF Pay
<1> QED BY <1>1, <1>2, <1>3

\* The lookups fill in only users the map does not have, with at most the
\* balance of the files.
LEMMA LookedIs ==
  ASSUME NEW map \in [User -> Nat], NEW keys, NEW t \in Transfer,
         NEW files \in [User -> Nat], NEW lost
  PROVE  /\ Looked(map, keys, t, files, lost) \in [User -> Nat]
         /\ \A u \in User :
              /\ u \in keys \/ u \notin {t.from, t.to} => Looked(map, keys, t, files, lost)[u] = map[u]
              /\ u \in {t.from, t.to} \ keys =>
                   /\ Looked(map, keys, t, files, lost)[u] <= files[u]
                   /\ u \notin lost => Looked(map, keys, t, files, lost)[u] = files[u]
                   /\ u \in lost => Looked(map, keys, t, files, lost)[u] = 0
BY DEF Looked

-----------------------------------------------------------------------------
\* One transaction in verifySpendIsAllowed.
LEMMA OriginStep ==
  ASSUME OriginInv, NEW t \in Transfer, NEW lost, Origin(t, lost), UNCHANGED written
  PROVE  OriginInv'
<1> DEFINE map == Looked(balances, known, t, written, lost)
<1>1. t.from \in User /\ t.to \in User /\ t.coin \in Nat /\ (t.from = t.to => t.coin = 0)
  BY TransferFields
<1>2. /\ map \in [User -> Nat]
      /\ \A u \in User :
           /\ u \in known \/ u \notin {t.from, t.to} => map[u] = balances[u]
           /\ u \in {t.from, t.to} \ known => map[u] <= written[u]
  <2>1. balances \in [User -> Nat] /\ written \in [User -> Nat]
    BY DEF OriginInv
  <2>2. /\ map \in [User -> Nat]
        /\ \A u \in User :
             /\ u \in known \/ u \notin {t.from, t.to} => map[u] = balances[u]
             /\ u \in {t.from, t.to} \ known =>
                  map[u] <= written[u] /\ (u \notin lost => map[u] = written[u])
                                      /\ (u \in lost => map[u] = 0)
    BY <2>1, LookedIs
  <2> QED BY <2>2
<1> HIDE DEF map
<1>3. CASE DropUnknown(t, lost)
  BY <1>3 DEF DropUnknown, Mark, OriginInv, originVars
<1>4. CASE DropOverspend(t, lost)
  <2>1. known' = known \cup {t.from, t.to} /\ balances' = map /\ accepted' = accepted
    BY <1>4 DEF DropOverspend, Mark, map
  <2> QED BY <1>1, <1>2, <2>1 DEF OriginInv
<1>5. CASE Accept(t, lost)
  <2>1. /\ known' = known \cup {t.from, t.to}
        /\ balances' = [map EXCEPT ![t.from] = balances[t.from] - t.coin,
                                   ![t.to] = Receiver(t, map) + t.coin]
        /\ accepted' = Pay(accepted, t)
        /\ balances[t.from] >= t.coin
    BY <1>5 DEF Accept, map, Sender
  <2>2. /\ accepted' \in [User -> Int]
        /\ \A u \in User : u # t.from /\ u # t.to => accepted'[u] = accepted[u]
        /\ t.from # t.to => /\ accepted'[t.from] = accepted[t.from] - t.coin
                            /\ accepted'[t.to] = accepted[t.to] + t.coin
        /\ t.from = t.to => accepted'[t.from] = accepted[t.from]
    BY <2>1, PayIs DEF OriginInv
  <2>3. Receiver(t, map) = IF t.to = t.from THEN map[t.to] ELSE balances[t.to]
    BY DEF Receiver
  <2>4. /\ balances' \in [User -> Nat]
        /\ \A u \in User : u # t.from /\ u # t.to => balances'[u] = map[u]
        /\ t.from # t.to => /\ balances'[t.from] = balances[t.from] - t.coin
                            /\ balances'[t.to] = balances[t.to] + t.coin
        /\ t.from = t.to => balances'[t.to] = map[t.to]
    BY <1>1, <1>2, <2>1, <2>3 DEF OriginInv
  <2>5. ASSUME NEW u \in User \ known'
        PROVE  balances'[u] = 0 /\ accepted'[u] = 0
    BY <1>1, <1>2, <2>1, <2>2, <2>4 DEF OriginInv
  <2>6. ASSUME NEW u \in known'
        PROVE  balances'[u] <= written[u] + accepted'[u]
    <3>0. u \in User /\ written[u] \in Nat /\ balances[u] \in Nat /\ accepted[u] \in Int
          /\ map[u] \in Nat
      BY <1>1, <1>2, <2>1 DEF OriginInv
    <3>1. balances[u] <= written[u] + accepted[u] /\ map[u] <= written[u] + accepted[u]
      BY <1>1, <1>2, <2>1, <3>0 DEF OriginInv
    <3> QED BY <1>1, <2>2, <2>4, <3>0, <3>1
  <2> QED BY <1>1, <2>1, <2>2, <2>4, <2>5, <2>6 DEF OriginInv
<1> QED BY <1>3, <1>4, <1>5 DEF Origin

LEMMA OriginInvariant == Spec => []OriginInv
<1>1. Init => OriginInv
  BY SpendingAssumption DEF Init, OriginInv, Zero
<1>2. OriginInv /\ [Next]_vars => OriginInv'
  <2> SUFFICES ASSUME OriginInv, [Next]_vars PROVE OriginInv'
    OBVIOUS
  <2>1. CASE Next
    <3>1. PICK t \in Transfer : Check(t)
      BY <2>1 DEF Next
    <3>2. PICK lost \in SUBSET {t.from, t.to} : Origin(t, lost)
      BY <3>1 DEF Check
    <3> QED BY <3>1, <3>2, OriginStep DEF Check
  <2>2. CASE UNCHANGED vars
    BY <2>2 DEF vars, originVars, OriginInv
  <2> QED BY <2>1, <2>2
<1> QED BY <1>1, <1>2, PTL DEF Spec

-----------------------------------------------------------------------------
\* One transaction in validateUsersHaveEnoughCoin.
LEMMA SignerStep ==
  ASSUME SignerInv, NEW t \in Transfer, NEW lost, Signer(t, lost), UNCHANGED chain,
         misread' = (misread \/ (~refused /\ \E u \in lost \ signerKnown : chain[u] # 0)),
         lost \subseteq {t.from, t.to}
  PROVE  SignerInv'
<1> DEFINE map == SignerMap(t, lost)
<1>1. t.from \in User /\ t.to \in User /\ t.coin \in Nat /\ (t.from = t.to => t.coin = 0)
  BY TransferFields
<1>2. /\ map \in [User -> Nat]
      /\ \A u \in User :
           /\ u \in signerKnown \/ u \notin {t.from, t.to} => map[u] = signerBalances[u]
           /\ u \in {t.from, t.to} \ signerKnown =>
                /\ map[u] <= chain[u]
                /\ u \notin lost => map[u] = chain[u]
                /\ u \in lost => map[u] = 0
  BY LookedIs DEF SignerInv, SignerMap
<1> HIDE DEF map
<1>3. misread' \in BOOLEAN
  BY DEF SignerInv
<1>4. ASSUME ~refused, NEW u \in User
      PROVE  /\ map[u] \in Nat /\ chain[u] \in Nat /\ all[u] \in Int
             /\ u \in signerKnown \cup {t.from, t.to} => map[u] <= chain[u] + all[u]
             /\ u \in signerKnown \cup {t.from, t.to} /\ ~misread' => map[u] = chain[u] + all[u]
             /\ u \notin signerKnown \cup {t.from, t.to} => map[u] = 0 /\ all[u] = 0
  <2>1. map[u] \in Nat /\ chain[u] \in Nat /\ all[u] \in Int
    BY <1>2 DEF SignerInv
  <2>2. CASE u \in signerKnown
    <3>1. map[u] = signerBalances[u]
      BY <1>2, <2>2
    <3>2. signerBalances[u] <= chain[u] + all[u]
      BY <1>4, <2>2 DEF SignerInv, SignerMapInv
    <3>3. ASSUME ~misread' PROVE signerBalances[u] = chain[u] + all[u]
      <4>1. ~misread
        BY <3>3
      <4> QED BY <1>4, <2>2, <4>1 DEF SignerInv, SignerMapInv
    <3> QED BY <2>1, <2>2, <3>1, <3>2, <3>3
  <2>3. CASE u \in {t.from, t.to} \ signerKnown
    <3>1. all[u] = 0
      BY <1>4, <2>3 DEF SignerInv, SignerMapInv
    <3>2. map[u] <= chain[u]
      BY <1>2, <2>3
    <3>3. ASSUME ~misread' PROVE map[u] = chain[u]
      <4>1. CASE u \in lost
        <5>1. chain[u] = 0
          BY <1>4, <2>3, <3>3, <4>1
        <5> QED BY <1>2, <2>3, <4>1, <5>1
      <4>2. CASE u \notin lost
        BY <1>2, <2>3, <4>2
      <4> QED BY <4>1, <4>2
    <3> QED BY <2>1, <2>3, <3>1, <3>2, <3>3
  <2>4. CASE u \notin signerKnown \cup {t.from, t.to}
    BY <1>2, <1>4, <2>1, <2>4 DEF SignerInv, SignerMapInv
  <2> QED BY <2>2, <2>3, <2>4
<1>5. /\ Pay(all, t) \in [User -> Int]
      /\ \A u \in User : u # t.from /\ u # t.to => Pay(all, t)[u] = all[u]
      /\ t.from # t.to => /\ Pay(all, t)[t.from] = all[t.from] - t.coin
                          /\ Pay(all, t)[t.to] = all[t.to] + t.coin
      /\ t.from = t.to => Pay(all, t)[t.from] = all[t.from]
  BY PayIs DEF SignerInv
<1>6. CASE Confirm(t, lost)
  <2>1. /\ ~refused /\ refused' = refused
        /\ signerKnown' = signerKnown \cup {t.from, t.to}
        /\ signerBalances' = Pay(map, t)
        /\ all' = Pay(all, t)
        /\ map[t.from] >= t.coin
    BY <1>6 DEF Confirm, Covered, map
  <2>2. map \in [User -> Int]
    BY <1>2
  <2>3. /\ Pay(map, t) \in [User -> Int]
        /\ \A u \in User : u # t.from /\ u # t.to => Pay(map, t)[u] = map[u]
        /\ t.from # t.to => /\ Pay(map, t)[t.from] = map[t.from] - t.coin
                            /\ Pay(map, t)[t.to] = map[t.to] + t.coin
        /\ t.from = t.to => Pay(map, t)[t.from] = map[t.from]
    BY <2>2, PayIs
  <2>4. signerBalances' \in [User -> Nat]
    <3>1. \A u \in User : Pay(map, t)[u] \in Nat
      BY <1>1, <1>2, <2>1, <2>3
    <3> QED BY <2>1, <2>3, <3>1
  <2>5. SignerMapInv'
    <3>1. ASSUME NEW u \in User \ signerKnown'
          PROVE  signerBalances'[u] = 0 /\ all'[u] = 0
      BY <1>4, <1>5, <2>1, <2>3
    <3>2. ASSUME NEW u \in signerKnown'
          PROVE  signerBalances'[u] <= chain[u] + all'[u]
      BY <1>1, <1>4, <1>5, <2>1, <2>3 DEF SignerInv
    <3>3. ASSUME NEW u \in signerKnown', ~misread'
          PROVE  signerBalances'[u] = chain[u] + all'[u]
      <4>1. /\ u \in User /\ map[u] \in Nat /\ chain[u] \in Nat /\ all[u] \in Int
            /\ map[u] = chain[u] + all[u]
        BY <1>1, <1>4, <2>1, <3>3 DEF SignerInv
      <4> QED BY <1>1, <1>5, <2>1, <2>3, <4>1
    <3> QED BY <3>1, <3>2, <3>3 DEF SignerMapInv
  <2>6. signerKnown' \subseteq User
    BY <1>1, <2>1 DEF SignerInv
  <2> QED BY <1>3, <1>5, <2>1, <2>4, <2>5, <2>6 DEF SignerInv
<1>7. CASE Refuse(t, lost)
  <2>1. /\ ~refused /\ refused' = TRUE
        /\ UNCHANGED <<signerKnown, signerBalances>>
        /\ all' = Pay(all, t)
        /\ ~Covered(t, lost)
    BY <1>7 DEF Refuse
  <2>2. ASSUME ~misread' PROVE chain[t.from] + all'[t.from] < 0
    <3>1. map[t.from] = chain[t.from] + all[t.from] /\ map[t.from] \in Nat
      BY <1>1, <1>4, <2>1, <2>2
    <3>2. map[t.from] < t.coin
      <4>1. CASE t.from \in lost \ signerKnown
        <5>1. map[t.from] = 0
          BY <1>1, <1>2, <4>1
        <5>2. t.coin # 0
          BY <1>1, <2>1, <4>1, <5>1 DEF Covered, map
        <5> QED BY <1>1, <5>1, <5>2
      <4>2. CASE ~(t.from \in lost \ signerKnown)
        BY <1>1, <2>1, <3>1, <4>2 DEF Covered, map
      <4> QED BY <4>1, <4>2
    <3>3. t.from # t.to
      BY <1>1, <3>1, <3>2
    <3> QED BY <1>1, <1>4, <1>5, <2>1, <3>1, <3>2, <3>3
  <2> QED BY <1>1, <1>3, <1>5, <2>1, <2>2 DEF SignerInv
<1>8. CASE Unread
  <2>1. refused /\ UNCHANGED <<signerVars, all>> /\ misread' = misread
    BY <1>8 DEF Unread, SignerInv
  <2> QED BY <2>1 DEF SignerInv, signerVars
<1> QED BY <1>6, <1>7, <1>8 DEF Signer

LEMMA SignerInvariant == Spec => []SignerInv
<1>1. ASSUME Init PROVE SignerInv
  <2>1. \A u \in User : signerBalances[u] = 0 /\ all[u] = 0
    BY <1>1 DEF Init, Zero
  <2>2. SignerMapInv
    BY <1>1, <2>1 DEF Init, SignerMapInv
  <2>3. chain \in [User -> Nat]
    BY <1>1, SpendingAssumption DEF Init
  <2>4. signerBalances \in [User -> Nat] /\ all \in [User -> Int] /\ signerKnown = {}
    BY <1>1 DEF Init, Zero
  <2>5. refused = FALSE /\ misread = FALSE
    BY <1>1 DEF Init
  <2> QED BY <2>2, <2>3, <2>4, <2>5 DEF SignerInv
<1>2. SignerInv /\ [Next]_vars => SignerInv'
  <2> SUFFICES ASSUME SignerInv, [Next]_vars PROVE SignerInv'
    OBVIOUS
  <2>1. CASE Next
    <3>1. PICK t \in Transfer : Check(t)
      BY <2>1 DEF Next
    <3>2. PICK lost \in SUBSET {t.from, t.to} :
            /\ Signer(t, lost)
            /\ misread' = (misread \/ (~refused /\ \E u \in lost \ signerKnown : chain[u] # 0))
      BY <3>1 DEF Check
    <3> QED BY <3>1, <3>2, SignerStep DEF Check
  <2>2. CASE UNCHANGED vars
    BY <2>2 DEF vars, signerVars, SignerInv, SignerMapInv
  <2> QED BY <2>1, <2>2
<1> QED BY <1>1, <1>2, PTL DEF Spec

-----------------------------------------------------------------------------
\* One transaction in both loops.
LEMMA CountedStep ==
  ASSUME CountedInv, NEW t \in Transfer, NEW lostHere, NEW lostThere,
         Origin(t, lostHere), Signer(t, lostThere)
  PROVE  CountedInv'
<1>1. t.from \in User /\ t.to \in User /\ t.coin \in Nat
  BY TransferFields
<1>2. accepted \in [User -> Int] /\ brought \in [User -> Nat] /\ all \in [User -> Int]
  BY DEF CountedInv
<1>3. \/ accepted' = Pay(accepted, t) /\ brought' = brought
      \/ accepted' = accepted /\ brought' = [brought EXCEPT ![t.to] = @ + t.coin]
  BY DEF Origin, DropUnknown, DropOverspend, Accept, Mark
<1>4. Pay(accepted, t) \in [User -> Int] /\ Pay(all, t) \in [User -> Int]
  BY <1>2, PayIs
<1>5. accepted' \in [User -> Int] /\ brought' \in [User -> Nat]
  BY <1>1, <1>2, <1>3, <1>4
<1>6. CASE ~refused /\ refused' = refused /\ all' = Pay(all, t)
  <2> SUFFICES ASSUME NEW u \in User
               PROVE  all'[u] <= accepted'[u] + brought'[u]
    BY <1>2, <1>4, <1>5, <1>6 DEF CountedInv
  <2>1. accepted[u] \in Int /\ brought[u] \in Nat /\ all[u] \in Int
    BY <1>2
  <2>2. all[u] <= accepted[u] + brought[u]
    BY <1>6 DEF CountedInv
  <2>3. /\ Pay(all, t)[u] = all[u] + (IF u = t.to THEN t.coin ELSE 0)
                                   - (IF u = t.from THEN t.coin ELSE 0)
        /\ Pay(accepted, t)[u] = accepted[u] + (IF u = t.to THEN t.coin ELSE 0)
                                             - (IF u = t.from THEN t.coin ELSE 0)
    BY DEF Pay
  <2>4. CASE accepted' = Pay(accepted, t) /\ brought' = brought
    BY <1>1, <1>6, <2>1, <2>2, <2>3, <2>4
  <2>5. CASE accepted' = accepted /\ brought' = [brought EXCEPT ![t.to] = @ + t.coin]
    <3>1. brought'[u] = brought[u] + (IF u = t.to THEN t.coin ELSE 0)
      BY <1>1, <1>2, <2>1, <2>5
    <3> QED BY <1>1, <1>6, <2>1, <2>2, <2>3, <2>5, <3>1
  <2> QED BY <1>3, <2>4, <2>5
<1>7. CASE refused' = TRUE /\ (all' = Pay(all, t) \/ all' = all)
  BY <1>2, <1>4, <1>5, <1>7 DEF CountedInv
<1>8. \/ ~refused /\ refused' = refused /\ all' = Pay(all, t)
      \/ refused' = TRUE /\ (all' = Pay(all, t) \/ all' = all)
  <2>1. refused \in BOOLEAN
    BY DEF CountedInv
  <2> QED BY <2>1 DEF Signer, Confirm, Refuse, Unread, signerVars
<1> QED BY <1>6, <1>7, <1>8

LEMMA CountedInvariant == Spec => []CountedInv
<1>1. ASSUME Init PROVE CountedInv
  <2>1. accepted = Zero /\ brought = Zero /\ all = Zero /\ refused = FALSE
    BY <1>1 DEF Init
  <2>2. Zero \in [User -> Int] /\ Zero \in [User -> Nat] /\ \A u \in User : Zero[u] = 0
    BY DEF Zero
  <2>3. refused \in BOOLEAN
    BY <2>1
  <2>4. ASSUME NEW u \in User PROVE all[u] <= accepted[u] + brought[u]
    <3>1. accepted[u] = 0 /\ brought[u] = 0 /\ all[u] = 0
      BY <2>1, <2>2
    <3> QED BY <3>1
  <2> QED BY <2>1, <2>2, <2>3, <2>4 DEF CountedInv
<1>2. CountedInv /\ [Next]_vars => CountedInv'
  <2> SUFFICES ASSUME CountedInv, [Next]_vars PROVE CountedInv'
    OBVIOUS
  <2>1. CASE Next
    <3>1. PICK t \in Transfer : Check(t)
      BY <2>1 DEF Next
    <3>2. PICK lostHere \in SUBSET {t.from, t.to} : Origin(t, lostHere)
      BY <3>1 DEF Check
    <3>3. PICK lostThere \in SUBSET {t.from, t.to} : Signer(t, lostThere)
      BY <3>1 DEF Check
    <3> QED BY <3>2, <3>3, CountedStep
  <2>2. CASE UNCHANGED vars
    BY <2>2 DEF vars, signerVars, CountedInv
  <2> QED BY <2>1, <2>2
<1> QED BY <1>1, <1>2, PTL DEF Spec

-----------------------------------------------------------------------------
\* The transactions gone through are counted up to MaxTxns.
LEMMA CountInvariant == Spec => [](count \in 0..MaxTxns)
<1>1. Init => count \in 0..MaxTxns
  BY SpendingAssumption DEF Init
<1>2. count \in 0..MaxTxns /\ [Next]_vars => (count \in 0..MaxTxns)'
  BY SpendingAssumption DEF Next, Check, vars
<1> QED BY <1>1, <1>2, PTL DEF Spec

\* Type correctness: neither loop ever computes a negative balance.
THEOREM SpendingTypeCorrect == Spec => []TypeOK
<1>1. OriginInv /\ SignerInv /\ CountedInv /\ count \in 0..MaxTxns => TypeOK
  BY DEF OriginInv, SignerInv, CountedInv, TypeOK
<1> QED BY <1>1, OriginInvariant, SignerInvariant, CountedInvariant, CountInvariant, PTL

\* The map of verifySpendIsAllowed never gives a user coins he does not have,
\* in spite of the hidden variables.
THEOREM MapIsNeverTooHigh == Spec => []MapNeverTooHigh
<1>1. OriginInv => MapNeverTooHigh
  BY DEF OriginInv, MapNeverTooHigh
<1> QED BY <1>1, OriginInvariant, PTL

\* The accepted transfers of a batch never overdraw a balance the origin read.
THEOREM OwnBlockIsAffordable == Spec => []OwnBlockAffordable
<1>1. OriginInv => OwnBlockAffordable
  <2> SUFFICES ASSUME OriginInv, NEW u \in User PROVE written[u] + accepted[u] >= 0
    BY DEF OwnBlockAffordable
  <2>1. written[u] \in Nat /\ accepted[u] \in Int /\ balances[u] \in Nat
    BY DEF OriginInv
  <2>2. CASE u \in known
    BY <2>1, <2>2 DEF OriginInv
  <2>3. CASE u \notin known
    BY <2>1, <2>3 DEF OriginInv
  <2> QED BY <2>2, <2>3
<1> QED BY <1>1, OriginInvariant, PTL

\* What a signer that has not refused counted, it found covered: the transfers
\* up to now, the marked ones included, overdraw no balance of its chain.
LEMMA CountedIsCovered == SignerInv => (~refused => \A u \in User : chain[u] + all[u] >= 0)
<1> SUFFICES ASSUME SignerInv, ~refused, NEW u \in User PROVE chain[u] + all[u] >= 0
  OBVIOUS
<1>1. chain[u] \in Nat /\ all[u] \in Int /\ signerBalances[u] \in Nat
  BY DEF SignerInv
<1>2. CASE u \in signerKnown
  BY <1>1, <1>2 DEF SignerInv, SignerMapInv
<1>3. CASE u \notin signerKnown
  BY <1>1, <1>3 DEF SignerInv, SignerMapInv
<1> QED BY <1>2, <1>3

\* A signed block overdraws a balance of the signer's chain by no more than what
\* the transfers marked as dropped would have brought its owner.
THEOREM SignedBlockIsCovered == Spec => []SignedIsCovered
<1>1. SignerInv /\ CountedInv => SignedIsCovered
  <2> SUFFICES ASSUME SignerInv, CountedInv, ~refused, NEW u \in User
               PROVE  chain[u] + accepted[u] + brought[u] >= 0
    BY DEF SignedIsCovered
  <2>1. chain[u] \in Nat /\ accepted[u] \in Int /\ brought[u] \in Nat /\ all[u] \in Int
    BY DEF SignerInv, CountedInv
  <2>2. all[u] <= accepted[u] + brought[u]
    BY DEF CountedInv
  <2>3. chain[u] + all[u] >= 0
    BY CountedIsCovered
  <2> QED BY <2>1, <2>2, <2>3
<1> QED BY <1>1, SignerInvariant, CountedInvariant, PTL

\* So that a signed block overdraws no user of the signer's chain to whom no
\* dropped transfer was made, in particular nobody when nothing is marked.
UndroppedIsAffordable ==
  ~refused => \A u \in User : brought[u] = 0 => chain[u] + accepted[u] >= 0

THEOREM UndroppedBlockIsAffordable == Spec => []UndroppedIsAffordable
<1>1. TypeOK /\ SignedIsCovered => UndroppedIsAffordable
  <2> SUFFICES ASSUME TypeOK, SignedIsCovered, ~refused, NEW u \in User, brought[u] = 0
               PROVE  chain[u] + accepted[u] >= 0
    BY DEF UndroppedIsAffordable
  <2>1. chain[u] \in Nat /\ accepted[u] \in Int
    BY DEF TypeOK
  <2>2. chain[u] + accepted[u] + brought[u] >= 0
    BY DEF SignedIsCovered
  <2> QED BY <2>1, <2>2
<1> QED BY <1>1, SpendingTypeCorrect, SignedBlockIsCovered, PTL

\* A signer that finds every file refuses only an overspend.
THEOREM RefusedBlockIsOverspent == Spec => []RefusedIsOverspent
<1>1. SignerInv => RefusedIsOverspent
  BY DEF SignerInv, RefusedIsOverspent
<1> QED BY <1>1, SignerInvariant, PTL

\* A block in which nothing is marked as dropped is signed by every node that
\* has the same files and finds them: what verifySpendIsAllowed lets through,
\* validateUsersHaveEnoughCoin does too, although the two keep their balances
\* in different ways. A transfer that is marked as dropped is what it takes to
\* have a block refused.
HonestBlockIsSigned == written = chain /\ ~misread /\ accepted = all => ~refused

THEOREM UnmarkedBlockIsSigned == Spec => []HonestBlockIsSigned
<1>1. OwnBlockAffordable /\ RefusedIsOverspent /\ TypeOK => HonestBlockIsSigned
  <2> SUFFICES ASSUME OwnBlockAffordable, RefusedIsOverspent, TypeOK,
                      written = chain, ~misread, accepted = all, refused
               PROVE  FALSE
    BY DEF HonestBlockIsSigned
  <2>1. PICK u \in User : chain[u] + all[u] < 0
    BY DEF RefusedIsOverspent
  <2>2. chain[u] + all[u] >= 0
    BY DEF OwnBlockAffordable
  <2>3. chain[u] \in Nat /\ all[u] \in Int
    BY DEF TypeOK
  <2> QED BY <2>1, <2>2, <2>3
<1> QED
  BY <1>1, OwnBlockIsAffordable, RefusedBlockIsOverspent, SpendingTypeCorrect, PTL
=============================================================================
