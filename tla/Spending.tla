------------------------------ MODULE Spending ------------------------------
(***************************************************************************)
(* Which transfers of a batch the users can pay for.                       *)
(*                                                                         *)
(*   - verifySpendIsAllowed: before it mines, the origin goes through its  *)
(*     batch with a map of balances and marks what is not covered as       *)
(*     dropped;                                                            *)
(*   - validateUsersHaveEnoughCoin: before it signs, another node goes     *)
(*     through the same transactions with a map of its own and refuses the *)
(*     block at the first one that is not covered.                         *)
(*                                                                         *)
(* Both start from the balances in the block files (GetWrittenUserBalance).*)
(* The origin reads them before up to ten attempts and while its previous  *)
(* block may still be on its way to a file, the signer when it is asked:   *)
(* the two may find different balances. Neither loop reads what the other  *)
(* has written, so the model goes through the batch with both loops side   *)
(* by side, one transaction in a step.                                     *)
(*                                                                         *)
(* Amounts are whole numbers (float64 in the code) and not negative, which *)
(* the /transaction handler sees to; the signer, which looks for negative  *)
(* amounts in the transactions that are not marked only, is not asked to   *)
(* go through others. A Go map gives 0 for a missing key: the maps are     *)
(* total functions beside the set of their keys.                           *)
(***************************************************************************)
EXTENDS Integers

CONSTANTS
  User,        \* public keys of users
  MaxCoin,     \* the largest amount of a transfer
  MaxBalance,  \* the largest balance in the files; no coin is awarded yet, so
               \* that the program of today has 0 here
  MaxTxns      \* transactions in a batch

ASSUME SpendingAssumption ==
  /\ MaxCoin \in Nat
  /\ MaxBalance \in Nat
  /\ MaxTxns \in Nat

VARIABLES
  \* the balances in the files, when each of the two reads them
  written,       \* written[u]: at the origin
  chain,         \* chain[u]: at the signer, the chain the block extends
  \* verifySpendIsAllowed
  known,         \* keys of usersBalances
  balances,      \* usersBalances
  \* validateUsersHaveEnoughCoin
  signerKnown,   \* keys of usersBalances
  signerBalances, \* usersBalances
  refused,       \* the signer has answered with an error
  \* history
  count,         \* transactions gone through
  accepted,      \* accepted[u]: what the accepted transfers change for u
  brought,       \* brought[u]: what the transfers marked as dropped would give u
  all,           \* all[u]: what the transfers up to a refusal change for u
  misread        \* a lookup of the signer missed a balance

originVars == <<known, balances>>
signerVars == <<signerKnown, signerBalances, refused>>
vars == <<written, chain, originVars, signerVars, count, accepted, brought, all, misread>>

\* A transfer of coin to oneself is left out: the files then count it twice
\* (both of its index entries are subtracted), the maps add it.
Transfer == {t \in [from : User, to : User, coin : 0..MaxCoin] : t.from = t.to => t.coin = 0}

Zero == [u \in User |-> 0]

Pay(f, t) == [u \in User |-> f[u] + (IF u = t.to THEN t.coin ELSE 0)
                                  - (IF u = t.from THEN t.coin ELSE 0)]

\* GetWrittenUserBalance gives an error for a user the index does not have, and
\* for one whose newest entry points to a file that is not there yet: lost.
\* Both loops put the users of a transfer into their map, 0 after an error.
Looked(map, keys, t, files, lost) ==
  [u \in User |-> IF u \in {t.from, t.to} \ keys
                    THEN IF u \in lost THEN 0 ELSE files[u]
                    ELSE map[u]]

-----------------------------------------------------------------------------
(* verifySpendIsAllowed *)

\* Faulty variant: every transfer is compared with the balance in the files.
SenderHasWritten(t) == written[t.from]

\* senderBalance after the lookup: the inner declaration hides it, so that it
\* is 0 the first time the sender occurs.
Sender(t) == balances[t.from]

\* receiverBalance in the same way; one who pays himself is in the map by now.
Receiver(t, map) == IF t.to = t.from THEN map[t.to] ELSE balances[t.to]

\* The transfer is marked as dropped: GetWrittenUserBalance will not count it.
Mark(t) ==
  /\ brought' = [brought EXCEPT ![t.to] = @ + t.coin]
  /\ UNCHANGED accepted

\* No balance is found for a sender who wants to spend: dropped.
DropUnknown(t, lost) ==
  /\ t.from \in lost \ known
  /\ t.coin # 0
  /\ Mark(t)
  /\ UNCHANGED originVars

Entered(t, lost) == ~(t.from \in lost \ known /\ t.coin # 0)

\* Faulty variant: the receiver is paid before the sender is looked at.
DropOverspendPaid(t, lost) ==
  /\ Entered(t, lost)
  /\ Sender(t) < t.coin
  /\ known' = known \cup {t.from, t.to}
  /\ balances' = [Looked(balances, known, t, written, lost) EXCEPT ![t.to] = @ + t.coin]
  /\ Mark(t)

\* The sender has not enough: dropped, with both users in the map.
DropOverspend(t, lost) ==
  /\ Entered(t, lost)
  /\ Sender(t) < t.coin
  /\ known' = known \cup {t.from, t.to}
  /\ balances' = Looked(balances, known, t, written, lost)
  /\ Mark(t)

\* Accepted: the map is brought up to date.
Accept(t, lost) ==
  /\ Entered(t, lost)
  /\ Sender(t) >= t.coin
  /\ known' = known \cup {t.from, t.to}
  /\ LET map == Looked(balances, known, t, written, lost) IN
       balances' = [map EXCEPT ![t.from] = Sender(t) - t.coin,
                               ![t.to] = Receiver(t, map) + t.coin]
  /\ accepted' = Pay(accepted, t)
  /\ UNCHANGED brought

-----------------------------------------------------------------------------
(* validateUsersHaveEnoughCoin *)

SignerMap(t, lost) == Looked(signerBalances, signerKnown, t, chain, lost)

\* Faulty variant: the balance is compared before the coin is taken from it.
CoveredBefore(t, lost) ==
  /\ t.from \in lost \ signerKnown => t.coin = 0
  /\ SignerMap(t, lost)[t.from] >= 0

Covered(t, lost) ==
  /\ t.from \in lost \ signerKnown => t.coin = 0
  /\ SignerMap(t, lost)[t.from] >= t.coin

\* Faulty variant: the receiver is not paid.
ConfirmHalf(t, lost) ==
  /\ ~refused
  /\ Covered(t, lost)
  /\ signerKnown' = signerKnown \cup {t.from, t.to}
  /\ signerBalances' = [SignerMap(t, lost) EXCEPT ![t.from] = @ - t.coin]
  /\ all' = Pay(all, t)
  /\ UNCHANGED refused

\* The transfer is covered, marked as dropped or not: the map is brought up to
\* date.
Confirm(t, lost) ==
  /\ ~refused
  /\ Covered(t, lost)
  /\ signerKnown' = signerKnown \cup {t.from, t.to}
  /\ signerBalances' = Pay(SignerMap(t, lost), t)
  /\ all' = Pay(all, t)
  /\ UNCHANGED refused

\* The first transfer that is not covered ends the loop.
Refuse(t, lost) ==
  /\ ~refused
  /\ ~Covered(t, lost)
  /\ refused' = TRUE
  /\ all' = Pay(all, t)
  /\ UNCHANGED <<signerKnown, signerBalances>>

\* The signer has already refused.
Unread == refused /\ UNCHANGED <<signerVars, all>>

-----------------------------------------------------------------------------
Init ==
  /\ written \in [User -> 0..MaxBalance]
  /\ chain \in [User -> 0..MaxBalance]
  /\ known = {} /\ balances = Zero
  /\ signerKnown = {} /\ signerBalances = Zero
  /\ refused = FALSE
  /\ count = 0
  /\ accepted = Zero
  /\ brought = Zero
  /\ all = Zero
  /\ misread = FALSE

Origin(t, lost) == DropUnknown(t, lost) \/ DropOverspend(t, lost) \/ Accept(t, lost)
Signer(t, lost) == Confirm(t, lost) \/ Refuse(t, lost) \/ Unread

\* One transaction. The lookups of either node may fail.
Check(t) ==
  /\ count < MaxTxns
  /\ count' = count + 1
  /\ \E lost \in SUBSET {t.from, t.to} : Origin(t, lost)
  /\ \E lost \in SUBSET {t.from, t.to} :
       /\ Signer(t, lost)
       /\ misread' = (misread \/ (~refused /\ \E u \in lost \ signerKnown : chain[u] # 0))
  /\ UNCHANGED <<written, chain>>

Next == \E t \in Transfer : Check(t)

Spec == Init /\ [][Next]_vars

-----------------------------------------------------------------------------
(* Properties *)

\* Neither map ever holds a negative balance, and both give 0 for a user the
\* loop has not come to.
TypeOK ==
  /\ written \in [User -> Nat]
  /\ chain \in [User -> Nat]
  /\ known \subseteq User /\ signerKnown \subseteq User
  /\ balances \in [User -> Nat] /\ signerBalances \in [User -> Nat]
  /\ \A u \in User \ known : balances[u] = 0
  /\ refused \in BOOLEAN
  /\ count \in 0..MaxTxns
  /\ accepted \in [User -> Int]
  /\ brought \in [User -> Nat]
  /\ all \in [User -> Int]
  /\ misread \in BOOLEAN

\* The map of the origin forgets coins (the hidden variables, failed lookups)
\* but never invents any: a user has at least what the map says.
MapNeverTooHigh == \A u \in known : balances[u] <= written[u] + accepted[u]

\* "if a transaction sets a user ballance to negative, mark transaction as
\* dropped": the accepted transfers of a batch never overdraw a balance the
\* origin has read, whatever order they come in and whatever is dropped.
OwnBlockAffordable == \A u \in User : written[u] + accepted[u] >= 0

\* "If a node [...] finds an invalid transaction that is not marked as dropped,
\* it will reject the block": however old the balances of the origin are and
\* whichever lookups fail, a block that is not refused overdraws a balance of
\* the signer's chain by no more than what the transfers marked as dropped
\* would have brought, which the signer counts as if they were made. With no
\* such transfer it overdraws none.
SignedIsCovered ==
  ~refused => \A u \in User : chain[u] + accepted[u] + brought[u] >= 0

\* The signer refuses only when the transfers, the marked ones among them, do
\* overdraw a balance, unless a file was missing.
RefusedIsOverspent == refused /\ ~misread => \E u \in User : chain[u] + all[u] < 0

\* "Invalid transactions must be marked as dropped": a block whose invalid
\* transactions are marked is signed by a node that has the same files.
MarkedBlockIsSigned == written = chain /\ ~misread => ~refused
=============================================================================
