----------------------------- MODULE SearchIndex -----------------------------
(***************************************************************************)
(* The search index of a node, the writer that fills it and the requests   *)
(* that read it.                                                           *)
(*                                                                         *)
(*   - WriteBlocks enters every transaction of a block under its ID, its   *)
(*     keyword, its sender and its receiver, saves the block in a file     *)
(*     and, when the block is accepted, moves the previous hash forward    *)
(*     and releases the claim;                                             *)
(*   - the /search handlers look a term up and read the files it is in;    *)
(*   - /block-sign compares the previous hash, looks up the balance of a   *)
(*     user in the same way (GetWrittenUserBalance), and claims.           *)
(*                                                                         *)
(* The mutex of the index covers one call. For keywords and users a lookup *)
(* returns the inner map itself, which is then read outside the mutex      *)
(* while the writer goes on entering. A block is the number in its file    *)
(* name (blocksReceived), an entry the pair of a block and the place of    *)
(* the call in it, which stands for the index of the transaction.          *)
(*                                                                         *)
(* A claim lasts until its block is written: what happens when it does not *)
(* is the subject of BlockNode.                                            *)
(***************************************************************************)
EXTENDS Naturals, Sequences

CONSTANTS
  Id,         \* transaction IDs
  Word,       \* keywords and public keys of users
  Content,    \* what a block may hold: the terms of its transactions, in the
              \* order they are entered
  Searcher,   \* requests to the /search handlers
  Signer,     \* requests to /block-sign
  MaxBlocks   \* blocks written in all

Term == Id \cup Word
Reader == Searcher \cup Signer
Block == 1..MaxBlocks
NoBlock == 0

\* The claim of a block this node has signed and not received yet.
Signed == MaxBlocks + 1

ASSUME SearchIndexAssumption ==
  /\ Id \cap Word = {}
  /\ Searcher \cap Signer = {}
  /\ Content \subseteq Seq(Term)
  /\ MaxBlocks \in Nat

VARIABLES
  up,        \* the process runs
  \* blocks handed to the writer
  handed,    \* how many
  holds,     \* holds[b]: the terms in block b, in the order they are entered
  dropped,   \* the dropped blocks
  \* WriteBlocks
  writing,   \* blocksReceived: the block at hand
  writerAt,  \* where the writer is
  place,     \* the next term to enter
  files,     \* blocks in files
  \* SearchIndexer and PreviousBlockHashRunner
  index,     \* index[t]: the entries of t
  prev,      \* prevHashString: the last accepted block
  claim,     \* the block that holds the claim
  req        \* req[r]: the request r, see Request

handedVars == <<handed, holds, dropped>>
writerVars == <<writing, writerAt, place, files>>
hashVars   == <<prev, claim>>
nodeVars == <<up, handedVars, writerVars, index, hashVars>>
vars == <<nodeVars, req>>

WriterPlaces == {"idle", "enter", "advance", "release"}

Entry == Block \X (Nat \ {0})

\* The local variables of a handler.
Request ==
  [at       : {"find", "range", "read", "answered", "failed"},
   term     : Term,                    \* what is asked for
   prevRead : Block \cup {NoBlock},    \* the previous hash /block-sign compared
   first    : SUBSET Block,            \* files in the map when the loop began
   seen     : SUBSET Block,            \* files the loop has come to
   file     : Block \cup {NoBlock},    \* the file it reads next
   slice    : SUBSET Entry,            \* the entries it has for that file
   answer   : SUBSET Entry,            \* what it has read from files
   before   : SUBSET Entry]            \* history: in files when the request came

Idle == [at |-> "idle"]

\* The entries of t in the blocks B.
Places(t, b) == {i \in DOMAIN holds[b] : holds[b][i] = t}
Occurrences(t, B) == UNION {{b} \X Places(t, b) : b \in B}

FilesOf(entries) == {e[1] : e \in entries}
In(entries, b) == {e \in entries : e[1] = b}

-----------------------------------------------------------------------------
(* The miner and /block hand blocks to the writer *)

\* An accepted block has the claim: the one taken when it was signed, or a new
\* one.
HandAccepted(c) ==
  /\ up
  /\ handed < MaxBlocks
  /\ claim \in {NoBlock, Signed}
  /\ claim' = handed + 1
  /\ handed' = handed + 1
  /\ holds' = [holds EXCEPT ![handed'] = c]
  /\ UNCHANGED <<up, dropped, writerVars, index, prev, req>>

\* A dropped block needs no claim.
HandDropped(c) ==
  /\ up
  /\ handed < MaxBlocks
  /\ handed' = handed + 1
  /\ holds' = [holds EXCEPT ![handed'] = c]
  /\ dropped' = dropped \cup {handed'}
  /\ UNCHANGED <<up, writerVars, index, hashVars, req>>

\* The block this node has signed does not come: the claim is released.
ClaimTimeout ==
  /\ up
  /\ claim = Signed
  /\ claim' = NoBlock
  /\ UNCHANGED <<up, handedVars, writerVars, index, prev, req>>

-----------------------------------------------------------------------------
(* WriteBlocks *)

\* Faulty variant: the place of the last block is kept.
ReceiveKeepsPlace ==
  /\ up
  /\ writerAt = "idle"
  /\ writing < handed
  /\ writing' = writing + 1
  /\ writerAt' = "enter"
  /\ UNCHANGED <<up, handedVars, place, files, index, hashVars, req>>

Receive ==
  /\ up
  /\ writerAt = "idle"
  /\ writing < handed
  /\ writing' = writing + 1
  /\ place' = 1
  /\ writerAt' = "enter"
  /\ UNCHANGED <<up, handedVars, files, index, hashVars, req>>

\* Faulty variant: a map is made anew for every entry.
EnteredAlone(t, e) == {e}

\* SetTransactionPathByID replaces the path, the other two setters append.
Entered(t, e) == IF t \in Id THEN {e} ELSE index[t] \cup {e}

ToEnter == place <= Len(holds[writing])

\* One call of a setter.
Enter ==
  /\ up
  /\ writerAt = "enter"
  /\ ToEnter
  /\ LET t == holds[writing][place] IN
       index' = [index EXCEPT ![t] = Entered(t, <<writing, place>>)]
  /\ place' = place + 1
  /\ UNCHANGED <<up, handedVars, writing, writerAt, files, hashVars, req>>

\* Faulty variant: dropped blocks are not saved.
SavedIfAccepted == IF writing \in dropped THEN files ELSE files \cup {writing}

Saved == files \cup {writing}

\* Everything is entered: the file is written.
Save ==
  /\ up
  /\ writerAt = "enter"
  /\ ~ToEnter
  /\ files' = Saved
  /\ writerAt' = IF writing \in dropped THEN "idle" ELSE "advance"
  /\ UNCHANGED <<up, handedVars, writing, place, index, hashVars, req>>

\* setPrevBlockHash
Advance ==
  /\ up
  /\ writerAt = "advance"
  /\ prev' = writing
  /\ writerAt' = "release"
  /\ UNCHANGED <<up, handedVars, writing, place, files, index, claim, req>>

\* setPrevBlockHashAsUnclaimed
Release ==
  /\ up
  /\ writerAt = "release"
  /\ claim' = NoBlock
  /\ writerAt' = "idle"
  /\ UNCHANGED <<up, handedVars, writing, place, files, index, prev, req>>

-----------------------------------------------------------------------------
(* The /search handlers and GetWrittenUserBalance *)

\* A request for t. /block-sign compares the previous hash first.
Ask(r, t) ==
  /\ up
  /\ req[r] = Idle
  /\ r \in Signer => t \in Word
  /\ req' = [req EXCEPT ![r] =
       [at |-> "find", term |-> t, prevRead |-> prev, first |-> {}, seen |-> {},
        file |-> NoBlock, slice |-> {}, answer |-> {}, before |-> Occurrences(t, files)]]
  /\ UNCHANGED nodeVars

\* The term is not in the index.
FindNothing(r) ==
  /\ up
  /\ req[r].at = "find"
  /\ index[req[r].term] = {}
  /\ req' = [req EXCEPT ![r].at = "failed"]
  /\ UNCHANGED nodeVars

\* GetTransactionPathByID returns a copy of the path.
FindById(r) ==
  /\ up
  /\ req[r].at = "find"
  /\ req[r].term \in Id
  /\ \E e \in index[req[r].term] :
       req' = [req EXCEPT ![r].at = "read", ![r].file = e[1], ![r].slice = {e}]
  /\ UNCHANGED nodeVars

\* GetTransactionPathsByKeyword and ...ByUserID return the map, which the range
\* loops go over.
FindMap(r) ==
  /\ up
  /\ req[r].at = "find"
  /\ req[r].term \in Word
  /\ index[req[r].term] # {}
  /\ req' = [req EXCEPT ![r].at = "range", ![r].first = FilesOf(index[req[r].term])]
  /\ UNCHANGED nodeVars

\* The loop comes to a file: one it found in the map, or one entered since.
RangeNext(r) ==
  /\ up
  /\ req[r].at = "range"
  /\ \E b \in FilesOf(index[req[r].term]) \ req[r].seen :
       req' = [req EXCEPT ![r].at = "read", ![r].file = b, ![r].seen = @ \cup {b},
                          ![r].slice = In(index[req[r].term], b)]
  /\ UNCHANGED nodeVars

\* Files entered since the loop began may be passed over.
RangeDone(r) == req[r].first \subseteq req[r].seen

RangeEnd(r) ==
  /\ up
  /\ req[r].at = "range"
  /\ RangeDone(r)
  /\ req' = [req EXCEPT ![r].at = "answered"]
  /\ UNCHANGED nodeVars

\* The map is written and gone over at the same time: the runtime may notice
\* and end the process.
RaceNoticed(r) ==
  /\ up
  /\ req[r].at = "range"
  /\ writerAt = "enter"
  /\ ToEnter
  /\ holds[writing][place] = req[r].term
  /\ up' = FALSE
  /\ UNCHANGED <<handedVars, writerVars, index, hashVars, req>>

\* GetTransactionsFromSingleFile: the file is complete and has the transactions.
ReadFile(r) ==
  /\ up
  /\ req[r].at = "read"
  /\ req[r].file \in files
  /\ req' = [req EXCEPT ![r].answer = @ \cup req[r].slice,
                        ![r].at = IF req[r].term \in Id THEN "answered" ELSE "range"]
  /\ UNCHANGED nodeVars

\* One file that is missing, or half written, fails the whole answer.
ReadMissing(r) ==
  /\ up
  /\ req[r].at = "read"
  /\ req[r].file \notin files
  /\ req' = [req EXCEPT ![r].at = "failed"]
  /\ UNCHANGED nodeVars

\* A /search request is answered, a block is refused.
Reply(r) ==
  /\ up
  /\ req[r].at \in {"answered", "failed"}
  /\ req' = [req EXCEPT ![r] = Idle]
  /\ UNCHANGED nodeVars

\* Faulty variant: the previous hash is not compared again.
CanClaimLater(r) == claim = NoBlock

\* SetPrevBlockHashAsClaimed
CanClaim(r) == claim = NoBlock /\ prev = req[r].prevRead

\* The users have enough coin: the block is signed. A balance that could not
\* be read counts as 0.
Sign(r) ==
  /\ up
  /\ r \in Signer
  /\ req[r].at \in {"answered", "failed"}
  /\ CanClaim(r)
  /\ claim' = Signed
  /\ req' = [req EXCEPT ![r] = Idle]
  /\ UNCHANGED <<up, handedVars, writerVars, index, prev>>

-----------------------------------------------------------------------------
Init ==
  /\ up = TRUE
  /\ handed = 0
  /\ holds = [b \in Block |-> <<>>]
  /\ dropped = {}
  /\ writing = NoBlock
  /\ writerAt = "idle"
  /\ place = 1
  /\ files = {}
  /\ index = [t \in Term |-> {}]
  /\ prev = NoBlock
  /\ claim = NoBlock
  /\ req = [r \in Reader |-> Idle]

Hand == (\E c \in Content : HandAccepted(c) \/ HandDropped(c)) \/ ClaimTimeout

Writer == Receive \/ Enter \/ Save \/ Advance \/ Release

Handle(r) ==
  \/ \E t \in Term : Ask(r, t)
  \/ FindNothing(r) \/ FindById(r) \/ FindMap(r)
  \/ RangeNext(r) \/ RangeEnd(r) \/ RaceNoticed(r)
  \/ ReadFile(r) \/ ReadMissing(r)
  \/ Reply(r) \/ Sign(r)

Next == Hand \/ Writer \/ \E r \in Reader : Handle(r)

Spec == Init /\ [][Next]_vars

-----------------------------------------------------------------------------
(* Properties *)

TypeOK ==
  /\ up \in BOOLEAN
  /\ handed \in 0..MaxBlocks
  /\ holds \in [Block -> Seq(Term)]
  /\ dropped \subseteq 1..handed
  /\ writing \in 0..handed
  /\ writerAt \in WriterPlaces
  /\ place \in Nat \ {0}
  /\ writerAt = "enter" => writing # NoBlock /\ place <= Len(holds[writing]) + 1
  /\ files \subseteq Block
  /\ index \in [Term -> SUBSET Entry]
  /\ prev \in Block \cup {NoBlock}
  /\ claim \in Block \cup {NoBlock, Signed}
  /\ req \in [Reader -> Request \cup {Idle}]

\* The index runs ahead of the files by the block being entered and no more:
\* every other entry points to a transaction with that term in a file.
IndexOneAhead ==
  \A t \in Term : \A e \in index[t] :
    /\ e[2] \in DOMAIN holds[e[1]] /\ holds[e[1]][e[2]] = t
    /\ e[1] \in files \/ (e[1] = writing /\ writerAt = "enter")

\* A search that succeeds gives transactions of files with that term only, and
\* all of them that were in a file when it began, although it goes over a map
\* that is being written. An ID has one place, and a search finds it there.
AnswersAreComplete ==
  \A r \in Reader : req[r].at = "answered" =>
    /\ req[r].answer \subseteq Occurrences(req[r].term, files)
    /\ IF req[r].term \in Id THEN req[r].answer # {} ELSE req[r].before \subseteq req[r].answer

\* A search for what was in a file when it began fails only on the newest
\* block, while that block is entered and not saved.
FailsOnNewestOnly ==
  [][\A r \in Reader : req[r].at # "failed" /\ req'[r].at = "failed" =>
       req[r].before = {} \/ (req[r].file = writing /\ writerAt = "enter")]_vars

\* A signature is given on the balance of the chain the block extends: the
\* transactions counted, dropped ones aside, are those of the accepted blocks
\* up to the previous hash, although they are read without a lock between the
\* comparison of that hash and the claim.
Counted(entries) == {e \in entries : e[1] \notin dropped}

SignedOnParentChain ==
  [][\A r \in Signer : req[r].at = "answered" /\ claim # Signed /\ claim' = Signed /\ req'[r] # req[r] =>
       Counted(req[r].answer) = Counted(Occurrences(req[r].term, 1..prev))]_vars
=============================================================================
