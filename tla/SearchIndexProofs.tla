------------------------- MODULE SearchIndexProofs -------------------------
(***************************************************************************)
(* Proofs about SearchIndex, for any terms, blocks and number of requests. *)
(*                                                                         *)
(*   - IndexInv: the index has every entry of the blocks in files, those   *)
(*     of the block at hand up to the place of the writer, and no other;   *)
(*   - ClaimInv: an accepted block above the previous hash has the claim;  *)
(*   - Good: what a request holds in its local variables was right when it *)
(*     was read and stays so, since a block does not change any more and   *)
(*     files are not removed.                                              *)
(***************************************************************************)
EXTENDS SearchIndex, TLAPS

\* The types, with the places where the writer has a block.
TypeInv == TypeOK /\ (writerAt # "idle" => writing # NoBlock)

\* The entry e stands for an occurrence of t.
Stands(t, e) == e[2] \in DOMAIN holds[e[1]] /\ holds[e[1]][e[2]] = t

\* The block is in a file, or the writer is entering it.
Known(b) == b \in files \/ (b = writing /\ writerAt = "enter")

\* The writer has come past this entry.
Done(e) == e[1] \in files \/ (e[1] = writing /\ writerAt = "enter" /\ e[2] < place)

IndexInv ==
  /\ files = IF writerAt = "enter" THEN 1..(writing - 1) ELSE 1..writing
  /\ \A t \in Term : \A e \in index[t] : Stands(t, e) /\ Known(e[1])
  /\ \A t \in Term : \A e \in Entry :
       Stands(t, e) /\ Done(e) => index[t] # {} /\ (t \in Word => e \in index[t])

ClaimInv ==
  /\ \A b \in 1..handed : b \notin dropped /\ b > prev => claim = b
  /\ prev \in files \cup {NoBlock}
  /\ writerAt \in {"advance", "release"} => writing \notin dropped /\ claim = writing
  /\ writerAt = "release" => prev = writing

\* What the local variables of a request say is so.
Good(q) ==
  /\ \A e \in q.before \cup q.answer : e[1] \in files /\ Stands(q.term, e)
  /\ q.prevRead <= writing
  /\ \A e \in Entry : e[1] <= q.prevRead /\ Stands(q.term, e) => e \in q.before
  /\ q.at = "read" =>
       /\ Known(q.file)
       /\ \A e \in q.slice : e[1] = q.file /\ Stands(q.term, e)
       /\ q.term \in Id => q.slice # {}
  /\ q.at = "find" => q.seen = {}
  /\ q.term \in Word /\ q.at \in {"range", "read", "answered"} =>
       \A e \in q.before : e[1] \in q.first
  /\ q.term \in Word /\ q.at # "failed" =>
       \A e \in q.before : e[1] \in q.seen => e \in q.answer \/ (q.at = "read" /\ e \in q.slice)
  /\ q.at = "range" => q.term \in Word
  /\ q.at = "answered" => IF q.term \in Id THEN q.answer # {} ELSE q.before \subseteq q.answer

RequestInv ==
  \A r \in Reader : req[r] # Idle =>
    Good(req[r]) /\ (r \in Signer => req[r].term \in Word)

Inv == TypeInv /\ IndexInv /\ ClaimInv /\ RequestInv

-----------------------------------------------------------------------------
(* Lemmas *)

LEMMA EntryIs == \A e \in Entry : e[1] \in Block /\ e[2] \in Nat \ {0} /\ e = <<e[1], e[2]>>
BY DEF Entry

\* The occurrences of a term are the entries that stand for it.
LEMMA OccurrencesAre ==
  ASSUME holds \in [Block -> Seq(Term)], NEW t, NEW B \in SUBSET Block
  PROVE  \A e : e \in Occurrences(t, B) <=> e \in Entry /\ e[1] \in B /\ Stands(t, e)
<1>1. \A b \in Block : DOMAIN holds[b] = 1..Len(holds[b]) /\ Len(holds[b]) \in Nat
  OBVIOUS
<1>2. ASSUME NEW e, e \in Occurrences(t, B)
      PROVE  e \in Entry /\ e[1] \in B /\ Stands(t, e)
  <2>1. PICK b \in B : e \in {b} \X Places(t, b)
    BY <1>2 DEF Occurrences
  <2>2. PICK i \in Places(t, b) : e = <<b, i>>
    BY <2>1
  <2> QED BY <1>1, <2>2 DEF Places, Entry, Stands
<1>3. ASSUME NEW e, e \in Entry, e[1] \in B, Stands(t, e)
      PROVE  e \in Occurrences(t, B)
  <2>1. e = <<e[1], e[2]>>
    BY <1>3, EntryIs
  <2>2. e[2] \in Places(t, e[1])
    BY <1>3 DEF Places, Stands
  <2>3. e \in {e[1]} \X Places(t, e[1])
    BY <2>1, <2>2
  <2> QED BY <1>3, <2>3 DEF Occurrences
<1> QED BY <1>2, <1>3

\* A running request has all its fields.
LEMMA Running ==
  ASSUME TypeOK, NEW r \in Reader, req[r].at # "idle"
  PROVE  req[r] \in Request /\ req[r] # Idle
BY DEF TypeOK, Idle

LEMMA RequestIsNotIdle == \A q \in Request : q # Idle /\ q.at # "idle"
<1>1. \A q \in Request : q.at # "idle"
  BY DEF Request
<1>2. Idle.at = "idle"
  BY DEF Idle
<1> QED BY <1>1, <1>2

-----------------------------------------------------------------------------
(* Types *)

LEMMA TypeInit == Init => TypeInv
BY SearchIndexAssumption DEF Init, TypeInv, TypeOK, WriterPlaces, Block, NoBlock, Idle

\* The writer, and what is handed to it.
LEMMA TypeNode ==
  ASSUME TypeInv, Hand \/ Writer
  PROVE  TypeInv' /\ UNCHANGED req
<1> USE SearchIndexAssumption DEF TypeInv, TypeOK, Block, NoBlock, Signed, WriterPlaces, handedVars,
        writerVars, hashVars
<1>1. ASSUME NEW c \in Content, HandAccepted(c)
      PROVE  TypeInv' /\ UNCHANGED req
  <2>1. c \in Seq(Term)
    OBVIOUS
  <2> QED BY <1>1, <2>1 DEF HandAccepted
<1>2. ASSUME NEW c \in Content, HandDropped(c)
      PROVE  TypeInv' /\ UNCHANGED req
  <2>1. c \in Seq(Term)
    OBVIOUS
  <2> QED BY <1>2, <2>1 DEF HandDropped
<1>3. CASE ClaimTimeout
  BY <1>3 DEF ClaimTimeout
<1>4. CASE Receive
  <2>1. holds[writing + 1] \in Seq(Term)
    BY <1>4 DEF Receive
  <2> QED BY <1>4, <2>1 DEF Receive
<1>5. CASE Enter
  <2>1. /\ writing \in Block /\ holds[writing] \in Seq(Term)
        /\ holds[writing][place] \in Term
    BY <1>5 DEF Enter, ToEnter
  <2>2. Entered(holds[writing][place], <<writing, place>>) \in SUBSET Entry
    BY <2>1 DEF Entered, Entry
  <2>3. index' \in [Term -> SUBSET Entry]
    BY <1>5, <2>1, <2>2 DEF Enter
  <2>4. /\ place' \in Nat \ {0}
        /\ place' <= Len(holds[writing]) + 1
    BY <1>5, <2>1 DEF Enter, ToEnter
  <2> QED BY <1>5, <2>3, <2>4 DEF Enter
<1>6. CASE Save
  BY <1>6 DEF Save, Saved
<1>7. CASE Advance
  BY <1>7 DEF Advance
<1>8. CASE Release
  BY <1>8 DEF Release
<1> QED BY <1>1, <1>2, <1>3, <1>4, <1>5, <1>6, <1>7, <1>8 DEF Hand, Writer

\* What a request may change of the rest: a claim, or the process ends.
LEMMA HandleLeaves ==
  ASSUME TypeInv, NEW r \in Reader, Handle(r)
  PROVE  /\ UNCHANGED <<handedVars, writerVars, index, prev>>
         /\ up' \in BOOLEAN
         /\ claim' # claim => r \in Signer /\ Sign(r)
         /\ \A s \in Reader : s # r => req'[s] = req[s]
<1> USE DEF TypeInv, TypeOK, nodeVars, handedVars, writerVars, hashVars
<1>1. ASSUME NEW t \in Term, Ask(r, t)
      PROVE  UNCHANGED nodeVars /\ \A s \in Reader : s # r => req'[s] = req[s]
  BY <1>1 DEF Ask
<1>2. CASE FindNothing(r) BY <1>2 DEF FindNothing
<1>3. CASE FindById(r) BY <1>3 DEF FindById
<1>4. CASE FindMap(r) BY <1>4 DEF FindMap
<1>5. CASE RangeNext(r) BY <1>5 DEF RangeNext
<1>6. CASE RangeEnd(r) BY <1>6 DEF RangeEnd
<1>7. CASE RaceNoticed(r) BY <1>7 DEF RaceNoticed
<1>8. CASE ReadFile(r) BY <1>8 DEF ReadFile
<1>9. CASE ReadMissing(r) BY <1>9 DEF ReadMissing
<1>10. CASE Reply(r) BY <1>10 DEF Reply
<1>11. CASE Sign(r) BY <1>11 DEF Sign
<1> QED BY <1>1, <1>2, <1>3, <1>4, <1>5, <1>6, <1>7, <1>8, <1>9, <1>10, <1>11 DEF Handle

\* One step of a request keeps the types of its variables.
LEMMA TypeHandle ==
  ASSUME TypeInv, NEW r \in Reader, Handle(r)
  PROVE  TypeInv'
<1>15. claim' \in Block \cup {NoBlock, Signed}
  BY HandleLeaves DEF Sign, TypeInv, TypeOK
<1>14. SUFFICES req' \in [Reader -> Request \cup {Idle}]
  BY <1>15, HandleLeaves DEF TypeInv, TypeOK, handedVars, writerVars
<1> DEFINE q == req[r]
<1>0. req \in [Reader -> Request \cup {Idle}] /\ index \in [Term -> SUBSET Entry] /\ files \subseteq Block
      /\ prev \in Block \cup {NoBlock} /\ holds \in [Block -> Seq(Term)]
  BY DEF TypeInv, TypeOK
<1>1. ASSUME NEW t \in Term, Ask(r, t)
      PROVE  req' \in [Reader -> Request \cup {Idle}]
  <2>1. Occurrences(t, files) \subseteq Entry
    BY <1>0, OccurrencesAre
  <2> QED BY <1>0, <1>1, <2>1 DEF Ask, Request, NoBlock
<1>2. q.at # "idle" => q \in Request
  BY <1>0 DEF Idle
<1>3. q.at # "idle" => q.term \in Term /\ q.slice \subseteq Entry /\ q.answer \subseteq Entry
  BY <1>2 DEF Request
<1>4. CASE FindNothing(r)
  BY <1>0, <1>2, <1>4 DEF FindNothing, Request
<1>5. CASE FindById(r)
  <2>1. PICK e \in index[q.term] :
          req' = [req EXCEPT ![r].at = "read", ![r].file = e[1], ![r].slice = {e}]
    BY <1>5 DEF FindById
  <2>2. e \in Entry /\ e[1] \in Block
    BY <1>0, <1>3, <1>5, EntryIs DEF FindById
  <2> QED BY ZenonT(30), <1>0, <1>2, <1>5, <2>1, <2>2 DEF FindById, Request
<1>6. CASE FindMap(r)
  <2>1. index[q.term] \subseteq Entry
    BY <1>0, <1>3, <1>6 DEF FindMap
  <2>2. FilesOf(index[q.term]) \subseteq Block
    BY <2>1, EntryIs DEF FilesOf
  <2> QED BY <1>0, <1>2, <1>6, <2>2 DEF FindMap, Request
<1>7. CASE RangeNext(r)
  <2>1. index[q.term] \subseteq Entry
    BY <1>0, <1>3, <1>7 DEF RangeNext
  <2>2. FilesOf(index[q.term]) \subseteq Block
    BY <2>1, EntryIs DEF FilesOf
  <2>3. \A b : In(index[q.term], b) \subseteq Entry
    BY <2>1 DEF In
  <2> QED BY <1>0, <1>2, <1>7, <2>2, <2>3 DEF RangeNext, Request
<1>8. CASE RangeEnd(r)
  BY <1>0, <1>2, <1>8 DEF RangeEnd, Request
<1>9. CASE RaceNoticed(r)
  BY <1>0, <1>9 DEF RaceNoticed
<1>10. CASE ReadFile(r)
  BY <1>0, <1>2, <1>10 DEF ReadFile, Request
<1>11. CASE ReadMissing(r)
  BY <1>0, <1>2, <1>11 DEF ReadMissing, Request
<1>12. CASE Reply(r)
  BY <1>0, <1>12 DEF Reply
<1>13. CASE Sign(r)
  BY <1>0, <1>13 DEF Sign
<1> QED BY <1>1, <1>4, <1>5, <1>6, <1>7, <1>8, <1>9, <1>10, <1>11, <1>12, <1>13 DEF Handle

-----------------------------------------------------------------------------
(* The index *)

LEMMA IndexInit == Init => IndexInv
BY SearchIndexAssumption DEF Init, IndexInv, Block, NoBlock, Stands, Done

\* A new block is above all blocks that are known: nothing changes for these.
LEMMA HandKeeps ==
  ASSUME TypeInv, Hand
  PROVE  /\ UNCHANGED <<writerVars, index, prev, req>>
         /\ handed' \in Nat /\ handed <= handed'
         /\ dropped \subseteq dropped' /\ dropped' \subseteq dropped \cup {handed + 1}
         /\ \A b \in 1..handed : holds'[b] = holds[b]
BY SMTT(30), SearchIndexAssumption
   DEF Hand, HandAccepted, HandDropped, ClaimTimeout, TypeInv, TypeOK, Block, writerVars, hashVars, handedVars

LEMMA IndexHand ==
  ASSUME TypeInv, IndexInv, Hand
  PROVE  IndexInv'
<1>1. /\ UNCHANGED <<writing, writerAt, place, files, index>>
      /\ \A b \in 1..handed : holds'[b] = holds[b]
  BY HandKeeps DEF writerVars
<1>2. writing \in 0..handed /\ handed \in Nat
  BY DEF TypeInv, TypeOK
<1>3. files \subseteq 1..handed
  BY <1>2 DEF IndexInv
<1>4. \A e \in Entry : e[1] \in files \cup {writing} => e[1] \in 1..handed
  BY <1>2, <1>3, EntryIs, SearchIndexAssumption DEF Block
<1>5. \A t, e : e[1] \in 1..handed => (Stands(t, e)' <=> Stands(t, e))
  BY <1>1 DEF Stands
<1>6. \A t \in Term : index[t] \subseteq Entry
  BY DEF TypeInv, TypeOK
<1>7. \A b : Known(b)' <=> Known(b)
  BY <1>1 DEF Known
<1>8. \A e : Done(e)' <=> Done(e)
  BY <1>1 DEF Done
<1>9. \A t \in Term : \A e \in index'[t] : Stands(t, e)' /\ Known(e[1])'
  BY <1>1, <1>4, <1>5, <1>6, <1>7 DEF IndexInv, Known
<1>10. \A t \in Term : \A e \in Entry :
         Stands(t, e)' /\ Done(e)' => index'[t] # {} /\ (t \in Word => e \in index'[t])
  BY <1>1, <1>4, <1>5, <1>8 DEF IndexInv, Done
<1> QED BY <1>1, <1>9, <1>10 DEF IndexInv

LEMMA IndexWriter ==
  ASSUME TypeInv, IndexInv, Writer
  PROVE  IndexInv'
<1>1. /\ writing \in Nat /\ files \subseteq Block /\ index \in [Term -> SUBSET Entry]
      /\ place \in Nat
      /\ writerAt = "enter" => writing \in Block
  BY SearchIndexAssumption DEF TypeInv, TypeOK, Block, NoBlock
<1>2. UNCHANGED holds
  BY DEF Writer, Receive, Enter, Save, Advance, Release, handedVars
<1>3. \A t, e : Stands(t, e)' <=> Stands(t, e)
  BY <1>2 DEF Stands
<1>4. CASE Receive
  <2>1. /\ writerAt = "idle" /\ writerAt' = "enter" /\ writing' = writing + 1 /\ place' = 1
        /\ UNCHANGED <<files, index>>
    BY <1>4 DEF Receive
  <2>2. files' = 1..(writing' - 1)
    BY <1>1, <2>1 DEF IndexInv
  <2>3. \A b : Known(b) => Known(b)'
    BY <2>1 DEF Known
  <2>4. \A e \in Entry : Done(e)' => Done(e)
    BY <2>1, EntryIs DEF Done
  <2> QED BY <1>3, <2>1, <2>2, <2>3, <2>4 DEF IndexInv
<1>5. CASE Enter
  <2> DEFINE t0 == holds[writing][place]
             e0 == <<writing, place>>
  <2>1. /\ writerAt = "enter" /\ ToEnter /\ place' = place + 1
        /\ index' = [index EXCEPT ![t0] = Entered(t0, e0)]
        /\ UNCHANGED <<files, writing, writerAt>>
    BY <1>5 DEF Enter
  <2>2. holds[writing] \in Seq(Term) /\ place \in DOMAIN holds[writing] /\ t0 \in Term
    BY <1>1, <2>1 DEF TypeInv, TypeOK, ToEnter
  <2>3. Stands(t0, e0) /\ Known(e0[1])
    BY <2>1, <2>2 DEF Stands, Known
  <2>4. \A t \in Term : \A e \in index'[t] : e \in index[t] \/ (t = t0 /\ e = e0)
    BY <1>1, <2>1, <2>2 DEF Entered
  <2>5. \A b : Known(b)' <=> Known(b)
    BY <2>1 DEF Known
  <2>6. \A t \in Term : \A e \in index'[t] : Stands(t, e)' /\ Known(e[1])'
    BY <1>3, <2>3, <2>4, <2>5 DEF IndexInv
  <2>7. ASSUME NEW t \in Term, NEW e \in Entry, Stands(t, e)', Done(e)'
        PROVE  index'[t] # {} /\ (t \in Word => e \in index'[t])
    <3>1. CASE Done(e)
      <4>1. index[t] # {} /\ (t \in Word => e \in index[t])
        BY <1>3, <2>7, <3>1 DEF IndexInv
      <4>2. index'[t] # {}
        BY <1>1, <2>1, <4>1 DEF Entered
      <4>3. t \in Word => t \notin Id
        BY SearchIndexAssumption
      <4> QED BY <1>1, <2>1, <4>1, <4>2, <4>3 DEF Entered
    <3>2. CASE ~Done(e)
      <4>1. e[1] = writing /\ e[2] = place
        BY <1>1, <2>1, <2>7, <3>2, EntryIs DEF Done
      <4>2. e = e0
        BY <4>1, EntryIs
      <4>3. t = t0
        BY <1>3, <2>7, <4>1 DEF Stands
      <4>4. e \in index'[t]
        BY <1>1, <2>1, <2>2, <4>2, <4>3 DEF Entered
      <4> QED BY <4>4
    <3> QED BY <3>1, <3>2
  <2> QED BY <2>1, <2>6, <2>7 DEF IndexInv
<1>6. CASE Save
  <2>1. /\ writerAt = "enter" /\ ~ToEnter /\ files' = files \cup {writing}
        /\ writerAt' \in {"idle", "advance"}
        /\ UNCHANGED <<index, writing, place>>
    BY <1>6 DEF Save, Saved
  <2>2. writing \in Nat \ {0} /\ holds[writing] \in Seq(Term)
    BY <1>1, <2>1, SearchIndexAssumption DEF TypeInv, TypeOK, Block
  <2>3. files' = 1..writing'
    BY <2>1, <2>2 DEF IndexInv
  <2>4. \A b : Known(b) => Known(b)'
    BY <2>1 DEF Known
  <2>5. \A t : \A e \in Entry : Stands(t, e) /\ Done(e)' => Done(e)
    <3>1. \A i \in DOMAIN holds[writing] : i < place
      BY <1>1, <2>1, <2>2 DEF ToEnter
    <3> QED BY <2>1, <3>1, EntryIs DEF Done, Stands
  <2> QED BY <1>3, <2>1, <2>3, <2>4, <2>5 DEF IndexInv
<1>7. CASE Advance \/ Release
  <2>1. /\ writerAt # "enter" /\ writerAt' # "enter"
        /\ UNCHANGED <<index, writing, place, files>>
    BY <1>7 DEF Advance, Release
  <2>2. \A b : Known(b) <=> Known(b)'
    BY <2>1 DEF Known
  <2>3. \A e : Done(e)' <=> Done(e)
    BY <2>1 DEF Done
  <2> QED BY <1>3, <2>1, <2>2, <2>3 DEF IndexInv
<1> QED BY <1>4, <1>5, <1>6, <1>7 DEF Writer

LEMMA IndexHandle ==
  ASSUME TypeInv, IndexInv, NEW r \in Reader, Handle(r)
  PROVE  IndexInv'
BY HandleLeaves DEF IndexInv, handedVars, writerVars, Stands, Known, Done

-----------------------------------------------------------------------------
(* The claim *)

LEMMA ClaimInit == Init => ClaimInv
BY DEF Init, ClaimInv, NoBlock

LEMMA ClaimNode ==
  ASSUME TypeInv, IndexInv, ClaimInv, Hand \/ Writer
  PROVE  ClaimInv'
<1> USE SearchIndexAssumption DEF TypeInv, TypeOK, ClaimInv, Block, NoBlock, Signed, handedVars, writerVars, hashVars
<1>1. ASSUME NEW c \in Content, HandAccepted(c)
      PROVE  ClaimInv'
  <2>1. \A b \in 1..handed : b \in dropped \/ b <= prev
    BY <1>1 DEF HandAccepted
  <2>2. writerAt # "release"
    BY <1>1 DEF HandAccepted
  <2> QED BY <1>1, <2>1, <2>2 DEF HandAccepted
<1>2. ASSUME NEW c \in Content, HandDropped(c)
      PROVE  ClaimInv'
  BY <1>2 DEF HandDropped
<1>3. CASE ClaimTimeout
  BY <1>3 DEF ClaimTimeout
<1>4. CASE Receive
  BY <1>4 DEF Receive
<1>5. CASE Enter
  BY <1>5 DEF Enter
<1>6. CASE Save
  <2>1. prev < writing /\ writing \in 1..handed
    BY <1>6 DEF Save, IndexInv
  <2>2. writing \notin dropped => claim = writing
    BY <2>1
  <2> QED BY <1>6, <2>2 DEF Save, Saved
<1>7. CASE Advance
  <2>1. prev <= writing /\ writing \in files
    BY <1>7 DEF Advance, IndexInv
  <2> QED BY <1>7, <2>1 DEF Advance
<1>8. CASE Release
  BY <1>8 DEF Release
<1> QED BY <1>1, <1>2, <1>3, <1>4, <1>5, <1>6, <1>7, <1>8 DEF Hand, Writer

LEMMA ClaimHandle ==
  ASSUME TypeInv, ClaimInv, NEW r \in Reader, Handle(r)
  PROVE  ClaimInv'
<1>1. UNCHANGED <<handedVars, writerVars, index, prev>>
  BY HandleLeaves
<1>2. CASE claim' = claim
  BY <1>1, <1>2 DEF ClaimInv, handedVars, writerVars
<1>3. CASE claim' # claim
  <2>1. claim = NoBlock
    BY <1>3, HandleLeaves DEF Sign, CanClaim
  <2>2. \A b \in 1..handed : b \in dropped \/ ~(b > prev)
    BY <2>1 DEF ClaimInv, NoBlock
  <2>3. writerAt \notin {"advance", "release"}
    BY <2>1 DEF ClaimInv, TypeInv
  <2> QED BY <1>1, <2>2, <2>3 DEF ClaimInv, handedVars, writerVars
<1> QED BY <1>2, <1>3

-----------------------------------------------------------------------------
(* The requests *)

LEMMA RequestInit == Init => RequestInv
BY DEF Init, RequestInv

\* What is known stays known, whatever the writer does.
LEMMA NodeKeeps ==
  ASSUME TypeInv, IndexInv, Hand \/ Writer
  PROVE  /\ files \subseteq files'
         /\ writing \in Nat /\ writing' \in Nat /\ writing <= writing'
         /\ \A b : Known(b) => Known(b)'
         /\ \A t, e : e[1] \in 1..writing => (Stands(t, e)' <=> Stands(t, e))
<1>1. CASE Hand
  <2>1. writing \in Nat /\ 1..writing \subseteq 1..handed
    BY DEF TypeInv, TypeOK
  <2> QED BY <1>1, <2>1, HandKeeps DEF writerVars, Known, Stands
<1>2. CASE Writer
  <2>1. UNCHANGED holds
    BY <1>2 DEF Writer, Receive, Enter, Save, Advance, Release, handedVars
  <2>2. writing \in Nat
    BY DEF TypeInv, TypeOK
  <2>3. /\ files \subseteq files'
        /\ writing' \in {writing, writing + 1}
        /\ writerAt = "enter" => writing' = writing /\ (writerAt' = "enter" \/ writing \in files')
    BY <1>2 DEF Writer, Receive, Enter, Save, Saved, Advance, Release
  <2> QED BY <2>1, <2>2, <2>3 DEF Known, Stands
<1> QED BY <1>1, <1>2

LEMMA RequestNode ==
  ASSUME TypeInv, IndexInv, RequestInv, Hand \/ Writer
  PROVE  RequestInv'
<1>1. UNCHANGED req
  BY TypeNode
<1>2. ASSUME NEW q, q \in Request, Good(q)
      PROVE  Good(q)'
  <2>4. /\ files \subseteq files'
        /\ writing \in Nat /\ writing' \in Nat /\ writing <= writing'
        /\ \A b : Known(b) => Known(b)'
        /\ \A t, e : e[1] \in 1..writing => (Stands(t, e)' <=> Stands(t, e))
    BY NodeKeeps
  <2>5. /\ files \subseteq 1..writing
        /\ \A b \in Block : Known(b) => b \in 1..writing
    BY <2>4, SearchIndexAssumption DEF IndexInv, Known, Block
  <2>6. /\ q.prevRead \in Nat /\ q.slice \subseteq Entry
        /\ q.before \subseteq Entry /\ q.answer \subseteq Entry
    BY <1>2, SearchIndexAssumption DEF Request, Block, NoBlock
  <2>7. \A e \in q.before \cup q.answer : e[1] \in files' /\ Stands(q.term, e)'
    BY <1>2, <2>4, <2>5 DEF Good
  <2>8. q.prevRead <= writing'
    BY <1>2, <2>4, <2>6 DEF Good
  <2>9. ASSUME NEW e \in Entry, e[1] <= q.prevRead, Stands(q.term, e)'
        PROVE  e \in q.before
    <3>1. e[1] \in 1..writing
      BY <1>2, <2>4, <2>6, <2>9, EntryIs, SearchIndexAssumption DEF Good, Block
    <3> QED BY <1>2, <2>4, <2>9, <3>1 DEF Good
  <2>10. ASSUME q.at = "read"
         PROVE  /\ Known(q.file)'
                /\ \A e \in q.slice : e[1] = q.file /\ Stands(q.term, e)'
                /\ q.term \in Id => q.slice # {}
    <3>1. /\ Known(q.file)
          /\ \A e \in q.slice : e[1] = q.file /\ Stands(q.term, e)
          /\ q.term \in Id => q.slice # {}
      BY <1>2, <2>10 DEF Good
    <3>2. \A e \in q.slice : e[1] \in 1..writing
      BY <2>5, <2>6, <3>1, EntryIs
    <3> QED BY <2>4, <3>1, <3>2
  <2> QED BY <1>2, <2>7, <2>8, <2>9, <2>10 DEF Good
<1>3. \A r \in Reader : req'[r] = req[r] /\ (req[r] # Idle => req[r] \in Request /\ Good(req[r]))
  BY <1>1 DEF RequestInv, TypeInv, TypeOK
<1>4. ASSUME NEW r \in Reader, req[r] # Idle
      PROVE  Good(req[r])'
  <2>1. PICK q : q = req[r]
    OBVIOUS
  <2>2. Good(q)' /\ q = req'[r]
    BY <1>2, <1>3, <1>4, <2>1
  <2> QED BY <2>2 DEF Good, Known, Stands
<1> QED BY <1>1, <1>3, <1>4 DEF RequestInv

-----------------------------------------------------------------------------
(* A step of a request *)

LEMMA RequestHandle ==
  ASSUME Inv, NEW r \in Reader, Handle(r)
  PROVE  RequestInv'
<1>1. /\ UNCHANGED <<handedVars, writerVars, index, prev>>
      /\ \A s \in Reader : s # r => req'[s] = req[s]
  BY HandleLeaves DEF Inv
<1>2. UNCHANGED <<files, holds, writing, writerAt, place, index, prev>>
  BY <1>1 DEF handedVars, writerVars
<1>3. \A p : Good(p) => \A s : p = req'[s] => Good(req[s])'
  BY <1>2 DEF Good, Known, Stands
<1> DEFINE q == req[r]
           p == req'[r]
<1>4. SUFFICES p = Idle \/ (Good(p) /\ (r \in Signer => p.term \in Word))
  BY <1>1, <1>3 DEF RequestInv, Inv
<1>5. /\ req \in [Reader -> Request \cup {Idle}] /\ index \in [Term -> SUBSET Entry] /\ files \subseteq Block
      /\ holds \in [Block -> Seq(Term)] /\ writing \in Nat /\ prev \in Nat
  BY SearchIndexAssumption DEF Inv, TypeInv, TypeOK, Block, NoBlock
<1>6. q.at # "idle" => /\ q \in Request /\ Good(q) /\ (r \in Signer => q.term \in Word)
                       /\ q.term \in Term
  BY <1>5 DEF Idle, Inv, RequestInv, Request
<1>7. /\ prev <= writing
      /\ \A b \in Block : b <= prev => b \in files
  BY <1>5, SearchIndexAssumption DEF Inv, ClaimInv, IndexInv, NoBlock, Block
<1>8. Word \cap Id = {}
  BY SearchIndexAssumption
<1>9. ASSUME NEW t \in Term, Ask(r, t)
      PROVE  Good(p) /\ (r \in Signer => p.term \in Word)
  <2>1. p = [at |-> "find", term |-> t, prevRead |-> prev, first |-> {}, seen |-> {},
             file |-> NoBlock, slice |-> {}, answer |-> {}, before |-> Occurrences(t, files)]
    BY <1>5, <1>9 DEF Ask
  <2>2. \A e : e \in Occurrences(t, files) <=> e \in Entry /\ e[1] \in files /\ Stands(t, e)
    BY <1>5, OccurrencesAre
  <2> QED BY <1>7, <1>9, <2>1, <2>2, EntryIs DEF Ask, Good
<1>10. CASE FindNothing(r)
  <2>1. q.at = "find" /\ p = [q EXCEPT !.at = "failed"]
    BY <1>5, <1>10 DEF FindNothing
  <2> QED BY <1>6, <2>1 DEF Good, Request
<1>11. CASE FindById(r)
  <2>1. PICK e \in index[q.term] :
          req' = [req EXCEPT ![r].at = "read", ![r].file = e[1], ![r].slice = {e}]
    BY <1>11 DEF FindById
  <2>2. /\ q.at = "find" /\ q.term \in Id
        /\ p = [q EXCEPT !.at = "read", !.file = e[1], !.slice = {e}]
    BY <1>5, <1>11, <2>1 DEF FindById
  <2>3. Stands(q.term, e) /\ Known(e[1])
    BY <1>6, <2>2 DEF Inv, IndexInv
  <2> QED BY <1>6, <1>8, <2>2, <2>3 DEF Good, Request
<1>12. CASE FindMap(r)
  <2>1. /\ q.at = "find" /\ q.term \in Word
        /\ p = [q EXCEPT !.at = "range", !.first = FilesOf(index[q.term])]
    BY <1>5, <1>12 DEF FindMap
  <2>2. Good(q) /\ q \in Request
    BY <1>6, <2>1
  <2>3. q.before \subseteq index[q.term]
    BY <1>6, <2>1, <2>2 DEF Inv, IndexInv, Good, Done, Request
  <2>4. \A e \in q.before : e[1] \in FilesOf(index[q.term])
    BY <2>3 DEF FilesOf
  <2> QED BY <1>6, <1>8, <2>1, <2>2, <2>4 DEF Good, Request
<1>13. CASE RangeNext(r)
  <2>1. PICK b \in FilesOf(index[q.term]) \ q.seen :
          req' = [req EXCEPT ![r].at = "read", ![r].file = b, ![r].seen = @ \cup {b},
                             ![r].slice = In(index[q.term], b)]
    BY <1>13 DEF RangeNext
  <2>2. /\ q.at = "range"
        /\ p = [q EXCEPT !.at = "read", !.file = b, !.seen = @ \cup {b}, !.slice = In(index[q.term], b)]
    BY <1>5, <1>13, <2>1 DEF RangeNext
  <2>3. Good(q) /\ q \in Request
    BY <1>6, <2>2
  <2>4. q.term \in Word
    BY <2>2, <2>3 DEF Good
  <2>5. q.before \subseteq index[q.term]
    BY <1>6, <2>2, <2>3, <2>4 DEF Inv, IndexInv, Good, Done, Request
  <2>6. Known(b) /\ \A e \in In(index[q.term], b) : e[1] = b /\ Stands(q.term, e)
    BY <1>6, <2>2 DEF Inv, IndexInv, FilesOf, In
  <2>7. \A e \in q.before : e[1] \in q.seen \cup {b} => e \in q.answer \/ e \in In(index[q.term], b)
    BY <2>2, <2>3, <2>4, <2>5 DEF Good, In
  <2> QED BY <1>6, <1>8, <2>2, <2>3, <2>4, <2>6, <2>7 DEF Good, Request
<1>14. CASE RangeEnd(r)
  <2>1. /\ q.at = "range" /\ RangeDone(r)
        /\ p = [q EXCEPT !.at = "answered"]
    BY <1>5, <1>14 DEF RangeEnd
  <2> QED BY <1>6, <1>8, <2>1 DEF Good, Request, RangeDone
<1>15. CASE RaceNoticed(r)
  BY <1>15, <1>6 DEF RaceNoticed
<1>16. CASE ReadFile(r)
  <2>1. /\ q.at = "read" /\ q.file \in files
        /\ p = [q EXCEPT !.answer = @ \cup q.slice, !.at = IF q.term \in Id THEN "answered" ELSE "range"]
    BY <1>5, <1>16 DEF ReadFile
  <2> QED BY <1>6, <1>8, <2>1 DEF Good, Request, Term
<1>17. CASE ReadMissing(r)
  <2>1. q.at = "read" /\ p = [q EXCEPT !.at = "failed"]
    BY <1>5, <1>17 DEF ReadMissing
  <2> QED BY <1>6, <2>1 DEF Good, Request
<1>18. CASE Reply(r) \/ Sign(r)
  BY <1>5, <1>18 DEF Reply, Sign
<1> QED BY <1>9, <1>10, <1>11, <1>12, <1>13, <1>14, <1>15, <1>16, <1>17, <1>18 DEF Handle

-----------------------------------------------------------------------------
(* Theorems *)

LEMMA InvInit == Init => Inv
BY TypeInit, IndexInit, ClaimInit, RequestInit DEF Inv

LEMMA InvNext == Inv /\ [Next]_vars => Inv'
<1> SUFFICES ASSUME Inv, [Next]_vars PROVE Inv'
  OBVIOUS
<1>1. CASE Hand \/ Writer
  BY <1>1, TypeNode, IndexHand, IndexWriter, ClaimNode, RequestNode DEF Inv
<1>2. ASSUME NEW r \in Reader, Handle(r)
      PROVE  Inv'
  BY <1>2, TypeHandle, IndexHandle, ClaimHandle, RequestHandle DEF Inv
<1>3. CASE UNCHANGED vars
  <2>1. /\ UNCHANGED <<up, handed, holds, dropped, writing, writerAt, place, files>>
        /\ UNCHANGED <<index, prev, claim, req>>
    BY <1>3 DEF vars, nodeVars, handedVars, writerVars, hashVars
  <2>2. TypeInv'
    BY <2>1 DEF Inv, TypeInv, TypeOK
  <2>3. \A t, e : Stands(t, e)' <=> Stands(t, e)
    BY <2>1 DEF Stands
  <2>4. \A b : Known(b)' <=> Known(b)
    BY <2>1 DEF Known
  <2>5. IndexInv'
    BY <2>1, <2>3, <2>4 DEF Inv, IndexInv, Done, Known
  <2>6. ClaimInv'
    BY <2>1 DEF Inv, ClaimInv
  <2>7. ASSUME NEW q \in Request, Good(q)
        PROVE  Good(q)'
    BY <2>1, <2>3, <2>4, <2>7 DEF Good
  <2>8. RequestInv'
    BY <2>1, <2>7 DEF Inv, TypeInv, TypeOK, RequestInv
  <2> QED BY <2>2, <2>5, <2>6, <2>8 DEF Inv
<1> QED BY <1>1, <1>2, <1>3 DEF Next

LEMMA InvAlways == Spec => []Inv
BY InvInit, InvNext, PTL DEF Spec

\* Every variable keeps its type: above all an answer never has an entry that
\* is none, and the place of the writer is in the block it enters.
THEOREM SearchTypeCorrect == Spec => []TypeOK
<1>1. Inv => TypeOK
  BY DEF Inv, TypeInv
<1> QED BY <1>1, InvAlways, PTL

\* The index points to nothing but files and the block being entered.
THEOREM IndexIsOneAhead == Spec => []IndexOneAhead
<1>1. Inv => IndexOneAhead
  BY DEF Inv, IndexInv, IndexOneAhead, Stands, Known
<1> QED BY <1>1, InvAlways, PTL

\* A search that succeeds has what was in files when it began, and nothing that
\* is not in a file.
THEOREM AnswersAreAlwaysComplete == Spec => []AnswersAreComplete
<1>1. Inv => AnswersAreComplete
  <2> SUFFICES ASSUME Inv, NEW r \in Reader, req[r].at = "answered"
               PROVE  /\ req[r].answer \subseteq Occurrences(req[r].term, files)
                      /\ IF req[r].term \in Id THEN req[r].answer # {}
                                              ELSE req[r].before \subseteq req[r].answer
    BY DEF AnswersAreComplete
  <2>1. req[r] \in Request /\ Good(req[r])
    BY Running DEF Inv, TypeInv, RequestInv
  <2>2. \A e : e \in Occurrences(req[r].term, files) <=>
                 e \in Entry /\ e[1] \in files /\ Stands(req[r].term, e)
    BY OccurrencesAre DEF Inv, TypeInv, TypeOK
  <2> QED BY <2>1, <2>2 DEF Good, Request
<1> QED BY <1>1, InvAlways, PTL

\* A search for what is in a file fails on the block being entered only.
THEOREM FailsOnlyOnNewest == Spec => FailsOnNewestOnly
<1> DEFINE Newest(r) == req[r].before = {} \/ (req[r].file = writing /\ writerAt = "enter")
<1>1. ASSUME Inv, [Next]_vars, NEW r \in Reader, req[r].at # "failed", req'[r].at = "failed"
      PROVE  Newest(r)
  <2>1. PICK s \in Reader : Handle(s) /\ s = r
    BY <1>1, TypeNode, HandleLeaves DEF Inv, Next, vars
  <2>2. Handle(r)
    BY <2>1
  <2>3. req \in [Reader -> Request \cup {Idle}]
    BY <1>1 DEF Inv, TypeInv, TypeOK
  <2>4. CASE FindNothing(r)
    <3>1. req[r].at = "find" /\ index[req[r].term] = {}
      BY <2>4 DEF FindNothing
    <3>2. req[r] \in Request /\ Good(req[r])
      BY <1>1, <3>1, Running DEF Inv, TypeInv, RequestInv
    <3> QED BY <1>1, <3>1, <3>2 DEF Inv, IndexInv, Good, Done, Request
  <2>5. CASE ReadMissing(r)
    <3>1. req[r].at = "read" /\ req[r].file \notin files
      BY <2>5 DEF ReadMissing
    <3>2. req[r] \in Request /\ Good(req[r])
      BY <1>1, <3>1, Running DEF Inv, TypeInv, RequestInv
    <3> QED BY <3>1, <3>2 DEF Good, Known
  <2>6. FindNothing(r) \/ ReadMissing(r)
    <3>1. ASSUME NEW t \in Term, Ask(r, t)
          PROVE  FALSE
      BY <1>1, <2>3, <3>1 DEF Ask
    <3>2. CASE FindById(r)
      BY <1>1, <2>3, <3>2 DEF FindById
    <3>3. CASE FindMap(r)
      BY <1>1, <2>3, <3>3 DEF FindMap
    <3>4. CASE RangeNext(r)
      BY <1>1, <2>3, <3>4 DEF RangeNext
    <3>5. CASE RangeEnd(r)
      BY <1>1, <2>3, <3>5 DEF RangeEnd
    <3>6. CASE RaceNoticed(r)
      BY <1>1, <3>6 DEF RaceNoticed
    <3>7. CASE ReadFile(r)
      BY <1>1, <2>3, <3>7 DEF ReadFile
    <3>8. CASE Reply(r) \/ Sign(r)
      BY <1>1, <2>3, <3>8 DEF Reply, Sign, Idle
    <3> QED BY <2>2, <3>1, <3>2, <3>3, <3>4, <3>5, <3>6, <3>7, <3>8 DEF Handle
  <2> QED BY <2>4, <2>5, <2>6
<1>2. Inv /\ [Next]_vars =>
        [\A r \in Reader : req[r].at # "failed" /\ req'[r].at = "failed" =>
           req[r].before = {} \/ (req[r].file = writing /\ writerAt = "enter")]_vars
  BY <1>1
<1> QED BY <1>2, InvAlways, PTL DEF Spec, FailsOnNewestOnly

\* A signature is given on the balance of the chain the block extends.
THEOREM SignaturesAreOnParentChain == Spec => SignedOnParentChain
<1>1. ASSUME Inv, [Next]_vars, NEW r \in Signer, req[r].at = "answered", claim # Signed, claim' = Signed,
             req'[r] # req[r]
      PROVE  Counted(req[r].answer) = Counted(Occurrences(req[r].term, 1..prev))
  <2> DEFINE q == req[r]
  <2>1. Sign(r)
    <3>1. r \in Reader
      BY DEF Reader
    <3>2. PICK s \in Reader : Handle(s) /\ s = r
      BY <1>1, <3>1, TypeNode, HandleLeaves DEF Inv, Next, vars
    <3> QED BY <1>1, <3>2, HandleLeaves DEF Inv
  <2>2. claim = NoBlock /\ prev = q.prevRead
    BY <2>1 DEF Sign, CanClaim
  <2>3. q \in Request /\ Good(q) /\ q.term \in Word
    BY <1>1, Running DEF Inv, TypeInv, RequestInv, Reader
  <2>4. q.before \subseteq q.answer /\ q.answer \subseteq Entry
    BY <1>1, <2>3, SearchIndexAssumption DEF Good, Request
  <2>5. prev \in Nat /\ 1..prev \subseteq Block /\ holds \in [Block -> Seq(Term)]
    BY <1>1, SearchIndexAssumption DEF Inv, TypeInv, TypeOK, Block, NoBlock
  <2>6. \A e : e \in Occurrences(q.term, 1..prev) <=>
                 e \in Entry /\ e[1] \in 1..prev /\ Stands(q.term, e)
    BY <2>5, OccurrencesAre
  <2>7. ASSUME NEW e, e \in q.answer, e[1] \notin dropped
        PROVE  e \in Occurrences(q.term, 1..prev)
    <3>1. e \in Entry /\ e[1] \in files /\ Stands(q.term, e)
      BY <2>3, <2>4, <2>7 DEF Good
    <3>2. e[1] \in 1..handed
      BY <1>1, <3>1, EntryIs, SearchIndexAssumption DEF Inv, TypeInv, TypeOK, IndexInv, Block
    <3>3. claim # e[1]
      BY <2>2, <3>2 DEF NoBlock
    <3>4. e[1] \in 1..prev
      BY <1>1, <2>5, <2>7, <3>2, <3>3 DEF Inv, ClaimInv, TypeInv, TypeOK
    <3> QED BY <2>6, <3>1, <3>4
  <2>8. ASSUME NEW e, e \in Occurrences(q.term, 1..prev)
        PROVE  e \in q.answer
    BY <2>2, <2>3, <2>4, <2>5, <2>6, <2>8 DEF Good
  <2> QED BY <2>7, <2>8 DEF Counted
<1>2. Inv /\ [Next]_vars =>
        [\A r \in Signer : req[r].at = "answered" /\ claim # Signed /\ claim' = Signed /\ req'[r] # req[r] =>
           Counted(req[r].answer) = Counted(Occurrences(req[r].term, 1..prev))]_vars
  BY <1>1
<1> QED BY <1>2, InvAlways, PTL DEF Spec, SignedOnParentChain
=============================================================================
