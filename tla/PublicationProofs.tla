------------------------ MODULE PublicationProofs ---------------------------
(***************************************************************************)
(* Publication delivers every commit exactly once and in order, and        *)
(* implements PublicationFeed, for every number of handlers and commits.   *)
(***************************************************************************)
EXTENDS PublicationSteps

(* The other steps of a delivery loop append nothing and commit nothing.   *)
LEMMA LoopStep ==
    ASSUME PublishInv, TypeOK', OnePublisher', NEW p \in Publishers,
           UNCHANGED <<repoRoot, repoSeq>>, Pending' \subseteq Pending,
           Publishing(p) \/ publishLock = NoOne, NoOne \notin Publishers,
           NEW label, Goto(p, label),
           FloorsSound', ListSound(p)', CurrentSound(p)',
           AcknowledgedIsDurable', WatermarkIsPublished'
    PROVE  PublishInv'
  <1>1. LogOrdered'
    BY Zenon DEF PublishInv, LogOrdered, InCommitOrder, Sequenced, AfterLog
  <1>2. ASSUME NEW q \in Publishers, pc'[q] \in LoopPcs
        PROVE  q = p
    BY Zenon, <1>2 DEF PublishInv, OnePublisher, Publishing, Goto, TypeOK, Procs,
       LoopPcs, PublishPcs
  <1>3. PublisherSound'
    BY Zenon, <1>2 DEF PublisherSound
  <1> QED
    BY Zenon, <1>1, <1>3 DEF PublishInv

(* Reading the pending intents: what is read is sound.                     *)
LEMMA LoadStep ==
    ASSUME Drains = {}, PublishInv, TypeOK', OnePublisher', NEW p \in Publishers,
           LoadPending(p)
    PROVE  PublishInv'
  <1>ty. TypeOK
    BY Zenon DEF PublishInv
  <1>fl. FloorsSound
    BY Zenon DEF PublishInv
  <1>lo. LogOrdered
    BY Zenon DEF PublishInv
  <1>ak. AcknowledgedIsDurable
    BY Zenon DEF PublishInv
  <1>wm. WatermarkIsPublished
    BY Zenon DEF PublishInv
  <1>f. p \in Procs /\ local[p] \in Frames
    BY Zenon, <1>ty DEF TypeOK, Procs
  <1>a. /\ UNCHANGED <<repoRoot, intentState, seqFloor, intentSeq, repoSeq, maxRev>>
        /\ Goto(p, "next") /\ publishLock = NoOne
        /\ local' = [local EXCEPT ![p].todo = Pending, ![p].loaded = seqFloor]
    BY Zenon DEF LoadPending, LockedForPublishing, databases, store, journal
  <1>l. local'[p].todo = Pending /\ local'[p].loaded = seqFloor /\ pc'[p] = "next"
    BY Zenon, <1>ty, <1>a, <1>f DEF TypeOK, Frames, Goto
  <1>1. Pending' = Pending /\ Pending \subseteq Intents
    BY Zenon, <1>a DEF Pending
  <1>2. FloorsSound' /\ AcknowledgedIsDurable' /\ WatermarkIsPublished'
    BY Zenon, <1>fl, <1>ak, <1>wm, <1>a DEF FloorsSound, FloorCovers,
       AcknowledgedIsDurable, WatermarkIsPublished, Sequenced
  <1>3. ListSound(p)'
    <2>1. \A i \in Pending : intentState'[i] # "none"
      BY Zenon, <1>a DEF Pending
    <2> QED
      BY ZenonT(40), <1>fl, <1>lo, <1>a, <1>l, <1>1, <2>1 DEF ListSound, FloorsSound,
         FloorCovers, LogOrdered, AfterLog, Sequenced
  <1>4. CurrentSound(p)'
    BY Zenon, <1>l DEF CurrentSound
  <1> QED
    BY Zenon, <1>a, <1>1, <1>2, <1>3, <1>4, LoopStep, ServerPublishers

(* Taking the oldest intent, with or without a floor.                      *)
LEMMA NextStep ==
    ASSUME Drains = {}, PublishInv, TypeOK', OnePublisher', NEW p \in Publishers,
           NextIntent(p)
    PROVE  PublishInv'
  <1>ty. TypeOK
    BY Zenon DEF PublishInv
  <1>fl. FloorsSound
    BY Zenon DEF PublishInv
  <1>ps. PublisherSound
    BY Zenon DEF PublishInv
  <1>ak. AcknowledgedIsDurable
    BY Zenon DEF PublishInv
  <1>wm. WatermarkIsPublished
    BY Zenon DEF PublishInv
  <1>f. p \in Procs /\ local[p] \in Frames /\ local[p].todo \subseteq Intents
    BY Zenon, <1>ty DEF TypeOK, Procs, Frames
  <1>a. /\ UNCHANGED <<repoRoot, intentState, seqFloor, intentSeq, repoSeq, maxRev>>
        /\ pc[p] = "next"
    BY Zenon DEF NextIntent, databases, store, journal
  <1>b. PICK i \in local[p].todo :
           /\ Oldest(i, local[p].todo)
           /\ local' = [local EXCEPT ![p].cur = i, ![p].floor = local[p].loaded[i]]
           /\ Goto(p, IF local[p].loaded[i] = NoFloor THEN "head" ELSE "search")
    BY ZenonT(40) DEF NextIntent
  <1>l. /\ local'[p].todo = local[p].todo /\ local'[p].loaded = local[p].loaded
        /\ local'[p].cur = i /\ local'[p].floor = local[p].loaded[i]
        /\ pc'[p] = IF local[p].loaded[i] = NoFloor THEN "head" ELSE "search"
    BY Zenon, <1>ty, <1>b, <1>f DEF TypeOK, Frames, Goto
  <1>c. ListSound(p)
    BY Zenon, <1>ps, <1>a DEF PublisherSound, LoopPcs
  <1>1. Pending' = Pending
    BY Zenon, <1>a DEF Pending
  <1>2. FloorsSound' /\ AcknowledgedIsDurable' /\ WatermarkIsPublished'
    BY Zenon, <1>fl, <1>ak, <1>wm, <1>a DEF FloorsSound, FloorCovers,
       AcknowledgedIsDurable, WatermarkIsPublished, Sequenced
  <1>3. ListSound(p)'
    BY Zenon, <1>a, <1>c, <1>l, <1>1 DEF ListSound, FloorCovers, AfterLog, Sequenced
  <1>4. FloorCovers(local[p].loaded[i], i) /\ i \in Intents
    BY Zenon, <1>a, <1>c, <1>f DEF ListSound
  <1>5. CurrentSound(p)'
    <2>1. CASE local[p].loaded[i] = NoFloor
      BY ZenonT(40), <1>a, <1>b, <1>l, <1>4, <2>1 DEF CurrentSound, FloorCovers,
         Sequenced
    <2>2. CASE local[p].loaded[i] # NoFloor
      <3>1. seqFloor[i] # NoFloor
        BY Zenon, <1>c, <1>4, <2>2 DEF ListSound
      <3> QED
        BY ZenonT(40), <1>a, <1>b, <1>l, <1>4, <2>2, <3>1 DEF CurrentSound, FloorCovers
    <2> QED
      BY Zenon, <2>1, <2>2
  <1>6. Publishing(p)
    BY Zenon, <1>a DEF Publishing, PublishPcs
  <1> QED
    BY Zenon, <1>a, <1>b, <1>1, <1>2, <1>3, <1>5, <1>6, LoopStep, ServerPublishers

(* The head read before the insert is a floor.                             *)
LEMMA HeadStep ==
    ASSUME Drains = {}, PublishInv, TypeOK', OnePublisher', NEW p \in Publishers,
           ReadHead(p)
    PROVE  PublishInv'
  <1>ty. TypeOK
    BY Zenon DEF PublishInv
  <1>fl. FloorsSound
    BY Zenon DEF PublishInv
  <1>ps. PublisherSound
    BY Zenon DEF PublishInv
  <1>ak. AcknowledgedIsDurable
    BY Zenon DEF PublishInv
  <1>wm. WatermarkIsPublished
    BY Zenon DEF PublishInv
  <1>f. p \in Procs /\ local[p] \in Frames /\ Len(repoSeq) \in Nat
    BY <1>ty DEF TypeOK, Procs
  <1>a. /\ UNCHANGED <<repoRoot, intentState, seqFloor, intentSeq, repoSeq, maxRev>>
        /\ pc[p] = "head" /\ Goto(p, "floor")
        /\ local' = [local EXCEPT ![p].floor = Len(repoSeq)]
    BY Zenon DEF ReadHead, databases, store, journal
  <1>l. /\ local'[p].todo = local[p].todo /\ local'[p].loaded = local[p].loaded
        /\ local'[p].cur = local[p].cur /\ local'[p].floor = Len(repoSeq)
        /\ pc'[p] = "floor"
    BY Zenon, <1>ty, <1>a, <1>f DEF TypeOK, Frames, Goto
  <1>c. ListSound(p) /\ CurrentSound(p)
    BY Zenon, <1>ps, <1>a DEF PublisherSound, LoopPcs
  <1>1. Pending' = Pending
    BY Zenon, <1>a DEF Pending
  <1>2. FloorsSound' /\ AcknowledgedIsDurable' /\ WatermarkIsPublished'
    BY Zenon, <1>fl, <1>ak, <1>wm, <1>a DEF FloorsSound, FloorCovers,
       AcknowledgedIsDurable, WatermarkIsPublished, Sequenced
  <1>3. ListSound(p)'
    BY Zenon, <1>a, <1>c, <1>l, <1>1 DEF ListSound, FloorCovers, AfterLog, Sequenced
  <1>4. CurrentSound(p)'
    BY <1>a, <1>c, <1>f, <1>l DEF CurrentSound, Sequenced, NoFloor
  <1>5. Publishing(p)
    BY Zenon, <1>a DEF Publishing, PublishPcs
  <1> QED
    BY Zenon, <1>a, <1>1, <1>2, <1>3, <1>4, <1>5, LoopStep, ServerPublishers

(* The floor is durable before the row can exist.                          *)
LEMMA FloorStep ==
    ASSUME Drains = {}, PublishInv, TypeOK', OnePublisher', NEW p \in Publishers,
           RecordFloor(p)
    PROVE  PublishInv'
  <1>ty. TypeOK
    BY Zenon DEF PublishInv
  <1>fl. FloorsSound
    BY Zenon DEF PublishInv
  <1>ps. PublisherSound
    BY Zenon DEF PublishInv
  <1>ak. AcknowledgedIsDurable
    BY Zenon DEF PublishInv
  <1>wm. WatermarkIsPublished
    BY Zenon DEF PublishInv
  <1> DEFINE c == local[p].cur
  <1>f. p \in Procs /\ local[p] \in Frames /\ c \in Intents
    BY Zenon, <1>ty DEF TypeOK, Procs, Frames
  <1>a. /\ UNCHANGED <<repoRoot, intentState, intentSeq, repoSeq, maxRev, local>>
        /\ seqFloor' = [seqFloor EXCEPT ![c] = IF @ = NoFloor THEN local[p].floor ELSE @]
        /\ pc[p] = "floor" /\ Goto(p, "search") /\ pc'[p] = "search"
    BY Zenon, <1>ty, <1>f DEF RecordFloor, journal, Goto, TypeOK
  <1>c. ListSound(p) /\ CurrentSound(p)
    BY Zenon, <1>ps, <1>a DEF PublisherSound, LoopPcs
  <1>d. /\ ~Sequenced(c) /\ local[p].floor # NoFloor /\ local[p].floor <= Len(repoSeq)
        /\ c \in local[p].todo /\ Oldest(c, local[p].todo)
    BY Zenon, <1>a, <1>c DEF CurrentSound
  <1>1. Pending' = Pending
    BY Zenon, <1>a DEF Pending
  <1>2. FloorsSound'
    BY Zenon, <1>fl, <1>ty, <1>a, <1>d, <1>f DEF FloorsSound, FloorCovers, Sequenced,
       TypeOK
  <1>3. AcknowledgedIsDurable' /\ WatermarkIsPublished'
    BY Zenon, <1>ak, <1>wm, <1>a DEF AcknowledgedIsDurable, WatermarkIsPublished,
       Sequenced
  <1>4. /\ seqFloor'[c] # NoFloor
        /\ \A i \in Intents : seqFloor[i] # NoFloor => seqFloor'[i] # NoFloor
    BY Zenon, <1>ty, <1>a, <1>d, <1>f DEF TypeOK
  <1>5. ListSound(p)'
    BY Zenon, <1>a, <1>c, <1>1, <1>4 DEF ListSound, FloorCovers, AfterLog, Sequenced
  <1>6. CurrentSound(p)'
    BY Zenon, <1>a, <1>d, <1>4 DEF CurrentSound, FloorCovers, Sequenced
  <1>7. Publishing(p)
    BY Zenon, <1>a DEF Publishing, PublishPcs
  <1> QED
    BY Zenon, <1>a, <1>1, <1>2, <1>3, <1>5, <1>6, <1>7, LoopStep, ServerPublishers

(* The search finds the row an earlier attempt inserted, if there is one.  *)
LEMMA FindStep ==
    ASSUME Drains = {}, PublishInv, TypeOK', OnePublisher', NEW p \in Publishers,
           FindRow(p)
    PROVE  PublishInv'
  <1>ty. TypeOK
    BY Zenon DEF PublishInv
  <1>fl. FloorsSound
    BY Zenon DEF PublishInv
  <1>ps. PublisherSound
    BY Zenon DEF PublishInv
  <1>ak. AcknowledgedIsDurable
    BY Zenon DEF PublishInv
  <1>wm. WatermarkIsPublished
    BY Zenon DEF PublishInv
  <1> DEFINE c == local[p].cur
  <1>f. p \in Procs /\ local[p] \in Frames /\ c \in Intents
    BY Zenon, <1>ty DEF TypeOK, Procs, Frames
  <1>a. /\ UNCHANGED <<repoRoot, intentState, seqFloor, intentSeq, repoSeq, maxRev>>
        /\ pc[p] = "search"
    BY Zenon DEF FindRow, databases, store, journal
  <1>c. ListSound(p) /\ CurrentSound(p)
    BY Zenon, <1>ps, <1>a DEF PublisherSound, LoopPcs
  <1>d. /\ FloorCovers(local[p].floor, c) /\ seqFloor[c] # NoFloor
        /\ c \in local[p].todo /\ Oldest(c, local[p].todo)
    BY Zenon, <1>a, <1>c DEF CurrentSound
  <1>h. Hits(p) = {k \in 1 .. Len(repoSeq) : k > local[p].floor /\ repoSeq[k] = c}
    <2>1. \A k \in 1 .. Len(repoSeq) : RowMatches(repoSeq[k], c) <=> repoSeq[k] = c
      BY <1>ty, <1>f, MatchIsEqual DEF TypeOK
    <2> QED
      BY Zenon, <2>1 DEF Hits
  <1>1. Pending' = Pending
    BY Zenon, <1>a DEF Pending
  <1>2. FloorsSound' /\ AcknowledgedIsDurable' /\ WatermarkIsPublished'
    BY Zenon, <1>fl, <1>ak, <1>wm, <1>a DEF FloorsSound, FloorCovers,
       AcknowledgedIsDurable, WatermarkIsPublished, Sequenced
  <1>3. Publishing(p)
    BY Zenon, <1>a DEF Publishing, PublishPcs
  <1>4. CASE Hits(p) = {} /\ Goto(p, "insert") /\ UNCHANGED local
    <2>1. pc'[p] = "insert"
      BY Zenon, <1>ty, <1>f, <1>4 DEF Goto, TypeOK
    <2>2. ~Sequenced(c)
      <3>1. local[p].floor \in Floors
        BY Zenon, <1>ty DEF TypeOK, Frames, Procs
      <3> QED
        BY Zenon, <1>4, <1>d, <1>h, <3>1 DEF FloorCovers, Sequenced, Floors
    <2>3. ListSound(p)'
      BY Zenon, <1>a, <1>c, <1>1, <1>4, <2>1 DEF ListSound, FloorCovers, AfterLog,
         Sequenced
    <2>4. CurrentSound(p)'
      BY Zenon, <1>a, <1>d, <1>4, <2>1, <2>2 DEF CurrentSound, Sequenced
    <2> QED
      BY Zenon, <1>a, <1>1, <1>2, <1>3, <1>4, <2>3, <2>4, LoopStep, ServerPublishers
  <1>5. ASSUME NEW k \in Hits(p), local' = [local EXCEPT ![p].seq = k], Goto(p, "ack")
        PROVE  PublishInv'
    <2>1. /\ local'[p].todo = local[p].todo /\ local'[p].loaded = local[p].loaded
          /\ local'[p].cur = c /\ local'[p].seq = k /\ pc'[p] = "ack"
      BY Zenon, <1>ty, <1>5, <1>f DEF TypeOK, Frames, Goto
    <2>2. k \in 1 .. Len(repoSeq) /\ repoSeq[k] = c
      BY Zenon, <1>5, <1>h
    <2>3. ListSound(p)'
      BY Zenon, <1>a, <1>c, <1>1, <2>1 DEF ListSound, FloorCovers, AfterLog, Sequenced
    <2>4. CurrentSound(p)'
      BY Zenon, <1>a, <1>d, <2>1, <2>2 DEF CurrentSound
    <2> QED
      BY Zenon, <1>a, <1>1, <1>2, <1>3, <1>5, <2>3, <2>4, LoopStep, ServerPublishers
  <1> QED
    BY Zenon, <1>4, <1>5 DEF FindRow

(* Acknowledging names the row that carries the intent.                    *)
LEMMA AckStep ==
    ASSUME Drains = {}, PublishInv, TypeOK', OnePublisher', NEW p \in Publishers,
           Acknowledge(p)
    PROVE  PublishInv'
  <1>ty. TypeOK
    BY Zenon DEF PublishInv
  <1>fl. FloorsSound
    BY Zenon DEF PublishInv
  <1>ps. PublisherSound
    BY Zenon DEF PublishInv
  <1>ak. AcknowledgedIsDurable
    BY Zenon DEF PublishInv
  <1>wm. WatermarkIsPublished
    BY Zenon DEF PublishInv
  <1> DEFINE c == local[p].cur
             label == IF c[2] = "append" THEN "record" ELSE "next"
  <1>f. p \in Procs /\ local[p] \in Frames /\ c \in Intents
    BY Zenon, <1>ty DEF TypeOK, Procs, Frames
  <1>a. /\ UNCHANGED <<repoRoot, seqFloor, repoSeq, maxRev>>
        /\ intentState' = [intentState EXCEPT ![c] = "delivered"]
        /\ intentSeq' = [intentSeq EXCEPT ![c] = local[p].seq]
        /\ local' = [local EXCEPT ![p].todo = @ \ {c}]
        /\ pc[p] = "ack" /\ Goto(p, label)
    BY Zenon DEF Acknowledge, journal
  <1>l. /\ local'[p].todo = local[p].todo \ {c} /\ local'[p].loaded = local[p].loaded
        /\ local'[p].cur = c /\ pc'[p] = label
    BY Zenon, <1>ty, <1>a, <1>f DEF TypeOK, Frames, Goto
  <1>c. ListSound(p) /\ CurrentSound(p)
    BY Zenon, <1>ps, <1>a DEF PublisherSound, LoopPcs
  <1>d. local[p].seq \in 1 .. Len(repoSeq) /\ repoSeq[local[p].seq] = c
    BY Zenon, <1>a, <1>c DEF CurrentSound
  <1>1. Pending' \subseteq Pending \ {c}
    BY Zenon, <1>ty, <1>a, <1>f DEF Pending, TypeOK
  <1>2. FloorsSound'
    BY Zenon, <1>fl, <1>a DEF FloorsSound, FloorCovers
  <1>3. AcknowledgedIsDurable'
    BY Zenon, <1>ak, <1>ty, <1>a, <1>d, <1>f DEF AcknowledgedIsDurable, TypeOK
  <1>4. WatermarkIsPublished'
    BY Zenon, <1>wm, <1>a DEF WatermarkIsPublished, Sequenced
  <1>5. ListSound(p)'
    <2>1. \A i \in local'[p].todo : intentState'[i] # "none"
      BY Zenon, <1>ty, <1>a, <1>c, <1>l, <1>f DEF ListSound, TypeOK, Frames
    <2> QED
      BY <1>a, <1>c, <1>l, <1>1, <2>1 DEF ListSound, FloorCovers, AfterLog, Sequenced
  <1>6. CurrentSound(p)'
    BY Zenon, <1>a, <1>d, <1>l DEF CurrentSound, Sequenced
  <1>7. Publishing(p)
    BY Zenon, <1>a DEF Publishing, PublishPcs
  <1> QED
    BY Zenon, <1>a, <1>1, <1>2, <1>3, <1>4, <1>5, <1>6, <1>7, LoopStep, ServerPublishers

(* The watermark follows a row that exists.                                *)
LEMMA RecordStep ==
    ASSUME Drains = {}, PublishInv, TypeOK', OnePublisher', NEW p \in Publishers,
           RecordPublication(p)
    PROVE  PublishInv'
  <1>ty. TypeOK
    BY Zenon DEF PublishInv
  <1>fl. FloorsSound
    BY Zenon DEF PublishInv
  <1>ps. PublisherSound
    BY Zenon DEF PublishInv
  <1>ak. AcknowledgedIsDurable
    BY Zenon DEF PublishInv
  <1>wm. WatermarkIsPublished
    BY Zenon DEF PublishInv
  <1> DEFINE c == local[p].cur
  <1>f. p \in Procs /\ local[p] \in Frames /\ c \in Intents
    BY Zenon, <1>ty DEF TypeOK, Procs, Frames
  <1>a. /\ UNCHANGED <<repoRoot, intentState, seqFloor, intentSeq, repoSeq, local>>
        /\ maxRev' = IF c[1] > maxRev THEN c[1] ELSE maxRev
        /\ pc[p] = "record" /\ Goto(p, "next") /\ pc'[p] = "next"
    BY Zenon, <1>ty, <1>f DEF RecordPublication, store, Goto, TypeOK
  <1>c. ListSound(p) /\ CurrentSound(p)
    BY Zenon, <1>ps, <1>a DEF PublisherSound, LoopPcs
  <1>d. Sequenced(<<c[1], "append">>)
    <2>1. c = <<c[1], "append">>
      BY Zenon, <1>a, <1>c, <1>f, IntentForm DEF CurrentSound
    <2> QED
      BY Zenon, <1>a, <1>c, <2>1 DEF CurrentSound
  <1>1. Pending' = Pending
    BY Zenon, <1>a DEF Pending
  <1>2. FloorsSound' /\ AcknowledgedIsDurable'
    BY Zenon, <1>fl, <1>ak, <1>a DEF FloorsSound, FloorCovers, AcknowledgedIsDurable
  <1>3. WatermarkIsPublished'
    BY Zenon, <1>wm, <1>a, <1>d DEF WatermarkIsPublished, Sequenced
  <1>4. ListSound(p)'
    BY Zenon, <1>a, <1>c, <1>1 DEF ListSound, FloorCovers, AfterLog, Sequenced
  <1>5. CurrentSound(p)'
    BY Zenon, <1>a DEF CurrentSound
  <1>6. Publishing(p)
    BY Zenon, <1>a DEF Publishing, PublishPcs
  <1> QED
    BY Zenon, <1>a, <1>1, <1>2, <1>3, <1>4, <1>5, <1>6, LoopStep, ServerPublishers

(* The invariant holds when the server first starts.                       *)
LEMMA InvInit ==
    ASSUME Init
    PROVE  PublishInv
  <1>1. Len(repoSeq) = 0 /\ \A i : ~Sequenced(i)
    BY DEF Init, Sequenced
  <1>2. Pending = {} /\ \A p \in Publishers : pc[p] = "idle"
    BY Zenon DEF Init, Pending, Procs
  <1>3. TypeOK
    BY Zenon, InitType
  <1>4. OnePublisher /\ PublisherSound
    BY Zenon, <1>2 DEF OnePublisher, Publishing, PublishPcs, PublisherSound, LoopPcs
  <1>5. FloorsSound /\ LogOrdered
    BY <1>1, <1>2 DEF FloorsSound, FloorCovers, LogOrdered, InCommitOrder, Init,
                      EmptyFloors, NoFloor
  <1>6. AcknowledgedIsDurable /\ WatermarkIsPublished
    BY SMTT(30) DEF Init, AcknowledgedIsDurable, WatermarkIsPublished
  <1> QED
    BY Zenon, <1>3, <1>4, <1>5, <1>6 DEF PublishInv

(* The steps of no delivery loop.                                          *)
LEMMA QuietSteps ==
    ASSUME Drains = {}, PublishInv, TypeOK', OnePublisher',
           \/ \E h \in Handlers : Transact(h) \/ MarkPendingWork(h)
           \/ \E p \in Publishers :
                 AllDelivered(p) \/ ReadRoot(p) \/ WriteRoot(p) \/ SettleIntents(p)
                    \/ SettleBlobs(p) \/ ClearPendingWork(p)
           \/ \E w \in Workers : WorkBlobs(w)
           \/ \E p \in Procs : Fail(p)
           \/ Crash \/ Restart \/ UNCHANGED vars
    PROVE  PublishInv'
  <1> USE ServerPublishers DEF databases, store, journal, Goto
  <1> DEFINE Unmoved == \A q \in Publishers :
                           pc'[q] \in LoopPcs => pc'[q] = pc[q] /\ local'[q] = local[q]
             Kept == UNCHANGED <<repoRoot, intentState, seqFloor, intentSeq, repoSeq, maxRev>>
  <1> SUFFICES Unmoved /\ Kept
    BY Zenon, QuietStep
  <1>t. pc \in [Procs -> Labels] /\ local \in [Procs -> Frames]
    BY Zenon DEF PublishInv, TypeOK
  <1>1. ASSUME NEW h \in Handlers, Transact(h) \/ MarkPendingWork(h)
        PROVE  Unmoved /\ Kept
    BY Zenon, <1>1, <1>t DEF Transact, MarkPendingWork, LoopPcs
  <1>2. ASSUME NEW p \in Publishers, Return(p) PROVE Unmoved
    BY Zenon, <1>2, <1>t, ActorsAssumption DEF Return, Release, LoopPcs
  <1>3. ASSUME NEW p \in Publishers,
               AllDelivered(p) \/ ReadRoot(p) \/ WriteRoot(p) \/ SettleIntents(p)
                  \/ SettleBlobs(p) \/ ClearPendingWork(p)
        PROVE  Unmoved /\ Kept
    <2>1. Kept
      BY Zenon, <1>3 DEF AllDelivered, ReadRoot, WriteRoot, SettleIntents, SettleBlobs,
         ClearPendingWork
    <2>2. \/ Return(p)
          \/ /\ \E label \in Labels \ LoopPcs : pc' = [pc EXCEPT ![p] = label]
             /\ \A q \in Procs \ {p} : local'[q] = local[q]
      BY Zenon, <1>3, <1>t DEF AllDelivered, ReadRoot, WriteRoot, SettleIntents,
         SettleBlobs, ClearPendingWork, Continue, LoopPcs, Labels, PublishPcs
    <2> QED
      BY Zenon, <1>2, <1>t, <2>1, <2>2
  <1>4. ASSUME NEW w \in Workers, WorkBlobs(w) PROVE Unmoved /\ Kept
    BY Zenon, <1>4, <1>t DEF WorkBlobs, ReadBlobWork, FinishBlobWork,
       SettleAfterBlobWork
  <1>5. ASSUME NEW p \in Procs, Fail(p) PROVE Unmoved /\ Kept
    BY Zenon, <1>5, <1>t DEF Fail, Release, Ended, LoopPcs
  <1>6. CASE Crash
    BY Zenon, <1>6, <1>t DEF Crash, LoopPcs
  <1>7. CASE Restart
    BY Zenon, <1>7, <1>t DEF Restart, LoopPcs
  <1>8. CASE UNCHANGED vars
    BY Zenon, <1>8 DEF vars
  <1> QED
    BY Zenon, <1>1, <1>3, <1>4, <1>5, <1>6, <1>7, <1>8

(* Every step keeps the invariant.                                         *)
LEMMA InvNext ==
    ASSUME Drains = {}, PublishInv, [Next]_vars
    PROVE  PublishInv'
  <1>1. TypeOK'
    BY Zenon, WriteType, PublishType, BlobType, EnvironmentType, StutterType DEF Next,
       PublishInv
  <1>2. OnePublisher'
    BY Zenon, LockStep DEF PublishInv
  <1>3. ASSUME NEW h \in Handlers, Transact(h) \/ Write(h) PROVE PublishInv'
    BY Zenon, <1>1, <1>2, <1>3, QuietSteps, CommitStep, ImportStep DEF Write
  <1>4. ASSUME NEW p \in Publishers, Publish(p) PROVE PublishInv'
    BY Zenon, <1>1, <1>2, <1>4, QuietSteps, LoadStep, NextStep, HeadStep, FloorStep,
       FindStep, InsertStep, AckStep, RecordStep DEF Publish
  <1> QED
    BY Zenon, <1>1, <1>2, <1>3, <1>4, QuietSteps, OtherStep DEF Next

(* Strict commit order leaves no commit two rows.                          *)
LEMMA OrderImpliesOnce == InCommitOrder /\ TypeOK => ExactlyOneRow
  <1> SUFFICES ASSUME InCommitOrder, TypeOK,
                      NEW k \in 1 .. Len(repoSeq), NEW l \in 1 .. Len(repoSeq),
                      repoSeq[k] = repoSeq[l], repoSeq[k] # Other
               PROVE  k = l
    BY Zenon DEF ExactlyOneRow
  <1>1. repoSeq[k] \in Intents
    BY DEF TypeOK, Rows
  <1>2. ~(k < l) /\ ~(l < k)
    BY Zenon, <1>1, BeforeOrder DEF InCommitOrder
  <1> QED
    BY <1>2

(* While only the server publishes, whatever crashes, failures and races   *)
(* between its requests: no commit has two rows, rows are in commit order, *)
(* an acknowledged intent has its row, floors lie below rows and the       *)
(* watermark is published, for any number of requests and commits.         *)
THEOREM PublishedExactlyOnce ==
    ASSUME Drains = {}
    PROVE  Spec => [](/\ ExactlyOneRow /\ InCommitOrder /\ AcknowledgedIsDurable
                      /\ WatermarkIsPublished /\ FloorBelowRow)
  <1>1. Init => PublishInv
    BY Zenon, InvInit
  <1>2. PublishInv /\ [Next]_vars => PublishInv'
    BY Zenon, InvNext
  <1>3. PublishInv => FloorBelowRow
    BY Zenon DEF PublishInv, FloorsSound, FloorCovers, FloorBelowRow
  <1>4. PublishInv => /\ ExactlyOneRow /\ InCommitOrder /\ AcknowledgedIsDurable
                      /\ WatermarkIsPublished /\ FloorBelowRow
    BY Zenon, <1>3, OrderImpliesOnce DEF PublishInv, LogOrdered
  <1> QED
    BY <1>1, <1>2, <1>4, PTL DEF Spec

----------------------------------------------------------------------------
(* The mechanism implements the feed it promises.                          *)

Committed == {i \in Intents : intentState[i] # "none"}

(* Every step but an insertion leaves the log alone and loses no commit.   *)
LEMMA FeedStutters ==
    ASSUME PublishInv, [Next]_vars, repoSeq' = repoSeq
    PROVE  Committed' \in SUBSET Intents /\ Committed \subseteq Committed'
  <1> USE DEF databases, store, journal, Committed
  <1>t. intentState \in [Intents -> States]
    BY Zenon DEF PublishInv, TypeOK
  <1> SUFFICES ASSUME NEW i \in Intents, intentState[i] # "none"
               PROVE  intentState'[i] # "none"
    BY Zenon
  <1>1. ASSUME NEW h \in Handlers, Transact(h) \/ Write(h)
        PROVE  intentState'[i] # "none"
    BY Zenon, <1>1 DEF Transact, Write, MarkPendingWork, CommitWrite, ImportRepo
  <1>2. ASSUME NEW p \in Publishers, Publish(p)
        PROVE  intentState'[i] # "none"
    <2>1. CASE Acknowledge(p)
      BY Zenon, <1>t, <2>1 DEF Acknowledge
    <2>2. CASE ~Acknowledge(p)
      BY Zenon, <1>2, <2>2 DEF Publish, LoadPending, NextIntent, AllDelivered, ReadHead,
         RecordFloor, FindRow, InsertRow, RecordPublication, ReadRoot, WriteRoot,
         SettleIntents, SettleBlobs, ClearPendingWork
    <2> QED
      BY Zenon, <2>1, <2>2
  <1>3. ASSUME NEW w \in Workers, WorkBlobs(w)
        PROVE  intentState'[i] # "none"
    BY Zenon, <1>3 DEF WorkBlobs, ReadBlobWork, FinishBlobWork, SettleAfterBlobWork
  <1>4. ASSUME \/ \E p \in Procs : Fail(p)
               \/ \E d \in Drains : StartDrain(d)
               \/ OtherEvent \/ Crash \/ Restart \/ UNCHANGED vars
        PROVE  intentState'[i] # "none"
    BY Zenon, <1>4 DEF Fail, StartDrain, OtherEvent, Crash, Restart, vars
  <1> QED
    BY Zenon, <1>1, <1>2, <1>3, <1>4 DEF Next

(* The insertion of a row is a delivery of the feed.                       *)
LEMMA FeedDelivers ==
    ASSUME PublishInv, NEW p \in Publishers, InsertRow(p)
    PROVE  /\ local[p].cur \in Committed /\ Committed' = Committed
           /\ repoSeq' = Append(repoSeq, local[p].cur)
           /\ \A k \in 1 .. Len(repoSeq) :
                 repoSeq[k] \in Intents => Before(repoSeq[k], local[p].cur)
  <1>1. ListSound(p) /\ CurrentSound(p) /\ pc[p] = "insert"
    BY Zenon DEF PublishInv, PublisherSound, InsertRow, LoopPcs
  <1>2. local[p].cur \in local[p].todo /\ local[p].todo \subseteq Intents
    <2>1. local[p].cur \in local[p].todo
      BY <1>1, Zenon DEF CurrentSound
    <2>2. local[p] \in Frames
      BY Zenon DEF PublishInv, TypeOK, Procs
    <2>3. local[p].todo \subseteq Intents
      BY <2>2, Zenon DEF Frames
    <2> QED
      BY Zenon, <2>1, <2>3
  <1>3. AfterLog(local[p].cur)
    BY Zenon, <1>1, <1>2 DEF CurrentSound, ListSound
  <1>4. local[p].cur \in Committed
    BY Zenon, <1>1, <1>2 DEF ListSound, Committed
  <1> QED
    BY Zenon, <1>3, <1>4 DEF InsertRow, store, Committed, AfterLog, Sequenced

(* Publication implements PublicationFeed: only committed events enter the *)
(* log, each once and in commit order, for any number of requests.         *)
THEOREM FeedImplemented ==
    ASSUME Drains = {}
    PROVE  Spec => FeedRefined
  <1>1. Init => Feed!FeedInit
    BY Zenon DEF Init, Feed!FeedInit
  <1>2. PublishInv /\ [Next]_vars => [Feed!FeedNext]_(Feed!feed)
    <2> SUFFICES ASSUME PublishInv, [Next]_vars
                 PROVE  Feed!FeedNext
      BY Zenon
    <2>1. CASE repoSeq' = repoSeq
      BY Zenon, <2>1, FeedStutters DEF Feed!FeedNext, Feed!Commit, Committed
    <2>2. ASSUME NEW p \in Publishers, InsertRow(p)
          PROVE  Feed!FeedNext
      <3>1. local[p].cur \in Intents
        BY Zenon DEF PublishInv, TypeOK, Frames, Procs
      <3>2. Feed!Deliver(local[p].cur)
        BY Zenon, <2>2, FeedDelivers DEF Feed!Deliver, Committed
      <3> QED
        BY Zenon, <3>1, <3>2 DEF Feed!FeedNext
    <2>3. CASE OtherEvent
      BY Zenon, <2>3 DEF OtherEvent, store, Feed!FeedNext, Feed!DeliverOther
    <2>4. \/ repoSeq' = repoSeq \/ OtherEvent \/ \E p \in Publishers : InsertRow(p)
      <3> USE DEF databases, store, journal
      <3>1. ASSUME NEW h \in Handlers, Transact(h) \/ Write(h) PROVE repoSeq' = repoSeq
        BY Zenon, <3>1 DEF Transact, Write, MarkPendingWork, CommitWrite, ImportRepo,
           CommitRoot
      <3>2. ASSUME NEW p \in Publishers, Publish(p), ~InsertRow(p)
            PROVE  repoSeq' = repoSeq
        BY Zenon, <3>2 DEF Publish, LoadPending, NextIntent, AllDelivered, ReadHead,
           RecordFloor, FindRow, Acknowledge, RecordPublication, ReadRoot, WriteRoot,
           SettleIntents, SettleBlobs, ClearPendingWork
      <3>3. ASSUME NEW w \in Workers, WorkBlobs(w) PROVE repoSeq' = repoSeq
        BY Zenon, <3>3 DEF WorkBlobs, ReadBlobWork, FinishBlobWork, SettleAfterBlobWork
      <3>4. ASSUME \/ \E p \in Procs : Fail(p)
                   \/ \E d \in Drains : StartDrain(d)
                   \/ Crash \/ Restart \/ UNCHANGED vars
            PROVE  repoSeq' = repoSeq
        BY Zenon, <3>4 DEF Fail, StartDrain, Crash, Restart, vars
      <3> QED
        BY Zenon, <3>1, <3>2, <3>3, <3>4 DEF Next
    <2> QED
      BY Zenon, <2>1, <2>2, <2>3, <2>4
  <1>3. Init => PublishInv
    BY Zenon, InvInit
  <1>4. PublishInv /\ [Next]_vars => PublishInv'
    BY Zenon, InvNext
  <1> QED
    BY <1>1, <1>2, <1>3, <1>4, PTL DEF Spec, FeedRefined, Feed!FeedSpec

(* No publisher of the server ever inserts a later intent's row before an  *)
(* earlier one's, also when it works on a list read before a crash or      *)
(* beside another request (publish_pending).                               *)
THEOREM RowsInCommitOrder ==
    ASSUME Drains = {}
    PROVE  Spec => []InCommitOrder
  BY PublishedExactlyOnce, PTL

(* An intent acknowledged as published names a row of the sequencer that   *)
(* carries it (record_published after the row is found or inserted).       *)
THEOREM AcknowledgedStays ==
    ASSUME Drains = {}
    PROVE  Spec => []AcknowledgedIsDurable
  BY PublishedExactlyOnce, PTL

(* The journaled watermark names a published revision, so a restored       *)
(* backup can be compared with it (record_publication).                    *)
THEOREM WatermarkStays ==
    ASSUME Drains = {}
    PROVE  Spec => []WatermarkIsPublished
  BY PublishedExactlyOnce, PTL

(* The floor from which a restarted publisher looks for its own row lies   *)
(* below that row (record_floor before the insertion).                     *)
THEOREM FloorStaysBelow ==
    ASSUME Drains = {}
    PROVE  Spec => []FloorBelowRow
  BY PublishedExactlyOnce, PTL

=============================================================================
