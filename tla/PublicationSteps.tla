------------------------- MODULE PublicationSteps ---------------------------
(***************************************************************************)
(* Publication is type-correct for every number of handlers and commits;   *)
(* the inductive invariant behind exactly-once, in-order publication, and  *)
(* the steps that commit an intent or append a row.                        *)
(***************************************************************************)
EXTENDS Publication, TLAPS

(* An intent is a revision and a kind, and is no event of another actor.   *)
LEMMA IntentForm ==
    ASSUME NEW i \in Intents
    PROVE  /\ i = <<i[1], i[2]>>
           /\ i[1] \in Revs /\ i[1] \in Nat /\ i # Other
           /\ i[2] \in {"append", "sync"}
  BY BoundsAssumption DEF Intents, Revs, Other

(* The frame of a process outside any call.                                *)
LEMMA NoLocalsType == NoLocals \in Frames
  <1>1. Append1 \in Intents /\ EmptyFloors \in [Intents -> Floors]
    BY BoundsAssumption DEF Append1, Intents, Revs, EmptyFloors, Floors
  <1> QED
    BY Zenon, <1>1 DEF NoLocals, Frames, Floors

(* Assigning variables of a stack frame keeps the frames typed.            *)
LEMMA LoadFrame ==
    ASSUME NEW l \in [Procs -> Frames], NEW p \in Procs, NEW T \in SUBSET Intents,
           NEW F \in [Intents -> Floors]
    PROVE  [l EXCEPT ![p].todo = T, ![p].loaded = F] \in [Procs -> Frames]
  BY ZenonT(40) DEF Frames

(* The intent a publisher takes, with its floor.                           *)
LEMMA NextFrame ==
    ASSUME NEW l \in [Procs -> Frames], NEW p \in Procs, NEW i \in Intents, NEW f \in Floors
    PROVE  [l EXCEPT ![p].cur = i, ![p].floor = f] \in [Procs -> Frames]
  BY ZenonT(40) DEF Frames

(* The number of the row it found or inserted.                             *)
LEMMA SeqFrame ==
    ASSUME NEW l \in [Procs -> Frames], NEW p \in Procs, NEW n \in Nat
    PROVE  [l EXCEPT ![p].seq = n] \in [Procs -> Frames]
  BY Zenon DEF Frames

(* What settling read of the blob work.                                    *)
LEMMA BlobFrame ==
    ASSUME NEW l \in [Procs -> Frames], NEW p \in Procs, NEW W \in SUBSET Revs
    PROVE  [l EXCEPT ![p].blobs = W] \in [Procs -> Frames]
  BY Zenon DEF Frames

(* The root sync_account_root read.                                        *)
LEMMA RootFrame ==
    ASSUME NEW l \in [Procs -> Frames], NEW p \in Procs, NEW n \in Nat
    PROVE  [l EXCEPT ![p].root = n] \in [Procs -> Frames]
  BY Zenon DEF Frames

(* The state a server starts in is well typed.                             *)
LEMMA InitType == Init => TypeOK
  <1> SUFFICES ASSUME Init PROVE TypeOK
    BY Zenon
  <1>1. EmptyFloors \in [Intents -> Floors]
    BY Zenon DEF EmptyFloors, Floors
  <1>2. local \in [Procs -> Frames]
    BY Zenon, NoLocalsType DEF Init
  <1>3. pc \in [Procs -> Labels] /\ repoSeq \in Seq(Rows)
    BY DEF Init, Labels
  <1>4. intentState \in [Intents -> States] /\ intentSeq \in [Intents -> Nat]
    BY Zenon DEF Init, States
  <1>5. pendingWork \in BOOLEAN /\ blobWork \in SUBSET Revs
    BY ZenonT(40) DEF Init
  <1>6. repoRoot \in 0 .. MaxRev /\ accountRoot \in Nat /\ maxRev \in Nat
    BY BoundsAssumption DEF Init
  <1> QED
    BY Zenon, <1>1, <1>2, <1>3, <1>4, <1>5, <1>6 DEF Init, TypeOK

(* The steps of a request handler before it publishes.                     *)
LEMMA WriteType ==
    ASSUME TypeOK, NEW h \in Handlers, Transact(h) \/ Write(h)
    PROVE  TypeOK'
  <1> USE DEF TypeOK, databases, store, journal, locks, Goto, Labels, WritePcs
  <1> h \in Procs
    BY Zenon DEF Procs, Publishers
  <1>1. CASE Transact(h)
    BY Zenon, <1>1 DEF Transact
  <1>2. CASE MarkPendingWork(h)
    BY Zenon, <1>2 DEF MarkPendingWork
  <1>3. ASSUME CommitRoot
        PROVE  /\ repoRoot' \in 0 .. MaxRev /\ blobWork' \in SUBSET Revs
               /\ seqFloor' = seqFloor /\ intentSeq' = intentSeq
               /\ maxRev' = maxRev /\ pendingWork' = pendingWork
               /\ accountRoot' = accountRoot /\ repoSeq' = repoSeq
               /\ phase' = phase /\ publishLock' = publishLock /\ local' = local
    <2>1. repoRoot + 1 \in Revs
      BY <1>3, BoundsAssumption DEF CommitRoot, Revs
    <2>2. blobWork' \in SUBSET Revs
      BY Zenon, <1>3, <2>1 DEF CommitRoot
    <2> QED
      BY <1>3, <2>2, BoundsAssumption DEF CommitRoot
  <1>4. CASE CommitWrite(h)
    <2>1. intentState' \in [Intents -> States]
      BY Zenon, <1>4 DEF CommitWrite, States
    <2> QED
      BY Zenon, <1>3, <1>4, <2>1 DEF CommitWrite
  <1>5. CASE ImportRepo(h)
    <2>1. intentState' \in [Intents -> States]
      BY Zenon, <1>5 DEF ImportRepo, States
    <2> QED
      BY Zenon, <1>3, <1>5, <2>1 DEF ImportRepo
  <1> QED
    BY Zenon, <1>1, <1>2, <1>4, <1>5 DEF Write

(* A process that returns, fails or goes on keeps locks and frames typed.  *)
LEMMA ReturnType ==
    ASSUME TypeOK, NEW p \in Publishers, Return(p)
    PROVE  /\ phase' \in {"down", "resuming", "up"}
           /\ didLock' \in Handlers \cup {NoOne}
           /\ publishLock' \in Handlers \cup {Startup, NoOne}
           /\ pc' \in [Procs -> Labels]
           /\ local' \in [Procs -> Frames]
  <1> p \in Procs /\ Worker \in Procs /\ Startup \in Procs
    BY Zenon DEF Procs, Publishers, Workers
  <1>1. local' \in [Procs -> Frames]
    BY Zenon, NoLocalsType DEF TypeOK, Return, Release
  <1>2. pc' \in [Procs -> Labels] /\ phase' \in {"down", "resuming", "up"}
    BY ZenonT(40) DEF TypeOK, Return, Goto, Labels, BlobPcs
  <1> QED
    BY Zenon, <1>1, <1>2 DEF TypeOK, Return, Release

(* The steps of publish_pending.                                           *)
LEMMA PublishType ==
    ASSUME TypeOK, NEW p \in Publishers, Publish(p)
    PROVE  TypeOK'
  <1> USE DEF TypeOK, databases, store, journal, locks, Goto
  <1> p \in Procs
    BY Zenon DEF Procs
  <1>l. local[p] \in Frames /\ local[p].cur \in Intents /\ local[p].floor \in Floors
        /\ local[p].seq \in Nat /\ local[p].root \in Nat
        /\ local[p].todo \in SUBSET Intents /\ local[p].loaded \in [Intents -> Floors]
    BY Zenon DEF Frames
  <1>c. local[p].cur[1] \in Nat
    BY Zenon, <1>l, IntentForm
  <1>s. Len(repoSeq) \in Nat /\ Len(repoSeq) + 1 \in Nat /\ repoRoot \in Nat
    OBVIOUS
  <1>1. CASE LoadPending(p)
    <2>1. Pending \in SUBSET Intents
      BY Zenon DEF Pending
    <2>2. local' \in [Procs -> Frames]
      BY ZenonT(40), <1>1, <2>1, LoadFrame DEF LoadPending
    <2>3. pc' \in [Procs -> Labels]
      BY Zenon, <1>1 DEF LoadPending, Labels, PublishPcs
    <2>4. publishLock' \in Handlers \cup {Startup, NoOne}
      BY Zenon, <1>1 DEF LoadPending, LockedForPublishing, Publishers
    <2> QED
      BY Zenon, <1>1, <2>2, <2>3, <2>4 DEF LoadPending
  <1>2. CASE NextIntent(p)
    <2>1. PICK i \in local[p].todo :
             /\ local' = [local EXCEPT ![p].cur = i, ![p].floor = local[p].loaded[i]]
             /\ pc' = [pc EXCEPT ![p] =
                          IF local[p].loaded[i] = NoFloor THEN "head" ELSE "search"]
      BY ZenonT(40), <1>2 DEF NextIntent
    <2>2. i \in Intents /\ local[p].loaded[i] \in Floors
      BY Zenon, <1>l
    <2>3. local' \in [Procs -> Frames]
      BY ZenonT(40), <2>1, <2>2, NextFrame
    <2>4. pc' \in [Procs -> Labels]
      BY Zenon, <2>1 DEF Labels, PublishPcs
    <2> QED
      BY Zenon, <1>2, <2>3, <2>4 DEF NextIntent
  <1>3. CASE AllDelivered(p)
    <2>1. local' \in [Procs -> Frames]
      BY Zenon, <1>3, NoLocalsType DEF AllDelivered
    <2>2. pc' \in [Procs -> Labels]
      BY Zenon, <1>3 DEF AllDelivered, Labels, PublishPcs
    <2> QED
      BY Zenon, <1>3, <2>1, <2>2 DEF AllDelivered
  <1>4. CASE ReadHead(p)
    <2>1. local' \in [Procs -> Frames]
      BY ZenonT(40), <1>4, <1>s DEF ReadHead, Frames, Floors
    <2>2. pc' \in [Procs -> Labels]
      BY Zenon, <1>4 DEF ReadHead, Labels, PublishPcs
    <2> QED
      BY Zenon, <1>4, <2>1, <2>2 DEF ReadHead
  <1>5. CASE RecordFloor(p)
    <2>1. seqFloor' \in [Intents -> Floors]
      BY Zenon, <1>5, <1>l DEF RecordFloor
    <2>2. pc' \in [Procs -> Labels]
      BY Zenon, <1>5 DEF RecordFloor, Labels, PublishPcs
    <2> QED
      BY Zenon, <1>5, <2>1, <2>2 DEF RecordFloor
  <1>6. CASE FindRow(p)
    <2>1. Hits(p) \subseteq Nat
      BY DEF Hits
    <2>2. local' \in [Procs -> Frames]
      <3>1. CASE local' = local
        BY Zenon, <3>1
      <3>2. ASSUME NEW k \in Hits(p), local' = [local EXCEPT ![p].seq = k]
            PROVE  local' \in [Procs -> Frames]
        BY Zenon, <2>1, <3>2, SeqFrame
      <3> QED
        BY Zenon, <1>6, <3>1, <3>2 DEF FindRow
    <2>3. pc' \in [Procs -> Labels]
      BY Zenon, <1>6 DEF FindRow, Labels, PublishPcs
    <2> QED
      BY Zenon, <1>6, <2>2, <2>3 DEF FindRow
  <1>7. CASE InsertRow(p)
    <2>1. local' \in [Procs -> Frames]
      BY ZenonT(40), <1>7, <1>s, SeqFrame DEF InsertRow
    <2>2. pc' \in [Procs -> Labels]
      BY Zenon, <1>7 DEF InsertRow, Labels, PublishPcs
    <2>3. repoSeq' \in Seq(Rows)
      BY <1>7, <1>l DEF InsertRow, Rows
    <2> QED
      BY Zenon, <1>7, <2>1, <2>2, <2>3 DEF InsertRow
  <1>8. CASE Acknowledge(p)
    <2>1. local' \in [Procs -> Frames]
      BY ZenonT(40), <1>8 DEF Acknowledge, Frames
    <2>2. pc' \in [Procs -> Labels]
      BY Zenon, <1>8 DEF Acknowledge, Labels, PublishPcs
    <2>3. intentState' \in [Intents -> States] /\ intentSeq' \in [Intents -> Nat]
      BY Zenon, <1>8, <1>l DEF Acknowledge, States
    <2> QED
      BY Zenon, <1>8, <2>1, <2>2, <2>3 DEF Acknowledge
  <1>9. CASE RecordPublication(p)
    <2>1. maxRev' \in Nat
      BY Zenon, <1>9, <1>c DEF RecordPublication
    <2>2. pc' \in [Procs -> Labels]
      BY Zenon, <1>9 DEF RecordPublication, Labels, PublishPcs
    <2> QED
      BY Zenon, <1>9, <2>1, <2>2 DEF RecordPublication
  <1>10. ASSUME NEW label \in Labels, Continue(p, label), UNCHANGED databases
         PROVE  TypeOK'
    BY Zenon, <1>10 DEF Continue
  <1>11. ASSUME Return(p), UNCHANGED <<store, maxRev, accountRoot, repoSeq>>,
                pendingWork' \in BOOLEAN
         PROVE  TypeOK'
    BY Zenon, <1>11, ReturnType
  <1>12. CASE ReadRoot(p)
    <2>1. CASE repoRoot = 0 /\ Return(p)
      BY Zenon, <1>11, <1>12, <2>1 DEF ReadRoot
    <2>2. CASE repoRoot > 0 /\ accountRoot = repoRoot /\ Continue(p, "settle")
      BY Zenon, <1>10, <1>12, <2>2 DEF ReadRoot, Labels, PublishPcs
    <2>3. CASE /\ repoRoot > 0 /\ accountRoot # repoRoot
               /\ local' = [local EXCEPT ![p].root = repoRoot]
               /\ Goto(p, "rootWrite")
               /\ UNCHANGED <<phase, locks>>
      <3>1. local' \in [Procs -> Frames]
        BY Zenon, <1>s, <2>3, RootFrame
      <3>2. pc' \in [Procs -> Labels]
        BY Zenon, <2>3 DEF Labels, PublishPcs
      <3> QED
        BY Zenon, <1>12, <2>3, <3>1, <3>2 DEF ReadRoot
    <2> QED
      BY Zenon, <1>12, <2>1, <2>2, <2>3 DEF ReadRoot
  <1>13. CASE WriteRoot(p)
    <2>1. local' \in [Procs -> Frames]
      BY Zenon, <1>13, NoLocalsType DEF WriteRoot
    <2>2. pc' \in [Procs -> Labels]
      BY Zenon, <1>13 DEF WriteRoot, Labels, PublishPcs
    <2> QED
      BY Zenon, <1>13, <1>l, <2>1, <2>2 DEF WriteRoot
  <1>14. CASE SettleIntents(p)
    BY Zenon, <1>10, <1>11, <1>14 DEF SettleIntents, Labels, PublishPcs
  <1>15. CASE SettleBlobs(p)
    BY Zenon, <1>10, <1>11, <1>15 DEF SettleBlobs, Labels, PublishPcs
  <1>16. CASE ClearPendingWork(p)
    BY ZenonT(40), <1>11, <1>16 DEF ClearPendingWork
  <1> QED
    BY Zenon, <1>1, <1>2, <1>3, <1>4, <1>5, <1>6, <1>7, <1>8, <1>9, <1>12, <1>13, <1>14,
       <1>15, <1>16 DEF Publish

(* The steps of run_blob_work and of the settling after it.                *)
LEMMA BlobType ==
    ASSUME TypeOK, NEW w \in Workers, WorkBlobs(w)
    PROVE  TypeOK'
  <1> USE DEF TypeOK, databases, store, journal, locks, Goto
  <1> w \in Procs
    BY Zenon DEF Procs
  <1>1. CASE ReadBlobWork(w)
    <2>1. local' \in [Procs -> Frames]
      BY ZenonT(40), <1>1, BlobFrame DEF ReadBlobWork
    <2>2. pc' \in [Procs -> Labels]
      BY Zenon, <1>1 DEF ReadBlobWork, Labels, BlobPcs
    <2> QED
      BY Zenon, <1>1, <2>1, <2>2 DEF ReadBlobWork
  <1>2. CASE FinishBlobWork(w)
    <2>1. local' \in [Procs -> Frames]
      BY Zenon, <1>2, NoLocalsType DEF FinishBlobWork
    <2>2. pc' \in [Procs -> Labels]
      BY Zenon, <1>2 DEF FinishBlobWork, Labels, BlobPcs
    <2> QED
      BY Zenon, <1>2, <2>1, <2>2 DEF FinishBlobWork
  <1>3. CASE SettleAfterBlobWork(w)
    <2>1. pc' \in [Procs -> Labels]
      BY ZenonT(40), <1>3 DEF SettleAfterBlobWork, Labels, BlobPcs, Ended
    <2>2. pendingWork' \in BOOLEAN
      BY ZenonT(40), <1>3 DEF SettleAfterBlobWork
    <2> QED
      BY Zenon, <1>3, <2>1, <2>2 DEF SettleAfterBlobWork
  <1> QED
    BY Zenon, <1>1, <1>2, <1>3 DEF WorkBlobs

(* Failures, crashes, restarts and the rest of the environment.            *)
LEMMA EnvironmentType ==
    ASSUME TypeOK,
           \/ \E p \in Procs : Fail(p)
           \/ \E d \in Drains : StartDrain(d)
           \/ OtherEvent \/ Crash \/ Restart
    PROVE  TypeOK'
  <1> USE DEF TypeOK, databases, store, journal, locks, Goto
  <1> Startup \in Procs
    BY Zenon DEF Procs, Publishers
  <1>1. ASSUME NEW p \in Procs, Fail(p)
        PROVE  TypeOK'
    <2>1. local' \in [Procs -> Frames]
      BY Zenon, <1>1, NoLocalsType DEF Fail, Release
    <2>2. pc' \in [Procs -> Labels]
      BY Zenon, <1>1 DEF Fail, Labels, Ended
    <2>3. /\ didLock' \in Handlers \cup {NoOne}
          /\ publishLock' \in Handlers \cup {Startup, NoOne}
      BY Zenon, <1>1 DEF Fail, Release
    <2> QED
      BY Zenon, <1>1, <2>1, <2>2, <2>3 DEF Fail
  <1>2. ASSUME NEW d \in Drains, StartDrain(d)
        PROVE  TypeOK'
    BY Zenon, <1>2 DEF StartDrain, Labels, Procs, Workers
  <1>3. CASE OtherEvent
    <2>1. repoSeq' \in Seq(Rows)
      BY <1>3 DEF OtherEvent, Rows
    <2> QED
      BY Zenon, <1>3, <2>1 DEF OtherEvent
  <1>4. CASE Crash
    <2>1. local' \in [Procs -> Frames]
      BY Zenon, <1>4, NoLocalsType DEF Crash
    <2>2. pc' \in [Procs -> Labels]
      BY Zenon, <1>4 DEF Crash, Labels
    <2> QED
      BY Zenon, <1>4, <2>1, <2>2 DEF Crash
  <1>5. CASE Restart
    <2>1. pc' \in [Procs -> Labels] /\ phase' \in {"down", "resuming", "up"}
      BY ZenonT(40), <1>5 DEF Restart, Labels
    <2> QED
      BY Zenon, <1>5, <2>1 DEF Restart
  <1> QED
    BY Zenon, <1>1, <1>2, <1>3, <1>4, <1>5

(* A stuttering step.                                                      *)
LEMMA StutterType == TypeOK /\ UNCHANGED vars => TypeOK'
  BY Zenon DEF vars, databases, store, journal, locks, TypeOK

(* Every reachable state of the write and publish path is well typed, for  *)
(* any number of handlers, drains and commits.                             *)
THEOREM TypeCorrect == Spec => []TypeOK
  <1>1. TypeOK /\ [Next]_vars => TypeOK'
    BY Zenon, WriteType, PublishType, BlobType, EnvironmentType, StutterType DEF Next
  <1> QED
    BY <1>1, InitType, PTL DEF Spec

----------------------------------------------------------------------------
(* The inductive invariant.                                                *)

LoopPcs == {"next", "head", "floor", "search", "insert", "ack", "record"}

(* One publisher at a time: whoever is inside publish_pending holds the    *)
(* publish lock.                                                           *)
OnePublisher == \A p \in Publishers : Publishing(p) => publishLock = p

(* A search above f finds every row of i, and f is known if there is one.  *)
FloorCovers(f, i) ==
    \A k \in 1 .. Len(repoSeq) : repoSeq[k] = i => f # NoFloor /\ f < k

(* Everything in the log was committed before i.                           *)
AfterLog(i) == \A j \in Intents : Sequenced(j) => Before(j, i)

FloorsSound ==
    \A i \in Intents : FloorCovers(seqFloor[i], i) /\ seqFloor[i] <= Len(repoSeq)

LogOrdered ==
    /\ InCommitOrder
    /\ \A i \in Intents : Sequenced(i) => i[1] <= repoRoot
    /\ \A i \in Pending : i[1] <= repoRoot
    /\ \A i \in Pending : ~Sequenced(i) => AfterLog(i)

(* What a publisher in its delivery loop knows of the intents it read.     *)
ListSound(p) ==
    /\ \A i \in local[p].todo :
          /\ intentState[i] # "none" /\ i[1] <= repoRoot
          /\ ~Sequenced(i) => AfterLog(i)
          /\ (i = local[p].cur /\ pc[p] = "ack") \/ FloorCovers(local[p].loaded[i], i)
    /\ \A i \in Intents : local[p].loaded[i] # NoFloor => seqFloor[i] # NoFloor
    /\ \A i \in Pending \ local[p].todo :
          ~Sequenced(i) => \A t \in local[p].todo : Before(t, i)

(* What it knows of the intent it is delivering.                           *)
CurrentSound(p) ==
    LET i == local[p].cur
        f == local[p].floor
    IN  /\ pc[p] \in {"head", "floor", "search", "insert", "ack"} =>
              i \in local[p].todo /\ Oldest(i, local[p].todo)
        /\ pc[p] \in {"head", "floor", "insert"} => ~Sequenced(i)
        /\ pc[p] = "floor" => f # NoFloor /\ f <= Len(repoSeq)
        /\ pc[p] = "search" => FloorCovers(f, i)
        /\ pc[p] \in {"search", "insert"} => seqFloor[i] # NoFloor
        /\ pc[p] = "ack" => /\ local[p].seq \in 1 .. Len(repoSeq)
                            /\ repoSeq[local[p].seq] = i
        /\ pc[p] = "record" => Sequenced(i) /\ i[2] = "append"

PublisherSound ==
    \A p \in Publishers : pc[p] \in LoopPcs => ListSound(p) /\ CurrentSound(p)

PublishInv ==
    /\ TypeOK /\ OnePublisher /\ FloorsSound /\ LogOrdered /\ PublisherSound
    /\ AcknowledgedIsDurable /\ WatermarkIsPublished

(* Without drains the publishers are the server's requests and its startup.*)
LEMMA ServerPublishers ==
    ASSUME Drains = {}
    PROVE  /\ Publishers = Handlers \cup {Startup}
           /\ NoOne \notin Publishers /\ Worker \notin Publishers
           /\ Startup \notin Handlers
           /\ Workers = {Worker} /\ Publishers \subseteq Procs
           /\ Procs = Publishers \cup {Worker}
  BY Zenon, ActorsAssumption DEF Publishers, Workers, Procs

(* The publish lock is taken on the way in and dropped on the way out.     *)
LEMMA LockStep ==
    ASSUME Drains = {}, TypeOK, OnePublisher, [Next]_vars
    PROVE  OnePublisher'
  <1> USE ServerPublishers DEF TypeOK, OnePublisher, Publishing, Goto, locks
  <1>1. ASSUME NEW h \in Handlers, Transact(h) \/ Write(h)
        PROVE  OnePublisher'
    BY <1>1 DEF Transact, Write, MarkPendingWork, CommitWrite, ImportRepo,
                CommitRoot, PublishPcs
  <1>2. ASSUME NEW p \in Publishers, LoadPending(p)
        PROVE  OnePublisher'
    BY Zenon, <1>2 DEF LoadPending, LockedForPublishing, PublishPcs
  <1>3. ASSUME NEW p \in Publishers, Publishing(p), Return(p)
        PROVE  OnePublisher'
    BY <1>3 DEF Return, Release, PublishPcs
  <1>4. ASSUME NEW p \in Publishers, Publishing(p), UNCHANGED publishLock,
               NEW label, Goto(p, label)
        PROVE  OnePublisher'
    BY Zenon, <1>4
  <1>5. ASSUME NEW p \in Publishers, Publish(p), ~LoadPending(p)
        PROVE  OnePublisher'
    <2>1. Publishing(p)
      BY Zenon, <1>5 DEF Publish, NextIntent, AllDelivered, ReadHead, RecordFloor,
         FindRow, InsertRow, Acknowledge, RecordPublication, ReadRoot, WriteRoot,
         SettleIntents, SettleBlobs, ClearPendingWork, PublishPcs
    <2>2. \/ Return(p)
          \/ UNCHANGED publishLock /\ \E label \in Labels : Goto(p, label)
      BY ZenonT(40), <1>5 DEF Publish, NextIntent, AllDelivered, ReadHead, RecordFloor, FindRow,
                  InsertRow, Acknowledge, RecordPublication, ReadRoot, WriteRoot,
                  SettleIntents, SettleBlobs, ClearPendingWork, Continue, Labels,
                  PublishPcs
    <2> QED
      BY Zenon, <1>3, <1>4, <2>1, <2>2
  <1>6. ASSUME NEW w \in Workers, WorkBlobs(w)
        PROVE  OnePublisher'
    BY ZenonT(40), <1>6 DEF WorkBlobs, ReadBlobWork, FinishBlobWork, SettleAfterBlobWork
  <1>7. ASSUME NEW p \in Procs, Fail(p)
        PROVE  OnePublisher'
    BY Zenon, <1>7 DEF Fail, Release, Ended, PublishPcs
  <1>8. ASSUME OtherEvent \/ Crash \/ Restart \/ UNCHANGED vars
        PROVE  OnePublisher'
    BY <1>8 DEF OtherEvent, Crash, Restart, vars, PublishPcs
  <1> QED
    BY Zenon, <1>1, <1>2, <1>5, <1>6, <1>7, <1>8 DEF Next

(* A delivery loop that did not move keeps what it knows of its intents.   *)
LEMMA ListKept ==
    ASSUME NEW p, ListSound(p), UNCHANGED <<pc[p], local[p], seqFloor>>,
           local[p].todo \subseteq Intents, Pending' \subseteq Intents,
           \A i \in Intents : Sequenced(i)' <=> Sequenced(i),
           \A i : AfterLog(i)' <=> AfterLog(i),
           \A i \in Intents : \A f : FloorCovers(f, i)' <=> FloorCovers(f, i),
           \A i \in local[p].todo : intentState'[i] # "none" /\ i[1] <= repoRoot',
           \A i \in Pending' \ local[p].todo :
              ~Sequenced(i) => \A t \in local[p].todo : Before(t, i)
    PROVE  ListSound(p)'
  BY Zenon DEF ListSound

(* And of the one it is delivering.                                        *)
LEMMA CurrentKept ==
    ASSUME NEW p, CurrentSound(p), UNCHANGED <<pc[p], local[p], seqFloor>>,
           local[p].cur \in Intents,
           \A i \in Intents : Sequenced(i)' <=> Sequenced(i),
           \A i \in Intents : \A f : FloorCovers(f, i)' <=> FloorCovers(f, i),
           local[p].floor <= Len(repoSeq) => local[p].floor <= Len(repoSeq'),
           local[p].seq \in 1 .. Len(repoSeq) =>
              /\ local[p].seq \in 1 .. Len(repoSeq')
              /\ repoSeq'[local[p].seq] = repoSeq[local[p].seq]
    PROVE  CurrentSound(p)'
  BY Zenon DEF CurrentSound

(* What it knows of an intent that is pending and not on its list.         *)
LEMMA OffTheList ==
    ASSUME NEW p, ListSound(p), NEW i \in Pending \ local[p].todo, ~Sequenced(i),
           NEW t \in local[p].todo
    PROVE  Before(t, i)
  BY Zenon DEF ListSound

(* Steps that leave the intents, the log and every delivery loop alone.    *)
LEMMA QuietStep ==
    ASSUME PublishInv, TypeOK', OnePublisher',
           UNCHANGED <<repoRoot, intentState, seqFloor, intentSeq, repoSeq, maxRev>>,
           \A q \in Publishers : pc'[q] \in LoopPcs => pc'[q] = pc[q] /\ local'[q] = local[q]
    PROVE  PublishInv'
  <1>1. \A i : Sequenced(i)' <=> Sequenced(i)
    BY Zenon DEF Sequenced
  <1>2. \A f, i : FloorCovers(f, i)' <=> FloorCovers(f, i)
    BY Zenon DEF FloorCovers
  <1>3. \A i : AfterLog(i)' <=> AfterLog(i)
    BY Zenon, <1>1 DEF AfterLog
  <1>4. Pending' = Pending /\ Pending \subseteq Intents
    BY Zenon DEF Pending
  <1>5. FloorsSound'
    BY Zenon, <1>2 DEF PublishInv, FloorsSound
  <1>6. LogOrdered'
    BY Zenon, <1>1, <1>3, <1>4 DEF PublishInv, LogOrdered, InCommitOrder
  <1>7. PublisherSound'
    <2> SUFFICES ASSUME NEW p \in Publishers, pc'[p] \in LoopPcs
                 PROVE  ListSound(p)' /\ CurrentSound(p)'
      BY Zenon DEF PublisherSound
    <2>1. ListSound(p) /\ CurrentSound(p) /\ pc'[p] = pc[p] /\ local'[p] = local[p]
      BY Zenon DEF PublishInv, PublisherSound
    <2>2. local[p].todo \subseteq Intents /\ local[p].cur \in Intents
      BY Zenon DEF PublishInv, TypeOK, Frames, Procs
    <2>3. /\ \A i \in local[p].todo : intentState'[i] # "none" /\ i[1] <= repoRoot'
          /\ \A i \in Pending' \ local[p].todo :
                ~Sequenced(i) => \A t \in local[p].todo : Before(t, i)
      BY Zenon, <1>4, <2>1 DEF ListSound
    <2>4. ListSound(p)'
      BY Zenon, <1>1, <1>2, <1>3, <1>4, <2>1, <2>2, <2>3, ListKept
    <2>5. CurrentSound(p)'
      BY Zenon, <1>1, <1>2, <2>1, <2>2, CurrentKept
    <2> QED
      BY Zenon, <2>4, <2>5
  <1>8. AcknowledgedIsDurable' /\ WatermarkIsPublished'
    BY Zenon, <1>1 DEF PublishInv, AcknowledgedIsDurable, WatermarkIsPublished
  <1> QED
    BY Zenon, <1>5, <1>6, <1>7, <1>8 DEF PublishInv

(* Only the lock holder is in a delivery loop.                             *)
LEMMA OnlyLoop ==
    ASSUME OnePublisher, NEW p \in Publishers, pc[p] \in LoopPcs,
           NEW q \in Publishers, pc[q] \in LoopPcs
    PROVE  q = p
  BY Zenon DEF OnePublisher, Publishing, LoopPcs, PublishPcs

(* No intent precedes itself, and a lower revision precedes a higher one.  *)
LEMMA BeforeOrder ==
    ASSUME NEW i \in Intents, NEW j \in Intents
    PROVE  /\ ~Before(i, i)
           /\ Before(i, j) => i # j
           /\ i[1] < j[1] => Before(i, j)
  BY IntentForm DEF Before

(* row_matches recognises exactly the rows of its intent.                  *)
LEMMA MatchIsEqual ==
    ASSUME NEW r \in Rows, NEW i \in Intents
    PROVE  RowMatches(r, i) <=> r = i
  <1>1. CASE r \in Intents
    BY Zenon, <1>1, IntentForm DEF RowMatches
  <1>2. CASE r = Other
    BY Zenon, <1>2, IntentForm DEF RowMatches, Other
  <1> QED
    BY Zenon, <1>1, <1>2 DEF Rows

(* What appending a row does to the predicates about the log.              *)
LEMMA AppendRow ==
    ASSUME TypeOK, NEW r \in Rows, repoSeq' = Append(repoSeq, r)
    PROVE  /\ Len(repoSeq') = Len(repoSeq) + 1
           /\ repoSeq'[Len(repoSeq) + 1] = r
           /\ \A k \in 1 .. Len(repoSeq) : repoSeq'[k] = repoSeq[k]
           /\ \A i : Sequenced(i)' <=> Sequenced(i) \/ i = r
  <1>1. repoSeq \in Seq(Rows)
    BY Zenon DEF TypeOK
  <1>2. /\ Len(repoSeq') = Len(repoSeq) + 1 /\ Len(repoSeq) \in Nat
        /\ repoSeq'[Len(repoSeq) + 1] = r
        /\ \A k \in 1 .. Len(repoSeq) : repoSeq'[k] = repoSeq[k]
    BY <1>1
  <1>3. ASSUME NEW i PROVE Sequenced(i)' <=> Sequenced(i) \/ i = r
    BY <1>2 DEF Sequenced
  <1> QED
    BY Zenon, <1>2, <1>3

(* A commit adds intents later than every row and every intent before it.  *)
LEMMA CommitStep ==
    ASSUME PublishInv, TypeOK', OnePublisher', NEW h \in Handlers, CommitWrite(h)
    PROVE  PublishInv'
  <1>ty. TypeOK
    BY Zenon DEF PublishInv
  <1>fl. FloorsSound
    BY Zenon DEF PublishInv
  <1>lo. LogOrdered
    BY Zenon DEF PublishInv
  <1>ps. PublisherSound
    BY Zenon DEF PublishInv
  <1>ak. AcknowledgedIsDurable
    BY Zenon DEF PublishInv
  <1>wm. WatermarkIsPublished
    BY Zenon DEF PublishInv
  <1>a. /\ repoRoot \in Nat /\ repoRoot' = repoRoot + 1
        /\ UNCHANGED <<seqFloor, intentSeq, maxRev, repoSeq, local>>
        /\ intentState' = [i \in Intents |-> IF i[1] = repoRoot + 1 THEN "pending"
                                             ELSE intentState[i]]
        /\ pc' = [pc EXCEPT ![h] = "queued"] /\ h \in Procs
    BY <1>ty DEF CommitWrite, CommitRoot, Goto, TypeOK, journal, Procs, Publishers
  <1>1. \A i : Sequenced(i)' <=> Sequenced(i)
    BY Zenon, <1>a DEF Sequenced
  <1>2. \A f, i : FloorCovers(f, i)' <=> FloorCovers(f, i)
    BY Zenon, <1>a DEF FloorCovers
  <1>3. \A i : AfterLog(i)' <=> AfterLog(i)
    BY Zenon, <1>1 DEF AfterLog
  <1>4. \A i \in Pending' : i \in Intents /\ (i \in Pending \/ i[1] = repoRoot + 1)
    BY Zenon, <1>a DEF Pending
  <1>5. FloorsSound'
    BY Zenon, <1>fl, <1>a, <1>2 DEF FloorsSound
  <1>6. ASSUME NEW i \in Intents, i[1] = repoRoot + 1
        PROVE  AfterLog(i)
    BY <1>lo, <1>a, <1>6, BeforeOrder, IntentForm DEF AfterLog, LogOrdered
  <1>7. LogOrdered'
    <2>1. \A i \in Intents : i[1] \in Nat
      BY Zenon, IntentForm
    <2>2. InCommitOrder'
      BY Zenon, <1>lo, <1>a DEF LogOrdered, InCommitOrder
    <2>3. \A i \in Intents : Sequenced(i)' => i[1] <= repoRoot'
      BY <1>lo, <1>a, <1>1, <2>1 DEF LogOrdered
    <2>4. \A i \in Pending' : i[1] <= repoRoot'
      BY <1>lo, <1>a, <1>4, <2>1 DEF LogOrdered
    <2>5. \A i \in Pending' : ~Sequenced(i)' => AfterLog(i)'
      BY Zenon, <1>lo, <1>1, <1>3, <1>4, <1>6 DEF LogOrdered
    <2> QED
      BY Zenon, <1>lo, <2>2, <2>3, <2>4, <2>5 DEF LogOrdered
  <1>8. PublisherSound'
    <2> SUFFICES ASSUME NEW p \in Publishers, pc'[p] \in LoopPcs
                 PROVE  ListSound(p)' /\ CurrentSound(p)'
      BY Zenon, <1>ps DEF PublisherSound
    <2>1. pc'[p] = pc[p] /\ ListSound(p) /\ CurrentSound(p)
      BY <1>ps, <1>ty, <1>a DEF PublisherSound, LoopPcs, TypeOK
    <2>2. local[p].todo \subseteq Intents /\ local[p].cur \in Intents
      BY Zenon, <1>ty DEF TypeOK, Frames, Procs
    <2>3. ListSound(p)'
      <3>1. \A i \in local[p].todo : intentState'[i] # "none" /\ i[1] <= repoRoot'
        BY <1>a, <2>1, <2>2, IntentForm DEF ListSound
      <3>2. ASSUME NEW i \in Intents, i[1] = repoRoot + 1, NEW t \in local[p].todo
            PROVE  Before(t, i)
        BY <1>a, <2>1, <2>2, <3>2, BeforeOrder, IntentForm DEF ListSound
      <3>3. ASSUME NEW i \in Pending' \ local[p].todo, ~Sequenced(i), NEW t \in local[p].todo
            PROVE  Before(t, i)
        BY Zenon, <1>4, <2>1, <3>2, <3>3, OffTheList
      <3> QED
        BY Zenon, <1>a, <1>1, <1>2, <1>3, <1>4, <2>1, <2>2, <3>1, <3>3, ListKept
    <2>4. CurrentSound(p)'
      BY Zenon, <1>a, <1>1, <1>2, <2>1, <2>2, CurrentKept
    <2> QED
      BY Zenon, <2>3, <2>4
  <1>9. AcknowledgedIsDurable' /\ WatermarkIsPublished'
    BY Zenon, <1>ak, <1>wm, <1>a, <1>1 DEF AcknowledgedIsDurable, WatermarkIsPublished
  <1> QED
    BY Zenon, <1>5, <1>7, <1>8, <1>9 DEF PublishInv

(* An import only takes intents out of the pending ones.                   *)
LEMMA ImportStep ==
    ASSUME PublishInv, TypeOK', OnePublisher', NEW h \in Handlers, ImportRepo(h)
    PROVE  PublishInv'
  <1>ty. TypeOK
    BY Zenon DEF PublishInv
  <1>fl. FloorsSound
    BY Zenon DEF PublishInv
  <1>lo. LogOrdered
    BY Zenon DEF PublishInv
  <1>ps. PublisherSound
    BY Zenon DEF PublishInv
  <1>ak. AcknowledgedIsDurable
    BY Zenon DEF PublishInv
  <1>wm. WatermarkIsPublished
    BY Zenon DEF PublishInv
  <1>a. /\ repoRoot \in Nat /\ repoRoot' = repoRoot + 1
        /\ UNCHANGED <<seqFloor, intentSeq, maxRev, repoSeq, local>>
        /\ intentState' = [i \in Intents |->
                              IF intentState[i] = "pending" THEN "superseded"
                              ELSE intentState[i]]
        /\ pc' = [pc EXCEPT ![h] = "idle"] /\ h \in Procs
    BY <1>ty DEF ImportRepo, CommitRoot, Goto, TypeOK, journal, Procs, Publishers
  <1>1. \A i : Sequenced(i)' <=> Sequenced(i)
    BY Zenon, <1>a DEF Sequenced
  <1>2. \A f, i : FloorCovers(f, i)' <=> FloorCovers(f, i)
    BY Zenon, <1>a DEF FloorCovers
  <1>3. \A i : AfterLog(i)' <=> AfterLog(i)
    BY Zenon, <1>1 DEF AfterLog
  <1>4. Pending' = {}
    BY Zenon, <1>a DEF Pending
  <1>5. FloorsSound'
    BY Zenon, <1>fl, <1>a, <1>2 DEF FloorsSound
  <1>6. \A i \in Intents : i[1] \in Nat
    BY Zenon, IntentForm
  <1>7. LogOrdered'
    BY SMTT(30), <1>lo, <1>a, <1>1, <1>4, <1>6 DEF LogOrdered, InCommitOrder
  <1>8. PublisherSound'
    <2> SUFFICES ASSUME NEW p \in Publishers, pc'[p] \in LoopPcs
                 PROVE  ListSound(p)' /\ CurrentSound(p)'
      BY Zenon, <1>ps DEF PublisherSound
    <2>1. pc'[p] = pc[p] /\ ListSound(p) /\ CurrentSound(p)
      BY SMTT(30), <1>ps, <1>ty, <1>a DEF PublisherSound, LoopPcs, TypeOK
    <2>2. local[p].todo \subseteq Intents /\ local[p].cur \in Intents
      BY Zenon, <1>ty DEF TypeOK, Frames, Procs
    <2>3. ListSound(p)'
      <3>1. \A i \in local[p].todo : intentState'[i] # "none" /\ i[1] <= repoRoot'
        BY <1>a, <1>6, <2>1, <2>2 DEF ListSound
      <3> QED
        BY Zenon, <1>a, <1>1, <1>2, <1>3, <1>4, <2>1, <2>2, <3>1, ListKept
    <2>4. CurrentSound(p)'
      BY Zenon, <1>a, <1>1, <1>2, <2>1, <2>2, CurrentKept
    <2> QED
      BY Zenon, <2>3, <2>4
  <1>9. AcknowledgedIsDurable' /\ WatermarkIsPublished'
    BY Zenon, <1>ak, <1>wm, <1>a, <1>1 DEF AcknowledgedIsDurable, WatermarkIsPublished
  <1> QED
    BY Zenon, <1>5, <1>7, <1>8, <1>9 DEF PublishInv

(* Rows of other actors lie between ours and are never taken for ours.     *)
LEMMA OtherStep ==
    ASSUME PublishInv, TypeOK', OnePublisher', OtherEvent
    PROVE  PublishInv'
  <1>ty. TypeOK
    BY Zenon DEF PublishInv
  <1>fl. FloorsSound
    BY Zenon DEF PublishInv
  <1>lo. LogOrdered
    BY Zenon DEF PublishInv
  <1>ps. PublisherSound
    BY Zenon DEF PublishInv
  <1>ak. AcknowledgedIsDurable
    BY Zenon DEF PublishInv
  <1>wm. WatermarkIsPublished
    BY Zenon DEF PublishInv
  <1>a. /\ repoSeq' = Append(repoSeq, Other) /\ Other \in Rows
        /\ UNCHANGED <<repoRoot, intentState, seqFloor, intentSeq, maxRev, pc, local>>
    BY Zenon DEF OtherEvent, store, journal, Rows
  <1>s. Len(repoSeq) \in Nat
    BY <1>ty DEF TypeOK
  <1>b. /\ Len(repoSeq') = Len(repoSeq) + 1
        /\ repoSeq'[Len(repoSeq) + 1] = Other
        /\ \A k \in 1 .. Len(repoSeq) : repoSeq'[k] = repoSeq[k]
        /\ \A i : Sequenced(i)' <=> Sequenced(i) \/ i = Other
    BY Zenon, <1>ty, <1>a, AppendRow
  <1>o. \A i \in Intents : i # Other
    BY Zenon, IntentForm
  <1>1. \A i \in Intents : Sequenced(i)' <=> Sequenced(i)
    BY Zenon, <1>b, <1>o
  <1>2. \A i \in Intents : \A f : FloorCovers(f, i)' <=> FloorCovers(f, i)
    BY <1>b, <1>o, <1>s DEF FloorCovers
  <1>3. \A i : AfterLog(i)' <=> AfterLog(i)
    BY Zenon, <1>1 DEF AfterLog
  <1>4. Pending' = Pending /\ Pending \subseteq Intents
    BY Zenon, <1>a DEF Pending
  <1>5. FloorsSound'
    <2>f. \A i \in Intents : seqFloor[i] \in Floors
      BY Zenon, <1>ty DEF TypeOK
    <2>1. \A i \in Intents : seqFloor[i] <= Len(repoSeq) => seqFloor[i] <= Len(repoSeq')
      BY <1>b, <1>s, <2>f DEF Floors, NoFloor
    <2> QED
      BY Zenon, <1>fl, <1>a, <1>2, <2>1 DEF FloorsSound
  <1>6. LogOrdered'
    <2>1. InCommitOrder'
      BY <1>lo, <1>b, <1>s DEF LogOrdered, InCommitOrder
    <2> QED
      BY Zenon, <1>lo, <1>a, <1>1, <1>3, <1>4, <2>1 DEF LogOrdered
  <1>7. PublisherSound'
    <2> SUFFICES ASSUME NEW p \in Publishers, pc'[p] \in LoopPcs
                 PROVE  ListSound(p)' /\ CurrentSound(p)'
      BY Zenon, <1>ps DEF PublisherSound
    <2>1. ListSound(p) /\ CurrentSound(p)
      BY Zenon, <1>ps, <1>a DEF PublisherSound
    <2>2. /\ local[p].todo \subseteq Intents /\ local[p].cur \in Intents
          /\ local[p].floor \in Floors
      BY Zenon, <1>ty DEF TypeOK, Frames, Procs
    <2>3. ListSound(p)'
      <3>1. \A i \in local[p].todo : intentState'[i] # "none" /\ i[1] <= repoRoot'
        BY Zenon, <1>a, <2>1 DEF ListSound
      <3>2. ASSUME NEW i \in Pending' \ local[p].todo, ~Sequenced(i), NEW t \in local[p].todo
            PROVE  Before(t, i)
        BY Zenon, <1>4, <2>1, <3>2, OffTheList
      <3> QED
        BY Zenon, <1>a, <1>1, <1>2, <1>3, <1>4, <2>1, <2>2, <3>1, <3>2, ListKept
    <2>4. /\ local[p].floor <= Len(repoSeq) => local[p].floor <= Len(repoSeq')
          /\ local[p].seq \in 1 .. Len(repoSeq) =>
                /\ local[p].seq \in 1 .. Len(repoSeq')
                /\ repoSeq'[local[p].seq] = repoSeq[local[p].seq]
      BY <1>b, <1>s, <2>2 DEF Floors, NoFloor
    <2>5. CurrentSound(p)'
      BY Zenon, <1>a, <1>1, <1>2, <2>1, <2>2, <2>4, CurrentKept
    <2> QED
      BY Zenon, <2>3, <2>5
  <1>8. AcknowledgedIsDurable'
    BY <1>ak, <1>a, <1>b, <1>s DEF AcknowledgedIsDurable
  <1>9. WatermarkIsPublished'
    BY Zenon, <1>wm, <1>a, <1>b DEF WatermarkIsPublished
  <1> QED
    BY Zenon, <1>5, <1>6, <1>7, <1>8, <1>9 DEF PublishInv

(* The insertion: the row is new to the log and later than all in it.      *)
LEMMA InsertStep ==
    ASSUME PublishInv, TypeOK', OnePublisher', NEW p \in Publishers, InsertRow(p)
    PROVE  PublishInv'
  <1>ty. TypeOK
    BY Zenon DEF PublishInv
  <1>op. OnePublisher
    BY Zenon DEF PublishInv
  <1>fl. FloorsSound
    BY Zenon DEF PublishInv
  <1>lo. LogOrdered
    BY Zenon DEF PublishInv
  <1>ps. PublisherSound
    BY Zenon DEF PublishInv
  <1>ak. AcknowledgedIsDurable
    BY Zenon DEF PublishInv
  <1>wm. WatermarkIsPublished
    BY Zenon DEF PublishInv
  <1> DEFINE c == local[p].cur
             n == Len(repoSeq)
             todo == local[p].todo
  <1>f. /\ p \in Procs /\ c \in Intents /\ todo \subseteq Intents /\ n \in Nat
        /\ local[p] \in Frames
    BY SMTT(30), <1>ty DEF TypeOK, Frames, Procs
  <1>a. /\ repoSeq' = Append(repoSeq, c) /\ c \in Rows
        /\ UNCHANGED <<repoRoot, intentState, seqFloor, intentSeq, maxRev>>
        /\ pc[p] = "insert" /\ pc' = [pc EXCEPT ![p] = "ack"]
        /\ local' = [local EXCEPT ![p].seq = n + 1]
    BY Zenon, <1>f DEF InsertRow, Goto, store, journal, Rows
  <1>b. /\ Len(repoSeq') = n + 1 /\ repoSeq'[n + 1] = c
        /\ \A k \in 1 .. n : repoSeq'[k] = repoSeq[k]
        /\ \A i : Sequenced(i)' <=> Sequenced(i) \/ i = c
    BY Zenon, <1>ty, <1>a, AppendRow
  <1>l. /\ local'[p].todo = todo /\ local'[p].cur = c /\ local'[p].seq = n + 1
        /\ local'[p].loaded = local[p].loaded /\ pc'[p] = "ack"
    BY Zenon, <1>ty, <1>a, <1>f DEF TypeOK, Frames
  <1>c. ListSound(p) /\ CurrentSound(p)
    BY Zenon, <1>ps, <1>a DEF PublisherSound, LoopPcs
  <1>d. /\ c \in todo /\ Oldest(c, todo) /\ ~Sequenced(c) /\ AfterLog(c)
        /\ seqFloor[c] # NoFloor
    BY Zenon, <1>a, <1>c DEF CurrentSound, ListSound
  <1>1. Pending' = Pending /\ Pending \subseteq Intents
    BY Zenon, <1>a DEF Pending
  <1>2. ASSUME NEW i \in Intents, ~Sequenced(i)', i \in Pending \/ i \in todo
        PROVE  AfterLog(i)' /\ Before(c, i)
    <2>1. i # c /\ ~Sequenced(i)
      BY Zenon, <1>2, <1>b
    <2>2. Before(c, i)
      BY Zenon, <1>2, <1>c, <1>d, <2>1 DEF Oldest, ListSound
    <2>3. AfterLog(i)
      BY Zenon, <1>lo, <1>2, <1>c, <2>1 DEF ListSound, LogOrdered
    <2> QED
      BY Zenon, <1>b, <2>2, <2>3 DEF AfterLog
  <1>3. \A i \in Intents \ {c} : \A f : FloorCovers(f, i) => FloorCovers(f, i)'
    BY <1>b, <1>f DEF FloorCovers
  <1>4. FloorsSound'
    <2>1. \A i \in Intents : seqFloor[i] <= n
      BY Zenon, <1>fl DEF FloorsSound
    <2>f. \A i \in Intents : seqFloor[i] \in Floors
      BY Zenon, <1>ty DEF TypeOK
    <2>2. \A i \in Intents : seqFloor[i] <= n + 1
      BY <1>f, <2>1, <2>f DEF Floors, NoFloor
    <2>3. FloorCovers(seqFloor[c], c)'
      BY <1>ty, <1>a, <1>b, <1>d, <1>f, <2>1 DEF FloorCovers, Sequenced, TypeOK, Floors,
         NoFloor
    <2> QED
      BY <1>fl, <1>a, <1>b, <1>3, <2>2, <2>3 DEF FloorsSound
  <1>5. LogOrdered'
    <2>1. \A k \in 1 .. n : repoSeq[k] # Other => Before(repoSeq[k], c)
      <3> SUFFICES ASSUME NEW k \in 1 .. n, repoSeq[k] # Other
                   PROVE  Before(repoSeq[k], c)
        BY Zenon
      <3>1. repoSeq[k] \in Intents
        BY <1>ty DEF TypeOK, Rows
      <3> QED
        BY Zenon, <1>d, <3>1 DEF AfterLog, Sequenced
    <2>2. InCommitOrder'
      BY <1>lo, <1>b, <1>f, <2>1 DEF LogOrdered, InCommitOrder
    <2>3. \A i \in Intents : Sequenced(i)' => i[1] <= repoRoot'
      BY Zenon, <1>lo, <1>a, <1>b, <1>c, <1>d DEF LogOrdered, ListSound
    <2> QED
      BY Zenon, <1>lo, <1>a, <1>1, <1>2, <2>2, <2>3 DEF LogOrdered
  <1>6. ListSound(p)'
    <2>1. ASSUME NEW i \in todo, i # c
          PROVE  FloorCovers(local[p].loaded[i], i)'
      BY Zenon, <1>3, <1>c, <1>f, <1>l, <2>1 DEF ListSound
    <2>2. \A i \in todo :
             /\ intentState'[i] # "none" /\ i[1] <= repoRoot'
             /\ ~Sequenced(i)' => AfterLog(i)'
      BY Zenon, <1>a, <1>2, <1>c, <1>f DEF ListSound
    <2>3. \A i \in Intents : local[p].loaded[i] # NoFloor => seqFloor'[i] # NoFloor
      BY Zenon, <1>a, <1>c DEF ListSound
    <2>4. ASSUME NEW i \in Pending' \ todo, ~Sequenced(i)', NEW t \in todo
          PROVE  Before(t, i)
      <3>1. i \in Pending \ todo /\ ~Sequenced(i)
        BY Zenon, <1>1, <1>b, <2>4
      <3> QED
        BY Zenon, <1>c, <2>4, <3>1, OffTheList
    <2>5. \A i \in todo : (i = c /\ pc'[p] = "ack") \/ FloorCovers(local[p].loaded[i], i)'
      BY Zenon, <1>l, <2>1
    <2> QED
      BY Zenon, <1>l, <2>2, <2>3, <2>4, <2>5 DEF ListSound
  <1>7. CurrentSound(p)'
    BY <1>b, <1>d, <1>f, <1>l DEF CurrentSound
  <1>8. PublisherSound'
    <2> SUFFICES ASSUME NEW q \in Publishers, pc'[q] \in LoopPcs
                 PROVE  q = p
      BY Zenon, <1>ps, <1>6, <1>7 DEF PublisherSound
    <2> QED
      BY Zenon, <1>ty, <1>op, <1>a, <1>f, OnlyLoop DEF LoopPcs, TypeOK, Procs
  <1>9. AcknowledgedIsDurable'
    BY <1>ak, <1>a, <1>b, <1>f DEF AcknowledgedIsDurable
  <1>10. WatermarkIsPublished'
    BY Zenon, <1>wm, <1>a, <1>b DEF WatermarkIsPublished
  <1> QED
    BY Zenon, <1>4, <1>5, <1>8, <1>9, <1>10 DEF PublishInv

=============================================================================
