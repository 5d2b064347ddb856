----------------------- MODULE AccountDeletionProofs -----------------------
(***************************************************************************)
(* Proofs about AccountDeletion for any number of requests, commits, rows  *)
(* and incarnations of the store.                                          *)
(***************************************************************************)
EXTENDS AccountDeletionSteps

----------------------------------------------------------------------------
(* The inductive invariants.                                               *)

(* Until a deletion prunes, the rows it read are still the only ones.      *)
RecordInv ==
    /\ PrunedIsRecorded
    /\ \A p \in Procs : pc[p] \in {"insert", "prune"} =>
          \A n \in live : \A r \in Revs : log[n] = CommitRow(r) => r <= preMax

(* Once a deletion is past its event, a deletion event is readable.        *)
Announcing == {"recordSeq", "oblige", "unlink", "complete"}
AnnounceInv ==
    /\ tombstone.seq # 0 \/ tombstone.done \/ (\E p \in Procs : pc[p] \in Announcing)
          => \E n \in live : log[n] = Deleted
    /\ \A p \in Procs : pc[p] = "prune" =>
          local[p].seq \in live /\ log[local[p].seq] = Deleted

SeqInv == TypeInv /\ LockInv /\ RecordInv /\ AnnounceInv

(* The first life of the DID.  Until its account rows exist nobody deletes *)
(* it, and only one request can be making it.                              *)
Making == {"repo", "rows"}
RowsGone == DeletePcs \ {"tombstone", "accountRows"}
Deleting == \E p \in Procs : pc[p] \in DeletePcs
Unused == ~rows /\ tombstone = NoTombstone /\ ~requested /\ ~Deleting

OneMaker == \A p, q \in Procs : pc[p] \in Making /\ pc[q] \in Making => p = q
BeforeRows ==
    /\ \A p \in Procs : pc[p] \in Making => created # 0 /\ store # 0
    /\ created = 0 \/ (\E p \in Procs : pc[p] \in Making) => Unused
    /\ created = 0 => store = 0

(* A deletion that is past the account rows finds none, one that is past   *)
(* the directory finds none, and the purge of the objects is owed before.  *)
DeletionOrder ==
    \A p \in Procs :
        /\ pc[p] \in RowsGone => ~rows
        /\ pc[p] = "complete" => store = 0
        /\ pc[p] \in {"unlink", "complete"} /\ Coexistence => obligation
Owed == Coexistence /\ store = 0 /\ (rows \/ tombstone.row \/ Deleting) => obligation

FirstLife ==
    /\ OneMaker /\ BeforeRows /\ DeletionOrder /\ Owed
    /\ DoneMeansGone /\ InterruptedIsResumable

LifeInv == created <= 1 => FirstLife

----------------------------------------------------------------------------
(* The sequencer's rows.                                                   *)

(* A step that leaves the rows and the highest recorded revision alone.    *)
LEMMA SeqFrame ==
    ASSUME SeqInv, TypeInv', NEW p \in Procs, Moved(p), pc'[p] \notin Sequencing,
           UNCHANGED <<log, live, preMax>>,
           \/ \E n \in live : log[n] = Deleted
           \/ /\ pc'[p] \notin Announcing
              /\ tombstone'.seq # 0 => tombstone.seq # 0
              /\ tombstone'.done => tombstone.done
    PROVE  SeqInv'
  <1>0. \A q \in Procs : pc'[q] # "idle" /\ q # p =>
            pc'[q] = pc[q] /\ local'[q] = local[q] /\ (seqLock = q => seqLock' = q)
    BY Zenon DEF Moved
  <1>1. LockInv'
    BY Zenon, <1>0 DEF SeqInv, LockInv, Sequencing
  <1>2. RecordInv'
    <2>1. PrunedIsRecorded'
      BY Zenon DEF SeqInv, RecordInv, PrunedIsRecorded
    <2>2. \A q \in Procs : pc'[q] \in {"insert", "prune"} => pc[q] \in {"insert", "prune"}
      BY Zenon, <1>0 DEF Sequencing
    <2> QED
      BY <2>1, <2>2, Zenon DEF SeqInv, RecordInv
  <1>3. AnnounceInv'
    <2>1. \A q \in Procs : pc'[q] = "prune" => pc[q] = "prune" /\ local'[q] = local[q]
      BY Zenon, <1>0 DEF Sequencing
    <2>2. CASE \E n \in live : log[n] = Deleted
      BY <2>1, <2>2, Zenon DEF SeqInv, AnnounceInv
    <2>3. CASE /\ pc'[p] \notin Announcing
               /\ tombstone'.seq # 0 => tombstone.seq # 0
               /\ tombstone'.done => tombstone.done
      <3>1. \A q \in Procs : pc'[q] \in Announcing => pc[q] \in Announcing
        BY Zenon, <1>0, <2>3 DEF Announcing
      <3> QED
        BY <2>1, <2>3, <3>1, Zenon DEF SeqInv, AnnounceInv
    <2> QED
      BY Zenon, <2>2, <2>3
  <1> QED
    BY Zenon, <1>1, <1>2, <1>3 DEF SeqInv

(* While a process holds the sequencer's lock, or nobody does, no other    *)
(* deletion is between its read of the rows and the journaled number.      *)
LEMMA Alone ==
    ASSUME TypeInv, LockInv, NEW p \in Procs, seqLock \in {p, NoOne}
    PROVE  \A q \in Procs : q # p => pc[q] \notin Sequencing
  BY Zenon, ActorsAssumption DEF LockInv, Procs

LEMMA AloneAfter ==
    ASSUME TypeInv, LockInv, NEW p \in Procs, seqLock \in {p, NoOne}, Moved(p)
    PROVE  \A q \in Procs : q # p => pc'[q] \notin Sequencing
  BY Zenon, Alone DEF Moved, Sequencing

(* Another row is inserted while nobody holds the sequencer's lock.        *)
LEMMA SeqInserts ==
    ASSUME SeqInv, TypeInv', NEW p \in Procs, Moved(p), seqLock = NoOne,
           pc'[p] \notin Sequencing \cup Announcing,
           NEW row \in RowKinds, Sequence(row), UNCHANGED <<tombstone, preMax>>
    PROVE  SeqInv'
  <1>1. \A q \in Procs : pc'[q] \notin Sequencing
    BY Zenon, AloneAfter DEF SeqInv
  <1>2. /\ \A n \in DOMAIN log : log'[n] = log[n]
        /\ DOMAIN log' \ live' \subseteq DOMAIN log \ live
        /\ live \subseteq live' /\ live \subseteq DOMAIN log
    <2>1. /\ \A n \in DOMAIN log : log'[n] = log[n]
          /\ DOMAIN log' = DOMAIN log \cup {Len(log) + 1}
      BY ZenonT(40), Appends DEF SeqInv, TypeInv
    <2>2. live' = live \cup {Len(log) + 1} /\ live \subseteq DOMAIN log
      BY DEF Sequence, SeqInv, TypeInv, SequencerType
    <2> QED
      BY <2>1, <2>2, Zenon
  <1>3. LockInv'
    BY Zenon, <1>1 DEF LockInv
  <1>4. RecordInv'
    <2>1. PrunedIsRecorded'
      BY <1>2, Zenon DEF SeqInv, RecordInv, PrunedIsRecorded
    <2>2. \A q \in Procs : pc'[q] \notin {"insert", "prune"}
      BY Zenon, <1>1 DEF Sequencing
    <2> QED
      BY <2>1, <2>2, Zenon DEF RecordInv
  <1>5. AnnounceInv'
    <2>1. \A q \in Procs : pc'[q] # "prune" /\ (pc'[q] \in Announcing => pc[q] \in Announcing)
      BY Zenon, <1>1 DEF Sequencing, Announcing, Moved
    <2> QED
      BY <1>2, <2>1, Zenon DEF SeqInv, AnnounceInv
  <1> QED
    BY Zenon, <1>3, <1>4, <1>5 DEF SeqInv

LEMMA SeqPublishRow ==
    ASSUME SeqInv, NEW p \in Procs, PublishRow(p)
    PROVE  SeqInv'
  <1>1. TypeInv' /\ Moved(p) /\ pc'[p] = "ack"
    BY Zenon, StepPublishRow DEF SeqInv
  <1>2. UNCHANGED sequencer \/ \E r \in Revs : Sequence(CommitRow(r))
    <2>1. TypeInv
      BY Zenon DEF SeqInv
    <2> QED
      BY <2>1, PublishRowCases, Zenon
  <1>3. pc'[p] \notin Sequencing \cup Announcing
    BY Zenon, <1>1 DEF Sequencing, Announcing
  <1>4. seqLock = NoOne /\ UNCHANGED <<tombstone, preMax>>
    BY Zenon DEF PublishRow, journal
  <1>5. CASE UNCHANGED sequencer
    BY Zenon, <1>1, <1>3, <1>4, <1>5, SeqFrame DEF sequencer
  <1>6. ASSUME NEW r \in Revs, Sequence(CommitRow(r))
        PROVE  SeqInv'
    <2>1. CommitRow(r) \in RowKinds
      BY Zenon DEF RowKinds
    <2> QED
      BY <1>1, <1>3, <1>4, <1>6, <2>1, SeqInserts, Zenon
  <1> QED
    BY Zenon, <1>2, <1>5, <1>6

LEMMA SeqSequenceActive ==
    ASSUME SeqInv, NEW p \in Procs, SequenceActive(p)
    PROVE  SeqInv'
  <1>1. TypeInv' /\ Moved(p) /\ pc'[p] = "load"
    BY Zenon, StepSequenceActive DEF SeqInv
  <1>2. pc'[p] \notin Sequencing \cup Announcing
    BY Zenon, <1>1 DEF Sequencing, Announcing
  <1>3. seqLock = NoOne /\ Sequence(Active) /\ UNCHANGED <<tombstone, preMax>>
    BY Zenon DEF SequenceActive, journal
  <1>4. Active \in RowKinds
    BY Zenon DEF RowKinds
  <1> QED
    BY <1>1, <1>2, <1>3, <1>4, SeqInserts, Zenon

LEMMA SeqRecordPreDeletionMax ==
    ASSUME SeqInv, NEW p \in Procs, RecordPreDeletionMax(p)
    PROVE  SeqInv'
  <1>1. TypeInv' /\ Moved(p) /\ pc'[p] = "insert" /\ preMax <= preMax' /\ PublishedMax <= preMax'
    BY Zenon, StepRecordPreDeletionMax DEF SeqInv
  <1>2. seqLock = NoOne /\ seqLock' = p /\ UNCHANGED <<tombstone, log, live>>
    BY Zenon DEF RecordPreDeletionMax, sequencer
  <1>3. \A q \in Procs : q # p => pc'[q] \notin Sequencing
    BY Zenon, <1>1, <1>2, AloneAfter DEF SeqInv
  <1>4. LockInv'
    BY Zenon, <1>2, <1>3 DEF LockInv
  <1>5. RecordInv'
    <2>1. preMax \in Int /\ preMax' \in Int /\ PublishedMax \in Int
      BY <1>1, PublishedMaxIsMax DEF SeqInv, TypeInv, JournalType
    <2>2. \A r \in Revs : (r <= preMax => r <= preMax') /\ (r <= PublishedMax => r <= preMax')
      BY <1>1, <2>1 DEF Revs
    <2>3. PrunedIsRecorded'
      BY <1>2, <2>2, Zenon DEF SeqInv, RecordInv, PrunedIsRecorded
    <2>4. \A n \in live' : \A r \in Revs : log'[n] = CommitRow(r) => r <= preMax'
      BY <1>2, <2>2, PublishedMaxIsMax, Zenon
    <2> QED
      BY <2>3, <2>4, Zenon DEF RecordInv
  <1>6. AnnounceInv'
    <2>1. \A q \in Procs : pc'[q] # "prune" /\ (pc'[q] \in Announcing => pc[q] \in Announcing)
      BY Zenon, <1>1, <1>3 DEF Sequencing, Announcing, Moved
    <2> QED
      BY <1>2, <2>1, Zenon DEF SeqInv, AnnounceInv
  <1> QED
    BY Zenon, <1>1, <1>4, <1>5, <1>6 DEF SeqInv

LEMMA SeqSequenceDeleted ==
    ASSUME SeqInv, NEW p \in Procs, SequenceDeleted(p)
    PROVE  SeqInv'
  <1>1. TypeInv' /\ Moved(p) /\ pc'[p] = "prune" /\ local'[p].seq = Len(log) + 1
    BY Zenon, StepSequenceDeleted DEF SeqInv
  <1>2. pc[p] = "insert" /\ seqLock = p /\ seqLock' = p /\ UNCHANGED <<tombstone, preMax>>
    BY Zenon DEF SequenceDeleted, SeqInv, LockInv, Sequencing, locks, journal
  <1>3. \A q \in Procs : q # p => pc'[q] \notin Sequencing
    BY Zenon, <1>1, <1>2, AloneAfter DEF SeqInv
  <1>4. /\ \A n \in DOMAIN log : log'[n] = log[n]
        /\ DOMAIN log' \ live' \subseteq DOMAIN log \ live
        /\ live \subseteq DOMAIN log /\ live' = live \cup {Len(log) + 1}
        /\ log'[Len(log) + 1] = Deleted
    <2>1. /\ \A n \in DOMAIN log : log'[n] = log[n]
          /\ DOMAIN log' = DOMAIN log \cup {Len(log) + 1}
          /\ log'[Len(log) + 1] = Deleted
      BY ZenonT(40), Appends DEF SeqInv, TypeInv, SequenceDeleted, RowKinds
    <2>2. live' = live \cup {Len(log) + 1} /\ live \subseteq DOMAIN log
      BY DEF SequenceDeleted, Sequence, SeqInv, TypeInv, SequencerType
    <2> QED
      BY <2>1, <2>2, Zenon
  <1>5. LockInv'
    BY Zenon, <1>2, <1>3 DEF LockInv
  <1>6. RecordInv'
    <2>1. PrunedIsRecorded'
      BY <1>2, <1>4, Zenon DEF SeqInv, RecordInv, PrunedIsRecorded
    <2>2. \A r \in Revs : Deleted # CommitRow(r)
      BY Zenon DEF Deleted, CommitRow
    <2>3. \A n \in live' : \A r \in Revs : log'[n] = CommitRow(r) => r <= preMax'
      <3>1. \A n \in live : \A r \in Revs : log[n] = CommitRow(r) => r <= preMax
        BY <1>2, Zenon DEF SeqInv, RecordInv
      <3> QED
        BY <1>2, <1>4, <2>2, <3>1, Zenon
    <2> QED
      BY <2>1, <2>3, Zenon DEF RecordInv
  <1>7. AnnounceInv'
    <2>1. \A q \in Procs : q # p => pc'[q] # "prune"
      BY Zenon, <1>3 DEF Sequencing
    <2> QED
      BY <1>1, <1>4, <2>1, Zenon DEF AnnounceInv
  <1> QED
    BY Zenon, <1>1, <1>5, <1>6, <1>7 DEF SeqInv

LEMMA SeqPrune ==
    ASSUME SeqInv, NEW p \in Procs, Prune(p)
    PROVE  SeqInv'
  <1>1. TypeInv' /\ Moved(p) /\ pc'[p] = "recordSeq"
    BY Zenon, StepPrune DEF SeqInv
  <1>2. pc[p] = "prune" /\ seqLock = p /\ seqLock' = p /\ UNCHANGED <<tombstone, preMax, log>>
        /\ live' = live \cap {local[p].seq}
    BY Zenon DEF Prune, SeqInv, LockInv, Sequencing, locks, journal
  <1>3. \A q \in Procs : q # p => pc'[q] \notin Sequencing
    BY Zenon, <1>1, <1>2, AloneAfter DEF SeqInv
  <1>4. LockInv'
    BY Zenon, <1>2, <1>3 DEF LockInv
  <1>5. RecordInv'
    <2>1. \A n \in live : \A r \in Revs : log[n] = CommitRow(r) => r <= preMax
      BY <1>2, Zenon DEF SeqInv, RecordInv
    <2>2. PrunedIsRecorded'
      BY <1>2, <2>1, Zenon DEF SeqInv, RecordInv, PrunedIsRecorded
    <2>3. \A q \in Procs : pc'[q] \notin {"insert", "prune"}
      BY Zenon, <1>1, <1>3 DEF Sequencing
    <2> QED
      BY <2>2, <2>3, Zenon DEF RecordInv
  <1>6. AnnounceInv'
    <2>1. local[p].seq \in live' /\ log'[local[p].seq] = Deleted
      BY <1>2, Zenon DEF SeqInv, AnnounceInv
    <2>2. \A q \in Procs : pc'[q] # "prune"
      BY Zenon, <1>1, <1>3 DEF Sequencing
    <2> QED
      BY <2>1, <2>2, Zenon DEF AnnounceInv
  <1> QED
    BY Zenon, <1>1, <1>4, <1>5, <1>6 DEF SeqInv

LEMMA SeqCreateStep ==
    ASSUME SeqInv, NEW p \in Procs, CreateStep(p)
    PROVE  SeqInv'
  <1>0. TypeInv
    BY Zenon DEF SeqInv
  <1>1. CASE SequenceActive(p)
    BY Zenon, <1>1, SeqSequenceActive
  <1>2. CASE ClearTombstone(p)
    <2>1. TypeInv' /\ Moved(p) /\ pc'[p] = "idle"
      BY Zenon, <1>0, <1>2, StepClearTombstone
    <2>2. /\ UNCHANGED <<log, live, preMax>>
          /\ tombstone'.seq # 0 => tombstone.seq # 0
          /\ tombstone'.done => tombstone.done
      BY <1>2, Zenon DEF ClearTombstone, sequencer, NoTombstone
    <2> QED
      BY Zenon, <2>1, <2>2, SeqFrame DEF Sequencing, Announcing
  <1>3. CASE StartCreate(p) \/ CreateStore(p) \/ CreateRepo(p) \/ CreateFails(p)
             \/ CreateRows(p) \/ UpdateRepoRoot(p)
    <2>1. TypeInv' /\ Moved(p)
          /\ pc'[p] \in {"mkdir", "repo", "rows", "active", "root", "clear", "idle"}
      BY Zenon, <1>0, <1>3, StepStartCreate, StepCreateStore, StepCreateRepo,
         StepCreateFails, StepCreateRows, StepUpdateRepoRoot
    <2>2. UNCHANGED <<log, live, preMax, tombstone>>
      BY Zenon, <1>3 DEF StartCreate, CreateStore, CreateRepo, CreateFails, CreateRows,
         UpdateRepoRoot, sequencer, journal
    <2> QED
      BY Zenon, <2>1, <2>2, SeqFrame DEF Sequencing, Announcing
  <1> QED
    BY <1>1, <1>2, <1>3, Zenon DEF CreateStep

LEMMA SeqPublishStep ==
    ASSUME SeqInv, NEW p \in Procs, WriteStep(p) \/ PublishStep(p)
    PROVE  SeqInv'
  <1>0. TypeInv
    BY Zenon DEF SeqInv
  <1>1. CASE PublishRow(p)
    BY Zenon, <1>1, SeqPublishRow
  <1>2. CASE OpenStore(p) \/ CommitWrite(p) \/ LoadPending(p) \/ Acknowledge(p)
             \/ ReadStoreRoot(p) \/ SyncAccountRoot(p)
    <2>1. TypeInv' /\ Moved(p) /\ pc'[p] \in {"open", "load", "row", "sync", "root", "idle"}
      BY Zenon, <1>0, <1>2, StepOpenStore, StepCommitWrite, StepLoadPending,
         StepAcknowledge, StepReadStoreRoot, StepSyncAccountRoot
    <2>2. UNCHANGED <<log, live, preMax, tombstone>>
      BY ZenonT(40), <1>2 DEF OpenStore, CommitWrite, LoadPending, Acknowledge, ReadStoreRoot,
         SyncAccountRoot, sequencer, journal
    <2> QED
      BY Zenon, <2>1, <2>2, SeqFrame DEF Sequencing, Announcing
  <1> QED
    BY <1>1, <1>2, Zenon DEF WriteStep, PublishStep

LEMMA SeqDeleteStep ==
    ASSUME SeqInv, NEW p \in Procs, StartDelete(p) \/ DeleteStep(p) \/ Fail(p)
    PROVE  SeqInv'
  <1>0. TypeInv /\ LockInv
    BY Zenon DEF SeqInv
  <1>1. CASE RecordPreDeletionMax(p) \/ SequenceDeleted(p) \/ Prune(p)
    BY Zenon, <1>1, SeqRecordPreDeletionMax, SeqSequenceDeleted, SeqPrune
  <1>2. CASE StartDelete(p) \/ Tombstone(p) \/ DeleteRows(p) \/ Fail(p)
    <2>1. TypeInv' /\ Moved(p) /\ pc'[p] \in {"tombstone", "accountRows", "check", "idle"}
      BY Zenon, <1>0, <1>2, StepStartDelete, StepTombstone, StepDeleteRows, StepFail
    <2>2. UNCHANGED <<log, live, preMax>>
      BY Zenon, <1>2 DEF StartDelete, Tombstone, DeleteRows, Fail, sequencer, journal
    <2>3. tombstone'.seq = tombstone.seq /\ tombstone'.done = tombstone.done
      BY ZenonT(40), <1>0, <1>2 DEF StartDelete, Tombstone, DeleteRows, Fail, journal,
         TypeInv, JournalType, Tombstones
    <2> QED
      BY Zenon, <2>1, <2>2, <2>3, SeqFrame DEF Sequencing, Announcing
  <1>3. CASE CheckSequenced(p)
    <2>1. TypeInv' /\ Moved(p) /\ pc'[p] \in {"oblige", "preMax"}
          /\ (pc'[p] = "oblige" => tombstone.seq # 0)
      BY Zenon, <1>0, <1>3, StepCheckSequenced
    <2>2. UNCHANGED <<log, live, preMax, tombstone>>
      BY Zenon, <1>3 DEF CheckSequenced, sequencer, journal
    <2>3. pc'[p] = "oblige" => \E n \in live : log[n] = Deleted
      BY <2>1, Zenon DEF SeqInv, AnnounceInv
    <2> QED
      BY Zenon, <2>1, <2>2, <2>3, SeqFrame DEF Sequencing, Announcing
  <1>4. CASE RecordDeletionSeq(p) \/ Oblige(p) \/ Unlink(p) \/ Complete(p)
    <2>1. TypeInv' /\ Moved(p) /\ pc'[p] \in {"oblige", "unlink", "complete", "load", "idle"}
      BY Zenon, <1>0, <1>4, StepRecordDeletionSeq, StepOblige, StepUnlink, StepComplete
    <2>2. UNCHANGED <<log, live, preMax>> /\ pc[p] \in Announcing
      BY Zenon, <1>4 DEF RecordDeletionSeq, Oblige, Unlink, Complete, sequencer,
         journal, Announcing
    <2>3. \E n \in live : log[n] = Deleted
      BY <2>2, Zenon DEF SeqInv, AnnounceInv
    <2> QED
      BY Zenon, <2>1, <2>2, <2>3, SeqFrame DEF Sequencing
  <1> QED
    BY <1>1, <1>2, <1>3, <1>4, Zenon DEF DeleteStep

LEMMA SeqRestart ==
    ASSUME SeqInv, Crash \/ Restart
    PROVE  SeqInv'
  <1>1. TypeInv' /\ Moved(Boot) /\ pc'[Boot] \in {"tombstone", "load", "idle"} /\ Boot \in Procs
    BY Zenon, StepCrash, StepRestart DEF SeqInv, Moved, Procs
  <1>2. UNCHANGED <<log, live, preMax, tombstone>>
    BY Zenon DEF Crash, Restart, sequencer, journal
  <1> QED
    BY Zenon, <1>1, <1>2, SeqFrame DEF Sequencing, Announcing

LEMMA SeqStutter ==
    ASSUME SeqInv, TypeInv', UNCHANGED <<tombstone, preMax, log, live, seqLock, pc, local>>
    PROVE  SeqInv'
  BY Zenon DEF SeqInv, LockInv, RecordInv, PrunedIsRecorded, AnnounceInv

LEMMA SeqNext ==
    ASSUME SeqInv, [Next]_vars
    PROVE  SeqInv'
  <1>1. ASSUME NEW s \in States, Reload(s)
        PROVE  SeqInv'
    <2>1. TypeInv'
      BY Zenon, <1>1, StepReload DEF SeqInv
    <2>2. UNCHANGED <<tombstone, preMax, log, live, seqLock, pc, local>>
      BY Zenon, <1>1 DEF Reload, journal, sequencer, locks
    <2> QED
      BY Zenon, <2>1, <2>2, SeqStutter
  <1>2. CASE UNCHANGED vars
    <2>1. TypeInv'
      <3>1. ProcsType'
        BY Zenon, <1>2 DEF vars, SeqInv, TypeInv, ProcsType
      <3> QED
        BY Zenon, <1>2, <3>1, Untouched DEF vars, SeqInv, TypeInv
    <2>2. UNCHANGED <<tombstone, preMax, log, live, seqLock, pc, local>>
      BY Zenon, <1>2 DEF vars, journal, sequencer, locks
    <2> QED
      BY Zenon, <2>1, <2>2, SeqStutter
  <1>3. CASE Crash \/ Restart
    BY Zenon, <1>3, SeqRestart
  <1>4. ASSUME NEW p \in Procs,
               CreateStep(p) \/ WriteStep(p) \/ PublishStep(p) \/ StartDelete(p)
               \/ DeleteStep(p) \/ Fail(p)
        PROVE  SeqInv'
    BY Zenon, <1>4, SeqCreateStep, SeqPublishStep, SeqDeleteStep
  <1> QED
    BY <1>1, <1>2, <1>3, <1>4, Zenon DEF Next

LEMMA SeqInit ==
    ASSUME Init
    PROVE  SeqInv
  <1>1. TypeInv
    <2>1. NoTombstone \in Tombstones /\ NoLocals \in Frames
      BY NoLocalsType, BoundsAssumption DEF NoTombstone, Tombstones
    <2>0. 0 \in 0 .. MaxRev /\ 0 \in 0 .. MaxStore
      BY BoundsAssumption
    <2>2. AccountType /\ DirectoryType /\ requested \in BOOLEAN
      BY <2>0, Zenon DEF Init, AccountType, DirectoryType
    <2>3. JournalType
      BY <2>0, <2>1, Zenon DEF Init, JournalType
    <2>4. SequencerType
      BY BoundsAssumption DEF Init, SequencerType
    <2>5. MemoryType /\ LocksType
      BY ZenonT(40) DEF Init, MemoryType, LocksType, States
    <2>6. ProcsType
      BY Zenon, <2>1 DEF Init, ProcsType, Labels
    <2> QED
      BY Zenon, <2>2, <2>3, <2>4, <2>5, <2>6 DEF TypeInv
  <1>2. \A p \in Procs : pc[p] = "idle"
    BY Zenon DEF Init
  <1>3. LockInv
    BY Zenon, <1>2 DEF LockInv, Sequencing
  <1>4. RecordInv
    BY <1>2 DEF Init, RecordInv, PrunedIsRecorded
  <1>5. AnnounceInv
    BY Zenon, <1>2 DEF Init, AnnounceInv, Announcing, NoTombstone
  <1> QED
    BY Zenon, <1>1, <1>3, <1>4, <1>5 DEF SeqInv

(* The sequencer's invariant, for every behaviour.                         *)
THEOREM SeqInvariant == Spec => []SeqInv
  BY SeqInit, SeqNext, PTL DEF Spec

(* Every variable keeps its type.                                          *)
THEOREM TypeCorrect == Spec => []TypeOK
  <1>1. SeqInv => TypeOK
    BY Zenon DEF SeqInv, TypeInv, TypeOK, AccountType, DirectoryType, JournalType, SequencerType,
       MemoryType, LocksType, ProcsType, Frames, Tombstones
  <1> QED
    BY <1>1, SeqInvariant, PTL

(* Whatever deletions, publishers and restarts interleave, the journal     *)
(* keeps the highest revision of the rows that delete_all_for_user removed.*)
THEOREM PrunedStaysRecorded == Spec => []PrunedIsRecorded
  <1>1. SeqInv => PrunedIsRecorded
    BY Zenon DEF SeqInv, RecordInv
  <1> QED
    BY <1>1, SeqInvariant, PTL

(* Whichever deletion pruned last, the deletion event of a deletion that   *)
(* the journal calls complete stays readable.                              *)
THEOREM AnnouncementStays == Spec => []AnnouncementSurvives
  <1>1. SeqInv => AnnouncementSurvives
    BY Zenon DEF SeqInv, AnnounceInv, AnnouncementSurvives
  <1> QED
    BY <1>1, SeqInvariant, PTL

----------------------------------------------------------------------------
(* The first life of the DID.                                              *)

LEMMA PcFacts ==
    /\ "idle" \notin Making \cup DeletePcs /\ Making \cap DeletePcs = {}
    /\ RowsGone \subseteq DeletePcs
    /\ {"unlink", "complete"} \subseteq RowsGone
  BY Zenon DEF Making, DeletePcs, RowsGone

(* Whoever deletes or may delete, the DID is in use.                       *)
LEMMA InUse ==
    ASSUME FirstLife, NEW p \in Procs, pc[p] \in DeletePcs \/ rows \/ tombstone.row
    PROVE  created # 0 /\ \A q \in Procs : pc[q] \notin Making
  <1>1. ~Unused
    BY DEF Unused, Deleting, NoTombstone
  <1> QED
    BY <1>1, Zenon DEF FirstLife, BeforeRows

(* A step that neither makes nor unlinks a store, nor makes account rows   *)
(* or a tombstone.                                                         *)
LEMMA LifeFrame ==
    ASSUME TypeInv, FirstLife, NEW p \in Procs, Moved(p),
           rows' => rows, obligation => obligation', UNCHANGED <<store, created, requested>>,
           \/ tombstone' = tombstone
           \/ /\ pc[p] \in DeletePcs
              /\ tombstone'.row = tombstone.row /\ tombstone'.done = tombstone.done,
           pc'[p] \in Making => pc[p] \in Making,
           pc'[p] \in DeletePcs => pc[p] \in DeletePcs \/ rows \/ tombstone.row,
           pc'[p] \in RowsGone => ~rows',
           pc'[p] = "complete" => store = 0,
           pc'[p] \in {"unlink", "complete"} /\ Coexistence => obligation'
    PROVE  FirstLife'
  <1>0. \A q \in Procs : q # p => pc'[q] = "idle" \/ pc'[q] = pc[q]
    BY Zenon DEF Moved
  <1>1. \A q \in Procs : pc'[q] \in Making => pc[q] \in Making
    BY <1>0, PcFacts, Zenon
  <1>2. OneMaker'
    BY <1>1, Zenon DEF FirstLife, OneMaker
  <1>3. tombstone'.row = tombstone.row /\ tombstone'.done = tombstone.done
    BY Zenon
  <1>4. Unused => Unused'
    <2>1. ASSUME Unused PROVE \A q \in Procs : pc'[q] \notin DeletePcs
      BY <1>0, <2>1, PcFacts, Zenon DEF Unused, Deleting, NoTombstone
    <2> QED
      BY <2>1, Zenon DEF Unused, Deleting
  <1>5. BeforeRows'
    BY <1>1, <1>4, Zenon DEF FirstLife, BeforeRows
  <1>6. DeletionOrder'
    BY <1>0, PcFacts, Zenon DEF FirstLife, DeletionOrder
  <1>7. Owed'
    <2>1. Deleting' => Deleting \/ rows \/ tombstone.row
      BY <1>0, PcFacts, Zenon DEF Deleting
    <2> QED
      BY <1>3, <2>1, Zenon DEF FirstLife, Owed
  <1>8. DoneMeansGone' /\ InterruptedIsResumable'
    BY <1>3, Zenon DEF FirstLife, DoneMeansGone, InterruptedIsResumable, OpenTombstone
  <1> QED
    BY ZenonT(40), <1>2, <1>5, <1>6, <1>7, <1>8 DEF FirstLife

(* A store is made: the first one by the only maker, a later one ends the  *)
(* first life.                                                             *)
LEMMA LifeCreateStore ==
    ASSUME TypeInv, LifeInv, NEW p \in Procs, CreateStore(p)
    PROVE  LifeInv'
  <1>0. TypeInv' /\ Moved(p) /\ pc'[p] \in {"repo", "idle"} /\ pc[p] = "mkdir"
    BY Zenon, StepCreateStore DEF CreateStore
  <1>1. CASE store # 0
    <2>1. pc'[p] = "idle" /\ UNCHANGED <<rows, obligation, store, created, requested, tombstone>>
      BY Zenon, <1>1 DEF CreateStore, account, journal, directory, Return, TypeInv,
         ProcsType
    <2> QED
      BY Zenon, <1>0, <2>1, LifeFrame, PcFacts DEF LifeInv
  <1>2. CASE store = 0
    <2>1. /\ created' = created + 1 /\ store' = created + 1 /\ pc' = [pc EXCEPT ![p] = "repo"]
          /\ UNCHANGED <<rows, obligation, requested, tombstone>>
      BY Zenon, <1>2 DEF CreateStore, account, journal, Keep, Goto
    <2>2. SUFFICES ASSUME created' <= 1 PROVE FirstLife'
      BY Zenon DEF LifeInv
    <2>3. created = 0 /\ FirstLife /\ created' = 1 /\ store' = 1
      BY <2>1, <2>2 DEF LifeInv, TypeInv, DirectoryType
    <2>4. Unused /\ \A q \in Procs : pc[q] \notin Making
      BY <2>3, Zenon DEF FirstLife, BeforeRows
    <2>5. \A q \in Procs : IF q = p THEN pc'[q] = "repo" ELSE pc'[q] = pc[q]
      BY Zenon, <2>1 DEF TypeInv, ProcsType
    <2>6. "repo" \in Making /\ "repo" \notin DeletePcs
      BY Zenon DEF Making, DeletePcs
    <2>7. OneMaker'
      BY <2>4, <2>5, Zenon DEF OneMaker
    <2>8. \A q \in Procs : pc'[q] \notin DeletePcs
      BY <2>4, <2>5, <2>6, Zenon DEF Unused, Deleting
    <2>9. Unused'
      BY <2>1, <2>4, <2>8, Zenon DEF Unused, Deleting
    <2>10. BeforeRows'
      BY <2>3, <2>9 DEF BeforeRows
    <2>11. DeletionOrder'
      BY <2>8, PcFacts, Zenon DEF DeletionOrder
    <2>12. Owed' /\ DoneMeansGone' /\ InterruptedIsResumable'
      BY Zenon, <2>3, <2>9 DEF Unused, Owed, DoneMeansGone, InterruptedIsResumable,
         NoTombstone
    <2> QED
      BY ZenonT(40), <2>7, <2>10, <2>11, <2>12 DEF FirstLife
  <1> QED
    BY Zenon, <1>1, <1>2

(* The maker gives up and removes its store.                               *)
LEMMA LifeDestroy ==
    ASSUME TypeInv, LifeInv, NEW p \in Procs, pc[p] \in Making, Destroy(p),
           UNCHANGED <<rows, tombstone, obligation, requested>>
    PROVE  LifeInv'
  <1>0. Moved(p) /\ pc'[p] = "idle"
    BY Zenon, Destroys
  <1>1. CASE admission = "absent"
    <2>1. UNCHANGED <<store, created>>
      BY Zenon, <1>1 DEF Destroy, directory
    <2> QED
      BY Zenon, <1>0, <2>1, LifeFrame, PcFacts DEF LifeInv
  <1>2. CASE admission # "absent"
    <2>1. store' = 0 /\ created' = created
      BY Zenon, <1>2 DEF Destroy, Unlinked
    <2>2. SUFFICES ASSUME created <= 1, FirstLife PROVE FirstLife'
      BY Zenon, <2>1 DEF LifeInv
    <2>3. Unused /\ created # 0 /\ \A q \in Procs : q # p => pc[q] \notin Making
      BY <2>2, Zenon DEF FirstLife, BeforeRows, OneMaker
    <2>4. \A q \in Procs : pc'[q] \in {pc[q], "idle"} /\ (q = p => pc'[q] = "idle")
      BY Zenon, <1>0 DEF Moved
    <2>5. \A q \in Procs : pc'[q] \notin Making /\ pc'[q] \notin DeletePcs
      BY Zenon, <2>3, <2>4, PcFacts DEF Unused, Deleting
    <2>6. Unused'
      BY <2>3, <2>5, Zenon DEF Unused, Deleting
    <2>7. OneMaker' /\ BeforeRows' /\ DeletionOrder'
      BY ZenonT(40), <2>1, <2>5, <2>6, PcFacts DEF OneMaker, BeforeRows, DeletionOrder
    <2>8. Owed' /\ DoneMeansGone' /\ InterruptedIsResumable'
      BY <2>6 DEF Unused, Owed, DoneMeansGone, InterruptedIsResumable, NoTombstone
    <2> QED
      BY <2>7, <2>8, Zenon DEF FirstLife
  <1> QED
    BY Zenon, <1>1, <1>2

LEMMA LifeCreateRepo ==
    ASSUME TypeInv, LifeInv, NEW p \in Procs, CreateRepo(p) \/ CreateFails(p)
    PROVE  LifeInv'
  <1>1. pc[p] \in Making /\ UNCHANGED <<rows, tombstone, obligation, requested>>
    BY Zenon DEF CreateRepo, CreateFails, Making, account, journal
  <1>2. CASE Destroy(p)
    BY Zenon, <1>1, <1>2, LifeDestroy
  <1>3. CASE ~Destroy(p)
    <2>1. CreateRepo(p) /\ pc' = [pc EXCEPT ![p] = "rows"] /\ UNCHANGED <<store, created>>
      BY ZenonT(40), <1>3 DEF CreateRepo, CreateFails, Goto, Commit
    <2>2. Moved(p) /\ pc'[p] = "rows"
      BY Zenon, <2>1, StepCreateRepo DEF TypeInv, ProcsType
    <2>3. "rows" \notin DeletePcs
      BY Zenon DEF DeletePcs
    <2> QED
      BY Zenon, <1>1, <2>1, <2>2, <2>3, LifeFrame, PcFacts DEF LifeInv
  <1> QED
    BY Zenon, <1>2, <1>3

(* The account rows appear in a life that has neither been deleted nor     *)
(* tombstoned.                                                             *)
LEMMA LifeCreateRows ==
    ASSUME TypeInv, LifeInv, NEW p \in Procs, CreateRows(p)
    PROVE  LifeInv'
  <1>0. Moved(p) /\ pc'[p] \in {"active", "root"} /\ pc[p] \in Making
    BY Zenon, StepCreateRows DEF CreateRows, Making
  <1>1. UNCHANGED <<store, created, tombstone, obligation, requested>>
    BY Zenon DEF CreateRows, directory, journal
  <1>2. SUFFICES ASSUME created <= 1, FirstLife PROVE FirstLife'
    BY Zenon, <1>1 DEF LifeInv
  <1>3. Unused /\ created # 0 /\ store # 0 /\ \A q \in Procs : q # p => pc[q] \notin Making
    BY <1>0, <1>2, Zenon DEF FirstLife, BeforeRows, OneMaker
  <1>4. \A q \in Procs : pc'[q] \notin Making /\ pc'[q] \notin DeletePcs
    <2>1. \A q \in Procs : q # p => pc'[q] \in {pc[q], "idle"}
      BY Zenon, <1>0 DEF Moved
    <2>2. pc'[p] \notin Making /\ pc'[p] \notin DeletePcs
      BY Zenon, <1>0 DEF Making, DeletePcs
    <2> QED
      BY Zenon, <1>3, <2>1, <2>2, PcFacts DEF Unused, Deleting
  <1>5. OneMaker' /\ BeforeRows' /\ DeletionOrder'
    BY <1>1, <1>3, <1>4, PcFacts, Zenon DEF OneMaker, BeforeRows, DeletionOrder
  <1>6. Owed' /\ DoneMeansGone' /\ InterruptedIsResumable'
    BY Zenon, <1>1, <1>3 DEF Unused, Owed, DoneMeansGone, InterruptedIsResumable,
       NoTombstone
  <1> QED
    BY <1>5, <1>6, Zenon DEF FirstLife

LEMMA LifeClearTombstone ==
    ASSUME TypeInv, LifeInv, NEW p \in Procs, ClearTombstone(p)
    PROVE  LifeInv'
  <1>0. Moved(p) /\ pc'[p] = "idle"
    BY Zenon, StepClearTombstone
  <1>1. UNCHANGED <<rows, store, created, obligation, requested>>
    BY Zenon DEF ClearTombstone, account, directory
  <1>2. SUFFICES ASSUME created <= 1, FirstLife PROVE FirstLife'
    BY Zenon, <1>1 DEF LifeInv
  <1>3. CASE ~tombstone.done
    <2>1. tombstone' = tombstone
      BY Zenon, <1>3 DEF ClearTombstone
    <2> QED
      BY Zenon, <1>0, <1>1, <1>2, <2>1, LifeFrame, PcFacts
  <1>4. CASE tombstone.done
    <2>1. tombstone' = NoTombstone
      BY Zenon, <1>4 DEF ClearTombstone
    <2>2. ~requested
      BY ZenonT(40), <1>2, <1>4 DEF FirstLife, InterruptedIsResumable, OpenTombstone
    <2>3. \A q \in Procs : pc'[q] \in {pc[q], "idle"}
      BY Zenon, <1>0 DEF Moved
    <2>4. \A q \in Procs : (pc'[q] \in Making => pc[q] \in Making)
                           /\ (pc'[q] \in DeletePcs => pc'[q] = pc[q])
      BY Zenon, <2>3, PcFacts
    <2>5. OneMaker' /\ DeletionOrder'
      BY <1>1, <1>2, <2>4, PcFacts, Zenon DEF FirstLife, OneMaker, DeletionOrder
    <2>6. Unused => Unused'
      BY <1>1, <2>1, <2>4, Zenon DEF Unused, Deleting
    <2>7. BeforeRows'
      BY <1>1, <1>2, <2>4, <2>6, Zenon DEF FirstLife, BeforeRows
    <2>8. Deleting' => Deleting
      BY <2>4, Zenon DEF Deleting
    <2>9. Owed' /\ DoneMeansGone' /\ InterruptedIsResumable'
      BY ZenonT(40), <1>1, <1>2, <2>1, <2>2, <2>8
         DEF FirstLife, Owed, DoneMeansGone, InterruptedIsResumable, NoTombstone
    <2> QED
      BY ZenonT(40), <2>5, <2>7, <2>9 DEF FirstLife
  <1> QED
    BY Zenon, <1>3, <1>4

LEMMA LifeTombstone ==
    ASSUME TypeInv, LifeInv, NEW p \in Procs, Tombstone(p)
    PROVE  LifeInv'
  <1>0. Moved(p) /\ pc'[p] = "accountRows" /\ pc[p] = "tombstone"
    BY Zenon, StepTombstone DEF Tombstone
  <1>1. /\ UNCHANGED <<rows, store, created, obligation>> /\ requested' = (requested \/ rows)
        /\ tombstone'.row /\ tombstone'.done = tombstone.done
    BY Zenon DEF Tombstone, account, directory, TypeInv, JournalType, Tombstones
  <1>2. SUFFICES ASSUME created <= 1, FirstLife PROVE FirstLife'
    BY Zenon, <1>1 DEF LifeInv
  <1>3. pc[p] \in DeletePcs /\ "accountRows" \in DeletePcs
        /\ "accountRows" \notin RowsGone \cup Making
    BY Zenon, <1>0 DEF DeletePcs, RowsGone, Making
  <1>4. created # 0 /\ \A q \in Procs : pc[q] \notin Making
    BY Zenon, <1>2, <1>3, InUse
  <1>5. \A q \in Procs : q # p => pc'[q] = "idle" \/ pc'[q] = pc[q]
    BY Zenon, <1>0 DEF Moved
  <1>6. OneMaker' /\ BeforeRows'
    <2>1. \A q \in Procs : pc'[q] \notin Making
      BY ZenonT(40), <1>0, <1>3, <1>4, <1>5, PcFacts
    <2> QED
      BY <1>1, <1>4, <2>1, Zenon DEF OneMaker, BeforeRows
  <1>7. DeletionOrder'
    BY ZenonT(40), <1>0, <1>1, <1>2, <1>3, <1>5, PcFacts DEF FirstLife, DeletionOrder
  <1>8. Owed'
    <2>1. Deleting
      BY Zenon, <1>3 DEF Deleting
    <2> QED
      BY <1>1, <1>2, <2>1, Zenon DEF FirstLife, Owed
  <1>9. DoneMeansGone' /\ InterruptedIsResumable'
    BY <1>1, <1>2, Zenon DEF FirstLife, DoneMeansGone, InterruptedIsResumable, OpenTombstone
  <1> QED
    BY ZenonT(40), <1>6, <1>7, <1>8, <1>9 DEF FirstLife

(* The directory goes once the purge of the objects is owed.               *)
LEMMA LifeUnlink ==
    ASSUME TypeInv, LifeInv, NEW p \in Procs, Unlink(p)
    PROVE  LifeInv'
  <1>0. Moved(p) /\ pc'[p] \in {"complete", "idle"} /\ pc[p] = "unlink"
        /\ UNCHANGED <<rows, tombstone, obligation, requested>>
    BY Zenon, StepUnlink DEF Unlink, account, journal
  <1>1. CASE admission = "absent"
    <2>1. pc'[p] = "idle" /\ UNCHANGED <<store, created>>
      <3>1. Refused(p) /\ UNCHANGED directory
        BY Zenon, <1>1 DEF Unlink
      <3> QED
        BY Zenon, <3>1, Refuses DEF TypeInv, directory
    <2> QED
      BY Zenon, <1>0, <2>1, LifeFrame, PcFacts DEF LifeInv
  <1>2. CASE admission # "absent"
    <2>1. store' = 0 /\ created' = created
      BY Zenon, <1>2 DEF Unlink, Unlinked
    <2>2. SUFFICES ASSUME created <= 1, FirstLife PROVE FirstLife'
      BY Zenon, <2>1 DEF LifeInv
    <2>3. pc[p] \in DeletePcs /\ pc[p] \in RowsGone /\ pc'[p] \notin Making
      BY Zenon, <1>0 DEF DeletePcs, RowsGone, Making
    <2>4. created # 0 /\ \A q \in Procs : pc[q] \notin Making
      BY Zenon, <2>2, <2>3, InUse
    <2>5. ~rows /\ (Coexistence => obligation)
      BY ZenonT(40), <1>0, <2>2, <2>3 DEF FirstLife, DeletionOrder
    <2>6. \A q \in Procs : q # p => pc'[q] = "idle" \/ pc'[q] = pc[q]
      BY Zenon, <1>0 DEF Moved
    <2>7. OneMaker' /\ BeforeRows'
      <3>1. \A q \in Procs : pc'[q] \notin Making
        BY ZenonT(40), <2>3, <2>4, <2>6, PcFacts
      <3> QED
        BY <2>1, <2>4, <3>1, Zenon DEF OneMaker, BeforeRows
    <2>8. DeletionOrder' /\ Owed'
      BY <1>0, <2>1, <2>5, Zenon DEF DeletionOrder, Owed
    <2>9. DoneMeansGone' /\ InterruptedIsResumable'
      BY ZenonT(40), <1>0, <2>1, <2>2
         DEF FirstLife, DoneMeansGone, InterruptedIsResumable, OpenTombstone
    <2> QED
      BY ZenonT(40), <2>7, <2>8, <2>9 DEF FirstLife
  <1> QED
    BY Zenon, <1>1, <1>2

LEMMA LifeComplete ==
    ASSUME TypeInv, LifeInv, NEW p \in Procs, Complete(p)
    PROVE  LifeInv'
  <1>0. Moved(p) /\ pc'[p] \in {"load", "idle"} /\ pc[p] = "complete"
    BY ZenonT(40), StepComplete DEF Complete
  <1>1. /\ UNCHANGED <<rows, store, created, obligation>> /\ requested' = FALSE
        /\ tombstone'.row = tombstone.row
    BY Zenon DEF Complete, account, directory, TypeInv, JournalType, Tombstones
  <1>2. SUFFICES ASSUME created <= 1, FirstLife PROVE FirstLife'
    BY Zenon, <1>1 DEF LifeInv
  <1>3. pc[p] \in DeletePcs /\ pc[p] \in RowsGone /\ pc'[p] \notin Making \cup DeletePcs
    BY Zenon, <1>0 DEF DeletePcs, RowsGone, Making
  <1>4. created # 0 /\ \A q \in Procs : pc[q] \notin Making
    BY Zenon, <1>2, <1>3, InUse
  <1>5. ~rows /\ store = 0
    BY ZenonT(40), <1>0, <1>2, <1>3 DEF FirstLife, DeletionOrder
  <1>6. \A q \in Procs : q # p => pc'[q] = "idle" \/ pc'[q] = pc[q]
    BY Zenon, <1>0 DEF Moved
  <1>7. OneMaker' /\ BeforeRows'
    <2>1. \A q \in Procs : pc'[q] \notin Making
      BY ZenonT(40), <1>3, <1>4, <1>6, PcFacts
    <2> QED
      BY <1>1, <1>4, <2>1, Zenon DEF OneMaker, BeforeRows
  <1>8. DeletionOrder'
    BY ZenonT(40), <1>1, <1>2, <1>3, <1>6, PcFacts DEF FirstLife, DeletionOrder
  <1>9. Owed'
    <2>1. Deleting
      BY Zenon, <1>3 DEF Deleting
    <2> QED
      BY ZenonT(40), <1>1, <1>2, <2>1 DEF FirstLife, Owed
  <1>10. DoneMeansGone' /\ InterruptedIsResumable'
    BY <1>1, <1>5, Zenon DEF DoneMeansGone, InterruptedIsResumable
  <1> QED
    BY <1>7, <1>8, <1>9, <1>10, Zenon DEF FirstLife

LEMMA LifeCreateStep ==
    ASSUME TypeInv, LifeInv, NEW p \in Procs, CreateStep(p)
    PROVE  LifeInv'
  <1>1. CASE CreateStore(p)
    BY Zenon, <1>1, LifeCreateStore
  <1>2. CASE CreateRepo(p) \/ CreateFails(p)
    BY Zenon, <1>2, LifeCreateRepo
  <1>3. CASE CreateRows(p)
    BY Zenon, <1>3, LifeCreateRows
  <1>4. CASE ClearTombstone(p)
    BY Zenon, <1>4, LifeClearTombstone
  <1>5. CASE StartCreate(p) \/ SequenceActive(p) \/ UpdateRepoRoot(p)
    <2>1. Moved(p) /\ pc'[p] \in {"mkdir", "load", "clear", "idle"}
      BY Zenon, <1>5, StepStartCreate, StepSequenceActive, StepUpdateRepoRoot
    <2>2. UNCHANGED <<rows, store, created, tombstone, obligation, requested>>
      BY ZenonT(40), <1>5 DEF StartCreate, SequenceActive, UpdateRepoRoot, account, directory, journal
    <2>3. pc'[p] \notin Making \cup DeletePcs
      BY Zenon, <2>1 DEF Making, DeletePcs
    <2> QED
      BY Zenon, <2>2, <2>1, <2>3, LifeFrame, PcFacts DEF LifeInv
  <1> QED
    BY ZenonT(40), <1>1, <1>2, <1>3, <1>4, <1>5 DEF CreateStep

LEMMA LifePublishStep ==
    ASSUME TypeInv, LifeInv, NEW p \in Procs, WriteStep(p) \/ PublishStep(p) \/ Fail(p)
    PROVE  LifeInv'
  <1>0. OpenStore(p) \/ CommitWrite(p) \/ LoadPending(p) \/ PublishRow(p) \/ Acknowledge(p)
        \/ ReadStoreRoot(p) \/ SyncAccountRoot(p) \/ Fail(p)
    BY ZenonT(40) DEF WriteStep, PublishStep
  <1>1. Moved(p) /\ pc'[p] \in {"open", "load", "row", "ack", "sync", "root", "idle"}
    BY Zenon, <1>0, StepOpenStore, StepCommitWrite, StepLoadPending, StepPublishRow,
       StepAcknowledge, StepReadStoreRoot, StepSyncAccountRoot, StepFail
  <1>2. UNCHANGED <<rows, store, created, tombstone, obligation, requested>>
    BY ZenonT(40), <1>0 DEF OpenStore, CommitWrite, Commit, LoadPending, PublishRow, Acknowledge,
       ReadStoreRoot, SyncAccountRoot, Fail, account, directory, journal
  <1>3. pc'[p] \notin Making \cup DeletePcs
    BY Zenon, <1>1 DEF Making, DeletePcs
  <1> QED
    BY Zenon, <1>1, <1>2, <1>3, LifeFrame, PcFacts DEF LifeInv

(* The steps of a deletion up to the obligation, but for the tombstone.    *)
LEMMA LifeDeleteStep ==
    ASSUME TypeInv, LockInv, LifeInv, NEW p \in Procs, StartDelete(p) \/ DeleteStep(p)
    PROVE  LifeInv'
  <1>1. CASE Tombstone(p)
    BY Zenon, <1>1, LifeTombstone
  <1>2. CASE Unlink(p)
    BY Zenon, <1>2, LifeUnlink
  <1>3. CASE Complete(p)
    BY Zenon, <1>3, LifeComplete
  <1>4. CASE StartDelete(p)
    <2>1. Moved(p) /\ pc'[p] = "tombstone" /\ (rows \/ tombstone.row)
          /\ UNCHANGED <<rows, store, created, tombstone, obligation, requested>>
      BY Zenon, <1>4, StepStartDelete DEF StartDelete, OpenTombstone, account,
         directory, journal
    <2>2. "tombstone" \notin Making \cup RowsGone
      BY Zenon DEF Making, RowsGone
    <2> QED
      BY ZenonT(40), <2>1, <2>2, LifeFrame, PcFacts DEF LifeInv
  <1>5. CASE DeleteRows(p)
    <2>1. Moved(p) /\ pc'[p] \in {"check", "idle"} /\ pc[p] = "accountRows"
          /\ UNCHANGED <<store, created, tombstone, obligation, requested>>
      BY ZenonT(40), <1>5, StepDeleteRows DEF DeleteRows, directory, journal
    <2>2. (rows' => rows) /\ (pc'[p] = "check" => ~rows')
      <3>1. CASE admission = "active"
        BY <1>5, <3>1, Zenon DEF DeleteRows
      <3>2. CASE admission # "active"
        <4>1. Refused(p) /\ UNCHANGED account
          BY Zenon, <1>5, <3>2 DEF DeleteRows
        <4> QED
          BY Zenon, <4>1, Refuses DEF TypeInv, account
      <3> QED
        BY Zenon, <3>1, <3>2
    <2>3. pc[p] \in DeletePcs /\ pc'[p] \notin Making \cup {"unlink", "complete"}
      BY Zenon, <2>1 DEF DeletePcs, Making
    <2> QED
      BY Zenon, <2>1, <2>2, <2>3, LifeFrame, PcFacts DEF LifeInv
  <1>6. CASE CheckSequenced(p) \/ RecordPreDeletionMax(p) \/ SequenceDeleted(p) \/ Prune(p)
             \/ RecordDeletionSeq(p)
    <2>1. /\ Moved(p) /\ pc'[p] \in {"preMax", "insert", "prune", "recordSeq", "oblige"}
          /\ pc[p] \in {"check", "preMax", "insert", "prune", "recordSeq"}
      BY Zenon, <1>6, StepCheckSequenced, StepRecordPreDeletionMax, StepSequenceDeleted,
         StepPrune, StepRecordDeletionSeq DEF CheckSequenced, RecordPreDeletionMax,
         SequenceDeleted, Prune, RecordDeletionSeq
    <2>2. UNCHANGED <<rows, store, created, obligation, requested>>
      BY Zenon, <1>6 DEF CheckSequenced, RecordPreDeletionMax, SequenceDeleted, Prune,
         RecordDeletionSeq, account, directory, journal
    <2>3. tombstone'.row = tombstone.row /\ tombstone'.done = tombstone.done
      BY ZenonT(40), <1>6 DEF CheckSequenced, RecordPreDeletionMax, SequenceDeleted, Prune,
         RecordDeletionSeq, journal, TypeInv, JournalType, Tombstones
    <2>4. pc[p] \in DeletePcs /\ pc[p] \in RowsGone
          /\ pc'[p] \notin Making \cup {"unlink", "complete"}
      BY Zenon, <2>1 DEF DeletePcs, RowsGone, Making
    <2>5. created <= 1 => ~rows
      BY ZenonT(40), <2>4 DEF LifeInv, FirstLife, DeletionOrder
    <2> QED
      BY Zenon, <2>1, <2>2, <2>3, <2>4, <2>5, LifeFrame DEF LifeInv
  <1>7. CASE Oblige(p)
    <2>1. Moved(p) /\ pc'[p] \in {"unlink", "idle"} /\ pc[p] = "oblige"
          /\ UNCHANGED <<rows, store, created, tombstone, requested>>
      BY ZenonT(40), <1>7, StepOblige DEF Oblige, account, directory
    <2>2. (obligation => obligation') /\ (Coexistence => obligation')
      <3>1. obligation' = TRUE \/ (~Coexistence /\ obligation' = obligation)
        BY <1>7, Zenon DEF Oblige
      <3> QED
        BY <3>1, SMT
    <2>3. pc[p] \in DeletePcs /\ pc[p] \in RowsGone /\ pc'[p] \notin Making \cup {"complete"}
      BY Zenon, <2>1 DEF DeletePcs, RowsGone, Making
    <2>4. created <= 1 => ~rows
      BY <2>3, Zenon DEF LifeInv, FirstLife, DeletionOrder
    <2> QED
      BY Zenon, <2>1, <2>2, <2>3, <2>4, LifeFrame DEF LifeInv
  <1> QED
    BY ZenonT(40), <1>1, <1>2, <1>3, <1>4, <1>5, <1>6, <1>7 DEF DeleteStep

LEMMA LifeRestart ==
    ASSUME TypeInv, LifeInv, Crash \/ Restart
    PROVE  LifeInv'
  <1>1. Moved(Boot) /\ Boot \in Procs /\ pc'[Boot] \in {"tombstone", "load", "idle"}
    BY Zenon, StepCrash, StepRestart DEF Moved, Procs
  <1>2. UNCHANGED <<rows, store, created, tombstone, obligation, requested>>
    BY Zenon DEF Crash, Restart, account, directory, journal
  <1>3. pc'[Boot] = "tombstone" => tombstone.row
    <2>1. CASE Crash
      BY Zenon, <2>1, StepCrash, <1>1
    <2>2. CASE Restart
      BY Zenon, <2>2 DEF Restart, OpenTombstone, TypeInv, ProcsType, Procs
    <2> QED
      BY Zenon, <2>1, <2>2
  <1>4. pc'[Boot] \notin Making \cup RowsGone
        /\ (pc'[Boot] \in DeletePcs => pc'[Boot] = "tombstone")
    BY Zenon, <1>1 DEF Making, RowsGone, DeletePcs
  <1> QED
    BY ZenonT(40), <1>1, <1>2, <1>3, <1>4, LifeFrame, PcFacts DEF LifeInv

LEMMA LifeNext ==
    ASSUME SeqInv, LifeInv, [Next]_vars
    PROVE  LifeInv'
  <1>0. TypeInv /\ LockInv
    BY Zenon DEF SeqInv
  <1>1. CASE UNCHANGED vars \/ \E s \in States : Reload(s)
    <2>1. UNCHANGED <<rows, store, created, tombstone, obligation, requested, pc>>
      BY Zenon, <1>1 DEF Reload, vars, account, directory, journal
    <2> QED
      BY ZenonT(40), <2>1 DEF LifeInv, FirstLife, OneMaker, BeforeRows, Unused, Deleting, DeletionOrder,
         Owed, DoneMeansGone, InterruptedIsResumable, OpenTombstone
  <1>2. CASE Crash \/ Restart
    BY Zenon, <1>0, <1>2, LifeRestart
  <1>3. ASSUME NEW p \in Procs,
               CreateStep(p) \/ WriteStep(p) \/ PublishStep(p) \/ StartDelete(p)
               \/ DeleteStep(p) \/ Fail(p)
        PROVE  LifeInv'
    BY Zenon, <1>0, <1>3, LifeCreateStep, LifePublishStep, LifeDeleteStep
  <1> QED
    BY <1>1, <1>2, <1>3, Zenon DEF Next

LEMMA LifeInit ==
    ASSUME Init
    PROVE  LifeInv
  <1>1. \A p \in Procs : pc[p] \notin Making /\ pc[p] \notin DeletePcs
    BY Zenon, PcFacts DEF Init
  <1>2. Unused
    BY <1>1, Zenon DEF Init, Unused, Deleting
  <1>3. OneMaker /\ BeforeRows /\ DeletionOrder
    BY ZenonT(40), <1>1, <1>2, PcFacts DEF Init, OneMaker, BeforeRows, DeletionOrder
  <1>4. Owed /\ DoneMeansGone /\ InterruptedIsResumable
    BY Zenon, <1>2 DEF Unused, Owed, DoneMeansGone, InterruptedIsResumable, NoTombstone
  <1> QED
    BY ZenonT(40), <1>3, <1>4 DEF LifeInv, FirstLife

(* The first life's invariant, for every behaviour.                        *)
THEOREM LifeInvariant == Spec => []LifeInv
  BY LifeInit, LifeNext, SeqInvariant, PTL DEF Spec

(* Until the DID's store is made a second time, a deletion that the        *)
(* journal calls complete left neither account rows nor a directory,       *)
(* whatever requests ran beside it and wherever it was interrupted.        *)
THEOREM DoneIsGone == Spec => [](created <= 1 => DoneMeansGone)
  <1>1. LifeInv => (created <= 1 => DoneMeansGone)
    BY Zenon DEF LifeInv, FirstLife
  <1> QED
    BY <1>1, LifeInvariant, PTL

(* Until the DID's store is made a second time, a coexisting server that   *)
(* removed the directory of a tombstoned DID owes the purge of its objects.*)
THEOREM ObjectsStayOwed == Spec => [](created <= 1 => ObjectsAreOwed)
  <1>1. LifeInv => (created <= 1 => ObjectsAreOwed)
    BY Zenon DEF LifeInv, FirstLife, Owed, ObjectsAreOwed
  <1> QED
    BY <1>1, LifeInvariant, PTL

(* Until the DID's store is made a second time, every deletion that began  *)
(* and did not complete has the open tombstone a restart looks for.        *)
THEOREM InterruptedStaysResumable == Spec => [](created <= 1 => InterruptedIsResumable)
  <1>1. LifeInv => (created <= 1 => InterruptedIsResumable)
    BY Zenon DEF LifeInv, FirstLife
  <1> QED
    BY <1>1, LifeInvariant, PTL

=============================================================================
