----------------------- MODULE AccountDeletionSteps ------------------------
(***************************************************************************)
(* Type correctness of AccountDeletion, action by action, and what a step  *)
(* of one process leaves of the others.                                    *)
(***************************************************************************)
EXTENDS AccountDeletion, WellFoundedInduction, TLAPS

----------------------------------------------------------------------------
(* Types, one group of variables at a time.  A publisher that walks its    *)
(* list has a store open.                                                  *)
Frames == [job : Jobs, handle : 0 .. MaxStore, todo : SUBSET Revs,
           cur : 0 .. MaxRev, seq : 0 .. MaxLog, root : 0 .. MaxRev]
Tombstones == [row : BOOLEAN, seq : 0 .. MaxLog, done : BOOLEAN]

AccountType == rows \in BOOLEAN /\ rootRow \in 0 .. MaxRev
DirectoryType ==
    /\ store \in 0 .. MaxStore /\ created \in 0 .. MaxStore /\ lastRev \in 0 .. MaxRev
    /\ storeRoot \in [Stores -> 0 .. MaxRev] /\ pending \in [Stores -> SUBSET Revs]
JournalType ==
    /\ tombstone \in Tombstones /\ obligation \in BOOLEAN
    /\ preMax \in 0 .. MaxRev /\ maxRev \in 0 .. MaxRev
SequencerType == log \in Seq(RowKinds) /\ Len(log) <= MaxLog /\ live \subseteq 1 .. Len(log)
MemoryType ==
    /\ phase \in {"down", "resuming", "up", "aborted"}
    /\ blocked \in BOOLEAN /\ admission \in States
LocksType == {didLock, publishLock, seqLock} \subseteq Procs \cup {NoOne}
ProcsType ==
    /\ pc \in [Procs -> Labels] /\ local \in [Procs -> Frames]
    /\ \A p \in Procs : pc[p] \in {"row", "ack"} => local[p].handle \in Stores

TypeInv ==
    /\ AccountType /\ DirectoryType /\ JournalType /\ SequencerType /\ MemoryType
    /\ LocksType /\ ProcsType /\ requested \in BOOLEAN

(* From its read of the rows to the journaled number a deletion holds the  *)
(* sequencer's write lock.                                                 *)
Sequencing == {"insert", "prune", "recordSeq"}
LockInv == \A p \in Procs : pc[p] \in Sequencing => seqLock = p

----------------------------------------------------------------------------
(* Types.                                                                  *)

(* A set of revisions has a maximum, 0 when it is empty.                   *)
LEMMA HighestRev ==
    ASSUME NEW S \in SUBSET Revs
    PROVE  \E m \in S \cup {0} : \A r \in S : r <= m
  <1> DEFINE bounds == {m \in Nat : \A r \in S : r <= m}
  <1>1. MaxRev \in bounds
    BY BoundsAssumption DEF Revs
  <1>2. PICK m \in bounds : \A k \in bounds : ~(<<k, m>> \in OpToRel(<, Nat))
    <2>1. bounds \subseteq Nat /\ bounds # {}
      BY Zenon, <1>1
    <2> HIDE DEF bounds
    <2> QED
      BY <2>1, NatLessThanWellFounded, WFMin, Zenon
  <1>3. \A k \in bounds : ~(k < m)
    BY ZenonT(40), <1>2 DEF OpToRel
  <1>4. CASE m = 0
    BY Zenon, <1>4
  <1>5. CASE m # 0
    <2>1. m - 1 \in Nat /\ m - 1 \notin bounds
      BY <1>3, <1>5
    <2>2. PICK r \in S : ~(r <= m - 1)
      BY Zenon, <2>1
    <2>3. r = m
      BY <2>1, <2>2 DEF Revs
    <2> QED
      BY Zenon, <2>3
  <1> QED
    BY Zenon, <1>4, <1>5

LEMMA PublishedMaxIsMax ==
    /\ PublishedMax \in 0 .. MaxRev
    /\ \A r \in Revs : (\E n \in live : log[n] = CommitRow(r)) => r <= PublishedMax
  <1> DEFINE published == {r \in Revs : \E n \in live : log[n] = CommitRow(r)}
  <1>1. published \in SUBSET Revs
    BY Zenon
  <1>2. PublishedMax \in published \cup {0} /\ \A r \in published : r <= PublishedMax
    <2>1. \E m \in published \cup {0} : \A r \in published : r <= m
      <3> HIDE DEF published
      <3> QED
        BY Zenon, <1>1, HighestRev
    <2> QED
      BY <2>1, Zenon DEF PublishedMax
  <1> QED
    BY <1>2, BoundsAssumption DEF Revs


(* What a step does to the groups it does not touch.                       *)
LEMMA Untouched ==
    ASSUME TypeInv
    PROVE  /\ UNCHANGED account => AccountType'
           /\ UNCHANGED directory => DirectoryType'
           /\ UNCHANGED journal => JournalType'
           /\ UNCHANGED sequencer => SequencerType'
           /\ UNCHANGED memory => MemoryType'
           /\ UNCHANGED locks => LocksType'
           /\ UNCHANGED requested => requested' \in BOOLEAN
  BY Zenon DEF TypeInv, AccountType, DirectoryType, JournalType, SequencerType, MemoryType,
     LocksType, account, directory, journal, sequencer, memory, locks

(* Assigning variables of a stack frame keeps it typed.                    *)
LEMMA FrameFields ==
    ASSUME NEW f \in Frames
    PROVE  /\ f.job \in Jobs /\ f.handle \in 0 .. MaxStore /\ f.todo \in SUBSET Revs
           /\ f.cur \in 0 .. MaxRev /\ f.seq \in 0 .. MaxLog /\ f.root \in 0 .. MaxRev
           /\ \A x \in Jobs : [f EXCEPT !.job = x] \in Frames
           /\ \A x \in 0 .. MaxRev : [f EXCEPT !.root = x] \in Frames
           /\ \A x \in 0 .. MaxRev : [f EXCEPT !.cur = x] \in Frames
           /\ \A x \in 0 .. MaxLog : [f EXCEPT !.seq = x] \in Frames
  BY Zenon DEF Frames

LEMMA OpenFrame ==
    ASSUME NEW f \in Frames, NEW j \in Jobs, NEW h \in 0 .. MaxStore
    PROVE  [f EXCEPT !.job = j, !.handle = h] \in Frames
  BY ZenonT(40) DEF Frames

LEMMA LoadFrame ==
    ASSUME NEW f \in Frames, NEW h \in 0 .. MaxStore, NEW T \in SUBSET Revs
    PROVE  /\ [f EXCEPT !.handle = h, !.todo = T] \in Frames
           /\ [f EXCEPT !.handle = h, !.todo = T].handle = h
  BY ZenonT(40) DEF Frames

LEMMA RowFrame ==
    ASSUME NEW f \in Frames, NEW c \in 0 .. MaxRev, NEW n \in 0 .. MaxLog
    PROVE  /\ [f EXCEPT !.cur = c, !.seq = n] \in Frames
           /\ [f EXCEPT !.cur = c, !.seq = n].handle = f.handle
  BY ZenonT(40) DEF Frames

LEMMA AckFrame ==
    ASSUME NEW f \in Frames, NEW T \in SUBSET Revs
    PROVE  /\ [f EXCEPT !.todo = T, !.cur = 0, !.seq = 0] \in Frames
           /\ [f EXCEPT !.todo = T, !.cur = 0, !.seq = 0].handle = f.handle
  <1>1. 0 \in 0 .. MaxRev /\ 0 \in 0 .. MaxLog
    BY BoundsAssumption
  <1> QED
    BY <1>1, ZenonT(40) DEF Frames

LEMMA NoLocalsType == NoLocals \in Frames
  BY BoundsAssumption DEF NoLocals, Frames, Jobs

(* What other processes notice of a step of p: nothing, or its end took    *)
(* the whole server with it.                                               *)
Moved(p) ==
    \A q \in Procs \ {p} :
        \/ pc'[q] = "idle"
        \/ pc'[q] = pc[q] /\ local'[q] = local[q] /\ (seqLock = q => seqLock' = q)

(* The process goes on at l with the frame f.                              *)
LEMMA Goes ==
    ASSUME ProcsType, NEW p \in Procs, NEW l \in Labels, NEW f \in Frames,
           l \in {"row", "ack"} => f.handle \in Stores,
           pc' = [pc EXCEPT ![p] = l], local' = [local EXCEPT ![p] = f],
           \A q \in Procs \ {p} : seqLock = q => seqLock' = q
    PROVE  ProcsType' /\ Moved(p) /\ pc'[p] = l /\ local'[p] = f
  BY Zenon DEF ProcsType, Moved

LEMMA Keeps ==
    ASSUME ProcsType, NEW p \in Procs, NEW l \in Labels,
           l \in {"row", "ack"} => local[p].handle \in Stores,
           Keep(p, l),
           \A q \in Procs \ {p} : seqLock = q => seqLock' = q
    PROVE  ProcsType' /\ Moved(p) /\ pc'[p] = l /\ local' = local
  BY Zenon DEF ProcsType, Moved, Keep, Goto

LEMMA Returns ==
    ASSUME ProcsType, LocksType, NEW p \in Procs, Return(p)
    PROVE  ProcsType' /\ LocksType' /\ Moved(p) /\ pc'[p] = "idle"
  <1>1. LocksType'
    BY Zenon DEF LocksType, Return, Freed
  <1>2. \A q \in Procs \ {p} : seqLock = q => seqLock' = q
    BY Zenon DEF Return, Freed
  <1>3. ProcsType' /\ Moved(p) /\ pc'[p] = "idle"
    BY ZenonT(40), <1>2, Goes, NoLocalsType DEF Return, Labels
  <1> QED
    BY Zenon, <1>1, <1>3

(* Everything in the server ends.                                          *)
LEMMA Stops ==
    ASSUME NEW p \in Procs,
           pc' = [q \in Procs |-> "idle"], local' = [q \in Procs |-> NoLocals],
           didLock' = NoOne, publishLock' = NoOne, seqLock' = NoOne
    PROVE  ProcsType' /\ LocksType' /\ Moved(p) /\ pc'[p] = "idle"
  BY Zenon, NoLocalsType DEF ProcsType, LocksType, Moved, Labels

LEMMA Refuses ==
    ASSUME ProcsType, LocksType, MemoryType, NEW p \in Procs, Refused(p)
    PROVE  ProcsType' /\ LocksType' /\ MemoryType' /\ Moved(p) /\ pc'[p] = "idle"
  <1>1. MemoryType'
    BY Zenon DEF MemoryType, Refused
  <1>2. CASE p = Boot
    BY Zenon, <1>1, <1>2, Stops DEF Refused
  <1>3. CASE p # Boot
    BY Zenon, <1>1, <1>3, Returns DEF Refused
  <1> QED
    BY Zenon, <1>2, <1>3

(* The facts about the process that most steps start from.                 *)
LEMMA Own ==
    ASSUME TypeInv, NEW p \in Procs
    PROVE  /\ ProcsType /\ local[p] \in Frames
           /\ UNCHANGED locks => \A q \in Procs \ {p} : seqLock = q => seqLock' = q
           /\ UNCHANGED seqLock => \A q \in Procs \ {p} : seqLock = q => seqLock' = q
           /\ pc[p] \in {"row", "ack"} => local[p].handle \in Stores
  BY Zenon DEF TypeInv, ProcsType, locks

(* A row is appended.                                                      *)
LEMMA Appends ==
    ASSUME SequencerType, NEW row \in RowKinds, Sequence(row)
    PROVE  /\ SequencerType' /\ Len(log') = Len(log) + 1 /\ Len(log) + 1 \in 0 .. MaxLog
           /\ log'[Len(log) + 1] = row /\ \A n \in DOMAIN log : log'[n] = log[n]
           /\ Len(log) + 1 \notin DOMAIN log /\ DOMAIN log' = DOMAIN log \cup {Len(log) + 1}
  <1>1. log' \in Seq(RowKinds) /\ Len(log') = Len(log) + 1 /\ Len(log) \in Nat
    BY DEF SequencerType, Sequence
  <1>2. log'[Len(log) + 1] = row /\ \A n \in 1 .. Len(log) : log'[n] = log[n]
    BY DEF SequencerType, Sequence
  <1>3. DOMAIN log = 1 .. Len(log) /\ DOMAIN log' = 1 .. Len(log')
    BY <1>1 DEF SequencerType
  <1>4. Len(log) + 1 <= MaxLog
    BY <1>1, BoundsAssumption DEF Sequence
  <1>5. live' \subseteq 1 .. Len(log')
    <2>1. live' = live \cup {Len(log) + 1} /\ live \subseteq 1 .. Len(log)
      BY Zenon DEF SequencerType, Sequence
    <2>2. \A n \in Nat : \A k \in 1 .. n : k \in 1 .. n + 1
      OBVIOUS
    <2>3. \A n \in Nat : n + 1 \in 1 .. n + 1
      OBVIOUS
    <2> QED
      BY <1>1, <2>1, <2>2, <2>3, Zenon
  <1> QED
    BY <1>1, <1>2, <1>3, <1>4, <1>5, BoundsAssumption DEF SequencerType

LEMMA Commits ==
    ASSUME DirectoryType, NEW i, NEW b \in BOOLEAN, Commit(i, b)
    PROVE  DirectoryType' /\ lastRev + 1 \in Revs
  <1>1. lastRev + 1 \in Revs
    BY BoundsAssumption DEF DirectoryType, Commit, Revs
  <1>2. storeRoot' \in [Stores -> 0 .. MaxRev]
    <2>1. lastRev + 1 \in 0 .. MaxRev
      BY <1>1, BoundsAssumption DEF Revs
    <2>2. \A x \in 0 .. MaxRev : [storeRoot EXCEPT ![i] = x] \in [Stores -> 0 .. MaxRev]
      BY Zenon DEF DirectoryType
    <2> QED
      BY Zenon, <2>1, <2>2 DEF Commit
  <1>3. pending' \in [Stores -> SUBSET Revs]
    <2>1. PICK x : pending' = [pending EXCEPT ![i] = x]
                   /\ (i \in Stores => x \in SUBSET Revs)
      <3>1. i \in Stores => pending[i] \in SUBSET Revs
        BY Zenon DEF DirectoryType
      <3> QED
        BY ZenonT(40), <1>1, <3>1 DEF Commit
    <2> QED
      BY ZenonT(40), <2>1 DEF DirectoryType
  <1> QED
    BY <1>1, <1>2, <1>3 DEF DirectoryType, Commit, Revs

LEMMA Unlinks ==
    ASSUME DirectoryType, LocksType, UNCHANGED seqLock, Unlinked
    PROVE  DirectoryType' /\ LocksType'
  BY BoundsAssumption DEF DirectoryType, LocksType, Unlinked

LEMMA Destroys ==
    ASSUME TypeInv, NEW p \in Procs, Destroy(p)
    PROVE  DirectoryType' /\ LocksType' /\ ProcsType' /\ Moved(p) /\ pc'[p] = "idle"
  <1>1. ProcsType' /\ Moved(p) /\ pc'[p] = "idle"
    BY ZenonT(40), Own, Goes, NoLocalsType DEF Destroy, Labels
  <1>2. DirectoryType' /\ LocksType'
    <2>1. CASE admission = "absent"
      BY Zenon, <2>1 DEF Destroy, TypeInv, DirectoryType, LocksType, directory
    <2>2. CASE admission # "absent"
      BY Zenon, <2>2, Unlinks DEF Destroy, TypeInv
    <2> QED
      BY Zenon, <2>1, <2>2
  <1> QED
    BY Zenon, <1>1, <1>2

----------------------------------------------------------------------------
(* What each step leaves of the types and of the other processes.          *)

LEMMA StepStartCreate ==
    ASSUME TypeInv, NEW p \in Procs, StartCreate(p)
    PROVE  TypeInv' /\ Moved(p) /\ pc'[p] = "mkdir"
  <1>1. PICK job \in Jobs : Begin(p, job, "mkdir")
    BY Zenon, BoundsAssumption DEF StartCreate, Jobs
  <1>2. ProcsType' /\ Moved(p) /\ pc'[p] = "mkdir"
    <2>1. [local[p] EXCEPT !.job = job] \in Frames
      BY Zenon, Own, FrameFields
    <2>2. "mkdir" \in Labels /\ \A q \in Procs \ {p} : seqLock = q => seqLock' = q
      BY Zenon DEF StartCreate, locks, Labels, CreatePcs
    <2>3. pc' = [pc EXCEPT ![p] = "mkdir"]
          /\ local' = [local EXCEPT ![p] = [local[p] EXCEPT !.job = job]]
      BY Zenon, <1>1 DEF Begin, Goto
    <2>4. ProcsType /\ "mkdir" \notin {"row", "ack"}
      BY Zenon DEF TypeInv
    <2> QED
      BY <2>1, <2>2, <2>3, <2>4, Goes, Zenon
  <1> QED
    BY Zenon, <1>2, Untouched DEF StartCreate, TypeInv

LEMMA StepCreateStore ==
    ASSUME TypeInv, NEW p \in Procs, CreateStore(p)
    PROVE  TypeInv' /\ Moved(p) /\ pc'[p] \in {"repo", "idle"}
  <1>1. CASE store = 0
    <2>1. DirectoryType'
      <3>1. store' = created + 1 /\ created' = created + 1 /\ created < MaxStore
            /\ UNCHANGED <<lastRev, storeRoot, pending>>
        BY Zenon, <1>1 DEF CreateStore
      <3> QED
        BY <3>1, BoundsAssumption DEF TypeInv, DirectoryType
    <2>2. ProcsType' /\ Moved(p) /\ pc'[p] = "repo"
      BY Zenon, <1>1, Own, Keeps DEF CreateStore, Labels, CreatePcs
    <2> QED
      BY Zenon, <1>1, <2>1, <2>2, Untouched DEF CreateStore, TypeInv
  <1>2. CASE store # 0
    BY Zenon, <1>2, Returns, Untouched DEF CreateStore, TypeInv
  <1> QED
    BY Zenon, <1>1, <1>2

LEMMA StepCreateRepo ==
    ASSUME TypeInv, NEW p \in Procs, CreateRepo(p)
    PROVE  TypeInv' /\ Moved(p) /\ pc'[p] \in {"rows", "idle"}
  <1>1. CASE Destroy(p)
    BY Zenon, <1>1, Destroys, Untouched DEF CreateRepo, TypeInv
  <1>2. CASE ~Destroy(p)
    <2>1. DirectoryType' /\ lastRev + 1 \in Revs
      <3>1. (local[p].job = "create") \in BOOLEAN
        BY Zenon
      <3> QED
        BY ZenonT(40), <1>2, <3>1, Commits DEF CreateRepo, TypeInv
    <2>2. lastRev + 1 \in 0 .. MaxRev
      BY <2>1, BoundsAssumption DEF Revs
    <2>3. ProcsType' /\ Moved(p) /\ pc'[p] = "rows"
      <3> DEFINE f == [local[p] EXCEPT !.root = lastRev + 1]
      <3>1. f \in Frames
        BY <2>2, Own, FrameFields, Zenon
      <3>2. "rows" \in Labels /\ "rows" \notin {"row", "ack"} /\ ProcsType
            /\ \A q \in Procs \ {p} : seqLock = q => seqLock' = q
        BY Zenon, <1>2 DEF CreateRepo, Labels, CreatePcs, TypeInv, locks
      <3>3. pc' = [pc EXCEPT ![p] = "rows"] /\ local' = [local EXCEPT ![p] = f]
        BY <1>2, ZenonT(40) DEF CreateRepo, Goto
      <3> HIDE DEF f
      <3> QED
        BY <3>1, <3>2, <3>3, Goes, Zenon
    <2> QED
      BY Zenon, <1>2, <2>1, <2>3, Untouched DEF CreateRepo, TypeInv
  <1> QED
    BY Zenon, <1>1, <1>2

LEMMA StepCreateFails ==
    ASSUME TypeInv, NEW p \in Procs, CreateFails(p)
    PROVE  TypeInv' /\ Moved(p) /\ pc'[p] = "idle"
  BY Zenon, Destroys, Untouched DEF CreateFails, TypeInv

LEMMA StepCreateRows ==
    ASSUME TypeInv, NEW p \in Procs, CreateRows(p)
    PROVE  TypeInv' /\ Moved(p) /\ pc'[p] \in {"active", "root"}
  <1>1. AccountType'
    <2>1. rootRow' \in 0 .. MaxRev
      BY Zenon, Own, FrameFields DEF CreateRows
    <2> QED
      BY Zenon, <2>1 DEF CreateRows, AccountType
  <1>2. PICK l \in {"active", "root"} : Keep(p, l)
    BY Zenon DEF CreateRows
  <1>3. ProcsType' /\ Moved(p) /\ pc'[p] = l
    BY Zenon, <1>2, Own, Keeps DEF CreateRows, Labels, CreatePcs
  <1> QED
    BY Zenon, <1>1, <1>3, Untouched DEF CreateRows, TypeInv

LEMMA StepSequenceActive ==
    ASSUME TypeInv, NEW p \in Procs, SequenceActive(p)
    PROVE  TypeInv' /\ Moved(p) /\ pc'[p] = "load"
  <1>1. SequencerType'
    BY Zenon, Appends DEF SequenceActive, TypeInv, RowKinds
  <1>2. ProcsType' /\ Moved(p) /\ pc'[p] = "load"
    BY Zenon, Own, Keeps DEF SequenceActive, Labels, PublishPcs
  <1> QED
    BY Zenon, <1>1, <1>2, Untouched DEF SequenceActive, TypeInv

LEMMA StepUpdateRepoRoot ==
    ASSUME TypeInv, NEW p \in Procs, UpdateRepoRoot(p)
    PROVE  TypeInv' /\ Moved(p) /\ pc'[p] \in {"clear", "idle"}
  <1>1. AccountType'
    <2>1. rootRow' \in 0 .. MaxRev
      BY Own, FrameFields DEF UpdateRepoRoot, TypeInv, AccountType
    <2> QED
      BY <2>1, Zenon DEF UpdateRepoRoot, TypeInv, AccountType
  <1>2. CASE admission = "active"
    <2>1. ProcsType' /\ Moved(p) /\ pc'[p] = "clear"
      BY Zenon, <1>2, Own, Keeps DEF UpdateRepoRoot, Labels, CreatePcs
    <2> QED
      BY Zenon, <1>1, <1>2, <2>1, Untouched DEF UpdateRepoRoot, TypeInv
  <1>3. CASE admission # "active"
    BY Zenon, <1>1, <1>3, Returns, Untouched DEF UpdateRepoRoot, TypeInv
  <1> QED
    BY Zenon, <1>2, <1>3

LEMMA StepClearTombstone ==
    ASSUME TypeInv, NEW p \in Procs, ClearTombstone(p)
    PROVE  TypeInv' /\ Moved(p) /\ pc'[p] = "idle"
  <1>1. JournalType'
    <2>1. NoTombstone \in Tombstones
      BY BoundsAssumption DEF NoTombstone, Tombstones
    <2> QED
      BY <2>1, Zenon DEF ClearTombstone, TypeInv, JournalType
  <1> QED
    BY Zenon, <1>1, Returns, Untouched DEF ClearTombstone, TypeInv

LEMMA StepOpenStore ==
    ASSUME TypeInv, NEW p \in Procs, OpenStore(p)
    PROVE  TypeInv' /\ Moved(p) /\ pc'[p] = "open"
  <1>1. LocksType'
    BY Zenon DEF OpenStore, TypeInv, LocksType
  <1>2. [local[p] EXCEPT !.job = "write", !.handle = store] \in Frames
    <2>1. store \in 0 .. MaxStore /\ "write" \in Jobs /\ local[p] \in Frames
      BY Zenon, Own DEF TypeInv, DirectoryType, Jobs
    <2> QED
      BY ZenonT(40), <2>1, OpenFrame
  <1>3. ProcsType' /\ Moved(p) /\ pc'[p] = "open"
    <2>1. "open" \in Labels /\ \A q \in Procs \ {p} : seqLock = q => seqLock' = q
      BY Zenon DEF OpenStore, Labels, WritePcs
    <2>2. pc' = [pc EXCEPT ![p] = "open"]
          /\ local' = [local EXCEPT ![p] = [local[p] EXCEPT !.job = "write", !.handle = store]]
      BY ZenonT(40) DEF OpenStore, Goto
    <2>3. ProcsType /\ "open" \notin {"row", "ack"}
      BY Zenon DEF TypeInv
    <2> QED
      BY <1>2, <2>1, <2>2, <2>3, Goes, Zenon
  <1> QED
    BY Zenon, <1>1, <1>3, Untouched DEF OpenStore, TypeInv

LEMMA StepCommitWrite ==
    ASSUME TypeInv, NEW p \in Procs, CommitWrite(p)
    PROVE  TypeInv' /\ Moved(p) /\ pc'[p] = "load"
  <1>1. LocksType'
    BY Zenon DEF CommitWrite, TypeInv, LocksType, Freed
  <1>2. DirectoryType'
    BY ZenonT(40), Commits DEF CommitWrite, TypeInv
  <1>3. ProcsType' /\ Moved(p) /\ pc'[p] = "load"
    BY Zenon, Own, Keeps DEF CommitWrite, Labels, PublishPcs
  <1> QED
    BY Zenon, <1>1, <1>2, <1>3, Untouched DEF CommitWrite, TypeInv


LEMMA AfterPublishes ==
    ASSUME TypeInv, NEW p \in Procs, AfterPublish(p), UNCHANGED admission
    PROVE  ProcsType' /\ LocksType' /\ MemoryType' /\ Moved(p) /\ pc'[p] \in {"root", "idle"}
  <1>1. CASE local[p].job = "create"
    <2>1. /\ Keep(p, "root") /\ publishLock' = Freed(publishLock, p)
          /\ UNCHANGED <<phase, blocked, didLock, seqLock>>
      BY <1>1, Zenon DEF AfterPublish
    <2>2. LocksType' /\ MemoryType'
      BY Zenon, <2>1 DEF TypeInv, LocksType, MemoryType, Freed
    <2> QED
      BY Zenon, <2>1, <2>2, Own, Keeps DEF Labels, CreatePcs
  <1>2. CASE local[p].job # "create"
    <2>1. Return(p) /\ UNCHANGED blocked /\ phase' \in {phase, "up"}
      BY <1>2, Zenon DEF AfterPublish
    <2>2. MemoryType'
      BY Zenon, <2>1 DEF TypeInv, MemoryType
    <2> QED
      BY Zenon, <2>1, <2>2, Returns DEF TypeInv
  <1> QED
    BY Zenon, <1>1, <1>2

LEMMA StepLoadPending ==
    ASSUME TypeInv, NEW p \in Procs, LoadPending(p)
    PROVE  TypeInv' /\ Moved(p) /\ pc'[p] \in {"row", "root", "idle"}
  <1>1. CASE admission # "absent" /\ store # 0
    <2> DEFINE f == [local[p] EXCEPT !.handle = store, !.todo = pending[store]]
    <2>1. /\ publishLock' = p /\ local' = [local EXCEPT ![p] = f]
          /\ pc' = [pc EXCEPT ![p] = "row"] /\ UNCHANGED <<memory, didLock, seqLock>>
      BY ZenonT(40), <1>1 DEF LoadPending, Goto
    <2>2. LocksType'
      BY Zenon, <2>1 DEF TypeInv, LocksType
    <2>3. store \in Stores /\ pending[store] \in SUBSET Revs
      BY <1>1, BoundsAssumption DEF TypeInv, DirectoryType, Stores
    <2>4. f \in Frames /\ f.handle = store
      <3>1. store \in 0 .. MaxStore /\ local[p] \in Frames
        BY Zenon, Own DEF TypeInv, DirectoryType
      <3> QED
        BY ZenonT(40), <2>3, <3>1, LoadFrame
    <2>5. "row" \in Labels /\ \A q \in Procs \ {p} : seqLock = q => seqLock' = q
      BY Zenon, <2>1 DEF Labels, PublishPcs
    <2>6. ProcsType' /\ Moved(p) /\ pc'[p] = "row"
      <3>1. ProcsType
        BY Zenon DEF TypeInv
      <3> HIDE DEF f
      <3> QED
        BY <2>1, <2>3, <2>4, <2>5, <3>1, Goes, Zenon
    <2> QED
      BY Zenon, <2>1, <2>2, <2>6, Untouched DEF LoadPending, TypeInv
  <1>2. CASE admission # "absent" /\ store = 0
    <2>1. AfterPublish(p) /\ UNCHANGED admission
      BY Zenon, <1>2 DEF LoadPending
    <2> QED
      BY Zenon, <2>1, AfterPublishes, Untouched DEF LoadPending, TypeInv
  <1>3. CASE admission = "absent"
    <2>1. Return(p) /\ phase' \in {phase, "up"} /\ UNCHANGED <<blocked, admission>>
      BY Zenon, <1>3 DEF LoadPending
    <2>2. MemoryType'
      BY Zenon, <2>1 DEF TypeInv, MemoryType
    <2> QED
      BY Zenon, <2>1, <2>2, Returns, Untouched DEF LoadPending, TypeInv
  <1> QED
    BY Zenon, <1>1, <1>2, <1>3

(* A publisher finds its row or inserts it.                                *)
LEMMA PublishRowCases ==
    ASSUME TypeInv, NEW p \in Procs, PublishRow(p)
    PROVE  \E r \in Revs :
              \/ \E n \in live :
                    /\ local' = [local EXCEPT ![p] = [local[p] EXCEPT !.cur = r, !.seq = n]]
                    /\ UNCHANGED sequencer
              \/ /\ Sequence(CommitRow(r))
                 /\ local' = [local EXCEPT ![p] =
                                 [local[p] EXCEPT !.cur = r, !.seq = Len(log) + 1]]
  <1>1. PICK r \in local[p].todo :
            \/ \E n \in live :
                  /\ local' = [local EXCEPT ![p].cur = r, ![p].seq = n]
                  /\ UNCHANGED sequencer
            \/ /\ Sequence(CommitRow(r))
               /\ local' = [local EXCEPT ![p].cur = r, ![p].seq = Len(log) + 1]
    BY Zenon DEF PublishRow
  <1>2. r \in Revs
    BY Zenon, Own, FrameFields
  <1>3. CASE \E n \in live :
                /\ local' = [local EXCEPT ![p].cur = r, ![p].seq = n]
                /\ UNCHANGED sequencer
    <2>1. PICK n \in live : /\ local' = [local EXCEPT ![p].cur = r, ![p].seq = n]
                            /\ UNCHANGED sequencer
      BY ZenonT(40), <1>3
    <2>2. local' = [local EXCEPT ![p] = [local[p] EXCEPT !.cur = r, !.seq = n]]
      BY ZenonT(40), <2>1
    <2> QED
      BY ZenonT(40), <1>2, <2>1, <2>2
  <1>4. CASE /\ Sequence(CommitRow(r))
             /\ local' = [local EXCEPT ![p].cur = r, ![p].seq = Len(log) + 1]
    <2>1. local' = [local EXCEPT ![p] = [local[p] EXCEPT !.cur = r, !.seq = Len(log) + 1]]
      BY ZenonT(40), <1>4
    <2> QED
      BY ZenonT(40), <1>2, <1>4, <2>1
  <1> QED
    BY ZenonT(40), <1>1, <1>3, <1>4

LEMMA StepPublishRow ==
    ASSUME TypeInv, NEW p \in Procs, PublishRow(p)
    PROVE  TypeInv' /\ Moved(p) /\ pc'[p] = "ack"
  <1>1. PICK r \in Revs :
              \/ \E n \in live :
                    /\ local' = [local EXCEPT ![p] = [local[p] EXCEPT !.cur = r, !.seq = n]]
                    /\ UNCHANGED sequencer
              \/ /\ Sequence(CommitRow(r))
                 /\ local' = [local EXCEPT ![p] =
                                 [local[p] EXCEPT !.cur = r, !.seq = Len(log) + 1]]
    BY ZenonT(40), PublishRowCases
  <1>2. \E n \in 0 .. MaxLog :
           /\ local' = [local EXCEPT ![p] = [local[p] EXCEPT !.cur = r, !.seq = n]]
           /\ SequencerType'
    <2>1. CASE \E n \in live :
                    /\ local' = [local EXCEPT ![p] = [local[p] EXCEPT !.cur = r, !.seq = n]]
                    /\ UNCHANGED sequencer
      <3>1. PICK n \in live :
                    /\ local' = [local EXCEPT ![p] = [local[p] EXCEPT !.cur = r, !.seq = n]]
                    /\ UNCHANGED sequencer
        BY ZenonT(40), <2>1
      <3>2. n \in 0 .. MaxLog
        BY BoundsAssumption DEF TypeInv, SequencerType
      <3>3. SequencerType'
        BY Zenon, <3>1, Untouched
      <3> QED
        BY ZenonT(40), <3>1, <3>2, <3>3
    <2>2. CASE /\ Sequence(CommitRow(r))
               /\ local' = [local EXCEPT ![p] =
                                 [local[p] EXCEPT !.cur = r, !.seq = Len(log) + 1]]
      <3>1. SequencerType' /\ Len(log) + 1 \in 0 .. MaxLog
        BY Zenon, <2>2, Appends DEF TypeInv, RowKinds
      <3> QED
        BY <2>2, <3>1, Zenon
    <2> QED
      BY ZenonT(40), <1>1, <2>1, <2>2
  <1>3. PICK n \in 0 .. MaxLog :
           /\ local' = [local EXCEPT ![p] = [local[p] EXCEPT !.cur = r, !.seq = n]]
           /\ SequencerType'
    BY ZenonT(40), <1>2
  <1> DEFINE f == [local[p] EXCEPT !.cur = r, !.seq = n]
  <1>4. f \in Frames /\ f.handle \in Stores
    <2>1. local[p] \in Frames /\ local[p].handle \in Stores
      BY Zenon, Own DEF PublishRow
    <2>2. r \in 0 .. MaxRev
      BY DEF Revs
    <2> QED
      BY ZenonT(40), <2>1, <2>2, RowFrame
  <1>5. "ack" \in Labels /\ ProcsType /\ pc' = [pc EXCEPT ![p] = "ack"]
        /\ \A q \in Procs \ {p} : seqLock = q => seqLock' = q
    BY Zenon DEF PublishRow, Goto, Labels, PublishPcs, TypeInv, locks
  <1>6. ProcsType' /\ Moved(p) /\ pc'[p] = "ack"
    <2>1. local' = [local EXCEPT ![p] = f]
      BY Zenon, <1>3
    <2> HIDE DEF f
    <2> QED
      BY <1>4, <1>5, <2>1, Goes, Zenon
  <1> QED
    BY Zenon, <1>3, <1>6, Untouched DEF PublishRow, TypeInv

LEMMA StepAcknowledge ==
    ASSUME TypeInv, NEW p \in Procs, Acknowledge(p)
    PROVE  TypeInv' /\ Moved(p) /\ pc'[p] = "row"
  <1>0. local[p] \in Frames /\ local[p].handle \in Stores
    BY Zenon, Own DEF Acknowledge
  <1>1. DirectoryType'
    <2>1. pending[local[p].handle] \ {local[p].cur} \in SUBSET Revs
      BY Zenon, <1>0 DEF TypeInv, DirectoryType
    <2>2. pending' = [pending EXCEPT ![local[p].handle] = pending[local[p].handle] \ {local[p].cur}]
      BY Zenon DEF Acknowledge
    <2>3. pending' \in [Stores -> SUBSET Revs]
      BY ZenonT(40), <2>1, <2>2 DEF TypeInv, DirectoryType
    <2> QED
      BY Zenon, <2>3 DEF Acknowledge, TypeInv, DirectoryType
  <1>2. JournalType'
    <2>1. maxRev' \in 0 .. MaxRev
      BY Zenon, <1>0, FrameFields DEF Acknowledge, Max, TypeInv, JournalType
    <2> QED
      BY <2>1, Zenon DEF Acknowledge, TypeInv, JournalType
  <1> DEFINE T == local[p].todo \ {local[p].cur}
             f == [local[p] EXCEPT !.todo = T, !.cur = 0, !.seq = 0]
  <1>3. f \in Frames /\ f.handle \in Stores
    <2>1. T \in SUBSET Revs
      BY Zenon, <1>0, FrameFields
    <2> HIDE DEF T
    <2> QED
      BY ZenonT(40), <1>0, <2>1, AckFrame
  <1>4. "row" \in Labels /\ ProcsType /\ pc' = [pc EXCEPT ![p] = "row"]
        /\ \A q \in Procs \ {p} : seqLock = q => seqLock' = q
    BY Zenon DEF Acknowledge, Goto, Labels, PublishPcs, TypeInv, locks
  <1>5. ProcsType' /\ Moved(p) /\ pc'[p] = "row"
    <2>1. local' = [local EXCEPT ![p] = f]
      BY ZenonT(40) DEF Acknowledge
    <2> HIDE DEF f
    <2> QED
      BY ZenonT(40), <1>3, <1>4, <2>1, Goes
  <1> QED
    BY Zenon, <1>1, <1>2, <1>5, Untouched DEF Acknowledge, TypeInv

LEMMA StepReadStoreRoot ==
    ASSUME TypeInv, NEW p \in Procs, ReadStoreRoot(p)
    PROVE  TypeInv' /\ Moved(p) /\ pc'[p] = "sync"
  <1>1. local[p] \in Frames /\ storeRoot[local[p].handle] \in 0 .. MaxRev
    BY Zenon, Own DEF ReadStoreRoot, TypeInv, DirectoryType
  <1> DEFINE f == [local[p] EXCEPT !.cur = storeRoot[local[p].handle]]
  <1>2. f \in Frames
    BY Zenon, <1>1, FrameFields
  <1>3. "sync" \in Labels /\ "sync" \notin {"row", "ack"} /\ ProcsType
        /\ pc' = [pc EXCEPT ![p] = "sync"]
        /\ \A q \in Procs \ {p} : seqLock = q => seqLock' = q
    BY Zenon DEF ReadStoreRoot, Goto, Labels, PublishPcs, TypeInv, locks
  <1>4. ProcsType' /\ Moved(p) /\ pc'[p] = "sync"
    <2>1. local' = [local EXCEPT ![p] = f]
      BY Zenon DEF ReadStoreRoot
    <2> HIDE DEF f
    <2> QED
      BY <1>2, <1>3, <2>1, Goes, Zenon
  <1> QED
    BY Zenon, <1>4, Untouched DEF ReadStoreRoot, TypeInv

LEMMA StepSyncAccountRoot ==
    ASSUME TypeInv, NEW p \in Procs, SyncAccountRoot(p)
    PROVE  TypeInv' /\ Moved(p) /\ pc'[p] \in {"root", "idle"}
  <1>1. AccountType'
    <2>1. rootRow' \in {rootRow, local[p].cur} /\ UNCHANGED rows
      BY Zenon DEF SyncAccountRoot
    <2>2. local[p].cur \in 0 .. MaxRev
      BY Zenon, Own, FrameFields
    <2> QED
      BY Zenon, <2>1, <2>2 DEF TypeInv, AccountType
  <1>2. (AfterPublish(p) /\ UNCHANGED admission) \/ Refused(p)
    BY Zenon DEF SyncAccountRoot
  <1>3. ProcsType' /\ LocksType' /\ MemoryType' /\ Moved(p) /\ pc'[p] \in {"root", "idle"}
    BY Zenon, <1>2, AfterPublishes, Refuses DEF TypeInv
  <1> QED
    BY Zenon, <1>1, <1>3, Untouched DEF SyncAccountRoot, TypeInv

LEMMA StepStartDelete ==
    ASSUME TypeInv, NEW p \in Procs, StartDelete(p)
    PROVE  TypeInv' /\ Moved(p) /\ pc'[p] = "tombstone"
  <1> DEFINE f == [local[p] EXCEPT !.job = "delete"]
  <1>1. f \in Frames
    BY ZenonT(40), Own, FrameFields DEF Jobs
  <1>2. "tombstone" \in Labels /\ "tombstone" \notin {"row", "ack"} /\ ProcsType
        /\ pc' = [pc EXCEPT ![p] = "tombstone"]
        /\ \A q \in Procs \ {p} : seqLock = q => seqLock' = q
    BY Zenon DEF StartDelete, Begin, Goto, Labels, DeletePcs, TypeInv, locks
  <1>3. ProcsType' /\ Moved(p) /\ pc'[p] = "tombstone"
    <2>1. local' = [local EXCEPT ![p] = f]
      BY Zenon DEF StartDelete, Begin
    <2> HIDE DEF f
    <2> QED
      BY <1>1, <1>2, <2>1, Goes, Zenon
  <1> QED
    BY Zenon, <1>3, Untouched DEF StartDelete, TypeInv

LEMMA StepTombstone ==
    ASSUME TypeInv, NEW p \in Procs, Tombstone(p)
    PROVE  TypeInv' /\ Moved(p) /\ pc'[p] = "accountRows"
  <1>1. ProcsType' /\ Moved(p) /\ pc'[p] = "accountRows"
    BY Zenon, Own, Keeps DEF Tombstone, Labels, DeletePcs, locks
  <1>2. JournalType'
    <2>1. tombstone' \in Tombstones
      BY ZenonT(40) DEF Tombstone, TypeInv, JournalType, Tombstones
    <2> QED
      BY <2>1, Zenon DEF Tombstone, TypeInv, JournalType
  <1>3. MemoryType' /\ requested' \in BOOLEAN
    BY Zenon DEF Tombstone, TypeInv, MemoryType, AccountType
  <1> QED
    BY Zenon, <1>1, <1>2, <1>3, Untouched DEF Tombstone, TypeInv

LEMMA StepDeleteRows ==
    ASSUME TypeInv, NEW p \in Procs, DeleteRows(p)
    PROVE  TypeInv' /\ Moved(p) /\ pc'[p] \in {"check", "idle"}
  <1>1. CASE admission = "active"
    <2>1. ProcsType' /\ Moved(p) /\ pc'[p] = "check"
      BY Zenon, <1>1, Own, Keeps DEF DeleteRows, Labels, DeletePcs, locks
    <2>2. AccountType'
      <3>1. 0 \in 0 .. MaxRev
        BY SMTT(30), BoundsAssumption
      <3> QED
        BY <1>1, <3>1, Zenon DEF DeleteRows, AccountType
    <2> QED
      BY Zenon, <1>1, <2>1, <2>2, Untouched DEF DeleteRows, TypeInv
  <1>2. CASE admission # "active"
    <2>1. Refused(p) /\ UNCHANGED account
      BY Zenon, <1>2 DEF DeleteRows
    <2> QED
      BY Zenon, <2>1, Refuses, Untouched DEF DeleteRows, TypeInv
  <1> QED
    BY Zenon, <1>1, <1>2

LEMMA StepCheckSequenced ==
    ASSUME TypeInv, NEW p \in Procs, CheckSequenced(p)
    PROVE  TypeInv' /\ Moved(p) /\ pc'[p] \in {"oblige", "preMax"}
           /\ (pc'[p] = "oblige" => tombstone.seq # 0)
  <1>1. PICK l \in {"oblige", "preMax"} : Keep(p, l) /\ (l = "oblige" => tombstone.seq # 0)
    BY Zenon DEF CheckSequenced
  <1>2. ProcsType' /\ Moved(p) /\ pc'[p] = l
    BY Zenon, <1>1, Own, Keeps DEF CheckSequenced, Labels, DeletePcs, locks
  <1> QED
    BY Zenon, <1>1, <1>2, Untouched DEF CheckSequenced, TypeInv

LEMMA StepRecordPreDeletionMax ==
    ASSUME TypeInv, NEW p \in Procs, RecordPreDeletionMax(p)
    PROVE  TypeInv' /\ Moved(p) /\ pc'[p] = "insert"
           /\ preMax <= preMax' /\ PublishedMax <= preMax'
  <1>1. preMax' \in 0 .. MaxRev /\ preMax <= preMax' /\ PublishedMax <= preMax'
    <2>1. preMax' = Max(preMax, Max(maxRev, PublishedMax))
      BY Zenon DEF RecordPreDeletionMax
    <2> QED
      BY <2>1, PublishedMaxIsMax DEF TypeInv, JournalType, Max
  <1>2. JournalType'
    BY <1>1, Zenon DEF RecordPreDeletionMax, TypeInv, JournalType
  <1>3. LocksType'
    BY Zenon DEF RecordPreDeletionMax, TypeInv, LocksType
  <1>4. NoOne \notin Procs
    BY Zenon, ActorsAssumption DEF Procs
  <1>5. ProcsType' /\ Moved(p) /\ pc'[p] = "insert"
    BY <1>4, Own, Keeps DEF RecordPreDeletionMax, Labels, DeletePcs
  <1> QED
    BY Zenon, <1>1, <1>2, <1>3, <1>5, Untouched DEF RecordPreDeletionMax, TypeInv

LEMMA StepSequenceDeleted ==
    ASSUME TypeInv, NEW p \in Procs, SequenceDeleted(p)
    PROVE  TypeInv' /\ Moved(p) /\ pc'[p] = "prune" /\ local'[p].seq = Len(log) + 1
  <1>1. SequencerType' /\ Len(log) + 1 \in 0 .. MaxLog
    BY Zenon, Appends DEF SequenceDeleted, TypeInv, RowKinds
  <1> DEFINE f == [local[p] EXCEPT !.seq = Len(log) + 1]
  <1>2. f \in Frames /\ f.seq = Len(log) + 1
    <2>1. \A x \in 0 .. MaxLog : [local[p] EXCEPT !.seq = x] \in Frames
                                 /\ [local[p] EXCEPT !.seq = x].seq = x
      BY Own DEF Frames
    <2> QED
      BY <1>1, <2>1, Zenon
  <1>3. "prune" \in Labels /\ "prune" \notin {"row", "ack"} /\ ProcsType
        /\ pc' = [pc EXCEPT ![p] = "prune"]
        /\ \A q \in Procs \ {p} : seqLock = q => seqLock' = q
    BY Zenon DEF SequenceDeleted, Goto, Labels, DeletePcs, TypeInv, locks
  <1>4. ProcsType' /\ Moved(p) /\ pc'[p] = "prune" /\ local'[p] = f
    <2>1. local' = [local EXCEPT ![p] = f]
      BY Zenon DEF SequenceDeleted
    <2> HIDE DEF f
    <2> QED
      BY <1>2, <1>3, <2>1, Goes, Zenon
  <1> QED
    BY ZenonT(40), <1>1, <1>2, <1>4, Untouched DEF SequenceDeleted, TypeInv

LEMMA StepPrune ==
    ASSUME TypeInv, NEW p \in Procs, Prune(p)
    PROVE  TypeInv' /\ Moved(p) /\ pc'[p] = "recordSeq"
  <1>1. ProcsType' /\ Moved(p) /\ pc'[p] = "recordSeq"
    BY Zenon, Own, Keeps DEF Prune, Labels, DeletePcs, locks
  <1>2. SequencerType'
    BY Zenon DEF Prune, TypeInv, SequencerType
  <1> QED
    BY Zenon, <1>1, <1>2, Untouched DEF Prune, TypeInv

LEMMA StepRecordDeletionSeq ==
    ASSUME TypeInv, LockInv, NEW p \in Procs, RecordDeletionSeq(p)
    PROVE  TypeInv' /\ Moved(p) /\ pc'[p] = "oblige"
  <1>1. seqLock = p
    BY Zenon DEF LockInv, Sequencing, RecordDeletionSeq
  <1>2. ProcsType' /\ Moved(p) /\ pc'[p] = "oblige"
    BY Zenon, <1>1, Own, Keeps DEF RecordDeletionSeq, Labels, DeletePcs
  <1>3. JournalType'
    <2>1. (IF tombstone.row THEN local[p].seq ELSE 0) \in 0 .. MaxLog
      BY Own, FrameFields, BoundsAssumption
    <2>2. tombstone' \in Tombstones
      BY Zenon, <2>1 DEF RecordDeletionSeq, TypeInv, JournalType, Tombstones
    <2> QED
      BY <2>2, Zenon DEF RecordDeletionSeq, TypeInv, JournalType
  <1>4. LocksType'
    BY Zenon DEF RecordDeletionSeq, TypeInv, LocksType
  <1> QED
    BY Zenon, <1>2, <1>3, <1>4, Untouched DEF RecordDeletionSeq, TypeInv

LEMMA StepOblige ==
    ASSUME TypeInv, NEW p \in Procs, Oblige(p)
    PROVE  TypeInv' /\ Moved(p) /\ pc'[p] \in {"unlink", "idle"}
  <1>1. JournalType'
    <2>1. obligation' \in BOOLEAN
      BY Zenon DEF Oblige, TypeInv, JournalType
    <2> QED
      BY <2>1, Zenon DEF Oblige, TypeInv, JournalType
  <1>2. (Keep(p, "unlink") /\ UNCHANGED <<memory, locks>>) \/ Refused(p)
    BY ZenonT(40) DEF Oblige
  <1>3. CASE Keep(p, "unlink") /\ UNCHANGED <<memory, locks>>
    <2>1. ProcsType' /\ Moved(p) /\ pc'[p] = "unlink"
      BY Zenon, <1>3, Own, Keeps DEF Labels, DeletePcs, locks
    <2> QED
      BY Zenon, <1>1, <1>3, <2>1, Untouched DEF Oblige, TypeInv
  <1>4. CASE Refused(p)
    BY Zenon, <1>1, <1>4, Refuses, Untouched DEF Oblige, TypeInv
  <1> QED
    BY Zenon, <1>2, <1>3, <1>4

LEMMA StepUnlink ==
    ASSUME TypeInv, NEW p \in Procs, Unlink(p)
    PROVE  TypeInv' /\ Moved(p) /\ pc'[p] \in {"complete", "idle"}
  <1>1. CASE admission # "absent"
    <2>1. DirectoryType' /\ LocksType'
      BY Zenon, <1>1, Unlinks DEF Unlink, TypeInv
    <2>2. ProcsType' /\ Moved(p) /\ pc'[p] = "complete"
      BY Zenon, <1>1, Own, Keeps DEF Unlink, Labels, DeletePcs
    <2> QED
      BY Zenon, <1>1, <2>1, <2>2, Untouched DEF Unlink, TypeInv
  <1>2. CASE admission = "absent"
    <2>1. Refused(p) /\ UNCHANGED directory
      BY Zenon, <1>2 DEF Unlink
    <2> QED
      BY Zenon, <2>1, Refuses, Untouched DEF Unlink, TypeInv
  <1> QED
    BY Zenon, <1>1, <1>2

LEMMA StepComplete ==
    ASSUME TypeInv, NEW p \in Procs, Complete(p)
    PROVE  TypeInv' /\ Moved(p) /\ pc'[p] \in {"load", "idle"}
  <1>1. JournalType'
    <2>1. tombstone' \in Tombstones
      BY Zenon DEF Complete, TypeInv, JournalType, Tombstones
    <2> QED
      BY <2>1, Zenon DEF Complete, TypeInv, JournalType
  <1>2. MemoryType' /\ requested' \in BOOLEAN
    BY Zenon DEF Complete, TypeInv, MemoryType
  <1>3. CASE Keep(p, "load") /\ UNCHANGED locks
    <2>1. ProcsType' /\ Moved(p) /\ pc'[p] = "load"
      BY Zenon, <1>3, Own, Keeps DEF Labels, PublishPcs, locks
    <2> QED
      BY Zenon, <1>1, <1>2, <1>3, <2>1, Untouched DEF Complete, TypeInv
  <1>4. CASE Return(p)
    BY Zenon, <1>1, <1>2, <1>4, Returns, Untouched DEF Complete, TypeInv
  <1> QED
    BY Zenon, <1>3, <1>4 DEF Complete

LEMMA StepFail ==
    ASSUME TypeInv, NEW p \in Procs, Fail(p)
    PROVE  TypeInv' /\ Moved(p) /\ pc'[p] = "idle"
  BY Zenon, Returns, Untouched DEF Fail, TypeInv

LEMMA StepReload ==
    ASSUME TypeInv, NEW s \in States, Reload(s)
    PROVE  TypeInv'
  <1>1. MemoryType' /\ ProcsType'
    BY Zenon DEF Reload, TypeInv, MemoryType, ProcsType
  <1> QED
    BY Zenon, <1>1, Untouched DEF Reload, TypeInv

LEMMA StepCrash ==
    ASSUME TypeInv, Crash
    PROVE  TypeInv' /\ \A q \in Procs : pc'[q] = "idle"
  <1>1. MemoryType'
    BY ZenonT(40) DEF Crash, TypeInv, MemoryType
  <1>2. Boot \in Procs /\ \A q \in Procs : pc'[q] = "idle"
    BY Zenon DEF Crash, Procs
  <1>3. ProcsType' /\ LocksType'
    BY Zenon, <1>2, Stops DEF Crash
  <1> QED
    BY Zenon, <1>1, <1>2, <1>3, Untouched DEF Crash, TypeInv

LEMMA StepRestart ==
    ASSUME TypeInv, Restart
    PROVE  TypeInv' /\ Moved(Boot) /\ pc'[Boot] \in {"tombstone", "load"}
  <1>1. MemoryType'
    BY Zenon DEF Restart, TypeInv, MemoryType, OpenTombstone, JournalType, Tombstones
  <1>2. PICK l \in {"tombstone", "load"} : pc' = [pc EXCEPT ![Boot] = l]
    BY ZenonT(40) DEF Restart
  <1> DEFINE f == [local[Boot] EXCEPT !.job = "boot"]
  <1>3. Boot \in Procs /\ f \in Frames
    BY ZenonT(40), Own, FrameFields DEF Jobs, Procs
  <1>4. l \in Labels /\ l \notin {"row", "ack"} /\ ProcsType
        /\ \A q \in Procs \ {Boot} : seqLock = q => seqLock' = q
    BY Zenon, <1>2 DEF Restart, Labels, DeletePcs, PublishPcs, TypeInv, locks
  <1>5. ProcsType' /\ Moved(Boot) /\ pc'[Boot] = l
    <2>1. local' = [local EXCEPT ![Boot] = f]
      BY Zenon DEF Restart
    <2> HIDE DEF f
    <2> QED
      BY <1>2, <1>3, <1>4, <2>1, Goes, Zenon
  <1> QED
    BY Zenon, <1>1, <1>2, <1>5, Untouched DEF Restart, TypeInv

=============================================================================
