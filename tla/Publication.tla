---------------------------- MODULE Publication ----------------------------
(***************************************************************************)
(* How rsky-pds turns the commits of one actor into sequencer rows         *)
(* (rsky-pds/src/publication.rs, with the write path of                    *)
(* actor_store/mod.rs and the pending_work journal of lifecycle.rs).       *)
(*                                                                         *)
(* A write commits its publication intents together with its blocks; a     *)
(* publisher later delivers every pending intent.  The actor's store, the  *)
(* lifecycle journal, the account database and the sequencer are four      *)
(* sqlite files, so each step below is one statement or transaction on one *)
(* of them, and a crash may fall between any two steps.                    *)
(*                                                                         *)
(* A definition named X_Y is a deliberately wrong variant Y of X; no       *)
(* specification uses it.  It shows that a property notices that mistake.  *)
(***************************************************************************)
EXTENDS Integers, Sequences, FiniteSets

CONSTANTS
    Handlers,     \* concurrent write requests of the server process
    PutHandlers,  \* those that drop the transactor before publishing, as
                  \* putRecord does; the others hold it while they publish
    Drains,       \* maintenance processes that run drain_did
    Startup,      \* resume_pending_work in a starting server
    Worker,       \* the background task queue_blob_work starts
    NoOne,        \* an unheld lock
    MaxRev,       \* bound: commits per behaviour
    MaxOther,     \* bound: rows sequenced for other actors
    Imports       \* whether importRepo requests occur

ASSUME ActorsAssumption ==
    /\ PutHandlers \subseteq Handlers
    /\ Startup \notin Handlers /\ Worker \notin Handlers /\ NoOne \notin Handlers
    /\ Startup # Worker /\ Startup # NoOne /\ Worker # NoOne
    /\ Drains \cap (Handlers \cup {Startup, Worker, NoOne}) = {}

ASSUME BoundsAssumption ==
    MaxRev \in Nat \ {0} /\ MaxOther \in Nat /\ Imports \in BOOLEAN

(* Revisions are the numbers of the commits: TIDs order as strings and no  *)
(* two commits of a store share one.                                       *)
Revs == 1 .. MaxRev

(* A commit publishes one append event; the first also a sync event.       *)
Intents == (Revs \X {"append"}) \cup {<<1, "sync">>}

Append1 == <<1, "append">>

(* ORDER BY id: intents are stored in commit order, append before sync.    *)
Before(i, j) == i[1] < j[1] \/ (i[1] = j[1] /\ i[2] = "append" /\ j[2] = "sync")

Oldest_Newest(i, S) == \A j \in S \ {i} : Before(j, i)

Oldest(i, S) == \A j \in S \ {i} : Before(i, j)

NoFloor == -1

(* A row of another actor, or an account or identity event of this one.    *)
Other == <<0, "other">>

Rows == Intents \cup {Other}

Publishers == Handlers \cup {Startup} \cup Drains

(* Processes that run the journaled blob work.                             *)
Workers == Drains \cup {Worker}

Procs == Publishers \cup Workers

VARIABLES
    repoRoot,     \* actor store: revision of the current root, 0 before creation
    intentState,  \* actor store: publish_intent.state
    seqFloor,     \* actor store: publish_intent.seqFloor
    intentSeq,    \* actor store: publish_intent.seq, 0 when NULL
    blobWork,     \* actor store: commits whose blob_work rows are not terminal
    pendingWork,  \* lifecycle journal: the actor is in pending_work
    maxRev,       \* lifecycle journal: frontier_watermark.maxRev, 0 when NULL
    accountRoot,  \* account database: repo_root revision
    repoSeq,      \* sequencer: the rows of repo_seq, seq = index
    phase,        \* the server process: "down", "resuming" or "up"
    didLock,      \* the handler whose transactor is alive
    publishLock,  \* the server-side publisher inside publish_pending
    pc,           \* where each process is
    local         \* what each process holds in its stack frame

store == <<repoRoot, intentState, seqFloor, intentSeq, blobWork>>
journal == <<pendingWork, maxRev>>
databases == <<store, journal, accountRoot, repoSeq>>
locks == <<didLock, publishLock>>
vars == <<databases, phase, locks, pc, local>>

Pending == {i \in Intents : intentState[i] = "pending"}

(* Whether a sequencer row is the delivery of an intent: same event type,  *)
(* same revision (and, for an append, the same commit).                    *)
RowMatches(row, i) == row[2] = i[2] /\ row[1] = i[1]

EmptyFloors == [i \in Intents |-> NoFloor]

(* todo: the intents read and not yet delivered; loaded: the seqFloor      *)
(* column read with them; cur, floor, seq: the intent being delivered, the *)
(* floor in use and the row found or inserted; root: the store root        *)
(* sync_account_root read; blobs: the rows run_blob_work read.             *)
NoLocals == [todo |-> {}, loaded |-> EmptyFloors, cur |-> Append1,
             floor |-> NoFloor, seq |-> 0, root |-> 0, blobs |-> {}]

WritePcs == {"locked", "marked"}

PublishPcs == {"next", "head", "floor", "search", "insert", "ack", "record",
               "root", "rootWrite", "settle", "settleBlob", "clear"}

BlobPcs == {"blobs", "blobsDone", "lastSettle", "lastSettleBlob", "lastClear"}

Labels == {"idle", "queued", "exited"} \cup WritePcs \cup PublishPcs \cup BlobPcs

Publishing(p) == pc[p] \in PublishPcs

(* A drain holds the actor's file lock exclusively; a transactor holds it  *)
(* shared, from after it got the write lock until it is dropped.           *)
Drained == \E d \in Drains : pc[d] \in PublishPcs \cup BlobPcs

Init ==
    /\ repoRoot = 0
    /\ intentState = [i \in Intents |-> "none"]
    /\ seqFloor = EmptyFloors
    /\ intentSeq = [i \in Intents |-> 0]
    /\ blobWork = {}
    /\ pendingWork = FALSE /\ maxRev = 0 /\ accountRoot = 0
    /\ repoSeq = <<>>
    /\ phase = "up" /\ didLock = NoOne /\ publishLock = NoOne
    /\ pc = [p \in Procs |-> "idle"]
    /\ local = [p \in Procs |-> NoLocals]

Goto(p, label) == pc' = [pc EXCEPT ![p] = label]

(* A request handler may serve again; a drain is a process that exits.     *)
Ended(p) == IF p \in Drains THEN "exited" ELSE "idle"

----------------------------------------------------------------------------
(* The write path: a request handler with a transactor.                    *)

(* transact_admitted: the write lock, then the shared file lock.           *)
Transact(h) ==
    /\ phase = "up" /\ pc[h] = "idle" /\ didLock = NoOne /\ ~Drained
    /\ repoRoot < MaxRev
    /\ didLock' = h
    /\ Goto(h, "locked")
    /\ UNCHANGED <<databases, phase, publishLock, local>>

(* commit_write, first statement: the mark precedes the transaction.       *)
MarkPendingWork(h) ==
    /\ pc[h] = "locked"
    /\ pendingWork' = TRUE
    /\ Goto(h, "marked")
    /\ UNCHANGED <<store, maxRev, accountRoot, repoSeq, phase, locks, local>>

CommitRoot_Twice ==
    /\ repoRoot' = repoRoot + 2
    /\ blobWork' = blobWork
    /\ UNCHANGED <<seqFloor, intentSeq, journal, accountRoot, repoSeq, phase,
                   publishLock, local>>

(* commit_write, the transaction, as far as every write shares it: the     *)
(* root moves and the write may leave blob work.                           *)
CommitRoot ==
    /\ repoRoot < MaxRev
    /\ repoRoot' = repoRoot + 1
    /\ blobWork' \in {blobWork, blobWork \cup {repoRoot + 1}}
    /\ UNCHANGED <<seqFloor, intentSeq, journal, accountRoot, repoSeq, phase,
                   publishLock, local>>

(* The transactor of createAccount and of putRecord goes out of scope      *)
(* before publish_pending; the other handlers' lives until they return.    *)
DropsTransactor(h) == h \in PutHandlers \/ repoRoot = 0

(* process_writes_for and create_repo: the commit carries its intents.     *)
CommitWrite(h) ==
    /\ pc[h] = "marked"
    /\ CommitRoot
    /\ intentState' = [i \in Intents |-> IF i[1] = repoRoot + 1 THEN "pending"
                                         ELSE intentState[i]]
    /\ didLock' = IF DropsTransactor(h) THEN NoOne ELSE didLock
    /\ Goto(h, "queued")

(* process_import_repo: supersede_pending and no intents; the handler      *)
(* publishes nothing and returns.                                          *)
ImportRepo(h) ==
    /\ Imports
    /\ pc[h] = "marked" /\ repoRoot > 0
    /\ CommitRoot
    /\ intentState' = [i \in Intents |->
                          IF intentState[i] = "pending" THEN "superseded"
                          ELSE intentState[i]]
    /\ didLock' = NoOne
    /\ Goto(h, "idle")

----------------------------------------------------------------------------
(* publish_pending.                                                        *)

LockedForPublishing_Unlocked(p) == UNCHANGED publishLock

(* The per-actor publish lock lives in the server's memory: a maintenance  *)
(* process has its own and takes the exclusive file lock instead.          *)
LockedForPublishing(p) ==
    IF p \in Drains
    THEN didLock = NoOne /\ ~Drained /\ UNCHANGED publishLock
    ELSE publishLock = NoOne /\ publishLock' = p

LoadPending_Unfloored(p) ==
    /\ pc[p] = "queued"
    /\ LockedForPublishing(p)
    /\ local' = [local EXCEPT
                    ![p].todo = {i \in Pending : seqFloor[i] = NoFloor},
                    ![p].loaded = seqFloor]
    /\ Goto(p, "next")
    /\ UNCHANGED <<databases, phase, didLock>>

(* Lock, then read the pending intents once.                               *)
LoadPending(p) ==
    /\ pc[p] = "queued"
    /\ LockedForPublishing(p)
    /\ local' = [local EXCEPT ![p].todo = Pending, ![p].loaded = seqFloor]
    /\ Goto(p, "next")
    /\ UNCHANGED <<databases, phase, didLock>>

(* for intent in intents: with the floor it was read with, if it had one.  *)
NextIntent(p) ==
    /\ pc[p] = "next"
    /\ \E i \in local[p].todo :
          /\ Oldest(i, local[p].todo)
          /\ local' = [local EXCEPT ![p].cur = i, ![p].floor = local[p].loaded[i]]
          /\ Goto(p, IF local[p].loaded[i] = NoFloor THEN "head" ELSE "search")
    /\ UNCHANGED <<databases, phase, locks>>

(* The loop ends and its variables go out of scope.                        *)
AllDelivered(p) ==
    /\ pc[p] = "next" /\ local[p].todo = {}
    /\ local' = [local EXCEPT ![p] = NoLocals]
    /\ Goto(p, "root")
    /\ UNCHANGED <<databases, phase, locks>>

(* sequencer.curr(): the head before this delivery inserts anything.       *)
ReadHead(p) ==
    /\ pc[p] = "head"
    /\ local' = [local EXCEPT ![p].floor = Len(repoSeq)]
    /\ Goto(p, "floor")
    /\ UNCHANGED <<databases, phase, locks>>

RecordFloor_Skipped(p) ==
    /\ pc[p] = "floor"
    /\ Goto(p, "search")
    /\ UNCHANGED <<databases, phase, locks, local>>

(* record_floor: only where the column is still NULL.                      *)
RecordFloor(p) ==
    /\ pc[p] = "floor"
    /\ seqFloor' = [seqFloor EXCEPT ![local[p].cur] =
                       IF @ = NoFloor THEN local[p].floor ELSE @]
    /\ Goto(p, "search")
    /\ UNCHANGED <<repoRoot, intentState, intentSeq, blobWork, journal,
                   accountRoot, repoSeq, phase, locks, local>>

Hits(p) == {k \in 1 .. Len(repoSeq) :
               k > local[p].floor /\ RowMatches(repoSeq[k], local[p].cur)}

FindRow_Unsearched(p) ==
    /\ pc[p] = "search"
    /\ Goto(p, "insert")
    /\ UNCHANGED <<databases, phase, locks, local>>

(* rows_for_did_after(floor).find(row_matches), in the order of seq.       *)
FindRow(p) ==
    /\ pc[p] = "search"
    /\ \/ /\ Hits(p) = {}
          /\ Goto(p, "insert")
          /\ UNCHANGED local
       \/ \E k \in Hits(p) :
             /\ \A l \in Hits(p) : k <= l
             /\ local' = [local EXCEPT ![p].seq = k]
             /\ Goto(p, "ack")
    /\ UNCHANGED <<databases, phase, locks>>

InsertRow_Lost(p) ==
    /\ pc[p] = "insert"
    /\ local' = [local EXCEPT ![p].seq = Len(repoSeq) + 1]
    /\ Goto(p, "ack")
    /\ UNCHANGED <<databases, phase, locks>>

(* sequence_evt: INSERT ... RETURNING seq, an AUTOINCREMENT key.           *)
InsertRow(p) ==
    /\ pc[p] = "insert"
    /\ repoSeq' = Append(repoSeq, local[p].cur)
    /\ local' = [local EXCEPT ![p].seq = Len(repoSeq) + 1]
    /\ Goto(p, "ack")
    /\ UNCHANGED <<store, journal, accountRoot, phase, locks>>

(* acknowledge: the intent and its publish_ack row in one transaction.     *)
Acknowledge(p) ==
    /\ pc[p] = "ack"
    /\ LET i == local[p].cur
       IN  /\ intentState' = [intentState EXCEPT ![i] = "delivered"]
           /\ intentSeq' = [intentSeq EXCEPT ![i] = local[p].seq]
           /\ local' = [local EXCEPT ![p].todo = @ \ {i}]
           /\ Goto(p, IF i[2] = "append" THEN "record" ELSE "next")
    /\ UNCHANGED <<repoRoot, seqFloor, blobWork, journal, accountRoot, repoSeq,
                   phase, locks>>

RecordPublication_Root(p) ==
    /\ pc[p] = "record"
    /\ maxRev' = repoRoot
    /\ Goto(p, "next")
    /\ UNCHANGED <<store, pendingWork, accountRoot, repoSeq, phase, locks, local>>

(* record_publication: the watermark only rises.                           *)
RecordPublication(p) ==
    /\ pc[p] = "record"
    /\ maxRev' = IF local[p].cur[1] > maxRev THEN local[p].cur[1] ELSE maxRev
    /\ Goto(p, "next")
    /\ UNCHANGED <<store, pendingWork, accountRoot, repoSeq, phase, locks, local>>

----------------------------------------------------------------------------
(* The end of publish_pending: sync_account_root, settle_pending_work.     *)

(* The frame of p is gone, and with it the locks it held.                  *)
Release(p) ==
    /\ publishLock' = IF publishLock = p THEN NoOne ELSE publishLock
    /\ didLock' = IF didLock = p THEN NoOne ELSE didLock
    /\ local' = [local EXCEPT ![p] = NoLocals]

(* publish_pending returns: a handler answers, a resumed server queues the *)
(* blob work and opens for requests, a drain goes on to the blob work.     *)
Return(p) ==
    /\ Release(p)
    /\ \/ p \in Handlers /\ Goto(p, "idle") /\ UNCHANGED phase
       \/ p \in Drains /\ Goto(p, "blobs") /\ UNCHANGED phase
       \/ /\ p = Startup /\ phase' = "up"
          /\ pc' = [pc EXCEPT ![Startup] = "idle", ![Worker] = "blobs"]

Continue(p, label) == Goto(p, label) /\ UNCHANGED <<phase, locks, local>>

ReadRoot_AwaitsRoot(p) ==
    /\ pc[p] = "root"
    /\ repoRoot > 0
    /\ Continue(p, "settle")
    /\ UNCHANGED databases

(* sync_account_root, the reads: a store without a root settles nothing.   *)
ReadRoot(p) ==
    /\ pc[p] = "root"
    /\ \/ repoRoot = 0 /\ Return(p)
       \/ repoRoot > 0 /\ accountRoot = repoRoot /\ Continue(p, "settle")
       \/ /\ repoRoot > 0 /\ accountRoot # repoRoot
          /\ local' = [local EXCEPT ![p].root = repoRoot]
          /\ Goto(p, "rootWrite")
          /\ UNCHANGED <<phase, locks>>
    /\ UNCHANGED databases

(* update_repo_root_as_worker.                                             *)
WriteRoot(p) ==
    /\ pc[p] = "rootWrite"
    /\ accountRoot' = local[p].root
    /\ local' = [local EXCEPT ![p] = NoLocals]
    /\ Goto(p, "settle")
    /\ UNCHANGED <<store, journal, repoSeq, phase, locks>>

(* settle_pending_work, first read: the pending intents.                   *)
SettleIntents(p) ==
    /\ pc[p] = "settle"
    /\ \/ Pending = {} /\ Continue(p, "settleBlob")
       \/ Pending # {} /\ Return(p)
    /\ UNCHANGED databases

(* settle_pending_work, second read: nonterminal_blob_work.                *)
SettleBlobs(p) ==
    /\ pc[p] = "settleBlob"
    /\ \/ blobWork = {} /\ Continue(p, "clear")
       \/ blobWork # {} /\ Return(p)
    /\ UNCHANGED databases

(* clear_pending_work: an unconditional DELETE.                            *)
ClearPendingWork(p) ==
    /\ pc[p] = "clear"
    /\ pendingWork' = FALSE
    /\ Return(p)
    /\ UNCHANGED <<store, maxRev, accountRoot, repoSeq>>

----------------------------------------------------------------------------
(* The blob work, in the background task or in a drain: run_blob_work,     *)
(* then settle_pending_work with the account root taken to be current.     *)
(* The background task holds no lock of the actor.                         *)

ReadBlobWork(w) ==
    /\ pc[w] = "blobs"
    /\ local' = [local EXCEPT ![w].blobs = blobWork]
    /\ Goto(w, "blobsDone")
    /\ UNCHANGED <<databases, phase, locks>>

FinishBlobWork(w) ==
    /\ pc[w] = "blobsDone"
    /\ blobWork' = blobWork \ local[w].blobs
    /\ local' = [local EXCEPT ![w] = NoLocals]
    /\ Goto(w, "lastSettle")
    /\ UNCHANGED <<repoRoot, intentState, seqFloor, intentSeq, journal,
                   accountRoot, repoSeq, phase, locks>>

SettleAfterBlobWork(w) ==
    /\ \/ pc[w] = "lastSettle"
          /\ Goto(w, IF Pending = {} THEN "lastSettleBlob" ELSE Ended(w))
          /\ UNCHANGED pendingWork
       \/ pc[w] = "lastSettleBlob"
          /\ Goto(w, IF blobWork = {} THEN "lastClear" ELSE Ended(w))
          /\ UNCHANGED pendingWork
       \/ pc[w] = "lastClear" /\ Goto(w, Ended(w)) /\ pendingWork' = FALSE
    /\ UNCHANGED <<store, maxRev, accountRoot, repoSeq, phase, locks, local>>

----------------------------------------------------------------------------
(* The environment: other actors, drains, failures, crashes, restarts.     *)

OtherEvent ==
    /\ Cardinality({k \in 1 .. Len(repoSeq) : repoSeq[k] = Other}) < MaxOther
    /\ repoSeq' = Append(repoSeq, Other)
    /\ UNCHANGED <<store, journal, accountRoot, phase, locks, pc, local>>

(* drain_did asks for the exclusive file lock.                             *)
StartDrain(d) ==
    /\ pc[d] = "idle"
    /\ Goto(d, "queued")
    /\ UNCHANGED <<databases, phase, locks, local>>

(* Any `?` of a handler, a drain or the blob worker: the error returns     *)
(* through the guards, and what was already written stays.                 *)
Fail(p) ==
    /\ p # Startup
    /\ pc[p] \in WritePcs \cup PublishPcs \cup BlobPcs
    /\ Release(p)
    /\ Goto(p, Ended(p))
    /\ UNCHANGED <<databases, phase>>

(* The server dies; memory is lost, the four databases stay.  A failed     *)
(* resume aborts the start the same way.                                   *)
Crash ==
    /\ phase # "down"
    /\ phase' = "down" /\ didLock' = NoOne /\ publishLock' = NoOne
    /\ pc' = [p \in Procs |-> IF p \in Drains THEN pc[p] ELSE "idle"]
    /\ local' = [p \in Procs |-> IF p \in Drains THEN local[p] ELSE NoLocals]
    /\ UNCHANGED databases

(* Startup publishes for every marked actor before it serves requests.     *)
Restart ==
    /\ phase = "down"
    /\ \/ pendingWork /\ phase' = "resuming" /\ Goto(Startup, "queued")
       \/ ~pendingWork /\ phase' = "up" /\ UNCHANGED pc
    /\ UNCHANGED <<databases, locks, local>>

----------------------------------------------------------------------------

Write(h) == MarkPendingWork(h) \/ CommitWrite(h) \/ ImportRepo(h)

Publish(p) ==
    \/ LoadPending(p) \/ NextIntent(p) \/ AllDelivered(p) \/ ReadHead(p)
    \/ RecordFloor(p) \/ FindRow(p) \/ InsertRow(p) \/ Acknowledge(p)
    \/ RecordPublication(p) \/ ReadRoot(p) \/ WriteRoot(p) \/ SettleIntents(p)
    \/ SettleBlobs(p) \/ ClearPendingWork(p)

WorkBlobs(w) == ReadBlobWork(w) \/ FinishBlobWork(w) \/ SettleAfterBlobWork(w)

Next ==
    \/ \E h \in Handlers : Transact(h) \/ Write(h)
    \/ \E p \in Publishers : Publish(p)
    \/ \E w \in Workers : WorkBlobs(w)
    \/ \E p \in Procs : Fail(p)
    \/ \E d \in Drains : StartDrain(d)
    \/ OtherEvent \/ Crash \/ Restart

Spec == Init /\ [][Next]_vars

(* A running process is scheduled; requests, drains, failures and crashes  *)
(* need never happen, but a server that is down is started again.          *)
Fairness ==
    /\ \A h \in Handlers : WF_vars(Write(h))
    /\ \A p \in Publishers : SF_vars(LoadPending(p)) /\ WF_vars(Publish(p))
    /\ \A w \in Workers : WF_vars(WorkBlobs(w))
    /\ WF_vars(Restart)

FairSpec == Spec /\ Fairness
----------------------------------------------------------------------------
(* Properties.                                                             *)

Floors == {NoFloor} \cup Nat

States == {"none", "pending", "delivered", "superseded"}

Frames == [todo : SUBSET Intents, loaded : [Intents -> Floors], cur : Intents,
           floor : Floors, seq : Nat, root : Nat, blobs : SUBSET Revs]

(* Every variable of the write and publish path has its type.              *)
TypeOK ==
    /\ repoRoot \in 0 .. MaxRev /\ accountRoot \in Nat /\ maxRev \in Nat
    /\ intentState \in [Intents -> States]
    /\ seqFloor \in [Intents -> Floors] /\ intentSeq \in [Intents -> Nat]
    /\ blobWork \in SUBSET Revs /\ pendingWork \in BOOLEAN
    /\ repoSeq \in Seq(Rows)
    /\ phase \in {"down", "resuming", "up"}
    /\ didLock \in Handlers \cup {NoOne}
    /\ publishLock \in Handlers \cup {Startup, NoOne}
    /\ pc \in [Procs -> Labels]
    /\ local \in [Procs -> Frames]

Sequenced(i) == \E k \in 1 .. Len(repoSeq) : repoSeq[k] = i

(* publish_pending "turns each pending intent into exactly one sequencer   *)
(* row": across crashes, retries and concurrent publishers, no two rows    *)
(* carry the same commit.                                                  *)
ExactlyOneRow ==
    \A k, l \in 1 .. Len(repoSeq) :
        repoSeq[k] = repoSeq[l] /\ repoSeq[k] # Other => k = l

(* The rows of an actor appear in commit order, so a consumer that applies *)
(* them as they come never moves a repository back (oldest first, one      *)
(* publisher at a time).                                                   *)
InCommitOrder ==
    \A k, l \in 1 .. Len(repoSeq) :
        k < l /\ repoSeq[k] # Other /\ repoSeq[l] # Other
            => Before(repoSeq[k], repoSeq[l])

(* acknowledge happens "only after the sequencer has made it durable": a   *)
(* delivered intent names the row that carries it.                         *)
AcknowledgedIsDurable ==
    \A i \in Intents : intentState[i] = "delivered" =>
        intentSeq[i] \in 1 .. Len(repoSeq) /\ repoSeq[intentSeq[i]] = i

(* The lifecycle watermark never runs ahead of the feed: the revision it   *)
(* calls published has a row (record_publication follows acknowledge).     *)
WatermarkIsPublished == maxRev > 0 => Sequenced(<<maxRev, "append">>)

(* The floor of an intent lies below its row, which is what lets a retry   *)
(* after a crash find the row again (record_floor precedes sequence_evt).  *)
FloorBelowRow ==
    \A i \in Intents, k \in 1 .. Len(repoSeq) :
        repoSeq[k] = i => seqFloor[i] # NoFloor /\ seqFloor[i] < k

(* "A restart knows which stores may hold undelivered publication intents  *)
(* or unfinished blob work": what is owed is marked, whenever the server   *)
(* may crash.                                                              *)
OwedWorkIsMarked == (Pending # {} \/ blobWork # {}) => pendingWork

(* "Intents from before [an import] ... must never be published": no step  *)
(* sequences an event that an import has superseded.                       *)
(* The model refutes it: README, Divergences.                              *)
SupersededStaysUnpublished ==
    [][\A i \in Intents :
          intentState[i] = "superseded" /\ ~Sequenced(i) => ~Sequenced(i)']_vars

(* The log the sequencer keeps is one the feed promises.                   *)
Feed == INSTANCE PublicationFeed WITH
            committed <- {i \in Intents : intentState[i] # "none"},
            log <- repoSeq

FeedRefined == Feed!FeedSpec

(* What a marked store owes when the server restarts is delivered, unless  *)
(* failures or crashes never stop: resume_pending_work.                    *)
RestartDelivers ==
    \/ []<><<Crash \/ \E p \in Procs : Fail(p)>>_vars
    \/ \A i \in Intents :
          (phase = "resuming" /\ intentState[i] = "pending")
              ~> (intentState[i] # "pending")

(* A server that restarts serves again, whatever publication it resumes.   *)
RestartServes ==
    []<><<Crash \/ \E p \in Procs : Fail(p)>>_vars \/ (phase = "down" ~> phase = "up")
=============================================================================
