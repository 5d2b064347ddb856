-------------------------- MODULE AccountDeletion --------------------------
(***************************************************************************)
(* The life of one DID on a rsky-pds server: createAccount, record writes, *)
(* deleteAccount, and what a restarted server resumes                      *)
(* (rsky-pds/src/lifecycle.rs, apis/com/atproto/server/create_account.rs,  *)
(* the store directory of actor_store/mod.rs and the allowlist of          *)
(* admission.rs).                                                          *)
(*                                                                         *)
(* A deletion is a series of moves over five places: the lifecycle journal,*)
(* the account database, the sequencer, blob storage and the actor         *)
(* directory.  Requests run them without the actor's write or publish      *)
(* lock, so writers, publishers, creations and other deletions interleave  *)
(* with them, and a crash or an error may stop them anywhere.              *)
(*                                                                         *)
(* Publication of the intents is abstracted to one step per row and one    *)
(* per acknowledgement; module Publication has its details.                *)
(*                                                                         *)
(* A definition named X_Y is a deliberately wrong variant Y of X; no       *)
(* specification uses it.  It shows that a property notices that mistake.  *)
(***************************************************************************)
EXTENDS Integers, Sequences, FiniteSets

CONSTANTS
    Requests,     \* concurrent requests of the server process
    Boot,         \* the start of a server process
    NoOne,        \* an unheld lock
    Coexistence,  \* PDS_COEXISTENCE: objects stay, an obligation is recorded
    MaxStore,     \* bound: how often the DID's store is created
    MaxRev,       \* bound: commits
    MaxLog,       \* bound: sequencer rows ever inserted for the DID
    CreateJobs,   \* creations of an active ("create"), a deactivated ("migrate") account
    Operator      \* whether the operator edits the allowlist

ASSUME ActorsAssumption ==
    Boot \notin Requests /\ NoOne \notin Requests /\ Boot # NoOne

ASSUME BoundsAssumption ==
    /\ MaxStore \in Nat \ {0} /\ MaxRev \in Nat \ {0} /\ MaxLog \in Nat \ {0}
    /\ Coexistence \in BOOLEAN /\ Operator \in BOOLEAN
    /\ CreateJobs \subseteq {"create", "migrate"}

Procs == Requests \cup {Boot}

(* Incarnations of the actor directory.  An open connection to one that    *)
(* was unlinked still reads and writes it.                                 *)
Stores == 1 .. MaxStore

Revs == 1 .. MaxRev

(* Rows of repo_seq: a commit carries its revision.                        *)
Active == <<"account", 0>>
Deleted == <<"deleted", 0>>
CommitRow(r) == <<"append", r>>
RowKinds == {Active, Deleted} \cup {CommitRow(r) : r \in Revs}

States == {"active", "draining", "absent"}

VARIABLES
    rows,        \* account database: the account's rows exist
    rootRow,     \* account database: repo_root revision, 0 when there is no row
    store,       \* which incarnation of the actor directory exists, 0 for none
    created,     \* how many incarnations there have been
    lastRev,     \* the newest revision (a TID: the clock, not the store, orders them)
    storeRoot,   \* per incarnation: revision of its root, 0 before create_repo
    pending,     \* per incarnation: revisions of its undelivered intents
    tombstone,   \* lifecycle journal: the tombstone row
    obligation,  \* lifecycle journal: a purge_obligation row exists
    preMax,      \* lifecycle journal: frontier_watermark.preDeletionMaxRev
    maxRev,      \* lifecycle journal: frontier_watermark.maxRev
    log,         \* sequencer: every row ever inserted for the DID
    live,        \* sequencer: indices of the rows not deleted since
    phase,       \* "down", "resuming", "up", or "aborted" by a refused resume
    blocked,     \* server memory: the DID is in the tombstone set
    admission,   \* the allowlist state of the DID
    didLock, publishLock, seqLock,
    pc, local,
    requested    \* history: a deletion of an existing account began and none
                 \* has completed since

account == <<rows, rootRow>>
directory == <<store, created, lastRev, storeRoot, pending>>
journal == <<tombstone, obligation, preMax, maxRev>>
sequencer == <<log, live>>
memory == <<phase, blocked, admission>>
locks == <<didLock, publishLock, seqLock>>
vars == <<account, directory, journal, sequencer, memory, locks, pc, local,
          requested>>

NoTombstone == [row |-> FALSE, seq |-> 0, done |-> FALSE]
OpenTombstone == tombstone.row /\ ~tombstone.done

(* job: which handler runs; handle: the store incarnation whose database   *)
(* is open; todo, cur, seq: publish_pending's list and current intent;     *)
(* root: the revision a creation holds for update_repo_root.               *)
NoLocals == [job |-> "none", handle |-> 0, todo |-> {}, cur |-> 0, seq |-> 0,
             root |-> 0]

CreatePcs == {"mkdir", "repo", "rows", "active", "root", "clear"}
WritePcs == {"open"}
PublishPcs == {"load", "row", "ack", "sync"}
DeletePcs == {"tombstone", "accountRows", "check", "preMax", "insert",
              "prune", "recordSeq", "oblige", "unlink", "complete"}
Labels == {"idle"} \cup CreatePcs \cup WritePcs \cup PublishPcs \cup DeletePcs
Jobs == {"none", "create", "migrate", "write", "delete", "boot"}

Init ==
    /\ rows = FALSE /\ rootRow = 0
    /\ store = 0 /\ created = 0 /\ lastRev = 0
    /\ storeRoot = [i \in Stores |-> 0] /\ pending = [i \in Stores |-> {}]
    /\ tombstone = NoTombstone /\ obligation = FALSE /\ preMax = 0 /\ maxRev = 0
    /\ log = <<>> /\ live = {}
    /\ phase = "up" /\ blocked = FALSE /\ admission = "active"
    /\ didLock = NoOne /\ publishLock = NoOne /\ seqLock = NoOne
    /\ pc = [p \in Procs |-> "idle"]
    /\ local = [p \in Procs |-> NoLocals]
    /\ requested = FALSE

Goto(p, label) == pc' = [pc EXCEPT ![p] = label]

Keep(p, label) == Goto(p, label) /\ UNCHANGED local

Freed(lock, p) == IF lock = p THEN NoOne ELSE lock

(* A handler returns, or its future is dropped: its guards go with it.     *)
Return(p) ==
    /\ pc' = [pc EXCEPT ![p] = "idle"]
    /\ local' = [local EXCEPT ![p] = NoLocals]
    /\ didLock' = Freed(didLock, p)
    /\ publishLock' = Freed(publishLock, p)
    /\ seqLock' = Freed(seqLock, p)

(* Boot has no caller to return to: the expect in lib.rs ends the process. *)
Refused(p) ==
    /\ IF p = Boot
       THEN /\ phase' = "aborted" /\ blocked' = FALSE
            /\ pc' = [q \in Procs |-> "idle"]
            /\ local' = [q \in Procs |-> NoLocals]
            /\ didLock' = NoOne /\ publishLock' = NoOne /\ seqLock' = NoOne
       ELSE Return(p) /\ UNCHANGED <<phase, blocked>>
    /\ UNCHANGED admission

Begin(p, job, label) ==
    /\ phase = "up" /\ p \in Requests /\ pc[p] = "idle"
    /\ Goto(p, label)
    /\ local' = [local EXCEPT ![p].job = job]

(* sequence_evt: one INSERT, while the caller may take the sequencer's     *)
(* write lock.                                                             *)
Sequence(row) ==
    /\ Len(log) < MaxLog
    /\ log' = Append(log, row)
    /\ live' = live \cup {Len(log) + 1}

(* remove_dir_all, and the entries of the lock maps: whoever waits for or  *)
(* holds one of those locks keeps an orphan, later requests get a new one. *)
Unlinked ==
    /\ store' = 0
    /\ didLock' = NoOne /\ publishLock' = NoOne
    /\ UNCHANGED <<created, lastRev, storeRoot, pending>>

----------------------------------------------------------------------------
(* commit_write on the open database of incarnation i: a new root, and     *)
(* its intent when it is to be published.                                  *)
Commit(i, published) ==
    /\ lastRev < MaxRev
    /\ lastRev' = lastRev + 1
    /\ storeRoot' = [storeRoot EXCEPT ![i] = lastRev + 1]
    /\ pending' = [pending EXCEPT ![i] =
                      IF published THEN @ \cup {lastRev + 1} ELSE @]
    /\ UNCHANGED <<store, created>>

----------------------------------------------------------------------------
(* createAccount.                                                          *)

(* validate_inputs and the first checks of ActorStore::create.             *)
StartCreate(p) ==
    /\ ~rows /\ ~blocked /\ admission = "active"
    /\ created < MaxStore
    /\ \E job \in CreateJobs : Begin(p, job, "mkdir")
    /\ UNCHANGED <<account, directory, journal, sequencer, memory, locks, requested>>

(* ActorStore::create: an existing directory is an error.                  *)
CreateStore(p) ==
    /\ pc[p] = "mkdir"
    /\ \/ /\ store = 0 /\ created < MaxStore
          /\ store' = created + 1 /\ created' = created + 1
          /\ Keep(p, "repo")
          /\ UNCHANGED <<lastRev, storeRoot, pending, locks>>
       \/ /\ store # 0
          /\ Return(p)
          /\ UNCHANGED directory
    /\ UNCHANGED <<account, journal, sequencer, memory, requested>>

(* The rollback of create_account_for: destroy is delete_blobs and unlink, *)
(* each admitted as worker's work.                                         *)
Destroy(p) ==
    /\ IF admission = "absent" THEN UNCHANGED <<directory, didLock, publishLock>>
       ELSE Unlinked
    /\ pc' = [pc EXCEPT ![p] = "idle"]
    /\ local' = [local EXCEPT ![p] = NoLocals]
    /\ UNCHANGED seqLock

(* transact and create_repo: the first commit, with its intent.            *)
CreateRepo(p) ==
    /\ pc[p] = "repo" /\ didLock = NoOne
    /\ \/ /\ ~blocked /\ admission = "active" /\ store # 0
          /\ Commit(store, local[p].job = "create")
          /\ local' = [local EXCEPT ![p].root = lastRev + 1]
          /\ Goto(p, "rows")
          /\ UNCHANGED locks
       \/ /\ blocked \/ admission # "active" \/ store = 0
          /\ Destroy(p)
    /\ UNCHANGED <<account, journal, sequencer, memory, requested>>

(* The repository, the PLC operation or the account rows fail: roll the    *)
(* store back.                                                             *)
CreateFails(p) ==
    /\ pc[p] \in {"repo", "rows"}
    /\ Destroy(p)
    /\ UNCHANGED <<account, journal, sequencer, memory, requested>>

(* create_account_with_password_hash: one transaction.                     *)
CreateRows(p) ==
    /\ pc[p] = "rows" /\ ~rows /\ admission = "active"
    /\ rows' = TRUE /\ rootRow' = local[p].root
    /\ Keep(p, IF local[p].job = "create" THEN "active" ELSE "root")
    /\ UNCHANGED <<directory, journal, sequencer, memory, locks, requested>>

(* sequence_identity_evt and sequence_account_evt under one write lock.    *)
SequenceActive(p) ==
    /\ pc[p] = "active" /\ seqLock = NoOne
    /\ Sequence(Active)
    /\ Keep(p, "load")
    /\ UNCHANGED <<account, directory, journal, memory, locks, requested>>

(* update_repo_root.                                                       *)
UpdateRepoRoot(p) ==
    /\ pc[p] = "root"
    /\ \/ /\ admission = "active"
          /\ rootRow' = local[p].root
          /\ Keep(p, "clear")
          /\ UNCHANGED locks
       \/ /\ admission # "active"
          /\ Return(p)
          /\ UNCHANGED rootRow
    /\ UNCHANGED <<rows, directory, journal, sequencer, memory, requested>>

(* clear_tombstone: the last move of a creation.                           *)
ClearTombstone(p) ==
    /\ pc[p] = "clear"
    /\ tombstone' = IF tombstone.done THEN NoTombstone ELSE tombstone
    /\ Return(p)
    /\ UNCHANGED <<account, directory, obligation, preMax, maxRev, sequencer,
                   memory, requested>>

----------------------------------------------------------------------------
(* A record write, and publish_pending.                                    *)

(* transact_admitted, behind authentication against the account rows.      *)
Admitted == rows /\ ~blocked /\ admission = "active" /\ store # 0

OpenStore(p) ==
    /\ Admitted /\ didLock = NoOne
    /\ phase = "up" /\ p \in Requests /\ pc[p] = "idle"
    /\ didLock' = p
    /\ Goto(p, "open")
    /\ local' = [local EXCEPT ![p].job = "write", ![p].handle = store]
    /\ UNCHANGED <<account, directory, journal, sequencer, memory, publishLock,
                   seqLock, requested>>

(* process_writes_for: the commit and its intent.                          *)
CommitWrite(p) ==
    /\ pc[p] = "open"
    /\ Commit(local[p].handle, TRUE)
    /\ didLock' = Freed(didLock, p)
    /\ Keep(p, "load")
    /\ UNCHANGED <<account, journal, sequencer, memory, publishLock, seqLock,
                   requested>>

(* Where the caller of publish_pending goes on: createAccount updates the  *)
(* root, a starting server serves, a write returns.                        *)
AfterPublish(p) ==
    \/ /\ local[p].job = "create"
       /\ Keep(p, "root")
       /\ publishLock' = Freed(publishLock, p)
       /\ UNCHANGED <<phase, blocked, didLock, seqLock>>
    \/ /\ local[p].job # "create"
       /\ Return(p)
       /\ phase' = IF p = Boot THEN "up" ELSE phase
       /\ UNCHANGED blocked

(* The lock, the admission check, the directory check and the list.  A     *)
(* starting server skips an actor it may not work for.                     *)
LoadPending(p) ==
    /\ pc[p] = "load"
    /\ publishLock = NoOne
    /\ \/ /\ admission # "absent" /\ store # 0
          /\ publishLock' = p
          /\ local' = [local EXCEPT ![p].handle = store, ![p].todo = pending[store]]
          /\ Goto(p, "row")
          /\ UNCHANGED <<memory, didLock, seqLock>>
       \/ /\ store = 0 /\ admission # "absent"
          /\ AfterPublish(p)
          /\ UNCHANGED admission
       \/ /\ admission = "absent"
          /\ Return(p)
          /\ phase' = IF p = Boot THEN "up" ELSE phase
          /\ UNCHANGED <<blocked, admission>>
    /\ UNCHANGED <<account, directory, journal, sequencer, requested>>

(* rows_for_did_after finds the row of an earlier attempt, or sequence_evt *)
(* inserts one.                                                            *)
PublishRow(p) ==
    /\ pc[p] = "row" /\ seqLock = NoOne
    /\ \E r \in local[p].todo :
          /\ \A s \in local[p].todo : r <= s
          /\ \/ \E n \in live :
                   /\ log[n] = CommitRow(r)
                   /\ local' = [local EXCEPT ![p].cur = r, ![p].seq = n]
                   /\ UNCHANGED sequencer
             \/ /\ \A n \in live : log[n] # CommitRow(r)
                /\ Sequence(CommitRow(r))
                /\ local' = [local EXCEPT ![p].cur = r, ![p].seq = Len(log) + 1]
    /\ Goto(p, "ack")
    /\ UNCHANGED <<account, directory, journal, memory, locks, requested>>

Max(a, b) == IF a >= b THEN a ELSE b

(* acknowledge, then record_publication.                                   *)
Acknowledge(p) ==
    /\ pc[p] = "ack"
    /\ pending' = [pending EXCEPT ![local[p].handle] = @ \ {local[p].cur}]
    /\ maxRev' = Max(maxRev, local[p].cur)
    /\ local' = [local EXCEPT ![p].todo = @ \ {local[p].cur}, ![p].cur = 0,
                              ![p].seq = 0]
    /\ Goto(p, "row")
    /\ UNCHANGED <<account, store, created, lastRev, storeRoot, tombstone,
                   obligation, preMax, sequencer, memory, locks, requested>>

(* sync_account_root reads the root of the open store...                   *)
ReadStoreRoot(p) ==
    /\ pc[p] = "row" /\ local[p].todo = {}
    /\ local' = [local EXCEPT ![p].cur = storeRoot[local[p].handle]]
    /\ Goto(p, "sync")
    /\ UNCHANGED <<account, directory, journal, sequencer, memory, locks, requested>>

(* ...and upserts it into repo_root where it differs, whatever became of   *)
(* the account.  A store without a root is left alone.                     *)
SyncAccountRoot(p) ==
    /\ pc[p] = "sync"
    /\ \/ /\ local[p].cur \in {0, rootRow}
          /\ AfterPublish(p)
          /\ UNCHANGED <<rootRow, admission>>
       \/ /\ local[p].cur \notin {0, rootRow} /\ admission # "absent"
          /\ rootRow' = local[p].cur
          /\ AfterPublish(p)
          /\ UNCHANGED admission
       \/ /\ local[p].cur \notin {0, rootRow} /\ admission = "absent"
          /\ Refused(p)
          /\ UNCHANGED rootRow
    /\ UNCHANGED <<rows, directory, journal, sequencer, requested>>

----------------------------------------------------------------------------
(* delete_account: the same moves for deleteAccount, for the operator's    *)
(* admin.deleteAccount, and for a starting server's resume_deletions.      *)

(* deleteAccount needs the account; an operator also retries a deletion    *)
(* that an error stopped.                                                  *)
StartDelete(p) ==
    /\ rows \/ OpenTombstone
    /\ Begin(p, "delete", "tombstone")
    /\ UNCHANGED <<account, directory, journal, sequencer, memory, locks, requested>>

Tombstone_InMemory(p) ==
    /\ pc[p] = "tombstone"
    /\ blocked' = TRUE
    /\ requested' = (requested \/ rows)
    /\ Keep(p, "accountRows")
    /\ UNCHANGED <<account, directory, journal, sequencer, phase, admission, locks>>

(* lifecycle.tombstone: INSERT ... ON CONFLICT DO NOTHING, then the set.   *)
Tombstone(p) ==
    /\ pc[p] = "tombstone"
    /\ tombstone' = [tombstone EXCEPT !.row = TRUE]
    /\ blocked' = TRUE
    /\ requested' = (requested \/ rows)
    /\ Keep(p, "accountRows")
    /\ UNCHANGED <<account, directory, obligation, preMax, maxRev, sequencer,
                   phase, admission, locks>>

(* account_manager.delete_account is admitted as a client's mutation.      *)
DeleteRows(p) ==
    /\ pc[p] = "accountRows"
    /\ \/ /\ admission = "active"
          /\ rows' = FALSE /\ rootRow' = 0
          /\ Keep(p, "check")
          /\ UNCHANGED <<memory, locks>>
       \/ /\ admission # "active"
          /\ Refused(p)
          /\ UNCHANGED account
    /\ UNCHANGED <<directory, journal, sequencer, requested>>

(* already_sequenced is read before the sequencer's lock is taken.         *)
CheckSequenced(p) ==
    /\ pc[p] = "check"
    /\ Keep(p, IF tombstone.seq # 0 THEN "oblige" ELSE "preMax")
    /\ UNCHANGED <<account, directory, journal, sequencer, memory, locks, requested>>

PublishedMax == LET published == {r \in Revs : \E n \in live : log[n] = CommitRow(r)}
                IN  CHOOSE m \in published \cup {0} : \A r \in published : r <= m

RecordPreDeletionMax_WatermarkOnly(p) ==
    /\ pc[p] = "preMax" /\ seqLock = NoOne
    /\ seqLock' = p
    /\ preMax' = Max(preMax, maxRev)
    /\ Keep(p, "insert")
    /\ UNCHANGED <<account, directory, tombstone, obligation, maxRev, sequencer,
                   memory, didLock, publishLock, requested>>

(* The sequencer's write lock, the rows read under it, and                 *)
(* record_pre_deletion_max.                                                *)
RecordPreDeletionMax(p) ==
    /\ pc[p] = "preMax" /\ seqLock = NoOne
    /\ seqLock' = p
    /\ preMax' = Max(preMax, Max(maxRev, PublishedMax))
    /\ Keep(p, "insert")
    /\ UNCHANGED <<account, directory, tombstone, obligation, maxRev, sequencer,
                   memory, didLock, publishLock, requested>>

(* sequence_account_evt(Deleted).                                          *)
SequenceDeleted(p) ==
    /\ pc[p] = "insert"
    /\ Sequence(Deleted)
    /\ local' = [local EXCEPT ![p].seq = Len(log) + 1]
    /\ Goto(p, "prune")
    /\ UNCHANGED <<account, directory, journal, memory, locks, requested>>

Prune_Everything(p) ==
    /\ pc[p] = "prune"
    /\ live' = {}
    /\ Keep(p, "recordSeq")
    /\ UNCHANGED <<account, directory, journal, log, memory, locks, requested>>

(* delete_all_for_user, all but the row just inserted.                     *)
Prune(p) ==
    /\ pc[p] = "prune"
    /\ live' = live \cap {local[p].seq}
    /\ Keep(p, "recordSeq")
    /\ UNCHANGED <<account, directory, journal, log, memory, locks, requested>>

RecordDeletionSeq_Next(p) ==
    /\ pc[p] = "recordSeq"
    /\ tombstone' = [tombstone EXCEPT !.seq = local[p].seq + 1]
    /\ seqLock' = NoOne
    /\ Keep(p, "oblige")
    /\ UNCHANGED <<account, directory, obligation, preMax, maxRev, sequencer,
                   memory, didLock, publishLock, requested>>

(* record_deletion_seq: an UPDATE, and the lock is released.               *)
RecordDeletionSeq(p) ==
    /\ pc[p] = "recordSeq"
    /\ tombstone' = [tombstone EXCEPT !.seq = IF tombstone.row THEN local[p].seq ELSE 0]
    /\ seqLock' = NoOne
    /\ Keep(p, "oblige")
    /\ UNCHANGED <<account, directory, obligation, preMax, maxRev, sequencer,
                   memory, didLock, publishLock, requested>>

Oblige_OnlyAtBoot(p) ==
    /\ pc[p] = "oblige"
    /\ obligation' = (obligation \/ p = Boot)
    /\ Keep(p, "unlink")
    /\ UNCHANGED <<account, directory, tombstone, preMax, maxRev, sequencer,
                   memory, locks, requested>>

(* record_purge_obligation (ON CONFLICT DO NOTHING) while objects must     *)
(* stay; otherwise delete_blobs.  A starting server always records.        *)
Oblige(p) ==
    /\ pc[p] = "oblige"
    /\ \/ /\ Coexistence \/ p = Boot
          /\ obligation' = TRUE
          /\ Keep(p, "unlink")
          /\ UNCHANGED <<memory, locks>>
       \/ /\ ~Coexistence /\ p # Boot
          /\ UNCHANGED obligation
          /\ \/ /\ admission # "absent"
                /\ Keep(p, "unlink")
                /\ UNCHANGED <<memory, locks>>
             \/ /\ admission = "absent"
                /\ Refused(p)
    /\ UNCHANGED <<account, directory, tombstone, preMax, maxRev, sequencer, requested>>

Unlink_FailureIgnored(p) ==
    /\ pc[p] = "unlink"
    /\ Unlinked \/ UNCHANGED <<directory, didLock, publishLock>>
    /\ Keep(p, "complete")
    /\ UNCHANGED <<account, journal, sequencer, memory, seqLock, requested>>

Unlink(p) ==
    /\ pc[p] = "unlink"
    /\ \/ /\ admission # "absent"
          /\ Unlinked
          /\ Keep(p, "complete")
          /\ UNCHANGED <<memory, seqLock>>
       \/ /\ admission = "absent"
          /\ Refused(p)
          /\ UNCHANGED directory
    /\ UNCHANGED <<account, journal, sequencer, requested>>

(* mark_logically_deleted: an UPDATE, then the set.  A starting server     *)
(* goes on to resume_pending_work.                                         *)
Complete(p) ==
    /\ pc[p] = "complete"
    /\ tombstone' = [tombstone EXCEPT !.done = tombstone.row]
    /\ blocked' = FALSE
    /\ requested' = FALSE
    /\ \/ p = Boot /\ Keep(p, "load") /\ UNCHANGED locks
       \/ p # Boot /\ Return(p)
    /\ UNCHANGED <<account, directory, obligation, preMax, maxRev, sequencer,
                   phase, admission>>

----------------------------------------------------------------------------
(* Errors, the operator, and restarts.                                     *)

(* A statement of a request fails and the handler returns its error; the   *)
(* rollback of a creation (CreateFails) may fail too.                      *)
Fail(p) ==
    /\ p \in Requests /\ pc[p] # "idle"
    /\ Return(p)
    /\ UNCHANGED <<account, directory, journal, sequencer, memory, requested>>

(* The operator edits the allowlist.                                       *)
Reload(s) ==
    /\ Operator /\ s # admission
    /\ admission' = s
    /\ UNCHANGED <<account, directory, journal, sequencer, phase, blocked, locks,
                   pc, local, requested>>

Crash ==
    /\ phase \in {"resuming", "up"}
    /\ phase' = "down" /\ blocked' = FALSE
    /\ pc' = [q \in Procs |-> "idle"]
    /\ local' = [q \in Procs |-> NoLocals]
    /\ didLock' = NoOne /\ publishLock' = NoOne /\ seqLock' = NoOne
    /\ UNCHANGED <<account, directory, journal, sequencer, admission, requested>>

Restart_WithoutDeletions ==
    /\ phase \in {"down", "aborted"}
    /\ phase' = "resuming"
    /\ blocked' = OpenTombstone
    /\ pc' = [pc EXCEPT ![Boot] = "load"]
    /\ local' = [local EXCEPT ![Boot].job = "boot"]
    /\ UNCHANGED <<account, directory, journal, sequencer, admission, locks, requested>>

(* LifecycleStore::open reloads the tombstone set; resume_deletions runs   *)
(* before resume_pending_work, and both before the server serves.          *)
Restart ==
    /\ phase \in {"down", "aborted"}
    /\ phase' = "resuming"
    /\ blocked' = OpenTombstone
    /\ pc' = [pc EXCEPT ![Boot] = IF OpenTombstone THEN "tombstone" ELSE "load"]
    /\ local' = [local EXCEPT ![Boot].job = "boot"]
    /\ UNCHANGED <<account, directory, journal, sequencer, admission, locks, requested>>

CreateStep(p) ==
    \/ StartCreate(p) \/ CreateStore(p) \/ CreateRepo(p) \/ CreateFails(p)
    \/ CreateRows(p) \/ SequenceActive(p) \/ UpdateRepoRoot(p) \/ ClearTombstone(p)

WriteStep(p) == OpenStore(p) \/ CommitWrite(p)

PublishStep(p) ==
    \/ LoadPending(p) \/ PublishRow(p) \/ Acknowledge(p)
    \/ ReadStoreRoot(p) \/ SyncAccountRoot(p)

DeleteStep(p) ==
    \/ Tombstone(p) \/ DeleteRows(p) \/ CheckSequenced(p)
    \/ RecordPreDeletionMax(p) \/ SequenceDeleted(p) \/ Prune(p)
    \/ RecordDeletionSeq(p) \/ Oblige(p) \/ Unlink(p) \/ Complete(p)

Next ==
    \/ \E p \in Procs : \/ CreateStep(p) \/ WriteStep(p) \/ PublishStep(p)
                        \/ StartDelete(p) \/ DeleteStep(p) \/ Fail(p)
    \/ \E s \in States : Reload(s)
    \/ Crash \/ Restart

Spec == Init /\ [][Next]_vars

(* The supervisor restarts a dead server, and a starting server runs.      *)
FairSpec ==
    /\ Spec
    /\ WF_vars(Restart)
    /\ WF_vars(DeleteStep(Boot)) /\ WF_vars(PublishStep(Boot))

----------------------------------------------------------------------------
(* Properties.                                                             *)

TypeOK ==
    /\ rows \in BOOLEAN /\ rootRow \in 0 .. MaxRev
    /\ store \in 0 .. MaxStore /\ created \in 0 .. MaxStore
    /\ lastRev \in 0 .. MaxRev
    /\ storeRoot \in [Stores -> 0 .. MaxRev]
    /\ pending \in [Stores -> SUBSET Revs]
    /\ tombstone \in [row : BOOLEAN, seq : 0 .. MaxLog, done : BOOLEAN]
    /\ obligation \in BOOLEAN
    /\ preMax \in 0 .. MaxRev /\ maxRev \in 0 .. MaxRev
    /\ log \in Seq(RowKinds) /\ Len(log) <= MaxLog
    /\ live \subseteq 1 .. Len(log)
    /\ phase \in {"down", "resuming", "up", "aborted"}
    /\ blocked \in BOOLEAN /\ admission \in States
    /\ {didLock, publishLock, seqLock} \subseteq Procs \cup {NoOne}
    /\ pc \in [Procs -> Labels]
    /\ local \in [Procs -> [job : Jobs, handle : 0 .. MaxStore, todo : SUBSET Revs,
                            cur : 0 .. MaxRev, seq : 0 .. MaxLog, root : 0 .. MaxRev]]
    /\ requested \in BOOLEAN

(* The highest revision ever published survives the pruning of the rows    *)
(* that carried it: a re-created repository can be placed above it         *)
(* (delete_account reads the rows, records and prunes under one lock).     *)
PrunedIsRecorded ==
    \A n \in DOMAIN log \ live : \A r \in Revs :
        log[n] = CommitRow(r) => r <= preMax

(* Once the journal calls a deletion complete, consumers of the sequencer  *)
(* can still read that the account is deleted, whichever of several        *)
(* concurrent or resumed deletions pruned last.                            *)
AnnouncementSurvives ==
    tombstone.done => \E n \in live : log[n] = Deleted

(* While nobody creates the DID again, a deletion journaled as complete    *)
(* left neither account rows nor an actor directory.                       *)
DoneMeansGone == tombstone.done => ~rows /\ store = 0

(* While objects must stay in blob storage, no deletion removes the        *)
(* directory, the only list of them, before the journal owes their purge.  *)
ObjectsAreOwed ==
    Coexistence /\ tombstone.row /\ store = 0 => obligation

(* A deletion that began and did not complete has an open tombstone, which *)
(* is what a restart looks for (resume_deletions).                         *)
InterruptedIsResumable == requested => OpenTombstone

(* A starting server finishes the deletion it found open, unless it dies   *)
(* again (or the bound on sequencer rows stops it).                        *)
ResumeCompletes ==
    (phase = "resuming" /\ OpenTombstone)
        ~> (~OpenTombstone \/ phase = "down" \/ Len(log) = MaxLog)

(* One deletion announces itself once: "a restart finishes the job without *)
(* repeating the deletion event".                                          *)
AnnouncedOnce ==
    \A m, n \in DOMAIN log : log[m] = Deleted /\ log[n] = Deleted => m = n

(* From the tombstone on the DID is non-writable: no commit is made in its *)
(* store.                                                                  *)
(* The model refutes it: README, Divergences.                              *)
NoCommitWhileDeleting == [][blocked /\ blocked' => lastRev' = lastRev]_vars

(* Deletion is lifecycle work, which "runs for every actor this process    *)
(* names, in any state but absent": only an absent actor stops a start.    *)
(* The model refutes it: README, Divergences.                              *)
OnlyAbsentAborts == [][phase' = "aborted" /\ phase # "aborted" => admission = "absent"]_vars

Quiescent == phase = "up" /\ \A p \in Procs : pc[p] = "idle"

(* convergence: no reason is left for an account whose last event says it  *)
(* is deleted.                                                             *)
Converged == tombstone.done /\ store = 0 /\ rootRow = 0

(* "A deleted account converges once its deletion is journaled complete",  *)
(* here when no request is running any more.                               *)
(* The model refutes it: README, Divergences.                              *)
DeletedConverges == Quiescent /\ tombstone.done /\ ~rows => Converged

=============================================================================
