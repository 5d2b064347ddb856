# TLA+ models of rsky

rsky is an implementation of the AT Protocol in Rust: a personal data server
(PDS) and the services around it. These modules model the parts of it in which
several processes, crashes or unconfirmed requests meet, check them with TLC on
small instances, and prove the most important results with TLAPS for every
value of the constants.

## The system and its parts

| Part | What it does | Module |
|---|---|---|
| PDS write path and publication outbox (`rsky-pds/src/publication.rs`, `actor_store/mod.rs`) | a write commits a repository root and *publish intents* in the actor's own database; a publisher turns each intent into one row of the sequencer and acknowledges it | `Publication`, `PublicationFeed` |
| PDS account lifecycle (`lifecycle.rs`, `create_account.rs`, `delete_account.rs`) | creation with rollback; deletion over four databases, journaled as a tombstone and resumed at start | `AccountDeletion` |
| PDS blob storage (`collector.rs`, `blob_attempts.rs`, `blob_generations.rs`, `actor_store/blob/`) | objects are promoted and deleted in a store that answers late or not at all; a collector journals every delete and retires keys with unconfirmed ones | `BlobCollector` |
| PDS sequencer and firehose (`sequencer/`, `subscribe_repos.rs`) | rows are polled and broadcast; a subscriber backfills by pages and then follows the broadcast | `SequencerOutbox` |
| Wintermute (`rsky-wintermute/src/reconcile`, `ingester`, `backfiller`, `indexer`) | indexes the stream through a gate; reconciles an actor with its repository behind a fence | `IndexerGate`, `Reconcile` |
| PDS repair, frontier, admission reload, purge, convergence | maintenance of one actor beside a serving process | planned |
| Relay (`rsky-relay`) | crawls hosts, validates events with deferral, publishes to subscribers | planned |
| Space daemon and host (`rsky-daemon`, `rsky-space-host`, `rsky-space`) | replicate permissioned repositories, checked by a homomorphic hash | planned |
| Router (`rsky-pds-router`) | routes mutations between two PDS implementations, journaled | planned |
| OAuth (`rsky-oauth`, `account_manager/oauth_store.rs`) | codes, rotating refresh tokens, device sessions | planned |
| Repository structures (`rsky-repo`) | Merkle search tree, difference, CAR | planned, TLC only |
| Identity, syntax, crypto, lexicon, video, feed generator, consumers, tools | stateless or single-writer code | not modelled |

The parts meet in the actor store and the sequencer. A write (`Publication`)
leaves an intent and a mark in the lifecycle journal; publishing appends to the
sequencer, whose rows `SequencerOutbox` delivers; deleting the account
(`AccountDeletion`) prunes those rows, removes the store the intents live in and
leaves an obligation for the objects that `BlobCollector` removes. The relay
consumes the firehose, and wintermute the relay's: `Reconcile` is what happens
to its tables when a repository and its history part. `PROJECT.json` lists every part with its
sources and the reason for those left out.

## Publication

`Publication` is one actor. Its variables are the rows of the three databases
(the actor store's root, intents and blob work; the lifecycle journal's mark and
watermark; the account database's root; `repoSeq`, the sequencer), the two locks
and, per process, a program counter and its stack frame. The processes are
request handlers, the background blob worker, the start-up pass
`resume_pending_work`, and maintenance processes that run `drain_did`.

| Action | Code |
|---|---|
| `Transact`, `MarkPendingWork`, `CommitWrite`, `ImportRepo` | `ActorStore::transact`, `mark_pending_work`, `commit_write`, `import_repo` |
| `LoadPending`, `NextIntent`, `ReadHead`, `RecordFloor`, `FindRow`, `InsertRow`, `Acknowledge`, `RecordPublication`, `AllDelivered`, `Return` | the steps of `publish_pending`, one per database call |
| `ReadRoot`, `WriteRoot` | `sync_account_root` |
| `SettleIntents`, `SettleBlobs`, `ClearPendingWork` | `settle_pending_work` |
| `ReadBlobWork`, `FinishBlobWork`, `SettleAfterBlobWork` | the spawned blob worker |
| `StartDrain`, `Fail`, `Crash`, `Restart`, `OtherEvent` | `drain_did`; any `?`; process death; the start; other actors' rows |

`PutHandlers` are the handlers that, like `putRecord`, release the write lock
before they publish. An intent is the revision it announces and its kind: the
first commit publishes an append and a sync event, every later one an append.

`PublicationFeed` is what the outbox promises, without its mechanism: commits
happen, and each is delivered at most once and in order. `FeedRefined` says that
`Publication` implements it, where an intent counts as delivered when a row of
the sequencer carries it, whatever the intent's own state says.

* `publication_safety`: two handlers, three revisions, imports, failures and
  crashes at every step. Checks the refinement, `ExactlyOneRow`,
  `InCommitOrder`, `AcknowledgedIsDurable`, `WatermarkIsPublished` and
  `FloorBelowRow` (what makes the search for one's own row after a crash
  complete).
* `publication_liveness`: after a crash the restarted server delivers every
  intent of a marked store (`RestartDelivers`) and then serves
  (`RestartServes`). Fairness is weak fairness on the steps of each process:
  tokio polls every runnable task. Failures are not fair, and both properties
  except behaviours in which they never stop.
* `publication_drains`: a drain in a second process beside the server.
* `publication_mark`: a divergence, see below.

Two handlers and three revisions are the smallest instance in which one
publisher works on a list another has already delivered from while a third
commit arrives; each race needs two processes and at most two commits.

## Account deletion

`AccountDeletion` is one DID through its incarnations. The state is the account
rows and root row, the actor directory (which incarnation), its intents, the
tombstone row, the obligation, both watermarks, the sequencer's rows of the DID
(`log`, of which `live` have not been pruned), the in-memory tombstone set, the
allowlist state and the locks. Requests create (`StartCreate` to
`ClearTombstone`, with `CreateFails` for the rollback and `Destroy`), write
(`OpenStore`, `CommitWrite`), publish (`LoadPending` to `SyncAccountRoot`, one
step per row; `Publication` has the detail) and delete (`StartDelete`,
`Tombstone`, `DeleteRows`, `CheckSequenced`, `RecordPreDeletionMax`,
`SequenceDeleted`, `Prune`, `RecordDeletionSeq`, `Oblige`, `Unlink`,
`Complete`). `Restart` runs `resume_deletions` as the process `Boot`; `Reload`
is the operator changing the allowlist; `Fail` and `Crash` happen at any step.

* `deletion_safety`: two requests, three revisions, active and deactivated
  creations, and the operator moving the actor between active, draining and
  absent. `PrunedIsRecorded` (the highest revision the pruned rows carried is
  journaled before they go), `AnnouncementSurvives`, `DoneMeansGone`,
  `ObjectsAreOwed`, `InterruptedIsResumable`.
* `deletion_resume`: a starting server finishes the deletion it finds open
  (`ResumeCompletes`), under weak fairness on the restart and on the steps of the
  start-up pass and unless it dies again. `Coexistence` is off, so objects are
  deleted at once.

The passing runs create the store once: with a second incarnation
`InterruptedIsResumable` and `DoneMeansGone` fail, see the divergences.

## Blob collector

`BlobCollector` is one content of one actor, since keys, attempts and
generations are per content. `object` is what each permanent key holds (the
number of the upload), `lateDeletes` and `lateWrites` are requests the store has
accepted and may apply at any later time (`LateDelete`, `LateWrite`, the model
of the external object store), `attempts` is the attempt journal and `retired`
the generation registry. Three processes: requests (`UploadBlob`, `StartWrite`
to `CommitWrite`, `DeleteRecord`), the worker (`StartWork` to `WorkerFinish`) and
the collector (`StartCollect` to `MarkRetired`, `RecoverIssuing` for a row an
earlier pass left in `issuing`). `Stop` is the death of either process.

* `blob_byhand`: the collector over two deferred rows while the server is
  quiet: `OldDeleteNamesNoNewObject`, `ReferencedIsStored`,
  `AmbiguousIsRetired`, `UnconfirmedIsJournaled`, `DoneIsGone`.
* `blob_live`: beside a serving process and its worker, with a death of either:
  `OneKeyInUse` and the types.

Two generations and two rows let a retired key be followed by a second
ambiguous delete, the case in which the generation-zero key is the wrong one.

## Sequencer and firehose

`SequencerOutbox` has the rows (`head`, `rows`, `invalidated`), the poll loop
(`polled`, `sent`) and, per subscriber, the stream's position: its cursor
`from`, the head `top` its backfill runs to, `last`, the receiver's position
`pos` in the broadcast, the page or batch it is yielding and, as history, `got`.
`Sequence`, `Invalidate` and `Prune` are the writers; `StartPoller`,
`StartFails`, `Poll` and `Destroy` the poll loop; `Subscribe`, `ReadHead`,
`LoadPage`, `Recv`, `Yield` and `Disconnect` the stream; `Restart` a new process.
The broadcast drops the oldest batch beyond `Capacity`, and a receiver that
missed one ends with an error. `LateStart` lets subscribers in before the poll
loop has read its first head.

* `outbox_delivers`: pages and batches smaller than the backlog, a broadcast of
  one batch and a restart: `NoGap`, `InOrderOnce` and, under weak fairness of the
  poll loop and of each stream's steps, `Delivered`. The loops have no condition
  the environment controls; a disconnect or a failed start is not fair. Three
  rows make a batch of two, a batch of one that displaces it, and a page to
  backfill.
* `outbox_latestart`: a divergence.

## Reconciliation

`IndexerGate` is the part of wintermute that writes one actor's rows;
`Reconcile` extends it with the workflow of `bin/reindex_did.rs`. A commit
changes at most one record and is told apart by its revision; a record's CID is
the revision that wrote it. `row`, `max_rev` and `last_commit` are what is
indexed, `fence`, `boundary` and `generation` the three rows of the actor that
both sides read, `journal` the workflow's own row.

| Action | Code |
|---|---|
| `ReadEvent` | the ingester stamps a relay event with the generation it looks up and queues its jobs |
| `StartFetch`, `FinishFetch` | the backfiller reads the generation, fetches an export and queues it |
| `DequeueLive`, `DequeueBackfill` | the two loops of the indexer take a batch out of its queue |
| `TryLock`, `ReadFence`, `ReadGeneration`, `ReadBoundary`, `OpenFails` | `Gate::open`, one step per statement |
| `Apply`, `CloseGate` | what the gate admits is written, the rest handed back, dropped or requeued |
| `InstallFence` to `Finish`, `Refuse`, `EndRun`, `EndFailed` | `install_fence`, `reconcile_fenced`, `refuse`, `reconcile` |
| `StepFails`, `EndFails`, `Die`, `CrashIndexer` | any `?`; the process of the workflow or of the indexer dies |
| `VerifyLifts`, `VerifyDone` | `verify_recovery` |

`Commit`, `RestoreBackup` and `PublishRecovery` are the PDS. `excuse` and `sync`
are history: which of the orders that the code does not keep has happened, and
how far a reconciliation rewrote the records.

* `reconcile_gate`: writers beside a workflow, step by step, while the PDS takes
  commits: `GateStillHolds` (three reads, one after the other, still hold when
  the jobs are applied), `FencedIsStill`, and `RecoveryAcknowledged` under weak
  fairness on the loops, the workflow's steps and the operator's verification.
  The live loop takes full batches of up to three jobs.
* `reconcile_whole`: two workflows, two runs and a failure anywhere, with
  batches of one: `PartialIsFenced` and `Converged`.

The two instances explore the same actions. Where two steps commute, because
one side holds a gate or a fence, `MCReconcile` follows one of their orders; the
first run is what justifies that in the second. One record and two commits
suffice for a job below, at and above the boundary; the recovery commit is the
third revision.

## What is proved

TLAPS checks these theorems for any number of processes, subscribers, commits,
rows, uploads, failures and crashes. Their only assumptions are the ASSUMEs of
the modules (the processes are distinct, the bounds are naturals), which TLC
evaluates on the instances. A `...Steps` module has the types and what each
action does to the process that takes it; the `...Proofs` module that extends it
has the invariants and the theorems.

* Types: `PublicationSteps!TypeCorrect`, `AccountDeletionProofs!TypeCorrect`,
  `BlobCollectorSteps!TypeCorrect`, `SequencerOutboxProofs!TypeCorrect`.
* `PublicationProofs!PublishedExactlyOnce`: while only the server publishes
  (`Drains = {}`), no intent ever has two rows, rows are in commit order,
  acknowledged intents have their rows, floors lie below rows and the watermark
  is published. None of these is inductive. The invariant `PublishInv` adds that
  at most one server-side publisher is in the loop (the publish lock), that the
  floor of an intent, journaled or in the publisher's frame, lies below any row
  it has, that a pending intent without a row is younger than every row, and
  what the publisher knows at each program counter: after `FindRow` found
  nothing its intent has no row, and nobody else can add one.
* `PublicationProofs!FeedImplemented`: under the same assumption `Publication`
  implements `PublicationFeed`. The commit of a write maps to the abstract
  commit, the insertion of a row to the abstract delivery, all else to
  stuttering; `PublishInv` is what makes the insertion a first, in-order one.
* `SequencerOutboxProofs!NoGapNoRepeat`: when the poll loop reads its first head
  before subscribers are served (`~LateStart`), no stream has a gap or a repeat,
  for every page, poll and broadcast size. The inductive invariant `IInv` says that the
  batches sent ascend and end at `polled`; that a backfilling stream's page has
  no hole, and that every row above its `top` that was polled is in a batch it
  has yet to receive; and that a live stream finds every polled row above its
  position in the batch at hand or in one it has yet to receive. The conjunct
  about `top` is what joins the database and the broadcast: the receiver is
  created before the head is read.

* `AccountDeletionProofs!PrunedStaysRecorded` and `AnnouncementStays`, for any
  number of incarnations of the DID. The invariant `SeqInv` adds who holds the
  sequencer's lock, that between reading the maximum and pruning no row above it
  appears (every insertion needs the lock), and that the event a deletion is
  about to keep is readable; a deletion that is past its event relies on some
  event, not on its own, since another deletion may have pruned that one.
* `AccountDeletionProofs!DoneIsGone`, `ObjectsStayOwed` and
  `InterruptedStaysResumable`: in the first life of a DID (`created <= 1`) a
  completed deletion left nothing, the purge of its objects is owed, and an
  interrupted one can be resumed. `LifeInv` orders the steps: before the account
  rows exist only one request makes the store and nobody deletes, and each
  program counter of a deletion fixes what is already gone. The hypothesis is
  needed: with a second incarnation TLC refutes `DoneMeansGone` and
  `InterruptedIsResumable`. `ObjectsAreOwed` does hold there in the model, but
  only because the purge that settles an obligation is not modelled, so the
  theorem claims the first life alone.
* `BlobCollectorSteps!KeyInUseIsOne`: keys are retired once each and in order,
  without any condition.
* `BlobCollectorSteps!UnconfirmedStaysJournaled`: as long as no record is deleted
  (`~Worker`) every delete the store may still apply has an open attempt, also
  across deaths. `JournalInv` says that whoever is sending has an open attempt
  of its own that nobody else resolves, and that the attempt behind a pending
  delete is open or about to be resolved as ambiguous. `OriginalKeyStaysJournaled`
  is the part that needs no hypothesis; the worker's deletes of generation keys
  are unjournaled, see the divergences.
* `BlobCollectorProofs!OldDeletesMissNewObjects`, `ReferencedStaysStored`,
  `AmbiguousStaysRetired` and `DoneRowsAreGone`: for a collector run by hand while
  no record is deleted and no process died (`QuietPass`). `PassInv` has a part
  per actor: the client promotes at the key in use while the collector is idle;
  the collector deletes at the key in use while the content has no row; at most
  the row at hand is unfinished; and every pending delete names a retired key or
  the one the collector is about to retire, and is newer than what that key
  holds or may still be given by a late write. TLC refutes
  the first two without any one part of `QuietPass`: a death leaves a key with a
  pending delete in use, a serving process stores under a key it read before the
  retirement, and the worker deletes what has been uploaded again.
* `ReconcileProofs!AdmittedStaysAdmitted`: what a gate admitted is still
  admissible when it is applied. `GateInv` says of a writer with the shared lock
  that what it has read so far is still so. Of the fence only its absence is: a
  workflow lifts its fence without the exclusive lock.
* `ReconcileProofs!HalfwayStaysFenced`: an actor whose reconciliation was left
  half-way stays fenced, but for the two exceptions `PartialIsFenced` names.
  `FenceInv` says that one workflow is at work, how the journal follows its
  program counter, and that half-way records belong to the fence's owner.

The invariants were checked with TLC before they were proved. What is checked by
TLC only: liveness (`RestartDelivers`, `RestartServes`, `ResumeCompletes`,
`Delivered`, `RecoveryAcknowledged`), since the prover does not handle fairness;
`Converged` and `FencedIsStill`, whose steps apply a batch with a recursive
function over its jobs, an induction over data; the types of `Reconcile`; and
the properties of a publication beside a drain, which the theorems exclude
(`Drains = {}`).

## Divergences

Two runs end with a counterexample to a sentence of the repository, quoted in
`PROJECT.json`:

* `publication_mark`: the mark of a concurrent commit is cleared by a settling
  one, so a crash leaves an intent no restart looks for (`OwedWorkIsMarked`).
* `outbox_latestart`: rows between a subscriber's head and the poll loop's first
  one are never broadcast (`NoGap` with `LateStart`).

These statements are also refuted by TLC when they are added to the instance
named. "After a death" is `blob_byhand` with `MaxCrashes = 1`, `MaxUploads = 3`
and `MaxAttempts = 4`; "created again" is `deletion_safety` with `MaxStore = 2`,
`MaxLog = 6` and no operator.

| Statement | Instance | What happens |
|---|---|---|
| `SupersededStaysUnpublished` | `publication_safety` | a publisher that read its intents before an import publishes one the import superseded (`publication.rs:96` against `actor_store/mod.rs:110`) |
| `ExactlyOneRow` with a drain | `publication_mark` with `Drains = {d1}` | the server and the drain each hold a publish lock of their own process and both insert (`drain.rs:118` against `publication.rs:4`) |
| `AnnouncedOnce` | `deletion_safety` | a crash between the deletion event and its journal entry, or two concurrent deletions, announce the deletion twice (`lifecycle.rs:737` against the test comment at `:1280`) |
| `InterruptedIsResumable`, `DoneMeansGone` | created again | a re-creation that stops before `clear_tombstone` leaves the completed tombstone, which the next deletion reuses (`lifecycle.rs:440` against `rsky-pds/CHANGELOG.md:94`) |
| `NoCommitWhileDeleting` | `deletion_safety` | a transactor opened before the tombstone commits after it (`lifecycle.rs:703` against `:431`) |
| `OnlyAbsentAborts` | `deletion_safety` | an open deletion of a draining actor is refused by the account database and ends every start (`account_manager/mod.rs:249` against `admission.rs:242`) |
| `DeletedConverges` | `deletion_safety` | a late `sync_account_root` inserts the root row of a deleted account (`publication.rs:180`) |
| `AmbiguousIsRetired` | after a death | a pass that finds a row ambiguous retires the generation-zero key whatever key the delete named (`collector.rs:257` against `:9`) |
| `OldDeleteNamesNoNewObject`, `ReferencedIsStored` | after a death | an upload between the death of a pass and the next one lands under the key an unconfirmed delete names (`collector.rs:214`) |
| `DoneIsGone` | after a death | a row left in `issuing` is concluded from the newest attempt of any operation (`collector.rs:224`) |
| `RetiredIsNotWritten` | `blob_live` | a promotion stores under the generation it read before the retirement (`blobstore.rs:339`) |
| `UnconfirmedIsJournaled` with the worker | `blob_live` | deletes of generation keys are sent unjournaled (`blobstore.rs:414`) |
| `InvalidatedIsNotDelivered` | `outbox_delivers` | a row invalidated after it was polled is sent from the buffer (`outbox.rs:86`) |
| `StoppedIsReported` | `outbox_delivers` | every clone of the sequencer holds a sender, so a dead poll loop never closes the broadcast (`outbox.rs:35`) |
| `BoundaryKeepsFence` | `reconcile_whole` | a failure between the boundary and its journal entry, or the early failure or refusal of a resumed run, lifts the fence over half-written records (`reconcile/workflow.rs:224` and `:596` against `:453`) |

`Reconcile` met more such orders, which `Converged`, `PartialIsFenced` and
`RecoveryAcknowledged` name as exceptions instead of failing on them:

* a job handed back goes to the end of its queue, behind later jobs of its
  record (`"overtaken"`), although the comment at `indexer/mod.rs:456` relies on
  the order of a repository;
* an event whose generation could not be looked up is stamped with none, and a
  recovery commit is then refused as stale (`"unstamped"`);
* jobs leave their queue when they are taken, so a death loses those in hand
  (`"lost"`), where the README of wintermute (lines 268-270) has them processed
  again;
* an export's record written after a live deletion of it is back (`"late"`);
* a reconciliation that accepts an incomplete history persists no boundary, so a
  deferred older commit is acknowledged after the recovery commit
  (`sync = "glass"`);
* a gate that fails to open or close returns its connection to the pool with the
  session lock (`"pool"` in `shared`), which blocks the next workflow until that
  connection closes.

## Bounds

The constants named `Max...` bound counters that are unbounded in the code
(revisions, rows, restarts, uploads, attempts); actions that would pass a bound
are disabled, and the runs that may stop for that reason say
`CHECK_DEADLOCK FALSE`. Every property concerns the newest and at most two
earlier revisions, rows or generations, so the bounds leave one more than the
longest race needs. The integers of the code are 64-bit counters that start at
one and are never near their limit; no property depends on their width.

## Plan

In order of what a failure would cost:

1. `RelayPipeline` (`rsky-relay`): deferral queue, host cursors and repository
   state with their different persistence, publisher connections. Nothing
   accepted from a host is lost or reordered per repository across a restart.
2. `SpaceSync` (`rsky-daemon`): pages, failures and recovery against a
   homomorphic hash (a bag of elements). A verified head names the records
   indexed; a repository that stops changing is eventually current.
3. `TokenRotation` (`rsky-oauth`, `account_manager`): single use of codes,
   concurrent refreshes, revocation; an abstract session as its specification.
4. `RouterJournal` (`rsky-pds-router`): policy reload against mutations in
   flight; every forwarded mutation is journaled.
5. `Repair`, `Admission` and `BlobPurge` (`rsky-pds`): quarantine and repair
   steps beside the server; the allowlist's reload; purge against re-creation.
   `Repair` composes with the feed of `PublicationFeed`.
6. `MerkleSearchTree` and `Tid` (`rsky-repo`, `rsky-common`): the algorithms as
   operators against set-based definitions, by TLC over bounded inputs.
7. Proofs: `FencedIsStill` and the types of `Reconcile`; the blob properties
   under weaker conditions than a quiet pass; the modules above.

## Not modelled

Request parsing, authentication, proxying, pages and mail, metrics and
configuration keep no state the properties speak of. Object stores, databases
and sockets are modelled by the operations the code calls on them. Identity
resolution, signatures and CAR encoding are functions whose results the models
take as given. Generated lexicon types hold no behaviour. `PROJECT.json` gives
the reason part by part.
