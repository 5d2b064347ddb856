---------------------------- MODULE IndexerGate ----------------------------
(***************************************************************************)
(* The writers of rsky-wintermute for one actor and the gate they pass     *)
(* (rsky-wintermute/src/reconcile/mod.rs): the ingester that stamps relay  *)
(* events with the actor's generation and queues them                      *)
(* (ingester/mod.rs, storage.rs), the backfiller that queues a whole       *)
(* export (backfiller/mod.rs), and the two loops of the indexer that take  *)
(* jobs from the queues, open the gate, apply what it admits and hand the  *)
(* rest back (indexer/mod.rs).                                             *)
(*                                                                         *)
(* A commit of the actor's repository changes at most one record and is    *)
(* told apart by its revision; the CID of a record is the revision that    *)
(* wrote it, 0 where there is none.  The record table stands for itself    *)
(* and for the collection tables written beside it.                        *)
(*                                                                         *)
(* A definition named X_Y is a deliberately wrong variant Y of X; no       *)
(* specification uses it.  It shows that a property notices that mistake.  *)
(***************************************************************************)
EXTENDS Integers, Sequences, FiniteSets, FiniteSetsExt

CONSTANTS
    Uris,          \* records of the actor
    Workflows,     \* ids of reconciliations
    NoOne,         \* no workflow
    InitRev,       \* commits published before the start
    MaxRev,        \* bound: commits, the recovery commit aside
    LiveBatch,     \* FIREHOSE_LIVE_DRAIN_BATCH
    Requested,     \* whether the backfiller may start with a job of the actor
    Faulty,        \* the processes that may fail: "indexer", "workflow"
    MaxFaults      \* bound: failed statements and requests, dead processes

ASSUME GateConstants ==
    /\ NoOne \notin Workflows
    /\ InitRev \in Nat \ {0} /\ MaxRev \in Nat /\ InitRev <= MaxRev
    /\ LiveBatch \in Nat \ {0}
    /\ Requested \subseteq BOOLEAN
    /\ MaxFaults \in Nat /\ Faulty \subseteq {"indexer", "workflow"}

Writers == {"live", "backfill"}
Revs == 1 .. MaxRev + 1

Contents == [Uris -> {0} \cup Revs]

(* An IndexJob.  gen is the generation it is stamped with (0: None).       *)
Jobs == [act: {"put", "del", "commit"}, uri: Uris, rev: Revs, cid: {0} \cup Revs, gen: Nat]

VARIABLES
    src,         \* the repository at its PDS: revision and contents
    events,      \* commits in the order the relay sends them, with the contents after each
    pos,         \* events the ingester's connection has read
    live,        \* firehose_live_seq
    backlog,     \* firehose_backfill (its keys have a random prefix: no order)
    refetch,     \* whether repo_backfill holds a job of the actor
    fetch,       \* the backfiller: idle, or the generation it read
    writer,      \* the two loops of the indexer
    shared,      \* holders of the actor's shared advisory lock
    waiters,     \* workflows that ask for or hold the exclusive one
    row,         \* record table: revision and CID of each record
    max_rev, last_commit,            \* wintermute.did_progress
    fence, boundary, generation,     \* reconcile_fence, reconcile_boundary, did_generation
    faults,      \* bounded counter
    excuse       \* what has happened that a repository's order or events did not survive

sourceVars == <<src, events>>
feedVars == <<pos, refetch, fetch>>
queueVars == <<live, backlog>>
indexerVars == <<sourceVars, feedVars, queueVars, writer>>
lockVars == <<shared, waiters>>
tableVars == <<row, max_rev, last_commit>>
lineVars == <<fence, boundary, generation>>
gateVars == <<indexerVars, lockVars, tableVars, lineVars, faults, excuse>>

NoRow == [rev |-> 0, cid |-> 0]
Fault(p) ==
    /\ p \in Faulty /\ faults < MaxFaults
    /\ faults' = faults + 1

Idle == [pc |-> "idle", batch |-> <<>>, busy |-> FALSE, fence |-> NoOne,
         gen |-> 0, bound |-> 0, redo |-> <<>>, stale |-> FALSE]
NoFetch == -1

----------------------------------------------------------------------------
(* The repository and its relay.                                           *)

(* Contents after a commit numbered r; "none" changes no record.            *)
After(has, r, u, act) ==
    CASE act = "put" -> [has EXCEPT ![u] = r]
      [] act = "del" -> [has EXCEPT ![u] = 0]
      [] act = "none" -> has

Publish(u, act) ==
    LET r == Len(events) + 1
        has == After(src.has, r, u, act)
    IN  /\ act = "del" => src.has[u] # 0
        /\ events' = Append(events, [uri |-> u, act |-> act, has |-> has])
        /\ src' = [rev |-> r, has |-> has]

(* The repository is restored from a backup: later commits are gone from   *)
(* it, their events are not.                                               *)
Restore(r) ==
    /\ r < src.rev
    /\ src' = [rev |-> r, has |-> events[r].has] /\ UNCHANGED events

----------------------------------------------------------------------------
(* Ingester.                                                               *)

Job(act, u, r, cid, gen) ==
    [act |-> act, uri |-> u, rev |-> r, cid |-> cid, gen |-> gen]

EventJobs_NoEmpty(r, gen) ==
    LET e == events[r]
    IN  IF e.act = "none" THEN <<>>
        ELSE <<Job(e.act, e.uri, r, IF e.act = "put" THEN r ELSE 0, gen),
               Job("commit", e.uri, r, r, gen)>>

(* The jobs of an event: its operation, then the commit itself.            *)
EventJobs(r, gen) ==
    LET e == events[r]
        commit == Job("commit", e.uri, r, r, gen)
    IN  IF e.act = "none" THEN <<commit>>
        ELSE <<Job(e.act, e.uri, r, IF e.act = "put" THEN r ELSE 0, gen), commit>>

(* An event is read, its jobs are stamped with the generation of that      *)
(* moment, or with none when the lookup fails, and queued.                 *)
ReadEvent ==
    /\ pos < Len(events)
    /\ pos' = pos + 1
    /\ \/ /\ live' = live \o EventJobs(pos + 1, generation)
          /\ UNCHANGED <<faults, excuse>>
       \/ /\ generation # 0 /\ Fault("indexer")
          /\ live' = live \o EventJobs(pos + 1, 0)
          /\ excuse' = excuse \cup {"unstamped"}
    /\ UNCHANGED <<sourceVars, refetch, fetch, backlog, writer, lockVars, tableVars,
                   lineVars>>

----------------------------------------------------------------------------
(* Backfiller.                                                             *)

(* The acquisition identity is fixed before any data is fetched.           *)
StartFetch ==
    /\ refetch /\ fetch = NoFetch
    /\ fetch' = generation
    /\ refetch' = FALSE
    /\ UNCHANGED <<sourceVars, pos, queueVars, writer, lockVars, tableVars, lineVars,
                   faults, excuse>>

(* Every record of the export, created at the export's revision.           *)
ExportJobs(gen) ==
    {Job("put", u, src.rev, src.has[u], gen) : u \in {v \in Uris : src.has[v] # 0}}

(* getRepo and process_car_bytes; a failed job is queued again or, after   *)
(* its last retry, dropped.                                                *)
FinishFetch ==
    /\ fetch # NoFetch
    /\ fetch' = NoFetch
    /\ \/ /\ backlog' = backlog \cup ExportJobs(fetch)
          /\ UNCHANGED <<refetch, excuse>>
       \/ /\ "indexer" \in Faulty
          /\ \E again \in BOOLEAN:
                /\ refetch' = (refetch \/ again)
                /\ excuse' = IF again THEN excuse ELSE excuse \cup {"dropped"}
          /\ UNCHANGED backlog
    /\ UNCHANGED <<sourceVars, pos, live, writer, lockVars, tableVars, lineVars, faults>>

----------------------------------------------------------------------------
(* Indexer.                                                                *)

(* Entries leave the queue when they are dequeued: the ones that are there *)
(* by then, up to the batch size.  The ingester queues the jobs of an      *)
(* event one by one, so that may be any number of them.  The batch the     *)
(* loop prefetches is still at the head of the queue here.                 *)
DequeueLive ==
    /\ writer["live"].pc = "idle" /\ live # <<>>
    /\ \E n \in 1 .. Min({LiveBatch, Len(live)}):
           /\ writer' = [writer EXCEPT !["live"] = [Idle EXCEPT !.pc = "lock",
                                                               !.batch = SubSeq(live, 1, n)]]
           /\ live' = SubSeq(live, n + 1, Len(live))
    /\ UNCHANGED <<sourceVars, feedVars, backlog, lockVars, tableVars, lineVars, faults,
                   excuse>>

DequeueBackfill ==
    /\ writer["backfill"].pc = "idle"
    /\ \E j \in backlog:
          /\ writer' = [writer EXCEPT !["backfill"] = [Idle EXCEPT !.pc = "lock", !.batch = <<j>>]]
          /\ backlog' = backlog \ {j}
    /\ UNCHANGED <<sourceVars, feedVars, live, lockVars, tableVars, lineVars, faults,
                   excuse>>

(* Gate::open: the shared lock is tried, and is not available while the    *)
(* exclusive one is held or asked for.  What a gate without its lock reads *)
(* does not matter, so it reads nothing here.                              *)
TryLock(w) ==
    /\ writer[w].pc = "lock"
    /\ LET busy == waiters # {}
       IN  /\ writer' = [writer EXCEPT ![w].pc = IF busy THEN "apply" ELSE "fence", ![w].busy = busy]
           /\ shared' = IF busy THEN shared ELSE shared \cup {w}
    /\ UNCHANGED <<sourceVars, feedVars, queueVars, waiters, tableVars, lineVars, faults,
                   excuse>>

(* Then the fence, the generation and the boundary, in three statements.   *)
ReadFence(w) ==
    /\ writer[w].pc = "fence"
    /\ writer' = [writer EXCEPT ![w].pc = "generation", ![w].fence = fence]
    /\ UNCHANGED <<sourceVars, feedVars, queueVars, lockVars, tableVars, lineVars, faults,
                   excuse>>

ReadGeneration(w) ==
    /\ writer[w].pc = "generation"
    /\ writer' = [writer EXCEPT ![w].pc = "boundary", ![w].gen = generation]
    /\ UNCHANGED <<sourceVars, feedVars, queueVars, lockVars, tableVars, lineVars, faults,
                   excuse>>

ReadBoundary(w) ==
    /\ writer[w].pc = "boundary"
    /\ writer' = [writer EXCEPT ![w].pc = "apply", ![w].bound = boundary]
    /\ UNCHANGED <<sourceVars, feedVars, queueVars, lockVars, tableVars, lineVars, faults,
                   excuse>>

Admit_IgnoresFence(busy, held, gen, bound, j) ==
    IF busy THEN "deferred"
    ELSE IF bound # 0 /\ j.rev <= bound THEN "below"
    ELSE IF gen # 0 /\ j.gen # gen THEN "stale"
    ELSE "apply"

(* Gate::admit for an ordinary writer.                                     *)
Admit(busy, held, gen, bound, j) ==
    IF busy \/ held # NoOne THEN "deferred"
    ELSE IF bound # 0 /\ j.rev <= bound THEN "below"
    ELSE IF gen # 0 /\ j.gen # gen THEN "stale"
    ELSE "apply"

Admitted(w, j) ==
    Admit(writer[w].busy, writer[w].fence, writer[w].gen, writer[w].bound, j)

(* A record is overwritten or deleted only at a revision not below its own. *)
ApplyJob(rows, j) ==
    IF j.act # "commit" /\ rows[j.uri].rev <= j.rev
    THEN [rows EXCEPT ![j.uri] = IF j.act = "put" THEN [rev |-> j.rev, cid |-> j.cid] ELSE NoRow]
    ELSE rows

ApplyJobs(rows, js) ==
    LET after[i \in 0 .. Len(js)] == IF i = 0 THEN rows ELSE ApplyJob(after[i - 1], js[i])
    IN  after[Len(js)]

Answered(w, answer) == SelectSeq(writer[w].batch, LAMBDA j: Admitted(w, j) = answer)
IsCommit(j) == j.act = "commit"
IsWrite(j) == j.act # "commit"

(* A statement of Gate::open fails: every job of the batch fails.  The     *)
(* connection goes back to its pool, with the lock it took if it survived. *)
OpenFails(w) ==
    /\ writer[w].pc \in {"lock", "fence", "generation", "boundary"}
    /\ Fault("indexer")
    /\ writer' = [writer EXCEPT ![w].pc = "close",
                                ![w].redo = IF w = "live" THEN writer[w].batch ELSE <<>>]
    /\ shared' \in {shared \ {w}, IF w \in shared THEN (shared \ {w}) \cup {"pool"} ELSE shared}
    /\ excuse' = IF w = "backfill" THEN excuse \cup {"lost"} ELSE excuse
    /\ UNCHANGED <<sourceVars, feedVars, queueVars, waiters, tableVars, lineVars>>

(* A record created and deleted in one batch is written job by job, each   *)
(* under a gate of its own that may find the exclusive lock asked for.     *)
Conflicted(jobs) ==
    {i \in DOMAIN jobs : IsWrite(jobs[i]) /\ \E k \in DOMAIN jobs:
        IsWrite(jobs[k]) /\ jobs[k].uri = jobs[i].uri /\ jobs[k].act # jobs[i].act}

(* The jobs at the positions S, in their order.                            *)
Pick(js, S) ==
    [i \in 1 .. Cardinality(S) |-> js[CHOOSE k \in S : Cardinality({j \in S : j <= k}) = i]]

(* process_jobs_batch: the admitted writes, the progress they made, then   *)
(* the commits.  Any write may fail, before or after it took effect; then  *)
(* no commit is acknowledged.  The progress and an acknowledgement may     *)
(* fail as well.                                                           *)
Apply(w) ==
    LET jobs == Answered(w, "apply")
        writes == {i \in DOMAIN jobs : IsWrite(jobs[i])}
        commits == DOMAIN jobs \ writes
    IN  /\ writer[w].pc = "apply"
        /\ \E failed \in SUBSET DOMAIN jobs, counted \in BOOLEAN:
           \E took \in SUBSET (failed \cap writes):
              LET acked == commits \ failed
                  landed == Pick(jobs, (writes \ failed) \cup took)
              IN /\ failed \cap writes # {} => commits \subseteq failed
                 /\ \/ failed = {} /\ counted /\ UNCHANGED faults
                    \/ /\ waiters # {} /\ counted /\ took = {}
                       /\ failed # {} /\ failed \cap writes \subseteq Conflicted(jobs)
                       /\ failed \cap writes # {}
                       /\ UNCHANGED faults
                    \/ /\ failed # {} \/ ~counted
                       /\ Fault("indexer")
                 /\ row' = ApplyJobs(row, landed)
                 /\ max_rev' = Max({max_rev} \cup {jobs[i].rev : i \in acked \cup (IF counted THEN writes \ failed ELSE {})})
                 /\ last_commit' = IF acked = {} THEN last_commit ELSE jobs[Max(acked)].rev
                 /\ writer' = [writer EXCEPT
                        ![w].pc = "close",
                        ![w].stale = Answered(w, "stale") # <<>>,
                        ![w].redo = IF w = "live" /\ Answered(w, "deferred") = <<>>
                                    THEN Pick(jobs, failed \cap writes) \o Pick(jobs, failed \cap commits)
                                    ELSE Answered(w, "deferred")]
                 /\ excuse' = excuse
                        \cup (IF w = "backfill" /\ failed # {} THEN {"lost"} ELSE {})
                        \cup (IF w = "backfill" /\ \E j \in Range(landed): j.rev < max_rev THEN {"late"} ELSE {})
                        \cup (IF \E i \in failed \cap writes, k \in writes \ failed:
                                    i < k /\ jobs[i].uri = jobs[k].uri
                              THEN {"overtaken"} ELSE {})
    /\ UNCHANGED <<sourceVars, feedVars, queueVars, lockVars, lineVars>>

(* A job handed back goes to the end of the queue, behind later jobs of    *)
(* its record that were queued meanwhile.                                  *)
Overtaken(js) == \E i \in DOMAIN js, k \in DOMAIN live:
                    /\ IsWrite(js[i]) /\ IsWrite(live[k])
                    /\ js[i].uri = live[k].uri /\ js[i].rev < live[k].rev

(* Gate::close and the loop's handling of the results: what is left goes   *)
(* back to its queue, a stale job asks for the repository again.  Closing  *)
(* on a connection that still held a lock releases that one too; a close   *)
(* that fails leaves the lock with the pooled connection.                  *)
CloseGate(w) ==
    /\ writer[w].pc = "close"
    /\ \/ shared' \in {shared \ {w}, shared \ {w, "pool"}} /\ UNCHANGED faults
       \/ /\ w \in shared /\ Fault("indexer")
          /\ shared' = (shared \ {w}) \cup {"pool"}
    /\ writer' = [writer EXCEPT ![w] = Idle]
    /\ refetch' = (refetch \/ writer[w].stale)
    /\ IF w = "live"
       THEN /\ live' = live \o writer[w].redo
            /\ excuse' = IF Overtaken(writer[w].redo) THEN excuse \cup {"overtaken"} ELSE excuse
            /\ UNCHANGED backlog
       ELSE /\ backlog' = backlog \cup Range(writer[w].redo)
            /\ UNCHANGED <<live, excuse>>
    /\ UNCHANGED <<sourceVars, pos, fetch, waiters, tableVars, lineVars>>

(* The process dies: what it had dequeued is gone, its session locks are   *)
(* released, the connection resumes from a saved cursor.                   *)
CrashIndexer ==
    /\ Fault("indexer")
    /\ shared' = {}
    /\ writer' = [w \in Writers |-> Idle]
    /\ fetch' = NoFetch
    /\ \E p \in 0 .. pos: pos' = p
    /\ excuse' = IF fetch # NoFetch \/ \E w \in Writers: writer[w].pc # "idle"
                 THEN excuse \cup {"lost"} ELSE excuse
    /\ UNCHANGED <<sourceVars, refetch, queueVars, waiters, tableVars, lineVars>>

----------------------------------------------------------------------------
(* The appview starts as some earlier run left it: any record may be       *)
(* missing, outdated or deleted since.                                     *)
Histories == [1 .. InitRev -> Uris \X {"put", "del"}]

Replay(h) ==
    LET f[r \in 0 .. InitRev] ==
            IF r = 0 THEN [u \in Uris |-> 0] ELSE After(f[r - 1], r, h[r][1], h[r][2])
    IN  f

GateInit ==
    /\ \E h \in Histories:
          /\ \A r \in DOMAIN h: h[r][2] = "del" => Replay(h)[r - 1][h[r][1]] # 0
          /\ events = [r \in DOMAIN h |-> [uri |-> h[r][1], act |-> h[r][2], has |-> Replay(h)[r]]]
          /\ row \in [Uris -> {NoRow} \cup {[rev |-> r, cid |-> r] : r \in DOMAIN h}]
          /\ \A u \in Uris: row[u] # NoRow => h[row[u].rev] = <<u, "put">>
    /\ src = [rev |-> InitRev, has |-> events[InitRev].has]
    /\ pos \in 0 .. InitRev /\ live = <<>> /\ backlog = {}
    /\ refetch \in Requested /\ fetch = NoFetch
    /\ writer = [w \in Writers |-> Idle]
    /\ shared = {} /\ waiters = {}
    /\ max_rev = pos /\ last_commit = pos
    /\ fence = NoOne /\ boundary = 0 /\ generation = 0
    /\ faults = 0
    /\ excuse = {}

GateStep(w) ==
    \/ TryLock(w) \/ ReadFence(w) \/ ReadGeneration(w) \/ ReadBoundary(w) \/ OpenFails(w)
    \/ Apply(w) \/ CloseGate(w)

GateNext ==
    \/ ReadEvent
    \/ StartFetch \/ FinishFetch
    \/ DequeueLive \/ DequeueBackfill
    \/ \E w \in Writers: GateStep(w)
    \/ CrashIndexer

=============================================================================
