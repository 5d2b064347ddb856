----------------------------- MODULE Reconcile -----------------------------
(***************************************************************************)
(* The reconciliation of one actor (reconcile/workflow.rs of               *)
(* rsky-wintermute, run by bin/reindex_did.rs) beside the writers of       *)
(* IndexerGate.  A workflow fences the actor, compares the export of the   *)
(* repository with the appview, persists a boundary and a new generation,  *)
(* rewrites the records that differ and lifts the fence; when the          *)
(* repository fell behind what it once published, the fence stays until    *)
(* the operator verifies a recovery commit.                                *)
(*                                                                         *)
(* A workflow is one process at a time.  It may die anywhere and be run    *)
(* again under its id.  A dry run changes nothing and is left out.         *)
(***************************************************************************)
EXTENDS IndexerGate

CONSTANTS
    RootMatchAttempts,   \* ROOT_MATCH_ATTEMPTS
    MaxRuns,             \* bound: runs of workflows
    Races                \* whether the PDS takes commits while a reconciliation runs

ASSUME ReconcileConstants == RootMatchAttempts \in Nat \ {0} /\ MaxRuns \in Nat
                             /\ Races \in BOOLEAN

VARIABLES
    wf,          \* the workflow processes
    runs,        \* bounded counter
    journal,     \* reconcile_journal: step and workflow
    recovery,    \* revision of the recovery commit, 0 before it is published
    sync         \* how far a reconciliation rewrote the records

controlVars == <<runs, recovery>>
workflowVars == <<wf, controlVars, journal, sync>>
vars == <<gateVars, workflowVars>>

Down == [pc |-> "down", tries |-> 0,
         car |-> [rev |-> 0, has |-> [u \in Uris |-> 0]],
         complete |-> FALSE, published |-> 0, exposed |-> 0,
         boundary |-> 0, branch |-> "none", todo |-> <<>>, top |-> 0, bad |-> FALSE]

Active == {w \in Workflows : wf[w].pc # "down"}

----------------------------------------------------------------------------
(* The operator and the PDS.                                               *)

(* The operator starts or resumes a workflow.                              *)
Start(w) ==
    /\ wf[w].pc = "down" /\ runs < MaxRuns
    /\ runs' = runs + 1
    /\ wf' = [wf EXCEPT ![w] = [Down EXCEPT !.pc = "install"]]
    /\ waiters' = waiters \cup {w}
    /\ UNCHANGED <<indexerVars, shared, tableVars, lineVars, faults, excuse, journal,
                   recovery, sync>>

(* Whether the operator has lifted the PDS's own fence on the actor.       *)
Mutable == Active = {} /\ fence = NoOne /\ journal.step # "awaiting-recovery"

(* A commit of the actor.                                                  *)
Commit(u, act) ==
    /\ Len(events) < MaxRev /\ (Mutable \/ Races)
    /\ Publish(u, act)
    /\ excuse' = IF Mutable THEN excuse ELSE excuse \cup {"raced"}
    /\ UNCHANGED <<feedVars, queueVars, writer, lockVars, tableVars, lineVars, faults, wf,
                   controlVars, journal, sync>>

(* The repository is replaced by a backup of it.                           *)
RestoreBackup(r) ==
    /\ recovery = 0 /\ (Mutable \/ Races)
    /\ Restore(r)
    /\ sync' = "never"
    /\ excuse' = IF Mutable THEN excuse ELSE excuse \cup {"raced"}
    /\ UNCHANGED <<feedVars, queueVars, writer, lockVars, tableVars, lineVars, faults, wf,
                   controlVars, journal>>

PublishRecovery_Again ==
    /\ journal.step = "awaiting-recovery"
    /\ Publish(CHOOSE u \in Uris: TRUE, "none")
    /\ recovery' = Len(events')
    /\ UNCHANGED <<feedVars, queueVars, writer, lockVars, tableVars, lineVars, faults, excuse,
                   wf, runs, journal, sync>>

(* The recovery commit changes no record.                                  *)
PublishRecovery ==
    /\ journal.step = "awaiting-recovery" /\ recovery = 0
    /\ Publish(CHOOSE u \in Uris: TRUE, "none")
    /\ recovery' = Len(events')
    /\ UNCHANGED <<feedVars, queueVars, writer, lockVars, tableVars, lineVars, faults,
                   excuse, wf, runs, journal, sync>>

----------------------------------------------------------------------------
(* The workflow.                                                           *)

(* The fence is installed without waiting for the writers at work.         *)
InstallFence_NoWait(w) ==
    /\ wf[w].pc = "install"
    /\ waiters' = waiters \ {w}
    /\ fence \in {NoOne, w}
    /\ fence' = w
    /\ journal' = [step |-> "fenced", wid |-> w]
    /\ wf' = [wf EXCEPT ![w].pc = "export", ![w].tries = 1]
    /\ UNCHANGED <<indexerVars, shared, tableVars, boundary, generation, faults, excuse,
                   controlVars, sync>>

(* install_fence: a transaction under the exclusive lock.                  *)
InstallFence(w) ==
    /\ wf[w].pc = "install" /\ shared = {}
    /\ waiters' = waiters \ {w}
    /\ \/ /\ fence \in {NoOne, w}
          /\ fence' = w
          /\ journal' = [step |-> "fenced", wid |-> w]
          /\ wf' = [wf EXCEPT ![w].pc = "export", ![w].tries = 1]
          /\ excuse' = IF sync = "partial" THEN excuse \cup {"resumed"} ELSE excuse
       \/ /\ fence \notin {NoOne, w}
          /\ wf' = [wf EXCEPT ![w] = Down]
          /\ UNCHANGED <<fence, journal, excuse>>
    /\ UNCHANGED <<indexerVars, shared, tableVars, boundary, generation, faults,
                   controlVars, sync>>

FetchExport(w) ==
    /\ wf[w].pc = "export"
    /\ wf' = [wf EXCEPT ![w].pc = "frontier", ![w].car = src]
    /\ UNCHANGED <<gateVars, controlVars, journal, sync>>

(* The frontier: the current root, the highest revision published and      *)
(* exposed, and whether the PDS can prove that history complete.  An       *)
(* export of another root is fetched again a few times.                    *)
FetchFrontier(w) ==
    /\ wf[w].pc = "frontier"
    /\ \/ /\ src.rev = wf[w].car.rev
          /\ \E complete \in BOOLEAN, exposed \in {0, Len(events)}:
             /\ complete => exposed = Len(events)
             /\ wf' = [wf EXCEPT ![w].pc = "plan", ![w].tries = 0, ![w].complete = complete,
                                 ![w].published = Len(events), ![w].exposed = exposed]
       \/ /\ src.rev # wf[w].car.rev
          /\ wf' = [wf EXCEPT ![w].pc = IF wf[w].tries >= RootMatchAttempts THEN "refuse" ELSE "export",
                              ![w].tries = @ + 1]
    /\ UNCHANGED <<gateVars, controlVars, journal, sync>>

(* The revision up to which the history of the actor is known.             *)
FrontierRev(w) ==
    IF wf[w].complete THEN Max({max_rev, wf[w].published}) ELSE max_rev

BoundaryFor_Export(w) == wf[w].car.rev

BoundaryFor(w) == Max({boundary, FrontierRev(w), wf[w].car.rev, wf[w].exposed})

(* plan: how a record of the appview is brought to the export's.  A record *)
(* newer than the export is left alone, and makes the plan refuse, unless  *)
(* a reset was asked for.                                                  *)
Drop(u, r) == Job("del", u, r, 0, 0)
Take(u, car) == Job("put", u, car.rev, car.has[u], 0)
Differing(car) == {u \in Uris : row[u].cid # car.has[u]}
NewerDownstream(w) ==
    LET car == wf[w].car
    IN  {u \in Differing(car) :
            \/ row[u] # NoRow /\ row[u].rev > car.rev
            \/ row[u] = NoRow /\ FrontierRev(w) > car.rev}

(* The order in which a batch is written: records both deleted and created *)
(* first, then the other deletes, then the other creates.                  *)
PlanJobs(w) ==
    LET car == wf[w].car
        inOrder(S, op(_)) ==
            LET f == CHOOSE f \in [1 .. Cardinality(S) -> S] : Range(f) = S
            IN  [i \in DOMAIN f |-> op(f[i])]
        dropped(u) == Drop(u, Max({row[u].rev, car.rev}))
        taken(u) == Take(u, car)
        stored == {u \in Differing(car) : row[u] # NoRow}
        both == {u \in stored : car.has[u] # 0 /\ row[u].rev > car.rev}
        dels == {u \in stored : car.has[u] = 0}
    IN  inOrder(both, dropped) \o inOrder(both, taken) \o inOrder(dels, dropped)
            \o inOrder(Differing(car) \ (both \cup dels), taken)

(* The options reset_to_repo and break_glass are chosen here, where the    *)
(* run first looks at them.                                                *)
MakePlan(w, reset, glass) ==
    /\ wf[w].pc = "plan"
    /\ IF (~wf[w].complete /\ ~glass) \/ (NewerDownstream(w) # {} /\ ~reset)
       THEN wf' = [wf EXCEPT ![w] = [Down EXCEPT !.pc = "refuse"]]
       ELSE wf' = [wf EXCEPT
                ![w].pc = IF wf[w].complete THEN "persist" ELSE "journal",
                ![w].boundary = BoundaryFor(w),
                ![w].branch = IF BoundaryFor(w) > wf[w].car.rev THEN "recovery" ELSE "ordinary",
                ![w].todo = PlanJobs(w),
                ![w].published = 0, ![w].exposed = 0,
                ![w].car = Down.car]
    /\ waiters' = IF wf'[w].pc = "persist" THEN waiters \cup {w} ELSE waiters
    /\ UNCHANGED <<indexerVars, shared, tableVars, lineVars, faults, excuse, controlVars,
                   journal, sync>>

(* persist_boundary: boundary and generation in one transaction under the  *)
(* exclusive lock.                                                         *)
PersistBoundary(w) ==
    /\ wf[w].pc = "persist" /\ shared = {}
    /\ waiters' = waiters \ {w}
    /\ boundary' = Max({boundary, wf[w].boundary})
    /\ generation' = generation + 1
    /\ sync' = "partial"
    /\ wf' = [wf EXCEPT ![w].pc = "journal"]
    /\ UNCHANGED <<indexerVars, shared, tableVars, fence, faults, excuse, controlVars,
                   journal>>

JournalBoundary(w) ==
    /\ wf[w].pc = "journal"
    /\ journal' = [journal EXCEPT !.step = "boundary"]
    /\ wf' = [wf EXCEPT ![w].pc = "write"]
    /\ UNCHANGED <<gateVars, controlVars, sync>>

(* One write of the plan.  It would be deferred by the fence of another    *)
(* workflow, which could only be there had someone lifted this one's.      *)
WriteRecord(w) ==
    LET j == Head(wf[w].todo)
    IN  /\ wf[w].pc = "write" /\ wf[w].todo # <<>>
        /\ fence \in {NoOne, w}
        /\ \/ /\ row' = ApplyJob(row, j)
              /\ sync' = "partial"
              /\ wf' = [wf EXCEPT ![w].todo = Tail(@), ![w].top = Max({@, j.rev})]
              /\ UNCHANGED faults
           \/ /\ Fault("workflow")
              /\ wf' = [wf EXCEPT ![w].todo = Tail(@), ![w].bad = TRUE]
              /\ UNCHANGED <<row, sync>>
    /\ UNCHANGED <<indexerVars, lockVars, max_rev, last_commit, lineVars, excuse,
                   controlVars, journal>>

(* The progress of the writes is recorded, then any failure ends the run.  *)
EndWrites(w) ==
    /\ wf[w].pc = "write" /\ wf[w].todo = <<>>
    /\ max_rev' = Max({max_rev, wf[w].top})
    /\ wf' = [wf EXCEPT ![w].pc = IF wf[w].bad THEN "failed" ELSE "finish"]
    /\ UNCHANGED <<indexerVars, lockVars, row, last_commit, lineVars, faults, excuse,
                   controlVars, journal, sync>>

(* The boundary is read back and the outcome journalled.                   *)
Finish(w) ==
    LET agrees == wf[w].complete => boundary = wf[w].boundary
        outcome == IF wf[w].branch = "ordinary" THEN "done" ELSE "awaiting-recovery"
    IN  /\ wf[w].pc = "finish"
        /\ journal' = IF agrees THEN [journal EXCEPT !.step = outcome] ELSE journal
        /\ sync' = IF ~agrees THEN sync ELSE IF wf[w].complete THEN "done" ELSE "glass"
        /\ wf' = [wf EXCEPT ![w].pc = IF agrees THEN "end" ELSE "failed"]
    /\ UNCHANGED <<gateVars, controlVars>>

Refuse(w) ==
    /\ wf[w].pc = "refuse"
    /\ journal' = [journal EXCEPT !.step = "refused"]
    /\ wf' = [wf EXCEPT ![w].pc = "end"]
    /\ UNCHANGED <<gateVars, controlVars, sync>>

Lift(w) == IF fence = w THEN NoOne ELSE fence

(* The end of reconcile: a run that finished or was refused lifts its      *)
(* fence, except on the recovery branch.                                   *)
EndRun(w) ==
    /\ wf[w].pc = "end"
    /\ fence' = IF wf[w].branch = "recovery" THEN fence ELSE Lift(w)
    /\ wf' = [wf EXCEPT ![w] = Down]
    /\ UNCHANGED <<indexerVars, lockVars, tableVars, boundary, generation, faults, excuse,
                   controlVars, journal, sync>>

EndFailed_AlwaysLifts(w) ==
    /\ wf[w].pc = "failed"
    /\ fence' = Lift(w)
    /\ wf' = [wf EXCEPT ![w] = Down]
    /\ UNCHANGED <<indexerVars, lockVars, tableVars, boundary, generation, faults, excuse,
                   controlVars, journal, sync>>

(* A run that failed keeps its fence unless the journal still says fenced. *)
EndFailed(w) ==
    /\ wf[w].pc = "failed"
    /\ fence' = IF journal.step = "fenced" THEN Lift(w) ELSE fence
    /\ wf' = [wf EXCEPT ![w] = Down]
    /\ UNCHANGED <<indexerVars, lockVars, tableVars, boundary, generation, faults, excuse,
                   controlVars, journal, sync>>

(* A request or a statement fails.                                         *)
StepFails(w) ==
    /\ wf[w].pc \in {"export", "frontier", "plan", "persist", "journal", "finish", "refuse"}
    /\ Fault("workflow")
    /\ wf' = [wf EXCEPT ![w] = [Down EXCEPT !.pc = "failed"]]
    /\ waiters' = waiters \ {w}
    /\ excuse' = IF wf[w].pc = "journal" THEN excuse \cup {"unjournalled"} ELSE excuse
    /\ UNCHANGED <<indexerVars, shared, tableVars, lineVars, controlVars, journal, sync>>

(* The last statements, which lift the fence, fail: it stays.              *)
EndFails(w) ==
    /\ wf[w].pc \in {"end", "failed"}
    /\ Fault("workflow")
    /\ wf' = [wf EXCEPT ![w] = Down]
    /\ UNCHANGED <<indexerVars, lockVars, tableVars, lineVars, excuse, controlVars, journal,
                   sync>>

(* The process dies, or loses its database.                                *)
Die(w) ==
    /\ wf[w].pc # "down" /\ Fault("workflow")
    /\ wf' = [wf EXCEPT ![w] = Down]
    /\ waiters' = waiters \ {w}
    /\ UNCHANGED <<indexerVars, shared, tableVars, lineVars, excuse, controlVars, journal,
                   sync>>

----------------------------------------------------------------------------
(* verify_recovery: first the fence of the journalled workflow is lifted,  *)
(* then the last commit applied is compared with the recovery commit.  The *)
(* operator does not verify while a workflow runs.                         *)
VerifyLifts ==
    /\ recovery # 0 /\ Active = {} /\ journal.step = "awaiting-recovery"
    /\ fence = journal.wid
    /\ fence' = NoOne
    /\ UNCHANGED <<indexerVars, lockVars, tableVars, boundary, generation, faults, excuse,
                   wf, controlVars, journal, sync>>

VerifyDone ==
    /\ recovery # 0 /\ Active = {} /\ journal.step = "awaiting-recovery"
    /\ last_commit = recovery
    /\ journal' = [journal EXCEPT !.step = "done"]
    /\ UNCHANGED <<gateVars, wf, controlVars, sync>>

----------------------------------------------------------------------------
Init ==
    /\ GateInit
    /\ wf = [w \in Workflows |-> Down]
    /\ runs = IF refetch THEN 1 ELSE 0   \* bound: one run less beside a backfill
    /\ journal = [step |-> "none", wid |-> NoOne]
    /\ recovery = 0
    /\ sync = "never"

Run(w) ==
    \/ InstallFence(w) \/ FetchExport(w) \/ FetchFrontier(w)
    \/ \E reset, glass \in BOOLEAN: MakePlan(w, reset, glass)
    \/ PersistBoundary(w) \/ JournalBoundary(w) \/ WriteRecord(w) \/ EndWrites(w) \/ Finish(w)
    \/ Refuse(w) \/ EndRun(w) \/ EndFailed(w)

Next ==
    \/ GateNext /\ UNCHANGED workflowVars
    \/ \E u \in Uris, act \in {"put", "del"}: Commit(u, act)
    \/ \E r \in Revs: RestoreBackup(r)
    \/ PublishRecovery
    \/ \E w \in Workflows:
          \/ Start(w) \/ Run(w) \/ StepFails(w) \/ EndFails(w) \/ Die(w)
    \/ VerifyLifts \/ VerifyDone

Spec == Init /\ [][Next]_vars

(* The loops of the process run on, a workflow goes on until it ends, and  *)
(* the operator verifies a recovery until it is acknowledged.              *)
Fairness ==
    /\ WF_vars(ReadEvent /\ UNCHANGED workflowVars)
    /\ WF_vars(DequeueLive /\ UNCHANGED workflowVars)
    /\ \A w \in Writers: WF_vars(GateStep(w) /\ UNCHANGED workflowVars)
    /\ \A w \in Workflows: WF_vars(Run(w))
    /\ WF_vars(VerifyLifts \/ VerifyDone)

----------------------------------------------------------------------------
TypeOK ==
    /\ src.rev \in Revs /\ src.has \in Contents
    /\ pos \in 0 .. Len(events) /\ Range(live) \subseteq Jobs
    /\ backlog \subseteq Jobs /\ refetch \in BOOLEAN /\ fetch \in {NoFetch} \cup Nat
    /\ shared \subseteq Writers \cup {"pool"} /\ waiters \subseteq Workflows
    /\ row \in [Uris -> [rev: {0} \cup Revs, cid: {0} \cup Revs]]
    /\ max_rev \in {0} \cup Revs /\ last_commit \in {0} \cup Revs
    /\ fence \in Workflows \cup {NoOne} /\ boundary \in {0} \cup Revs /\ generation \in Nat
    /\ \A w \in Writers: writer[w].pc \in {"idle", "lock", "fence", "generation", "boundary",
                                           "apply", "close"}
    /\ \A w \in Workflows: wf[w].pc \in {"down", "install", "export", "frontier", "plan",
                "persist", "journal", "write", "finish", "refuse", "failed", "end"}
    /\ journal.step \in {"none", "fenced", "boundary", "refused", "done", "awaiting-recovery"}
    /\ excuse \subseteq {"unstamped", "overtaken", "lost", "late", "raced", "dropped", "resumed",
                          "unjournalled"}
    /\ sync \in {"never", "partial", "glass", "done"}

(* What a writer's gate admitted may still be applied when the writer gets *)
(* to it, although it read the fence, the generation and the boundary one  *)
(* after the other: the exclusive lock keeps workflows out until the gate  *)
(* is closed (Gate::open, install_fence, persist_boundary).                *)
GateStillHolds ==
    \A w \in Writers:
        writer[w].pc = "apply" =>
            \A i \in DOMAIN writer[w].batch:
                LET j == writer[w].batch[i]
                IN  Admitted(w, j) = "apply" => Admit(FALSE, fence, generation, boundary, j) = "apply"

(* While an actor is fenced, its records, its progress and its lines       *)
(* change only by a step of the workflow that holds the fence.             *)
FencedIsStill ==
    [][fence # NoOne /\ fence' = fence /\ wf'[fence] = wf[fence] =>
          UNCHANGED <<row, max_rev, last_commit, boundary, generation>>]_vars

(* Once a workflow has moved the boundary or written a record, the actor   *)
(* stays fenced until a run finishes, with two exceptions.  The boundary   *)
(* and its journal entry are two statements, and a failure of the second   *)
(* is taken for one that came before the boundary; and a resumed run       *)
(* resets the journal, so that its own early failure or refusal lifts the  *)
(* fence over what the first run left.                                     *)
PartialIsFenced ==
    sync = "partial" /\ excuse \cap {"resumed", "unjournalled"} = {} => fence # NoOne

(* A failure after the boundary was persisted keeps the fence, in the      *)
(* words of the comment on reconcile.                                      *)
BoundaryKeepsFence == sync = "partial" => fence # NoOne

Quiet ==
    /\ Active = {} /\ fence = NoOne /\ pos = Len(events) /\ live = <<>>
    /\ backlog = {} /\ ~refetch /\ fetch = NoFetch
    /\ \A w \in Writers: writer[w].pc = "idle"

(* After a reconciliation of a complete history, whatever was queued,      *)
(* replayed or fetched before, during and after it, the appview holds the  *)
(* repository once the queues are empty.  The exceptions are the orders    *)
(* the code does not keep: the PDS took commits meanwhile, an event was    *)
(* left without generation, a job was lost with the process or dropped     *)
(* after its retries, went back behind a later one of its record, or an    *)
(* export's record came after its deletion.                                *)
Converged ==
    sync = "done" /\ excuse \subseteq {"resumed", "unjournalled"} /\ Quiet =>
        \A u \in Uris: row[u].cid = src.has[u]

(* A published recovery commit is eventually acknowledged and closes the   *)
(* reconciliation: it is above the boundary and carries the current        *)
(* generation, and the commits queued before it are below.  The            *)
(* exceptions: the history was accepted as incomplete, which persists no   *)
(* boundary, so that an older commit deferred by the fence is acknowledged *)
(* after the recovery commit; the PDS took another commit first; the event *)
(* was left without its generation (the lookup failed); or the process     *)
(* died with its job in hand.                                              *)
RecoveryAcknowledged ==
    journal.step = "awaiting-recovery" /\ recovery # 0
        ~> \/ journal.step # "awaiting-recovery"
           \/ sync = "glass" \/ excuse \cap {"raced", "unstamped", "lost"} # {}

=============================================================================
