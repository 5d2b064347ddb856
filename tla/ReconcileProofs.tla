-------------------------- MODULE ReconcileProofs --------------------------
(***************************************************************************)
(* Proofs about Reconcile for any number of records, workflows, commits,   *)
(* runs and failures: what a gate admitted may still be applied, and an    *)
(* actor whose reconciliation was left half-way stays fenced.              *)
(***************************************************************************)
EXTENDS Reconcile, TLAPS

----------------------------------------------------------------------------
(* The gate.                                                               *)


(* What a writer's record needs to have.                                   *)
IsWriter(r) == {"pc", "busy", "fence", "gen", "bound"} \subseteq DOMAIN r

WriterShape ==
    /\ writer = [w \in Writers |-> writer[w]]
    /\ \A w \in Writers: IsWriter(writer[w])

(* A writer with the shared lock has it until it closes its gate, and what *)
(* it has read so far is still so.  Of the fence only its absence is: a    *)
(* workflow lifts its fence without the exclusive lock.                    *)
WindowHolds(w) ==
    /\ writer[w].pc \in {"fence", "generation", "boundary", "apply"} => w \in shared
    /\ writer[w].pc \in {"generation", "boundary", "apply"} =>
            (writer[w].fence = NoOne => fence = NoOne)
    /\ writer[w].pc \in {"boundary", "apply"} => writer[w].gen = generation
    /\ writer[w].pc = "apply" => writer[w].bound = boundary

GateInv ==
    /\ WriterShape
    /\ \A w \in Writers: ~writer[w].busy => WindowHolds(w)

----------------------------------------------------------------------------
(* Steps that leave the writers, their locks and the lines alone.          *)
LEMMA GateFrame ==
    ASSUME GateInv, UNCHANGED <<writer, shared, lineVars>>
    PROVE  GateInv'
  <1>1. WriterShape'
    BY Zenon DEF GateInv, WriterShape, IsWriter
  <1>2. \A w \in Writers: ~writer'[w].busy => WindowHolds(w)'
    BY Zenon DEF GateInv, WindowHolds, lineVars
  <1> QED
    BY Zenon, <1>1, <1>2 DEF GateInv

LEMMA GateDequeueLive ==
    ASSUME GateInv, DequeueLive
    PROVE  GateInv'
  <1>1. WriterShape'
    <2>1. \A v \in Writers: IsWriter(writer'[v])
      BY DEF GateInv, WriterShape, IsWriter, DequeueLive, Writers, Idle
    <2> QED
      BY ZenonT(40), <2>1 DEF GateInv, WriterShape, DequeueLive, Writers, Idle
  <1>2. \A v \in Writers: ~writer'[v].busy => WindowHolds(v)'
    BY DEF GateInv, WriterShape, IsWriter, WindowHolds, Writers, lockVars, lineVars,
       DequeueLive, Writers, Idle
  <1> QED
    BY Zenon, <1>1, <1>2 DEF GateInv

LEMMA GateDequeueBackfill ==
    ASSUME GateInv, DequeueBackfill
    PROVE  GateInv'
  <1>1. WriterShape'
    <2>1. \A v \in Writers: IsWriter(writer'[v])
      BY DEF GateInv, WriterShape, IsWriter, DequeueBackfill, Writers, Idle
    <2> QED
      BY ZenonT(40), <2>1 DEF GateInv, WriterShape, DequeueBackfill, Writers, Idle
  <1>2. \A v \in Writers: ~writer'[v].busy => WindowHolds(v)'
    BY DEF GateInv, WriterShape, IsWriter, WindowHolds, Writers, lockVars, lineVars,
       DequeueBackfill, Writers, Idle
  <1> QED
    BY Zenon, <1>1, <1>2 DEF GateInv

LEMMA GateTryLock ==
    ASSUME GateInv, NEW w \in Writers, TryLock(w)
    PROVE  GateInv'
  <1>1. WriterShape'
    <2>1. \A v \in Writers: IsWriter(writer'[v])
      BY ZenonT(40) DEF GateInv, WriterShape, IsWriter, TryLock
    <2> QED
      BY ZenonT(40), <2>1 DEF GateInv, WriterShape, TryLock
  <1>2. \/ /\ writer' = [writer EXCEPT ![w].pc = "fence", ![w].busy = FALSE]
           /\ shared' = shared \cup {w}
        \/ /\ writer' = [writer EXCEPT ![w].pc = "apply", ![w].busy = TRUE]
           /\ shared' = shared
    <2>1. CASE waiters = {}
      BY <2>1, Zenon DEF TryLock
    <2>2. CASE waiters # {}
      BY <2>2, Zenon DEF TryLock
    <2> QED
      BY Zenon, <2>1, <2>2
  <1>3. UNCHANGED lineVars
    BY Zenon DEF TryLock
  <1>4. ASSUME NEW v \in Writers, ~writer'[v].busy
        PROVE  WindowHolds(v)'
    <2>1. CASE v = w
      <3>1. writer'[v].pc = "fence" /\ v \in shared'
        BY ZenonT(40), <1>2, <1>4, <2>1 DEF GateInv, WriterShape, IsWriter
      <3> QED
        BY Zenon, <3>1 DEF WindowHolds
    <2>2. CASE v # w
      <3>1. writer'[v] = writer[v] /\ (v \in shared => v \in shared')
        BY Zenon, <1>2, <2>2 DEF GateInv, WriterShape
      <3> QED
        BY Zenon, <3>1, <1>3, <1>4 DEF GateInv, WindowHolds, lineVars
    <2> QED
      BY Zenon, <2>1, <2>2
  <1> QED
    BY Zenon, <1>1, <1>4 DEF GateInv

LEMMA GateReadFence ==
    ASSUME GateInv, NEW w \in Writers, ReadFence(w)
    PROVE  GateInv'
  <1>1. WriterShape'
    <2>1. \A v \in Writers: IsWriter(writer'[v])
      BY Zenon DEF GateInv, WriterShape, IsWriter, ReadFence
    <2> QED
      BY Zenon, <2>1 DEF GateInv, WriterShape, ReadFence
  <1>2. \A v \in Writers: ~writer'[v].busy => WindowHolds(v)'
    BY Zenon DEF GateInv, WriterShape, IsWriter, WindowHolds, Writers, lockVars,
       lineVars, ReadFence
  <1> QED
    BY Zenon, <1>1, <1>2 DEF GateInv

LEMMA GateReadGeneration ==
    ASSUME GateInv, NEW w \in Writers, ReadGeneration(w)
    PROVE  GateInv'
  <1>1. WriterShape'
    <2>1. \A v \in Writers: IsWriter(writer'[v])
      BY Zenon DEF GateInv, WriterShape, IsWriter, ReadGeneration
    <2> QED
      BY Zenon, <2>1 DEF GateInv, WriterShape, ReadGeneration
  <1>2. \A v \in Writers: ~writer'[v].busy => WindowHolds(v)'
    BY Zenon DEF GateInv, WriterShape, IsWriter, WindowHolds, Writers, lockVars,
       lineVars, ReadGeneration
  <1> QED
    BY Zenon, <1>1, <1>2 DEF GateInv

LEMMA GateReadBoundary ==
    ASSUME GateInv, NEW w \in Writers, ReadBoundary(w)
    PROVE  GateInv'
  <1>1. WriterShape'
    <2>1. \A v \in Writers: IsWriter(writer'[v])
      BY Zenon DEF GateInv, WriterShape, IsWriter, ReadBoundary
    <2> QED
      BY Zenon, <2>1 DEF GateInv, WriterShape, ReadBoundary
  <1>2. \A v \in Writers: ~writer'[v].busy => WindowHolds(v)'
    BY Zenon DEF GateInv, WriterShape, IsWriter, WindowHolds, Writers, lockVars,
       lineVars, ReadBoundary
  <1> QED
    BY Zenon, <1>1, <1>2 DEF GateInv

LEMMA GateOpenFails ==
    ASSUME GateInv, NEW w \in Writers, OpenFails(w)
    PROVE  GateInv'
  <1>1. WriterShape'
    <2>1. \A v \in Writers: IsWriter(writer'[v])
      BY Zenon DEF GateInv, WriterShape, IsWriter, OpenFails
    <2> QED
      BY Zenon, <2>1 DEF GateInv, WriterShape, OpenFails
  <1>2. \A v \in Writers: ~writer'[v].busy => WindowHolds(v)'
    BY Zenon DEF GateInv, WriterShape, IsWriter, WindowHolds, Writers, lockVars,
       lineVars, OpenFails
  <1> QED
    BY Zenon, <1>1, <1>2 DEF GateInv

LEMMA GateApply ==
    ASSUME GateInv, NEW w \in Writers, Apply(w)
    PROVE  GateInv'
  <1>1. PICK s, r : writer' = [writer EXCEPT ![w].pc = "close", ![w].stale = s, ![w].redo = r]
    BY ZenonT(40) DEF Apply
  <1>2. UNCHANGED <<shared, lineVars>>
    BY Zenon DEF Apply, lockVars
  <1>3. WriterShape'
    <2>1. \A v \in Writers: IsWriter(writer'[v])
      BY Zenon, <1>1 DEF GateInv, WriterShape, IsWriter
    <2> QED
      BY ZenonT(40), <2>1, <1>1 DEF GateInv, WriterShape
  <1>4. \A v \in Writers: ~writer'[v].busy => WindowHolds(v)'
    BY Zenon, <1>1, <1>2 DEF GateInv, WriterShape, IsWriter, WindowHolds, lineVars
  <1> QED
    BY Zenon, <1>3, <1>4 DEF GateInv

LEMMA GateCloseGate ==
    ASSUME GateInv, NEW w \in Writers, CloseGate(w)
    PROVE  GateInv'
  <1>1. WriterShape'
    <2>1. \A v \in Writers: IsWriter(writer'[v])
      BY Zenon DEF GateInv, WriterShape, IsWriter, CloseGate, Idle
    <2> QED
      BY ZenonT(40), <2>1 DEF GateInv, WriterShape, CloseGate, Idle
  <1>2. \A v \in Writers: ~writer'[v].busy => WindowHolds(v)'
    BY Zenon DEF GateInv, WriterShape, IsWriter, WindowHolds, Writers, lockVars,
       lineVars, CloseGate, Idle
  <1> QED
    BY Zenon, <1>1, <1>2 DEF GateInv

LEMMA GateCrashIndexer ==
    ASSUME GateInv, CrashIndexer
    PROVE  GateInv'
  <1>1. WriterShape'
    <2>1. \A v \in Writers: IsWriter(writer'[v])
      BY Zenon DEF GateInv, WriterShape, IsWriter, CrashIndexer, Idle
    <2> QED
      BY ZenonT(40), <2>1 DEF GateInv, WriterShape, CrashIndexer, Idle
  <1>2. \A v \in Writers: ~writer'[v].busy => WindowHolds(v)'
    BY Zenon DEF GateInv, WriterShape, IsWriter, WindowHolds, Writers, lockVars,
       lineVars, CrashIndexer, Idle
  <1> QED
    BY Zenon, <1>1, <1>2 DEF GateInv

(* A workflow installs its fence and moves the lines while no one holds    *)
(* the shared lock, so no gate is open.                                    *)
LEMMA GateExclusive ==
    ASSUME GateInv, UNCHANGED <<writer, shared>>, shared = {}
    PROVE  GateInv'
  <1>1. WriterShape'
    BY Zenon DEF GateInv, WriterShape, IsWriter
  <1>2. \A w \in Writers: ~writer'[w].busy => WindowHolds(w)'
    BY Zenon DEF GateInv, WindowHolds
  <1> QED
    BY Zenon, <1>1, <1>2 DEF GateInv

(* A fence that is lifted makes no gate wrong.                             *)
LEMMA GateLift ==
    ASSUME GateInv, UNCHANGED <<writer, shared, boundary, generation>>, fence' \in {NoOne, fence}
    PROVE  GateInv'
  <1>1. WriterShape'
    BY Zenon DEF GateInv, WriterShape, IsWriter
  <1>2. \A w \in Writers: ~writer'[w].busy => WindowHolds(w)'
    BY Zenon DEF GateInv, WindowHolds
  <1> QED
    BY Zenon, <1>1, <1>2 DEF GateInv

LEMMA GateGateNext ==
    ASSUME GateInv, GateNext
    PROVE  GateInv'
  <1>1. CASE ReadEvent
    BY Zenon, <1>1, GateFrame DEF ReadEvent, lockVars
  <1>2. CASE StartFetch
    BY Zenon, <1>2, GateFrame DEF StartFetch, lockVars
  <1>3. CASE FinishFetch
    BY Zenon, <1>3, GateFrame DEF FinishFetch, lockVars
  <1>4. CASE DequeueLive
    BY Zenon, <1>4, GateDequeueLive
  <1>5. CASE DequeueBackfill
    BY Zenon, <1>5, GateDequeueBackfill
  <1>6. ASSUME NEW w \in Writers, GateStep(w)
        PROVE  GateInv'
    BY Zenon, <1>6, GateTryLock, GateReadFence, GateReadGeneration, GateReadBoundary,
       GateOpenFails, GateApply, GateCloseGate DEF GateStep
  <1>7. CASE CrashIndexer
    BY Zenon, <1>7, GateCrashIndexer
  <1> QED
    BY Zenon, <1>1, <1>2, <1>3, <1>4, <1>5, <1>6, <1>7 DEF GateNext

LEMMA GateRun ==
    ASSUME GateInv, NEW w \in Workflows, Run(w)
    PROVE  GateInv'
  <1>1. CASE InstallFence(w)
    BY Zenon, <1>1, GateExclusive DEF InstallFence, indexerVars
  <1>2. CASE FetchExport(w)
    BY Zenon, <1>2, GateFrame DEF FetchExport, gateVars, indexerVars, lockVars
  <1>3. CASE FetchFrontier(w)
    BY ZenonT(40), <1>3, GateFrame DEF FetchFrontier, gateVars, indexerVars, lockVars
  <1>4. ASSUME NEW reset \in BOOLEAN, NEW glass \in BOOLEAN, MakePlan(w, reset, glass)
        PROVE  GateInv'
    <2>1. UNCHANGED <<writer, shared, lineVars>>
      BY ZenonT(40), <1>4 DEF MakePlan, indexerVars
    <2> QED
      BY Zenon, <2>1, GateFrame
  <1>5. CASE PersistBoundary(w)
    BY Zenon, <1>5, GateExclusive DEF PersistBoundary, indexerVars
  <1>6. CASE JournalBoundary(w)
    BY Zenon, <1>6, GateFrame DEF JournalBoundary, gateVars, indexerVars, lockVars
  <1>7. CASE WriteRecord(w)
    BY Zenon, <1>7, GateFrame DEF WriteRecord, indexerVars, lockVars
  <1>8. CASE EndWrites(w)
    BY Zenon, <1>8, GateFrame DEF EndWrites, indexerVars, lockVars
  <1>9. CASE Finish(w)
    BY Zenon, <1>9, GateFrame DEF Finish, gateVars, indexerVars, lockVars
  <1>10. CASE Refuse(w)
    BY Zenon, <1>10, GateFrame DEF Refuse, gateVars, indexerVars, lockVars
  <1>11. CASE EndRun(w)
    BY Zenon, <1>11, GateLift DEF EndRun, Lift, indexerVars, lockVars
  <1>12. CASE EndFailed(w)
    BY Zenon, <1>12, GateLift DEF EndFailed, Lift, indexerVars, lockVars
  <1> QED
    BY Zenon, <1>1, <1>2, <1>3, <1>4, <1>5, <1>6, <1>7, <1>8, <1>9, <1>10, <1>11, <1>12
       DEF Run

LEMMA GateInvNext ==
    ASSUME GateInv, [Next]_vars
    PROVE  GateInv'
  <1>1. CASE GateNext
    BY Zenon, <1>1, GateGateNext
  <1>2. ASSUME NEW u \in Uris, NEW act \in {"put", "del"}, Commit(u, act)
        PROVE  GateInv'
    BY Zenon, <1>2, GateFrame DEF Commit, lockVars
  <1>3. ASSUME NEW r \in Revs, RestoreBackup(r)
        PROVE  GateInv'
    BY Zenon, <1>3, GateFrame DEF RestoreBackup, lockVars
  <1>4. CASE PublishRecovery
    BY Zenon, <1>4, GateFrame DEF PublishRecovery, lockVars
  <1>5. ASSUME NEW w \in Workflows, Start(w) \/ StepFails(w) \/ EndFails(w) \/ Die(w)
        PROVE  GateInv'
    BY Zenon, <1>5, GateFrame DEF Start, StepFails, EndFails, Die, indexerVars, lockVars
  <1>6. ASSUME NEW w \in Workflows, Run(w)
        PROVE  GateInv'
    BY Zenon, <1>6, GateRun
  <1>7. CASE VerifyLifts
    BY Zenon, <1>7, GateLift DEF VerifyLifts, indexerVars, lockVars
  <1>8. CASE VerifyDone
    BY Zenon, <1>8, GateFrame DEF VerifyDone, gateVars, indexerVars, lockVars
  <1>9. CASE UNCHANGED vars
    BY Zenon, <1>9, GateFrame DEF vars, gateVars, indexerVars, lockVars
  <1> QED
    BY Zenon, <1>1, <1>2, <1>3, <1>4, <1>5, <1>6, <1>7, <1>8, <1>9 DEF Next

(* What a gate has admitted may still be applied, at whatever distance the *)
(* writer read the fence, the generation and the boundary, and with        *)
(* workflows, failures and crashes at every step.                          *)
THEOREM AdmittedStaysAdmitted == Spec => []GateStillHolds
  <1>1. Init => GateInv
    <2> SUFFICES ASSUME Init
                 PROVE  GateInv
      BY Zenon
    <2>1. \A w \in Writers: IsWriter(writer[w]) /\ writer[w].pc = "idle"
      BY Zenon DEF Init, GateInit, Idle, IsWriter
    <2> QED
      BY Zenon, <2>1 DEF Init, GateInit, GateInv, WriterShape, WindowHolds
  <1>2. GateInv /\ [Next]_vars => GateInv'
    BY Zenon, GateInvNext
  <1>3. GateInv => GateStillHolds
    BY Zenon DEF GateInv, WindowHolds, GateStillHolds, Admitted, Admit
  <1> QED
    BY <1>1, <1>2, <1>3, PTL DEF Spec

----------------------------------------------------------------------------
(* The fence.                                                              *)


(* A workflow's record has a program counter, the journal a step.          *)
RunShape ==
    /\ wf = [w \in Workflows |-> wf[w]]
    /\ \A w \in Workflows: "pc" \in DOMAIN wf[w]
    /\ "step" \in DOMAIN journal

Excused == excuse \cap {"resumed", "unjournalled"} # {}

(* At most one workflow is past its installation: the one with the fence.  *)
OneAtWork == \A w \in Workflows: wf[w].pc \notin {"down", "install"} => fence = w

(* The journal follows the workflow at work.                               *)
JournalFollows ==
    \A w \in Workflows:
        /\ wf[w].pc \in {"export", "frontier", "plan", "persist", "journal"}
                => journal.step = "fenced"
        /\ wf[w].pc \in {"write", "finish"} => journal.step = "boundary"

(* What was left half-way belongs to the workflow with the fence, which    *)
(* has journalled its boundary, or died before, or is about to.            *)
HalfwayIsOwned ==
    sync = "partial" /\ ~Excused =>
        /\ fence \in Workflows
        /\ \/ /\ journal.step = "boundary"
              /\ wf[fence].pc \in {"down", "install", "write", "finish", "failed"}
           \/ /\ journal.step = "fenced"
              /\ wf[fence].pc \in {"down", "install", "journal"}

FenceInv == RunShape /\ OneAtWork /\ JournalFollows /\ HalfwayIsOwned

(* A step of workflow w alone, from and to some program counters.          *)
Moves(w, from, to) ==
    /\ RunShape'
    /\ wf[w].pc \in from /\ wf'[w].pc \in to
    /\ \A v \in Workflows \ {w}: wf'[v] = wf[v]

LEMMA FenceFrame ==
    ASSUME FenceInv, UNCHANGED <<wf, journal, sync, fence>>, excuse \subseteq excuse'
    PROVE  FenceInv'
  BY Zenon DEF FenceInv, RunShape, OneAtWork, JournalFollows, HalfwayIsOwned, Excused

LEMMA FenceStart ==
    ASSUME FenceInv, NEW w \in Workflows, Start(w)
    PROVE  FenceInv'
  <1>1. Moves(w, {"down"}, {"install"})
    BY ZenonT(40) DEF FenceInv, RunShape, Moves, Start, Down
  <1>2. UNCHANGED <<fence, journal, sync, excuse>>
    BY Zenon DEF Start, lineVars
  <1> QED
    BY Zenon, <1>1, <1>2, GateConstants DEF FenceInv, OneAtWork, JournalFollows,
       HalfwayIsOwned, Excused, Moves

LEMMA FenceInstallFence ==
    ASSUME FenceInv, NEW w \in Workflows, InstallFence(w)
    PROVE  FenceInv'
  <1>1. CASE fence \in {NoOne, w}
    <2>1. Moves(w, {"install"}, {"export"})
      BY Zenon, <1>1 DEF FenceInv, RunShape, Moves, InstallFence
    <2>2. /\ fence' = w /\ journal'.step = "fenced" /\ sync' = sync
          /\ sync = "partial" => Excused'
      BY SMTT(30), <1>1 DEF InstallFence, Excused
    <2> QED
      BY Zenon, <1>1, <2>1, <2>2, GateConstants DEF FenceInv, OneAtWork, JournalFollows,
         HalfwayIsOwned, Moves
  <1>2. CASE fence \notin {NoOne, w}
    <2>1. Moves(w, {"install"}, {"down"})
      BY SMTT(30), <1>2 DEF FenceInv, RunShape, Moves, InstallFence, Down
    <2>2. UNCHANGED <<fence, journal, sync, excuse>>
      BY Zenon, <1>2 DEF InstallFence
    <2> QED
      BY Zenon, <2>1, <2>2 DEF FenceInv, OneAtWork, JournalFollows, HalfwayIsOwned,
         Excused, Moves
  <1> QED
    BY Zenon, <1>1, <1>2

LEMMA FenceFetchExport ==
    ASSUME FenceInv, NEW w \in Workflows, FetchExport(w)
    PROVE  FenceInv'
  <1>1. Moves(w, {"export"}, {"frontier"})
    BY Zenon DEF FenceInv, RunShape, Moves, FetchExport
  <1>2. UNCHANGED <<fence, journal, sync, excuse>>
    BY Zenon DEF FetchExport, gateVars, lineVars
  <1> QED
    BY Zenon, <1>1, <1>2, GateConstants DEF FenceInv, OneAtWork, JournalFollows,
       HalfwayIsOwned, Excused, Moves

LEMMA FenceFetchFrontier ==
    ASSUME FenceInv, NEW w \in Workflows, FetchFrontier(w)
    PROVE  FenceInv'
  <1>1. UNCHANGED <<fence, journal, sync, excuse>>
    BY Zenon DEF FetchFrontier, gateVars, lineVars
  <1>2. wf[w].pc = "frontier" /\ wf = [v \in Workflows |-> wf[v]] /\ "pc" \in DOMAIN wf[w]
    BY ZenonT(40) DEF FetchFrontier, FenceInv, RunShape
  <1>3. /\ wf'[w].pc \in {"plan", "refuse", "export"} /\ "pc" \in DOMAIN wf'[w]
        /\ wf' = [v \in Workflows |-> wf'[v]]
        /\ \A v \in Workflows \ {w}: wf'[v] = wf[v]
    <2>1. CASE src.rev = wf[w].car.rev
      <3> DEFINE p == Len(events)
      <3>1. PICK c \in BOOLEAN, e \in {0, p}:
              wf' = [wf EXCEPT ![w].pc = "plan", ![w].tries = 0, ![w].complete = c,
                               ![w].published = p, ![w].exposed = e]
        BY <2>1, Zenon DEF FetchFrontier
      <3> HIDE DEF p
      <3> QED
        BY ZenonT(40), <1>2, <3>1
    <2>2. CASE src.rev # wf[w].car.rev
      <3>1. PICK t : \E p \in {"refuse", "export"}:
                        wf' = [wf EXCEPT ![w].pc = p, ![w].tries = t]
        BY <2>2, ZenonT(40) DEF FetchFrontier
      <3>2. PICK p \in {"refuse", "export"}: wf' = [wf EXCEPT ![w].pc = p, ![w].tries = t]
        BY Zenon, <3>1
      <3> QED
        BY ZenonT(40), <1>2, <3>2
    <2> QED
      BY Zenon, <2>1, <2>2
  <1>4. Moves(w, {"frontier"}, {"plan", "refuse", "export"})
    BY Zenon, <1>1, <1>2, <1>3 DEF FenceInv, RunShape, Moves
  <1> QED
    BY Zenon, <1>1, <1>4 DEF FenceInv, OneAtWork, JournalFollows, HalfwayIsOwned,
       Excused, Moves

LEMMA FenceMakePlan ==
    ASSUME FenceInv, NEW w \in Workflows, NEW reset \in BOOLEAN, NEW glass \in BOOLEAN,
           MakePlan(w, reset, glass)
    PROVE  FenceInv'
  <1>1. Moves(w, {"plan"}, {"refuse", "persist", "journal"})
    BY SMTT(30) DEF FenceInv, RunShape, Moves, MakePlan, Down
  <1>2. UNCHANGED <<fence, journal, sync, excuse>>
    BY Zenon DEF MakePlan, lineVars
  <1> QED
    BY Zenon, <1>1, <1>2, GateConstants DEF FenceInv, OneAtWork, JournalFollows,
       HalfwayIsOwned, Excused, Moves

LEMMA FencePersistBoundary ==
    ASSUME FenceInv, NEW w \in Workflows, PersistBoundary(w)
    PROVE  FenceInv'
  <1>1. Moves(w, {"persist"}, {"journal"})
    BY Zenon DEF FenceInv, RunShape, Moves, PersistBoundary
  <1>2. UNCHANGED <<fence, journal, excuse>> /\ sync' = "partial"
    BY Zenon DEF PersistBoundary
  <1> QED
    BY Zenon, <1>1, <1>2, GateConstants DEF FenceInv, OneAtWork, JournalFollows,
       HalfwayIsOwned, Excused, Moves

LEMMA FenceJournalBoundary ==
    ASSUME FenceInv, NEW w \in Workflows, JournalBoundary(w)
    PROVE  FenceInv'
  <1>1. Moves(w, {"journal"}, {"write"})
    BY Zenon DEF FenceInv, RunShape, Moves, JournalBoundary
  <1>2. UNCHANGED <<fence, sync, excuse>>
    BY Zenon DEF JournalBoundary, gateVars, lineVars
  <1>3. journal'.step = "boundary"
    BY Zenon DEF FenceInv, RunShape, JournalBoundary
  <1> QED
    BY Zenon, <1>1, <1>2, <1>3, GateConstants DEF FenceInv, OneAtWork, JournalFollows,
       HalfwayIsOwned, Excused, Moves

LEMMA FenceWriteRecord ==
    ASSUME FenceInv, NEW w \in Workflows, WriteRecord(w)
    PROVE  FenceInv'
  <1>1. Moves(w, {"write"}, {"write"})
    BY SMTT(30) DEF FenceInv, RunShape, Moves, WriteRecord
  <1>2. UNCHANGED <<fence, journal, excuse>>
    BY Zenon DEF WriteRecord, lineVars
  <1> QED
    BY Zenon, <1>1, <1>2, GateConstants DEF FenceInv, OneAtWork, JournalFollows,
       HalfwayIsOwned, Excused, Moves

LEMMA FenceEndWrites ==
    ASSUME FenceInv, NEW w \in Workflows, EndWrites(w)
    PROVE  FenceInv'
  <1>1. Moves(w, {"write"}, {"failed", "finish"})
    BY Zenon DEF FenceInv, RunShape, Moves, EndWrites
  <1>2. UNCHANGED <<fence, journal, sync, excuse>>
    BY Zenon DEF EndWrites, lineVars
  <1> QED
    BY Zenon, <1>1, <1>2, GateConstants DEF FenceInv, OneAtWork, JournalFollows,
       HalfwayIsOwned, Excused, Moves

LEMMA FenceFinish ==
    ASSUME FenceInv, NEW w \in Workflows, Finish(w)
    PROVE  FenceInv'
  <1> DEFINE agrees == wf[w].complete => boundary = wf[w].boundary
  <1>1. UNCHANGED <<fence, excuse>>
    BY Zenon DEF Finish, gateVars, lineVars
  <1>2. CASE agrees
    <2>1. Moves(w, {"finish"}, {"end"})
      BY Zenon, <1>2 DEF FenceInv, RunShape, Moves, Finish
    <2>2. sync' # "partial"
      BY Zenon, <1>2 DEF Finish
    <2> QED
      BY Zenon, <1>1, <2>1, <2>2 DEF FenceInv, OneAtWork, JournalFollows,
         HalfwayIsOwned, Moves
  <1>3. CASE ~agrees
    <2>1. Moves(w, {"finish"}, {"failed"})
      BY Zenon, <1>3 DEF FenceInv, RunShape, Moves, Finish
    <2>2. UNCHANGED <<journal, sync>>
      BY Zenon, <1>3 DEF Finish
    <2> QED
      BY Zenon, <1>1, <2>1, <2>2 DEF FenceInv, OneAtWork, JournalFollows,
         HalfwayIsOwned, Excused, Moves
  <1> QED
    BY Zenon, <1>2, <1>3

LEMMA FenceRefuse ==
    ASSUME FenceInv, NEW w \in Workflows, Refuse(w)
    PROVE  FenceInv'
  <1>1. Moves(w, {"refuse"}, {"end"})
    BY Zenon DEF FenceInv, RunShape, Moves, Refuse
  <1>2. UNCHANGED <<fence, sync, excuse>>
    BY Zenon DEF Refuse, gateVars, lineVars
  <1> QED
    BY Zenon, <1>1, <1>2, GateConstants DEF FenceInv, OneAtWork, JournalFollows,
       HalfwayIsOwned, Excused, Moves

LEMMA FenceEndRun ==
    ASSUME FenceInv, NEW w \in Workflows, EndRun(w)
    PROVE  FenceInv'
  <1>1. Moves(w, {"end"}, {"down"})
    BY ZenonT(40) DEF FenceInv, RunShape, Moves, EndRun, Down
  <1>2. fence' \in {fence, NoOne} /\ UNCHANGED <<journal, sync, excuse>>
    BY Zenon DEF EndRun, Lift
  <1> QED
    BY Zenon, <1>1, <1>2, GateConstants DEF FenceInv, OneAtWork, JournalFollows,
       HalfwayIsOwned, Excused, Moves

LEMMA FenceEndFailed ==
    ASSUME FenceInv, NEW w \in Workflows, EndFailed(w)
    PROVE  FenceInv'
  <1>1. Moves(w, {"failed"}, {"down"})
    BY ZenonT(40) DEF FenceInv, RunShape, Moves, EndFailed, Down
  <1>2. /\ fence' = fence \/ (fence' = NoOne /\ journal.step = "fenced")
        /\ UNCHANGED <<journal, sync, excuse>>
    BY Zenon DEF EndFailed, Lift
  <1> QED
    BY Zenon, <1>1, <1>2, GateConstants DEF FenceInv, OneAtWork, JournalFollows,
       HalfwayIsOwned, Excused, Moves

LEMMA FenceStepFails ==
    ASSUME FenceInv, NEW w \in Workflows, StepFails(w)
    PROVE  FenceInv'
  <1>1. Moves(w, {"export", "frontier", "plan", "persist", "journal", "finish", "refuse"},
              {"failed"})
    BY ZenonT(40) DEF FenceInv, RunShape, Moves, StepFails, Down
  <1>2. /\ UNCHANGED <<fence, journal, sync>> /\ excuse \subseteq excuse'
        /\ wf[w].pc = "journal" => Excused'
    BY Zenon DEF StepFails, Excused, lineVars
  <1> QED
    BY Zenon, <1>1, <1>2, GateConstants DEF FenceInv, OneAtWork, JournalFollows,
       HalfwayIsOwned, Excused, Moves

LEMMA FenceEndFails ==
    ASSUME FenceInv, NEW w \in Workflows, EndFails(w)
    PROVE  FenceInv'
  <1>1. Moves(w, {"end", "failed"}, {"down"})
    BY ZenonT(40) DEF FenceInv, RunShape, Moves, EndFails, Down
  <1>2. UNCHANGED <<fence, journal, sync, excuse>>
    BY Zenon DEF EndFails, lineVars
  <1> QED
    BY Zenon, <1>1, <1>2, GateConstants DEF FenceInv, OneAtWork, JournalFollows,
       HalfwayIsOwned, Excused, Moves

LEMMA FenceDie ==
    ASSUME FenceInv, NEW w \in Workflows, Die(w)
    PROVE  FenceInv'
  <1>1. Moves(w, {wf[w].pc}, {"down"})
    BY ZenonT(40) DEF FenceInv, RunShape, Moves, Die, Down
  <1>2. UNCHANGED <<fence, journal, sync, excuse>>
    BY Zenon DEF Die, lineVars
  <1> QED
    BY Zenon, <1>1, <1>2 DEF FenceInv, OneAtWork, JournalFollows, HalfwayIsOwned,
       Excused, Moves

LEMMA FenceVerify ==
    ASSUME FenceInv, VerifyLifts \/ VerifyDone
    PROVE  FenceInv'
  <1>1. RunShape'
    BY Zenon DEF FenceInv, RunShape, VerifyLifts, VerifyDone
  <1>2. OneAtWork' /\ JournalFollows'
    BY Zenon DEF FenceInv, RunShape, OneAtWork, JournalFollows, VerifyLifts, VerifyDone,
       Active
  <1>3. HalfwayIsOwned'
    BY Zenon DEF FenceInv, RunShape, HalfwayIsOwned, Excused, VerifyLifts, VerifyDone,
       gateVars
  <1> QED
    BY Zenon, <1>1, <1>2, <1>3 DEF FenceInv

(* The writers and the PDS leave the workflows alone and only add excuses. *)
LEMMA FenceGateNext ==
    ASSUME FenceInv, GateNext, UNCHANGED workflowVars
    PROVE  FenceInv'
  <1>1. UNCHANGED <<wf, journal, sync>>
    BY Zenon DEF workflowVars
  <1>2. UNCHANGED fence /\ excuse \subseteq excuse'
    <2>1. CASE ReadEvent \/ StartFetch \/ FinishFetch \/ DequeueLive \/ DequeueBackfill
      BY ZenonT(40), <2>1 DEF ReadEvent, StartFetch, FinishFetch, DequeueLive,
         DequeueBackfill, lineVars
    <2>2. ASSUME NEW w \in Writers,
                 TryLock(w) \/ ReadFence(w) \/ ReadGeneration(w) \/ ReadBoundary(w)
          PROVE  UNCHANGED fence /\ excuse \subseteq excuse'
      BY Zenon, <2>2 DEF TryLock, ReadFence, ReadGeneration, ReadBoundary, lineVars
    <2>3. ASSUME NEW w \in Writers, OpenFails(w) \/ CloseGate(w)
          PROVE  UNCHANGED fence /\ excuse \subseteq excuse'
      BY Zenon, <2>3 DEF OpenFails, CloseGate, lineVars
    <2>4. ASSUME NEW w \in Writers, Apply(w)
          PROVE  UNCHANGED fence /\ excuse \subseteq excuse'
      <3>1. PICK a, b, c: excuse' = excuse \cup a \cup b \cup c
        BY <2>4, ZenonT(40) DEF Apply
      <3> QED
        BY Zenon, <2>4, <3>1 DEF Apply, lineVars
    <2>5. CASE CrashIndexer
      BY Zenon, <2>5 DEF CrashIndexer, lineVars
    <2> QED
      BY Zenon, <2>1, <2>2, <2>3, <2>4, <2>5 DEF GateNext, GateStep
  <1> QED
    BY Zenon, <1>1, <1>2, FenceFrame

LEMMA FenceInvNext ==
    ASSUME FenceInv, [Next]_vars
    PROVE  FenceInv'
  <1>1. CASE GateNext /\ UNCHANGED workflowVars
    BY Zenon, <1>1, FenceGateNext
  <1>2. ASSUME NEW u \in Uris, NEW act \in {"put", "del"}, Commit(u, act)
        PROVE  FenceInv'
    BY Zenon, <1>2, FenceFrame DEF Commit, lineVars
  <1>3. ASSUME NEW r \in Revs, RestoreBackup(r)
        PROVE  FenceInv'
    <2>1. RunShape'
      BY Zenon, <1>3 DEF RestoreBackup, FenceInv, RunShape
    <2> QED
      BY Zenon, <1>3, <2>1 DEF RestoreBackup, FenceInv, OneAtWork, JournalFollows,
         HalfwayIsOwned, lineVars
  <1>4. CASE PublishRecovery
    BY Zenon, <1>4, FenceFrame DEF PublishRecovery, lineVars
  <1>5. ASSUME NEW w \in Workflows, Start(w) \/ StepFails(w) \/ EndFails(w) \/ Die(w)
        PROVE  FenceInv'
    BY Zenon, <1>5, FenceStart, FenceStepFails, FenceEndFails, FenceDie
  <1>6. ASSUME NEW w \in Workflows, Run(w)
        PROVE  FenceInv'
    BY Zenon, <1>6, FenceInstallFence, FenceFetchExport, FenceFetchFrontier,
       FenceMakePlan, FencePersistBoundary, FenceJournalBoundary, FenceWriteRecord,
       FenceEndWrites, FenceFinish, FenceRefuse, FenceEndRun, FenceEndFailed DEF Run
  <1>7. CASE VerifyLifts \/ VerifyDone
    BY Zenon, <1>7, FenceVerify
  <1>8. CASE UNCHANGED vars
    BY Zenon, <1>8, FenceFrame DEF vars, gateVars, lineVars, workflowVars
  <1> QED
    BY Zenon, <1>1, <1>2, <1>3, <1>4, <1>5, <1>6, <1>7, <1>8 DEF Next

(* Once a workflow has moved the boundary or written a record, the actor   *)
(* stays fenced until a run finishes, whatever fails, dies or is resumed,  *)
(* but for the two exceptions PartialIsFenced names.                       *)
THEOREM HalfwayStaysFenced == Spec => []PartialIsFenced
  <1>1. Init => FenceInv
    <2> SUFFICES ASSUME Init
                 PROVE  FenceInv
      BY Zenon
    <2>1. RunShape /\ \A w \in Workflows: wf[w].pc = "down"
      BY Zenon DEF Init, Down, RunShape
    <2>2. sync = "never"
      BY Zenon DEF Init
    <2> QED
      BY Zenon, <2>1, <2>2 DEF FenceInv, OneAtWork, JournalFollows, HalfwayIsOwned
  <1>2. FenceInv /\ [Next]_vars => FenceInv'
    BY Zenon, FenceInvNext
  <1>3. FenceInv => PartialIsFenced
    BY Zenon, GateConstants DEF FenceInv, HalfwayIsOwned, Excused, PartialIsFenced
  <1> QED
    BY <1>1, <1>2, <1>3, PTL DEF Spec

=============================================================================
