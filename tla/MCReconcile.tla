---------------------------- MODULE MCReconcile ----------------------------
(***************************************************************************)
(* Instances of Reconcile for TLC.  Steps whose order no one can tell are  *)
(* explored in one order only.                                             *)
(***************************************************************************)
EXTENDS Reconcile, TLC

(* What a workflow does between taking the fence and giving it back reads  *)
(* and writes only what FencedIsStill keeps still.                         *)
Planned == {w \in Workflows : wf[w].pc \in {"plan", "journal", "write", "finish"}}

(* A writer that takes a job of a fenced actor only puts it back.          *)
NothingInVain ==
    fence # NoOne => \A w \in Writers: writer[w].pc # "idle" \/ writer'[w].pc = "idle"

Gated == {w \in Writers : writer[w].pc \in {"fence", "generation", "boundary", "apply", "close"}}
GateAlone(S) ==
    /\ (\E w \in S: GateStep(w)) \/ (S # {} /\ CrashIndexer)
    /\ UNCHANGED workflowVars

(* Writers and workflows, with the PDS taking commits all the while.  The  *)
(* backfill loop, which opens its gate as the live one does, runs alone    *)
(* while it holds it, and the live loop takes the largest batch there is.  *)
FullBatch ==
    writer'["live"].batch # writer["live"].batch =>
        Len(writer'["live"].batch) \in {0, Min({LiveBatch, Len(live)})}

NextGate ==
    /\ \/ GateAlone(Gated \cap {"backfill"})
       \/ "backfill" \notin Gated /\ \E w \in Planned: Run(w) \/ StepFails(w) \/ Die(w)
       \/ "backfill" \notin Gated /\ Planned = {} /\ Next
    /\ NothingInVain /\ FullBatch

SpecGate == Init /\ [][NextGate]_vars
FairGate == SpecGate /\ Fairness

(* Whole reconciliations.  A writer that holds its gate runs alone, as     *)
(* GateStillHolds allows, and histories with an excuse are not followed.   *)
(* The indexer fails after a generation was issued and no workflow is left *)
(* to run, and reads at most its last event again.                         *)
Followed == {"resumed", "unjournalled"}
Fetching == {w \in Workflows : wf[w].pc \in {"export", "frontier"}}

NextWhole ==
    /\ \/ GateAlone(Gated)
       \/ Gated = {} /\ \E w \in Planned \cup Fetching: Run(w) \/ StepFails(w) \/ Die(w)
       \/ Gated = {} /\ Planned \cup Fetching = {} /\ Next
    /\ NothingInVain
    /\ excuse \subseteq Followed /\ (excuse' \subseteq Followed \/ faults' # faults)
    /\ faults' # faults /\ wf' = wf => generation # 0 /\ runs = MaxRuns /\ Active = {}
    /\ pos' >= pos - 1

SpecWhole == Init /\ [][NextWhole]_vars

Symmetry == Permutations(Workflows)

=============================================================================
