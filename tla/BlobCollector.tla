--------------------------- MODULE BlobCollector ---------------------------
(***************************************************************************)
(* One content (CID) of one actor in object storage after decommission:    *)
(* uploads and writes that promote it, the worker that deletes what a      *)
(* record let go (rsky-pds/src/actor_store/blob/mod.rs), the collector     *)
(* that drains the rows left from coexistence (rsky-pds/src/collector.rs), *)
(* the attempt journal, and the generation registry through which stores   *)
(* resolve the content's physical key (actor_store/blobstore.rs,           *)
(* blob_attempts.rs, blob_generations.rs).                                 *)
(*                                                                         *)
(* Client requests of one actor hold its write lock, so they are one       *)
(* process here; the worker and the collector hold no lock.  A request the *)
(* object store did not confirm may take effect at any later time.         *)
(*                                                                         *)
(* A definition named X_Y is a deliberately wrong variant Y of X; no       *)
(* specification uses it.  It shows that a property notices that mistake.  *)
(***************************************************************************)
EXTENDS Integers, Sequences, FiniteSets

CONSTANTS
    MaxUploads,   \* bound: uploads of the content
    MaxGen,       \* bound: retirements
    MaxAttempts,  \* bound: journaled attempts
    MaxWork,      \* bound: blob_work rows
    MaxCrashes,   \* bound: crashes
    Deferred,     \* blob_work rows of the content left from coexistence
    Worker,       \* whether records are deleted, which leaves work to the worker
    ByHand        \* the collector runs by hand while the server is quiet

ASSUME BoundsAssumption ==
    /\ MaxUploads \in Nat \ {0} /\ MaxGen \in Nat \ {0} /\ MaxAttempts \in Nat
    /\ MaxWork \in Nat \ {0} /\ MaxCrashes \in Nat /\ Deferred \in 0 .. MaxWork
    /\ Worker \in BOOLEAN /\ ByHand \in BOOLEAN

Procs == {"client", "worker", "collector"}

(* Physical keys of the content, one per generation.                       *)
Keys == 0 .. MaxGen

(* An object is told apart by the upload it came from; 0 is no object.     *)
Uploads == 1 .. MaxUploads
Objects == 0 .. MaxUploads

WorkStates == {"delete-pending", "gc-deferred", "superseded", "done", "checking",
               "issuing", "ambiguous", "failed", "retired"}
Outcomes == {"none", "succeeded", "failed", "ambiguous"}

VARIABLES
    row,         \* blob table: "none", "temp" (tempKey set) or "permanent"
    referenced,  \* record_blob names the content
    uploads,     \* uploads so far
    temp,        \* the object under the row's tempKey
    object,      \* the object under each permanent key
    lateDeletes, \* unconfirmed deletes still to be applied: key and newest upload when sent
    lateWrites,  \* unconfirmed copies still to be applied: key and object
    attempts,    \* attempt journal
    retired,     \* generation registry: the key each generation retired
    work,        \* blob_work: the state of each row
    pc, local,   \* of each process
    crashes

database == <<row, referenced, work>>
storage == <<uploads, temp, object, lateDeletes, lateWrites>>
vars == <<database, storage, attempts, retired, pc, local, crashes>>

(* gen: the generation read; id, out: the attempt and its outcome; todo:   *)
(* the rows still to do, with the states they had at the start.            *)
NoLocals == [gen |-> 0, id |-> 0, out |-> "none", todo |-> <<>>]

Labels == {"idle", "stored", "begin", "send", "resolve", "drop", "commit",
           "generation", "finish", "next", "check", "issue", "mark", "recover",
           "retire", "retired"}

(* The content was stored and dereferenced during coexistence.             *)
Init ==
    /\ row = "none" /\ referenced = FALSE
    /\ work = [i \in 1 .. Deferred |-> "gc-deferred"]
    /\ uploads = 1 /\ temp = 0
    /\ object = [g \in Keys |-> IF g = 0 THEN 1 ELSE 0]
    /\ lateDeletes = {} /\ lateWrites = {}
    /\ attempts = <<>> /\ retired = <<>>
    /\ pc = [p \in Procs |-> "idle"]
    /\ local = [p \in Procs |-> NoLocals]
    /\ crashes = 0

(* Generations::current and is_retired.                                    *)
Current == Len(retired)
IsRetired(g) == \E i \in DOMAIN retired : retired[i] = g

Goto(p, label) == pc' = [pc EXCEPT ![p] = label]
Keep(p, label) == Goto(p, label) /\ UNCHANGED local
Return(p) == Goto(p, "idle") /\ local' = [local EXCEPT ![p] = NoLocals]

(* A server request or background task runs; by hand, not beside the       *)
(* collector.                                                              *)
ServerMayRun == ByHand => pc["collector"] = "idle"

----------------------------------------------------------------------------
(* Attempts: journaled before the request is sent, resolved after it.      *)

Begin_NextId(p, op) ==
    /\ Len(attempts) < MaxAttempts
    /\ attempts' = Append(attempts, [key |-> local[p].gen, op |-> op, out |-> "none"])
    /\ local' = [local EXCEPT ![p].id = Len(attempts) + 2]

Begin(p, op) ==
    /\ Len(attempts) < MaxAttempts
    /\ attempts' = Append(attempts, [key |-> local[p].gen, op |-> op, out |-> "none"])
    /\ local' = [local EXCEPT ![p].id = Len(attempts) + 1]

Resolve(p) == attempts' = [attempts EXCEPT ![local[p].id].out = local[p].out]

(* The newest attempt against a key.                                       *)
Latest(g) == {i \in DOMAIN attempts : /\ attempts[i].key = g
                                      /\ \A j \in DOMAIN attempts :
                                            attempts[j].key = g => j <= i}

Heard(p, out) == local' = [local EXCEPT ![p].out = out]

(* One delete request: confirmed, refused, or unconfirmed and applied now, *)
(* later or never.                                                         *)
SendDelete(p) ==
    LET g == local[p].gen
    IN  /\ \/ /\ object' = [object EXCEPT ![g] = 0]
              /\ Heard(p, "succeeded") \/ Heard(p, "ambiguous")
              /\ UNCHANGED lateDeletes
           \/ /\ Heard(p, "failed")
              /\ UNCHANGED <<object, lateDeletes>>
           \/ /\ Heard(p, "ambiguous")
              /\ lateDeletes' = lateDeletes \cup {<<g, uploads>>}
              /\ UNCHANGED object
        /\ UNCHANGED <<uploads, temp, lateWrites>>

(* One copy of the temporary object; it fails when that is gone.           *)
SendCopy(p) ==
    LET g == local[p].gen
    IN  /\ \/ /\ temp # 0
              /\ object' = [object EXCEPT ![g] = temp]
              /\ Heard(p, "succeeded") \/ Heard(p, "ambiguous")
              /\ UNCHANGED lateWrites
           \/ /\ Heard(p, "failed")
              /\ UNCHANGED <<object, lateWrites>>
           \/ /\ temp # 0
              /\ Heard(p, "ambiguous")
              /\ lateWrites' = lateWrites \cup {<<g, temp>>}
              /\ UNCHANGED object
        /\ UNCHANGED <<uploads, temp, lateDeletes>>

(* The object store applies a request nobody waits for any more.           *)
LateDelete ==
    \E d \in lateDeletes :
        /\ lateDeletes' = lateDeletes \ {d}
        /\ object' = [object EXCEPT ![d[1]] = 0]
        /\ UNCHANGED <<database, uploads, temp, lateWrites, attempts, retired, pc,
                       local, crashes>>

LateWrite ==
    \E w \in lateWrites :
        /\ lateWrites' = lateWrites \ {w}
        /\ object' = [object EXCEPT ![w[1]] = w[2]]
        /\ UNCHANGED <<database, uploads, temp, lateDeletes, attempts, retired, pc,
                       local, crashes>>

----------------------------------------------------------------------------
(* Client requests: uploadBlob, and writes that create or delete a record. *)

(* track_untethered_blob: a content that is permanent adopts no new        *)
(* temporary object.                                                       *)
UploadBlob ==
    /\ pc["client"] = "idle" /\ ServerMayRun
    /\ uploads < MaxUploads
    /\ uploads' = uploads + 1
    /\ IF row = "permanent" THEN UNCHANGED <<row, temp>>
       ELSE row' = "temp" /\ temp' = uploads + 1
    /\ UNCHANGED <<referenced, work, object, lateDeletes, lateWrites, attempts,
                   retired, pc, local, crashes>>

(* promote_write_blobs: a content still temporary is promoted at the       *)
(* generation the registry names now.                                      *)
StartWrite ==
    /\ pc["client"] = "idle" /\ ServerMayRun
    /\ \/ row = "permanent" /\ ~referenced /\ Keep("client", "commit")
       \/ /\ row = "temp"
          /\ local' = [local EXCEPT !["client"].gen = Current]
          /\ Goto("client", "stored")
    /\ UNCHANGED <<database, storage, attempts, retired, crashes>>

(* make_permanent: an object already there is kept.  A later generation    *)
(* reads the temporary object before it begins an attempt.                 *)
CheckStored ==
    LET g == local["client"].gen
    IN  /\ pc["client"] = "stored"
        /\ \/ object[g] # 0 /\ Keep("client", "drop")
           \/ object[g] = 0 /\ (g = 0 \/ temp # 0) /\ Keep("client", "begin")
           \/ object[g] = 0 /\ g # 0 /\ temp = 0 /\ Return("client")
        /\ UNCHANGED <<database, storage, attempts, retired, crashes>>

BeginCopy ==
    /\ pc["client"] = "begin"
    /\ Begin("client", "write")
    /\ Goto("client", "send")
    /\ UNCHANGED <<database, storage, retired, crashes>>

Copy ==
    /\ pc["client"] = "send"
    /\ SendCopy("client")
    /\ Goto("client", "resolve")
    /\ UNCHANGED <<database, attempts, retired, crashes>>

ResolveCopy ==
    /\ pc["client"] = "resolve"
    /\ Resolve("client")
    /\ IF local["client"].out = "succeeded" THEN Keep("client", "drop")
       ELSE Return("client")
    /\ UNCHANGED <<database, storage, retired, crashes>>

(* The temporary object goes; an error ends the write without a commit.    *)
DropTemp ==
    /\ pc["client"] = "drop"
    /\ \/ temp' = 0 /\ (Keep("client", "commit") \/ Return("client"))
       \/ UNCHANGED temp /\ Return("client")
    /\ UNCHANGED <<database, uploads, object, lateDeletes, lateWrites, attempts,
                   retired, crashes>>

(* apply_write_blobs_in, inside the write's transaction.                   *)
CommitWrite ==
    /\ pc["client"] = "commit"
    /\ row' = "permanent" /\ referenced' = TRUE
    /\ Return("client")
    /\ UNCHANGED <<work, storage, attempts, retired, crashes>>

(* dereference_blobs_in: the last record that names the content goes.      *)
DeleteRecord ==
    /\ Worker /\ pc["client"] = "idle" /\ ServerMayRun
    /\ referenced /\ Len(work) < MaxWork
    /\ referenced' = FALSE /\ row' = "none"
    /\ work' = Append(work, "delete-pending")
    /\ UNCHANGED <<storage, attempts, retired, pc, local, crashes>>

ClientStep ==
    \/ UploadBlob \/ StartWrite \/ CheckStored \/ BeginCopy \/ Copy
    \/ ResolveCopy \/ DropTemp \/ CommitWrite \/ DeleteRecord

----------------------------------------------------------------------------
(* run_blob_work.  It does not look whether the content is referenced      *)
(* again.                                                                  *)

Rows(states) == [i \in {j \in DOMAIN work : work[j] \in states} |-> work[i]]

StartWork ==
    /\ pc["worker"] = "idle" /\ ServerMayRun
    /\ \E i \in DOMAIN work : work[i] = "delete-pending"
    /\ local' = [local EXCEPT !["worker"].todo = Rows({"delete-pending"})]
    /\ Goto("worker", "generation")
    /\ UNCHANGED <<database, storage, attempts, retired, crashes>>

WorkerGeneration_Unjournaled ==
    /\ pc["worker"] = "generation"
    /\ local' = [local EXCEPT !["worker"].gen = Current]
    /\ Goto("worker", "send")
    /\ UNCHANGED <<database, storage, attempts, retired, crashes>>

(* GenerationAware.delete: only generation zero is journaled.              *)
WorkerGeneration ==
    /\ pc["worker"] = "generation"
    /\ local' = [local EXCEPT !["worker"].gen = Current]
    /\ Goto("worker", IF Current = 0 THEN "begin" ELSE "send")
    /\ UNCHANGED <<database, storage, attempts, retired, crashes>>

WorkerBegin ==
    /\ pc["worker"] = "begin"
    /\ Begin("worker", "delete")
    /\ Goto("worker", "send")
    /\ UNCHANGED <<database, storage, retired, crashes>>

WorkerDelete ==
    /\ pc["worker"] = "send"
    /\ SendDelete("worker")
    /\ Goto("worker", "resolve")
    /\ UNCHANGED <<database, attempts, retired, crashes>>

WorkerResolve ==
    /\ pc["worker"] = "resolve"
    /\ IF local["worker"].gen = 0 THEN Resolve("worker") ELSE UNCHANGED attempts
    /\ IF local["worker"].out = "succeeded" THEN Keep("worker", "finish")
       ELSE Return("worker")
    /\ UNCHANGED <<database, storage, retired, crashes>>

WorkerFinish ==
    /\ pc["worker"] = "finish"
    /\ work' = [i \in DOMAIN work |->
                  IF i \in DOMAIN local["worker"].todo THEN "done" ELSE work[i]]
    /\ Return("worker")
    /\ UNCHANGED <<row, referenced, storage, attempts, retired, crashes>>

WorkerStep ==
    \/ StartWork \/ WorkerGeneration \/ WorkerBegin \/ WorkerDelete
    \/ WorkerResolve \/ WorkerFinish

----------------------------------------------------------------------------
(* collect_actor.                                                          *)

(* The rows are done in the order of their ids.                            *)
Todo == local["collector"].todo
FirstRow(todo) == CHOOSE i \in DOMAIN todo : \A j \in DOMAIN todo : i <= j
RowId == FirstRow(Todo)
RowState == Todo[RowId]
SetState(state) == work' = [work EXCEPT ![RowId] = state]
NextRow == local' = [local EXCEPT !["collector"] =
              [NoLocals EXCEPT !.todo = [i \in DOMAIN Todo \ {RowId} |-> Todo[i]]]]

StartCollect ==
    /\ pc["collector"] = "idle"
    /\ ByHand => pc["client"] = "idle" /\ pc["worker"] = "idle"
    /\ local' = [local EXCEPT !["collector"].todo = Rows(WorkStates)]
    /\ Goto("collector", "next")
    /\ UNCHANGED <<database, storage, attempts, retired, crashes>>

(* The match on the state the row had when the pass began.                 *)
TakeRow ==
    /\ pc["collector"] = "next"
    /\ \/ /\ DOMAIN Todo = {}
          /\ Return("collector")
          /\ UNCHANGED work
       \/ /\ DOMAIN Todo # {}
          /\ \/ /\ RowState \in {"gc-deferred", "checking", "failed"}
                /\ SetState("checking")
                /\ Keep("collector", "check")
             \/ /\ RowState = "issuing"
                /\ local' = [local EXCEPT !["collector"].gen = Current]
                /\ Goto("collector", "recover")
                /\ UNCHANGED work
             \/ /\ RowState = "ambiguous"
                /\ local' = [local EXCEPT !["collector"].gen = 0]
                /\ Goto("collector", "retire")
                /\ UNCHANGED work
             \/ /\ RowState \in {"delete-pending", "superseded", "done", "retired"}
                /\ NextRow /\ UNCHANGED <<pc, work>>
    /\ UNCHANGED <<row, referenced, storage, attempts, retired, crashes>>

CheckReferenced_Skipped ==
    /\ pc["collector"] = "check"
    /\ Keep("collector", "generation")
    /\ UNCHANGED <<database, storage, attempts, retired, crashes>>

(* is_referenced: a record or a registration names the content.            *)
CheckReferenced ==
    /\ pc["collector"] = "check"
    /\ IF referenced \/ row # "none"
       THEN SetState("superseded") /\ NextRow /\ Goto("collector", "next")
       ELSE UNCHANGED work /\ Keep("collector", "generation")
    /\ UNCHANGED <<row, referenced, storage, attempts, retired, crashes>>

ReadGeneration ==
    /\ pc["collector"] = "generation"
    /\ local' = [local EXCEPT !["collector"].gen = Current]
    /\ Goto("collector", "issue")
    /\ UNCHANGED <<database, storage, attempts, retired, crashes>>

MarkIssuing ==
    /\ pc["collector"] = "issue"
    /\ SetState("issuing")
    /\ Keep("collector", "begin")
    /\ UNCHANGED <<row, referenced, storage, attempts, retired, crashes>>

BeginDelete_Skipped ==
    /\ pc["collector"] = "begin"
    /\ Keep("collector", "send")
    /\ UNCHANGED <<database, storage, attempts, retired, crashes>>

BeginDelete ==
    /\ pc["collector"] = "begin"
    /\ Begin("collector", "delete")
    /\ Goto("collector", "send")
    /\ UNCHANGED <<database, storage, retired, crashes>>

Delete ==
    /\ pc["collector"] = "send"
    /\ SendDelete("collector")
    /\ Goto("collector", "resolve")
    /\ UNCHANGED <<database, attempts, retired, crashes>>

ResolveDelete ==
    /\ pc["collector"] = "resolve"
    /\ Resolve("collector")
    /\ Keep("collector", "mark")
    /\ UNCHANGED <<database, storage, retired, crashes>>

Conclude_AmbiguousIsRetried(out) ==
    \/ out = "succeeded" /\ SetState("done") /\ NextRow /\ Goto("collector", "next")
    \/ out # "succeeded" /\ SetState("failed") /\ NextRow /\ Goto("collector", "next")

Conclude_FailedIsDone(out) ==
    \/ out \in {"succeeded", "failed"} /\ SetState("done") /\ NextRow /\ Goto("collector", "next")
    \/ out \in {"none", "ambiguous"} /\ SetState("ambiguous") /\ Keep("collector", "retire")

(* What a known outcome makes of the row; an unknown one retires the key.  *)
Conclude(out) ==
    \/ out = "succeeded" /\ SetState("done") /\ NextRow /\ Goto("collector", "next")
    \/ out = "failed" /\ SetState("failed") /\ NextRow /\ Goto("collector", "next")
    \/ out \in {"none", "ambiguous"} /\ SetState("ambiguous") /\ Keep("collector", "retire")

MarkOutcome ==
    /\ pc["collector"] = "mark"
    /\ Conclude(local["collector"].out)
    /\ UNCHANGED <<row, referenced, storage, attempts, retired, crashes>>

(* An earlier pass died: the newest attempt against the key decides.       *)
RecoverIssuing ==
    LET latest == Latest(local["collector"].gen)
    IN  /\ pc["collector"] = "recover"
        /\ \/ latest = {} /\ Conclude("none")
           \/ \E i \in latest : Conclude(attempts[i].out)
        /\ UNCHANGED <<row, referenced, storage, attempts, retired, crashes>>

Retire_GenerationZero ==
    /\ pc["collector"] = "retire"
    /\ \/ IsRetired(0) /\ UNCHANGED retired
       \/ ~IsRetired(0) /\ retired' = Append(retired, 0)
    /\ Keep("collector", "retired")
    /\ UNCHANGED <<database, storage, attempts, crashes>>

Retire_Unchecked ==
    /\ pc["collector"] = "retire"
    /\ Current < MaxGen /\ retired' = Append(retired, local["collector"].gen)
    /\ Keep("collector", "retired")
    /\ UNCHANGED <<database, storage, attempts, crashes>>

Retire ==
    LET g == local["collector"].gen
    IN  /\ pc["collector"] = "retire"
        /\ \/ IsRetired(g) /\ UNCHANGED retired
           \/ ~IsRetired(g) /\ Current < MaxGen /\ retired' = Append(retired, g)
        /\ Keep("collector", "retired")
        /\ UNCHANGED <<database, storage, attempts, crashes>>

MarkRetired ==
    /\ pc["collector"] = "retired"
    /\ SetState("retired") /\ NextRow /\ Goto("collector", "next")
    /\ UNCHANGED <<row, referenced, storage, attempts, retired, crashes>>

CollectorStep ==
    \/ StartCollect \/ TakeRow \/ CheckReferenced \/ ReadGeneration \/ MarkIssuing
    \/ BeginDelete \/ Delete \/ ResolveDelete \/ MarkOutcome \/ RecoverIssuing
    \/ Retire \/ MarkRetired

(* A request or pass dies: with its process, or on a journal error.        *)
Stop(p) ==
    /\ pc[p] # "idle" /\ crashes < MaxCrashes
    /\ crashes' = crashes + 1
    /\ Return(p)
    /\ UNCHANGED <<database, storage, attempts, retired>>

Next ==
    \/ ClientStep \/ WorkerStep \/ CollectorStep
    \/ LateDelete \/ LateWrite
    \/ \E p \in Procs : Stop(p)

Spec == Init /\ [][Next]_vars

----------------------------------------------------------------------------
(* Properties.                                                             *)

TypeOK ==
    /\ row \in {"none", "temp", "permanent"} /\ referenced \in BOOLEAN
    /\ uploads \in Uploads /\ temp \in Objects
    /\ object \in [Keys -> Objects]
    /\ lateDeletes \subseteq Keys \X Uploads /\ lateWrites \subseteq Keys \X Uploads
    /\ attempts \in Seq([key : Keys, op : {"write", "delete"}, out : Outcomes])
    /\ Len(attempts) <= MaxAttempts
    /\ retired \in Seq(Keys) /\ Len(retired) <= MaxGen
    /\ work \in Seq(WorkStates) /\ Len(work) <= MaxWork
    /\ pc \in [Procs -> Labels]
    /\ \A p \in Procs : /\ local[p].gen \in Keys
                        /\ local[p].id \in 0 .. Len(attempts)
                        /\ local[p].out \in Outcomes
                        /\ DOMAIN local[p].todo \subseteq DOMAIN work
                        /\ \A i \in DOMAIN local[p].todo : local[p].todo[i] \in WorkStates
    /\ crashes \in 0 .. MaxCrashes

(* A delete the store may still apply never hits an object uploaded after  *)
(* it was sent: "the next upload of the same content lands at a generation *)
(* key the old delete never named".                                        *)
OldDeleteNamesNoNewObject ==
    \A d \in lateDeletes : object[d[1]] <= d[2]

(* A content some record names is stored at the key reads resolve to,      *)
(* once the request that named it has returned.                            *)
ReferencedIsStored ==
    referenced /\ pc["client"] = "idle" => object[Current] # 0

(* Every key the registry retired is retired once, in order of generation: *)
(* readers and writers of one content agree on the one key in use.         *)
OneKeyInUse == \A i \in DOMAIN retired : retired[i] = i - 1

(* A delete the store may still apply has an attempt without a confirmed   *)
(* outcome in the journal, bound to the key it names: "each physical       *)
(* delete is one journaled attempt bound to the exact key it names".       *)
UnconfirmedIsJournaled ==
    \A d \in lateDeletes : \E i \in DOMAIN attempts :
        /\ attempts[i].key = d[1] /\ attempts[i].op = "delete"
        /\ attempts[i].out \in {"none", "ambiguous"}

(* No copy is sent to a key after the registry retired it: "a retired key  *)
(* is never read or written again".                                        *)
(* The model refutes it: README, Divergences.                              *)
RetiredIsNotWritten ==
    [][pc["client"] = "send" /\ pc'["client"] = "resolve"
         => ~IsRetired(local["client"].gen)]_vars

(* A row is retired only when every delete the store may still apply to    *)
(* the content names a key the registry retired: "an ambiguous delete      *)
(* retires its key to the generation registry".                            *)
AmbiguousIsRetired ==
    (\A i \in DOMAIN work : work[i] \in {"done", "retired", "superseded"})
        => \A d \in lateDeletes : IsRetired(d[1])

(* When the collector calls a row done, the object of that row's key is    *)
(* gone: "a protocol that makes every terminal state provable".            *)
GoneWhenDone ==
    \A i \in DOMAIN work :
        /\ work[i] # "done" /\ work'[i] = "done" /\ pc["collector"] \in {"mark", "recover"}
        => object[local["collector"].gen] = 0

(* Every step of the collector that calls a row done is such a step.       *)
DoneIsGone == [][GoneWhenDone]_vars

=============================================================================
