------------------------ MODULE BlobCollectorProofs ------------------------
(***************************************************************************)
(* The collector's pass: the inductive invariant of a quiet pass and what  *)
(* follows from it, for any number of uploads, attempts, rows and          *)
(* retirements.                                                            *)
(***************************************************************************)
EXTENDS BlobCollectorSteps

----------------------------------------------------------------------------
(* The inductive invariant.                                                *)

(* No record is deleted, so the collector alone deletes, and nothing died. *)
LonePass == ~Worker /\ crashes = 0

(* As well, the collector runs by hand while the server is quiet.          *)
QuietPass == ByHand /\ ~Worker /\ crashes = 0

Unfinished == {"checking", "issuing", "ambiguous"}
Between == {"idle", "next"}
Deleting == {"issue", "begin", "send", "resolve", "mark", "retire"}

(* The collector deletes at the key in use.  A delete the store may still  *)
(* apply names a retired key, or the one the collector is about to retire. *)
Retiring ==
    \/ pc["collector"] \in {"resolve", "mark"} /\ local["collector"].out = "ambiguous"
    \/ pc["collector"] = "retire"
KeyInv ==
    /\ pc["collector"] \in Deleting => local["collector"].gen = Current
    /\ pc["collector"] # "recover"
    /\ \A d \in lateDeletes : d[1] < Current \/ (d[1] = Current /\ Retiring)

(* At most the row at hand is unfinished.                                  *)
RowsInv ==
    /\ \A i \in DOMAIN Todo : Todo[i] \notin Unfinished
    /\ pc["collector"] \notin Between => DOMAIN Todo # {}
    /\ \A i \in DOMAIN work : work[i] \in Unfinished =>
          pc["collector"] \notin Between /\ i = RowId
    /\ pc["collector"] \in {"begin", "send", "resolve", "mark", "retire", "retired"} =>
          work[RowId] \in Unfinished

(* The client alone promotes, at the key in use.                           *)
ClientInv ==
    /\ referenced <=> row = "permanent"
    /\ row = "none" => lateWrites = {}
    /\ pc["client"] # "idle" => pc["collector"] = "idle" /\ row = "temp"
    /\ pc["client"] \in {"stored", "begin", "send", "resolve"} =>
          local["client"].gen = Current
    /\ pc["client"] = "resolve" /\ local["client"].out = "succeeded" => object[Current] # 0
    /\ pc["client"] \in {"drop", "commit"} \/ referenced => object[Current] # 0

(* The collector deletes only while nothing was stored for the content     *)
(* again.                                                                  *)
CollectorInv ==
    /\ pc["collector"] \in Deleting \cup {"generation", "retired"} => row = "none"
    /\ pc["collector"] \in {"resolve", "mark"} /\ local["collector"].out = "succeeded"
          => object[Current] = 0

(* What is at the key of a late delete, or may still be written there, was *)
(* uploaded before the delete was sent.                                    *)
DeletesInv ==
    /\ \A g \in Keys : object[g] <= uploads
    /\ temp <= uploads /\ \A w \in lateWrites : w[2] <= uploads
    /\ \A d \in lateDeletes : object[d[1]] <= d[2]
    /\ \A d \in lateDeletes : \A w \in lateWrites : d[1] = w[1] => w[2] <= d[2]

LoneGroups == KeyInv /\ RowsInv
PassGroups == LoneGroups /\ ClientInv /\ CollectorInv /\ DeletesInv
LoneInv == LonePass => LoneGroups
PassInv == QuietPass => PassGroups

----------------------------------------------------------------------------
(* A pass of the collector beside the client.                              *)

(* What a step keeps that does not move the collector.                     *)
LEMMA RowsFrame ==
    ASSUME RowsInv, pc'["collector"] = pc["collector"], local'["collector"] = local["collector"],
           UNCHANGED work
    PROVE  RowsInv'
  <1>1. Todo' = Todo
    BY Zenon DEF Todo
  <1>2. RowId' = RowId
    BY <1>1, Zenon DEF RowId
  <1> QED
    BY Zenon, <1>1, <1>2 DEF RowsInv

(* The pass goes on with the same row.                                     *)
LEMMA SameRow ==
    ASSUME RowsInv, Todo' = Todo, UNCHANGED work, pc["collector"] \notin Between,
           pc'["collector"] \notin Between,
           pc'["collector"] \in {"begin", "send", "resolve", "mark", "retire", "retired"}
              => work[RowId] \in Unfinished
    PROVE  RowsInv'
  <1>1. RowId' = RowId
    BY Zenon DEF RowId
  <1> QED
    BY Zenon, <1>1 DEF RowsInv

LEMMA RowWritten ==
    ASSUME TypeInv, RowsInv, Todo' = Todo, DOMAIN Todo # {}, NEW s \in Unfinished, Wrote(s),
           pc'["collector"] \notin Between
    PROVE  RowsInv'
  <1>1. RowId' = RowId /\ RowId \in DOMAIN work
    BY RowIdIsFirst, Zenon DEF RowId
  <1>2. \A i \in DOMAIN work' : work'[i] \in Unfinished => i = RowId
    BY Zenon DEF RowsInv, Wrote
  <1>3. work'[RowId] \in Unfinished
    BY Zenon, <1>1 DEF Wrote
  <1>4. \A i \in DOMAIN Todo' : Todo'[i] \notin Unfinished
    BY Zenon DEF RowsInv
  <1> QED
    BY Zenon, <1>1, <1>2, <1>3, <1>4 DEF RowsInv

LEMMA RowDone ==
    ASSUME TypeInv, RowsInv, Advanced,
           \/ pc["collector"] \in Between /\ UNCHANGED work
           \/ \E s \in WorkStates \ Unfinished : Wrote(s)
    PROVE  RowsInv'
  <1>1. Todo' = Rest /\ pc'["collector"] \in Between
    BY Zenon DEF Advanced, Now, Todo, Between
  <1>2. \A i \in DOMAIN work' : work'[i] \notin Unfinished
    <2>1. CASE pc["collector"] \in Between /\ UNCHANGED work
      BY Zenon, <2>1 DEF RowsInv
    <2>2. CASE \E s \in WorkStates \ Unfinished : Wrote(s)
      BY Zenon, <2>2 DEF RowsInv, Wrote
    <2> QED
      BY Zenon, <2>1, <2>2
  <1>3. \A i \in DOMAIN Todo' : Todo'[i] \notin Unfinished
    BY Zenon, <1>1, RestType DEF RowsInv
  <1> QED
    BY Zenon, <1>1, <1>2, <1>3 DEF RowsInv, Between


LEMMA LoneFrame ==
    ASSUME LoneGroups, pc'["collector"] = pc["collector"], local'["collector"] = local["collector"],
           UNCHANGED <<work, retired>>, lateDeletes' \subseteq lateDeletes
    PROVE  LoneGroups'
  <1>1. RowsInv'
    BY Zenon, RowsFrame DEF LoneGroups
  <1>2. KeyInv'
    BY Zenon DEF LoneGroups, KeyInv, Retiring, Deleting, Current
  <1> QED
    BY Zenon, <1>1, <1>2 DEF LoneGroups

(* A step of the collector that sends no delete.                           *)
LEMMA KeyFrame ==
    ASSUME KeyInv, UNCHANGED <<lateDeletes, retired>>, Retiring => Retiring',
           pc'["collector"] # "recover",
           pc'["collector"] \in Deleting => local'["collector"].gen = Current
    PROVE  KeyInv'
  <1>1. Current' = Current
    BY Zenon DEF Current
  <1> QED
    BY Zenon, <1>1 DEF KeyInv

LEMMA LoneClient ==
    ASSUME TypeInv, LoneGroups, ClientStep, ~DeleteRecord
    PROVE  LoneGroups'
  <1>1. /\ pc'["collector"] = pc["collector"] /\ local'["collector"] = local["collector"]
        /\ UNCHANGED <<work, retired, lateDeletes>>
    <2>1. CASE UploadBlob
      BY Zenon, <2>1 DEF UploadBlob
    <2>2. CASE StartWrite
      BY Zenon, <2>2, StepStartWrite, Names DEF StartWrite, database, storage, Only
    <2>3. CASE CheckStored
      BY Zenon, <2>3, StepCheckStored, Names DEF CheckStored, database, storage, Only
    <2>4. CASE BeginCopy
      BY Zenon, <2>4, StepBegin, Names DEF BeginCopy, database, storage, Only
    <2>5. CASE Copy
      <3>1. PICK o : Only("client") /\ CopyEffect(local["client"].gen, o)
        BY Zenon, <2>5, StepCopy
      <3> QED
        BY Zenon, <2>5, <3>1, Names DEF Copy, CopyEffect, database, Only
    <2>6. CASE ResolveCopy
      BY Zenon, <2>6, StepResolveCopy, Names DEF ResolveCopy, database, storage, Only
    <2>7. CASE DropTemp
      BY Zenon, <2>7, StepDropTemp, Names DEF DropTemp, database, Only
    <2>8. CASE CommitWrite
      BY Zenon, <2>8, StepCommitWrite, Names DEF CommitWrite, storage, Only
    <2> QED
      BY Zenon, <2>1, <2>2, <2>3, <2>4, <2>5, <2>6, <2>7, <2>8 DEF ClientStep
  <1> QED
    BY Zenon, <1>1, LoneFrame

LEMMA LoneStartCollect ==
    ASSUME TypeInv, LoneGroups, StartCollect
    PROVE  LoneGroups'
  <1>1. pc["collector"] = "idle" /\ pc'["collector"] = "next"
        /\ Todo' = Rows(WorkStates) /\ UNCHANGED <<work, lateDeletes, retired>>
    BY Zenon, StepStartCollect DEF StartCollect, Now, Todo, database, storage
  <1>2. KeyInv'
    BY Zenon, <1>1, KeyFrame DEF LoneGroups, Retiring, Deleting
  <1>3. RowsInv'
    <2>1. \A i \in DOMAIN work : work[i] \notin Unfinished
      BY Zenon, <1>1 DEF LoneGroups, RowsInv, Between
    <2>2. \A i \in DOMAIN Todo' : Todo'[i] \notin Unfinished
      <3>1. /\ DOMAIN Rows(WorkStates) \subseteq DOMAIN work
            /\ \A i \in DOMAIN Rows(WorkStates) : Rows(WorkStates)[i] = work[i]
        BY ZenonT(40), RowsType
      <3> QED
        BY Zenon, <1>1, <2>1, <3>1
    <2> QED
      BY Zenon, <1>1, <2>1, <2>2 DEF RowsInv, Between
  <1> QED
    BY Zenon, <1>2, <1>3 DEF LoneGroups

(* The next row is never one a death left behind.                          *)
LEMMA LoneTakeRow ==
    ASSUME TypeInv, LoneGroups, TakeRow
    PROVE  LoneGroups' /\ pc'["collector"] \in {"idle", "check", "next"}
  <1>1. pc["collector"] = "next" /\ ~Retiring /\ UNCHANGED <<lateDeletes, retired>>
    BY Zenon DEF TakeRow, Retiring, storage
  <1>2. DOMAIN Todo # {} => RowState \notin Unfinished
    BY Zenon, RowIdIsFirst DEF RowState, LoneGroups, RowsInv
  <1>3. RowsInv' /\ pc'["collector"] \in {"idle", "check", "next"}
    <2>1. CASE DOMAIN Todo = {} /\ UNCHANGED work /\ Ends("collector")
      <3>1. Todo' = <<>> /\ pc'["collector"] = "idle"
        BY Zenon, <2>1 DEF Ends, Now, Todo
      <3>2. DOMAIN Todo' = {}
        BY <3>1
      <3>3. \A i \in DOMAIN work' : work'[i] \notin Unfinished
        BY Zenon, <1>1, <2>1 DEF LoneGroups, RowsInv, Between
      <3> QED
        BY Zenon, <3>1, <3>2, <3>3 DEF RowsInv, Between
    <2>2. CASE DOMAIN Todo # {} /\ Wrote("checking") /\ Stays("collector", "check")
      <3>1. Todo' = Todo /\ pc'["collector"] = "check" /\ "checking" \in Unfinished
            /\ pc'["collector"] \notin Between
        BY Zenon, <2>2 DEF Stays, Now, Todo, Unfinished, Between
      <3> QED
        BY Zenon, <2>2, <3>1, RowWritten DEF LoneGroups
    <2>3. CASE UNCHANGED work /\ Advanced
      <3>1. pc'["collector"] = "next" /\ pc["collector"] \in Between
        BY Zenon, <1>1, <2>3 DEF Advanced, Now, Between
      <3> QED
        BY Zenon, <2>3, <3>1, RowDone DEF LoneGroups
    <2>4. ~(DOMAIN Todo # {} /\ RowState \in {"issuing", "ambiguous"})
      BY Zenon, <1>2 DEF Unfinished
    <2> QED
      BY Zenon, <2>1, <2>2, <2>3, <2>4, StepTakeRow
  <1>4. KeyInv'
    BY Zenon, <1>1, <1>3, KeyFrame DEF LoneGroups, Deleting
  <1> QED
    BY Zenon, <1>3, <1>4 DEF LoneGroups

LEMMA LoneCheckReferenced ==
    ASSUME TypeInv, LoneGroups, CheckReferenced
    PROVE  LoneGroups'
  <1>1. pc["collector"] = "check" /\ ~Retiring /\ UNCHANGED <<lateDeletes, retired>>
    BY Zenon DEF CheckReferenced, Retiring, storage
  <1>2. CASE Wrote("superseded") /\ Advanced
    <2>1. pc'["collector"] = "next" /\ "superseded" \in WorkStates \ Unfinished
      BY Zenon, <1>2, StateNames DEF Advanced, Now, Unfinished
    <2>2. RowsInv'
      BY Zenon, <1>2, <2>1, RowDone DEF LoneGroups
    <2>3. KeyInv'
      BY Zenon, <1>1, <2>1, KeyFrame DEF LoneGroups, Deleting
    <2> QED
      BY Zenon, <2>2, <2>3 DEF LoneGroups
  <1>3. CASE UNCHANGED work /\ Stays("collector", "generation")
    <2>1. pc'["collector"] = "generation" /\ Todo' = Todo
      BY Zenon, <1>3 DEF Stays, Now, Todo
    <2>2. RowsInv'
      BY Zenon, <1>1, <1>3, <2>1, SameRow DEF LoneGroups, Between
    <2>3. KeyInv'
      BY Zenon, <1>1, <2>1, KeyFrame DEF LoneGroups, Deleting
    <2> QED
      BY Zenon, <2>2, <2>3 DEF LoneGroups
  <1> QED
    BY Zenon, <1>2, <1>3, StepCheckReferenced

LEMMA LoneReadGeneration ==
    ASSUME TypeInv, LoneGroups, ReadGeneration
    PROVE  LoneGroups'
  <1>1. pc["collector"] = "generation" /\ ~Retiring /\ UNCHANGED <<work, lateDeletes, retired>>
    BY Zenon DEF ReadGeneration, Retiring, database, storage
  <1>2. pc'["collector"] = "issue" /\ Todo' = Todo /\ local'["collector"].gen = Current
    BY Zenon, StepReadGeneration DEF Chosen, Now, Todo
  <1>3. RowsInv'
    BY Zenon, <1>1, <1>2, SameRow DEF LoneGroups, Between
  <1>4. KeyInv'
    BY Zenon, <1>1, <1>2, KeyFrame DEF LoneGroups
  <1> QED
    BY Zenon, <1>3, <1>4 DEF LoneGroups

LEMMA LoneMarkIssuing ==
    ASSUME TypeInv, LoneGroups, MarkIssuing
    PROVE  LoneGroups'
  <1>1. pc["collector"] = "issue" /\ ~Retiring /\ UNCHANGED <<lateDeletes, retired>>
        /\ Wrote("issuing") /\ Stays("collector", "begin")
    BY Zenon, StepMarkIssuing DEF MarkIssuing, Retiring, storage
  <1>2. pc'["collector"] = "begin" /\ Todo' = Todo /\ "issuing" \in Unfinished
        /\ local'["collector"].gen = local["collector"].gen
    BY Zenon, <1>1 DEF Stays, Now, Todo, Unfinished
  <1>3. DOMAIN Todo # {} /\ pc'["collector"] \notin Between
    BY Zenon, <1>1, <1>2 DEF LoneGroups, RowsInv, Between
  <1>4. RowsInv'
    BY Zenon, <1>1, <1>2, <1>3, RowWritten DEF LoneGroups
  <1>5. local["collector"].gen = Current
    BY Zenon, <1>1 DEF LoneGroups, KeyInv, Deleting
  <1>6. KeyInv'
    BY Zenon, <1>1, <1>2, <1>5, KeyFrame DEF LoneGroups
  <1> QED
    BY Zenon, <1>4, <1>6 DEF LoneGroups

LEMMA LoneBeginDelete ==
    ASSUME TypeInv, LoneGroups, BeginDelete
    PROVE  LoneGroups'
  <1>1. pc["collector"] = "begin" /\ ~Retiring /\ UNCHANGED <<work, lateDeletes, retired>>
        /\ Journals("collector", "delete")
    BY Zenon, StepBegin, Names DEF BeginDelete, Retiring, database, storage
  <1>2. pc'["collector"] = "send" /\ Todo' = Todo
        /\ local'["collector"].gen = local["collector"].gen
    BY Zenon, <1>1 DEF Journals, Now, Todo
  <1>3. RowsInv'
    BY Zenon, <1>1, <1>2, SameRow DEF LoneGroups, RowsInv, Between
  <1>4. local["collector"].gen = Current
    BY Zenon, <1>1 DEF LoneGroups, KeyInv, Deleting
  <1>5. KeyInv'
    BY Zenon, <1>1, <1>2, <1>4, KeyFrame DEF LoneGroups
  <1> QED
    BY Zenon, <1>3, <1>5 DEF LoneGroups

LEMMA LoneDelete ==
    ASSUME TypeInv, LoneGroups, Delete
    PROVE  LoneGroups'
  <1>1. PICK o : Only("collector") /\ DeleteEffect(local["collector"].gen, o)
                 /\ Now("collector", "resolve", local["collector"].gen, local["collector"].id,
                        o, local["collector"].todo)
    BY Zenon, StepDelete, Names DEF Delete
  <1>2. pc["collector"] = "send" /\ ~Retiring /\ UNCHANGED <<work, retired>>
    BY Zenon DEF Delete, Retiring, database
  <1>3. pc'["collector"] = "resolve" /\ Todo' = Todo /\ local'["collector"].gen = Current
        /\ local'["collector"].out = o /\ Current' = Current /\ local["collector"].gen = Current
    BY Zenon, <1>1, <1>2 DEF Now, Todo, Current, LoneGroups, KeyInv, Deleting
  <1>4. RowsInv'
    BY Zenon, <1>2, <1>3, SameRow DEF LoneGroups, RowsInv, Between
  <1>5. ASSUME NEW d \in lateDeletes'
        PROVE  d[1] < Current' \/ (d[1] = Current' /\ Retiring')
    <2>1. CASE d \in lateDeletes
      BY Zenon, <1>2, <1>3, <2>1 DEF LoneGroups, KeyInv
    <2>2. CASE d = <<Current, uploads>> /\ o = "ambiguous"
      BY Zenon, <1>3, <2>2 DEF Retiring
    <2> QED
      BY Zenon, <1>1, <1>3, <2>1, <2>2 DEF DeleteEffect
  <1>6. KeyInv'
    BY Zenon, <1>3, <1>5 DEF KeyInv
  <1> QED
    BY Zenon, <1>4, <1>6 DEF LoneGroups

LEMMA LoneResolveDelete ==
    ASSUME TypeInv, LoneGroups, ResolveDelete
    PROVE  LoneGroups'
  <1>1. pc["collector"] = "resolve" /\ Stays("collector", "mark")
        /\ UNCHANGED <<work, lateDeletes, retired>>
    BY Zenon, StepResolveDelete DEF ResolveDelete, database, storage
  <1>2. pc'["collector"] = "mark" /\ Todo' = Todo /\ local'["collector"].gen = local["collector"].gen
        /\ local'["collector"].out = local["collector"].out
    BY Zenon, <1>1 DEF Stays, Now, Todo
  <1>3. RowsInv'
    BY Zenon, <1>1, <1>2, SameRow DEF LoneGroups, RowsInv, Between
  <1>4. local["collector"].gen = Current /\ (Retiring => Retiring')
    BY Zenon, <1>1, <1>2 DEF LoneGroups, KeyInv, Deleting, Retiring
  <1>5. KeyInv'
    BY Zenon, <1>1, <1>2, <1>4, KeyFrame DEF LoneGroups
  <1> QED
    BY Zenon, <1>3, <1>5 DEF LoneGroups

LEMMA LoneMarkOutcome ==
    ASSUME TypeInv, LoneGroups, MarkOutcome
    PROVE  LoneGroups'
  <1> DEFINE o == local["collector"].out
  <1>1. pc["collector"] = "mark" /\ UNCHANGED <<lateDeletes, retired>>
    BY Zenon DEF MarkOutcome, storage
  <1>2. CASE o \in {"succeeded", "failed"} /\ Advanced
             /\ \E s \in {"done", "failed"} : Wrote(s)
    <2>1. pc'["collector"] = "next" /\ ~Retiring
      BY Zenon, <1>1, <1>2 DEF Advanced, Now, Retiring
    <2>2. {"done", "failed"} \subseteq WorkStates \ Unfinished
      BY Zenon DEF WorkStates, Unfinished
    <2>3. RowsInv'
      BY Zenon, <1>2, <2>2, RowDone DEF LoneGroups
    <2>4. KeyInv'
      BY Zenon, <1>1, <2>1, KeyFrame DEF LoneGroups, Deleting
    <2> QED
      BY Zenon, <2>3, <2>4 DEF LoneGroups
  <1>3. CASE Wrote("ambiguous") /\ Stays("collector", "retire")
    <2>1. pc'["collector"] = "retire" /\ Todo' = Todo /\ "ambiguous" \in Unfinished
          /\ local'["collector"].gen = local["collector"].gen
      BY Zenon, <1>1, <1>3 DEF Stays, Now, Todo, Unfinished
    <2>2. DOMAIN Todo # {} /\ pc'["collector"] \notin Between /\ Retiring'
      BY Zenon, <1>1, <2>1 DEF LoneGroups, RowsInv, Between, Retiring
    <2>3. RowsInv'
      BY Zenon, <1>3, <2>1, <2>2, RowWritten DEF LoneGroups
    <2>4. local["collector"].gen = Current
      BY Zenon, <1>1 DEF LoneGroups, KeyInv, Deleting
    <2>5. KeyInv'
      BY Zenon, <1>1, <2>1, <2>2, <2>4, KeyFrame DEF LoneGroups
    <2> QED
      BY Zenon, <2>3, <2>5 DEF LoneGroups
  <1> QED
    BY Zenon, <1>2, <1>3, Concludes DEF MarkOutcome

LEMMA LoneRetire ==
    ASSUME TypeInv, LoneGroups, Retire
    PROVE  LoneGroups' /\ Current' = Current + 1
  <1>1. pc["collector"] = "retire" /\ Stays("collector", "retired")
        /\ UNCHANGED <<work, lateDeletes>>
    BY Zenon, StepRetire DEF Retire, database, storage
  <1>2. local["collector"].gen = Current /\ Current \in Nat
    BY <1>1, Lengths, BoundsAssumption DEF LoneGroups, KeyInv, Deleting, Keys
  <1>3. Current' = Current + 1
    BY <1>2, StepRetire
  <1>4. pc'["collector"] = "retired" /\ Todo' = Todo
    BY Zenon, <1>1 DEF Stays, Now, Todo
  <1>5. RowsInv'
    BY Zenon, <1>1, <1>4, SameRow DEF LoneGroups, RowsInv, Between
  <1>6. \A d \in lateDeletes : d[1] < Current + 1
    <2>1. \A d \in lateDeletes : d[1] \in Nat /\ (d[1] < Current \/ d[1] = Current)
      BY SMTT(30), BoundsAssumption DEF LoneGroups, KeyInv, TypeInv, StorageType, Keys
    <2> QED
      BY <1>2, <2>1
  <1>7. KeyInv'
    BY Zenon, <1>1, <1>3, <1>4, <1>6 DEF KeyInv, Deleting
  <1> QED
    BY Zenon, <1>3, <1>5, <1>7 DEF LoneGroups

LEMMA LoneMarkRetired ==
    ASSUME TypeInv, LoneGroups, MarkRetired
    PROVE  LoneGroups'
  <1>1. pc["collector"] = "retired" /\ ~Retiring /\ Wrote("retired")
        /\ Advanced /\ UNCHANGED <<lateDeletes, retired>>
    BY Zenon, StepMarkRetired DEF MarkRetired, Retiring, storage
  <1>2. pc'["collector"] = "next" /\ "retired" \in WorkStates \ Unfinished
    BY Zenon, <1>1, StateNames DEF Advanced, Now, Unfinished
  <1>3. RowsInv'
    BY Zenon, <1>1, <1>2, RowDone DEF LoneGroups
  <1>4. KeyInv'
    BY Zenon, <1>1, <1>2, KeyFrame DEF LoneGroups, Deleting
  <1> QED
    BY Zenon, <1>3, <1>4 DEF LoneGroups

LEMMA LoneLate ==
    ASSUME LoneGroups, LateDelete \/ LateWrite
    PROVE  LoneGroups'
  <1>1. UNCHANGED <<database, retired, pc, local>> /\ lateDeletes' \subseteq lateDeletes
    <2>1. CASE LateDelete
      <3>1. PICK d \in lateDeletes : lateDeletes' = lateDeletes \ {d}
        BY <2>1, ZenonT(40) DEF LateDelete
      <3> QED
        BY Zenon, <2>1, <3>1 DEF LateDelete
    <2>2. CASE LateWrite
      BY Zenon, <2>2 DEF LateWrite
    <2> QED
      BY Zenon, <2>1, <2>2
  <1> QED
    BY Zenon, <1>1, LoneFrame DEF database

(* What can happen while no record is deleted and nothing dies.            *)
LEMMA LoneActions ==
    ASSUME TypeInv, NoWork, LonePass', [Next]_vars
    PROVE  /\ LonePass /\ ~DeleteRecord
           /\ ClientStep \/ CollectorStep \/ LateDelete \/ LateWrite \/ UNCHANGED vars
  <1>1. ~(\E p \in Procs : Stop(p))
    BY Zenon, StepStop DEF LonePass
  <1>2. crashes' = crashes
    BY ZenonT(40), <1>1 DEF Next, ClientStep, WorkerStep, CollectorStep, UploadBlob, StartWrite,
       CheckStored, BeginCopy, Copy, ResolveCopy, DropTemp, CommitWrite, DeleteRecord,
       StartWork, WorkerGeneration, WorkerBegin, WorkerDelete, WorkerResolve, WorkerFinish,
       StartCollect, TakeRow, CheckReferenced, ReadGeneration, MarkIssuing, BeginDelete,
       Delete, ResolveDelete, MarkOutcome, RecoverIssuing, Retire, MarkRetired, LateDelete,
       LateWrite, vars
  <1>3. LonePass
    BY Zenon, <1>2 DEF LonePass
  <1>4. ~DeleteRecord /\ ~WorkerStep
    BY Zenon, <1>3 DEF LonePass, NoWork, DeleteRecord, WorkerStep, StartWork,
       WorkerGeneration, WorkerBegin, WorkerDelete, WorkerResolve, WorkerFinish
  <1> QED
    BY Zenon, <1>1, <1>3, <1>4 DEF Next

LEMMA LoneStep ==
    ASSUME TypeInv, NoWork, LoneInv, [Next]_vars
    PROVE  LoneInv'
  <1> SUFFICES ASSUME LonePass'
               PROVE  LoneGroups'
    BY Zenon DEF LoneInv
  <1>1. /\ LoneGroups /\ ~DeleteRecord
        /\ ClientStep \/ CollectorStep \/ LateDelete \/ LateWrite \/ UNCHANGED vars
    BY Zenon, LoneActions DEF LoneInv
  <1>2. CASE CollectorStep
    <2>1. ~RecoverIssuing
      BY Zenon, <1>1 DEF RecoverIssuing, LoneGroups, KeyInv
    <2> QED
      BY SMTT(30), <1>1, <1>2, <2>1, LoneStartCollect, LoneTakeRow, LoneCheckReferenced,
         LoneReadGeneration, LoneMarkIssuing, LoneBeginDelete, LoneDelete, LoneResolveDelete,
         LoneMarkOutcome, LoneRetire, LoneMarkRetired DEF CollectorStep
  <1>3. CASE UNCHANGED vars
    <2>1. UNCHANGED <<work, lateDeletes, retired, pc, local>>
      BY Zenon, <1>3 DEF vars, database, storage
    <2> QED
      BY Zenon, <1>1, <2>1, LoneFrame
  <1> QED
    BY Zenon, <1>1, <1>2, <1>3, LoneClient, LoneLate

----------------------------------------------------------------------------
(* A quiet pass.                                                           *)

LEMMA DeletesFrame ==
    ASSUME DeletesInv, UNCHANGED storage
    PROVE  DeletesInv'
  BY Zenon DEF DeletesInv, storage

LEMMA CollectorFrame ==
    ASSUME CollectorInv, pc["collector"] = "idle", pc'["collector"] = "idle"
    PROVE  CollectorInv'
  BY Zenon DEF CollectorInv, Deleting

(* What a step of the client starts from.                                  *)
LEMMA ClientAlone ==
    ASSUME TypeInv, PassGroups, ByHand, pc["client"] # "idle" \/ ServerMayRun
    PROVE  /\ pc["collector"] = "idle" /\ ~Retiring
           /\ Only("client") => pc'["collector"] = "idle" /\ local'["collector"] = local["collector"]
           /\ \A d \in lateDeletes : d[1] < Current
           /\ Current \in Keys /\ Current \in Nat
  BY Names, Lengths, BoundsAssumption DEF PassGroups, LoneGroups, KeyInv, ClientInv,
     ServerMayRun, Retiring, Only, Keys

(* A step of the client that leaves storage alone.                         *)
LEMMA ClientKeepsStorage ==
    ASSUME TypeInv, PassGroups, ByHand, pc["client"] # "idle" \/ ServerMayRun, Only("client"),
           UNCHANGED storage
    PROVE  CollectorInv' /\ DeletesInv'
  <1>1. pc["collector"] = "idle" /\ pc'["collector"] = "idle"
    BY Zenon, ClientAlone
  <1>2. CollectorInv'
    BY Zenon, <1>1, CollectorFrame DEF PassGroups
  <1>3. DeletesInv'
    BY Zenon, DeletesFrame DEF PassGroups
  <1> QED
    BY Zenon, <1>2, <1>3

LEMMA PassUploadBlob ==
    ASSUME TypeInv, PassGroups, LoneGroups', ByHand, UploadBlob
    PROVE  PassGroups'
  <1>1. /\ pc["collector"] = "idle" /\ ~Retiring /\ \A d \in lateDeletes : d[1] < Current
        /\ Current' = Current
    BY Zenon, ClientAlone DEF UploadBlob, Current
  <1>2. CollectorInv'
    BY Zenon, <1>1, CollectorFrame DEF PassGroups, UploadBlob
  <1>3. ClientInv'
    BY Zenon, <1>1 DEF PassGroups, ClientInv, UploadBlob
  <1>4. DeletesInv'
    <2>1. uploads \in Nat /\ uploads' = uploads + 1 /\ (temp' = temp \/ temp' = uploads + 1)
          /\ UNCHANGED <<object, lateDeletes, lateWrites>>
      BY DEF UploadBlob, TypeInv, StorageType, Uploads
    <2>2. /\ temp \in Nat /\ \A g \in Keys : object[g] \in Nat
          /\ \A w \in lateWrites : w[2] \in Nat
      BY BoundsAssumption DEF TypeInv, StorageType, Objects, Uploads
    <2>3. (\A g \in Keys : object'[g] <= uploads') /\ temp' <= uploads'
          /\ (\A w \in lateWrites' : w[2] <= uploads')
      BY <2>1, <2>2 DEF PassGroups, DeletesInv
    <2> QED
      BY Zenon, <1>1, <2>1, <2>3 DEF PassGroups, DeletesInv
  <1> QED
    BY Zenon, <1>2, <1>3, <1>4 DEF PassGroups

LEMMA PassStartWrite ==
    ASSUME TypeInv, PassGroups, LoneGroups', ByHand, StartWrite
    PROVE  PassGroups'
  <1>1. Only("client") /\ row = "temp"
        /\ Now("client", "stored", Current, local["client"].id, local["client"].out,
               local["client"].todo)
    BY Zenon, StepStartWrite DEF PassGroups, ClientInv
  <1>2. CollectorInv' /\ DeletesInv'
    BY Zenon, <1>1, ClientKeepsStorage DEF StartWrite, database
  <1>3. pc'["collector"] = "idle"
    BY Zenon, <1>1, ClientAlone DEF StartWrite
  <1>4. ClientInv'
    BY Zenon, <1>1, <1>3 DEF PassGroups, ClientInv, StartWrite, database, storage, Now,
       Current
  <1> QED
    BY Zenon, <1>2, <1>4 DEF PassGroups

LEMMA PassClient ==
    ASSUME TypeInv, PassGroups, LoneGroups', ByHand, CheckStored \/ BeginCopy \/ ResolveCopy
    PROVE  PassGroups'
  <1>1. Only("client") /\ pc["client"] \in {"stored", "begin", "resolve"}
        /\ UNCHANGED <<database, storage, retired>>
    BY Zenon, StepCheckStored, StepBegin, StepResolveCopy, Names DEF CheckStored,
       BeginCopy, ResolveCopy
  <1>2. CollectorInv' /\ DeletesInv'
    BY Zenon, <1>1, ClientKeepsStorage DEF database
  <1>3. pc'["collector"] = "idle" /\ row = "temp" /\ row' = row /\ referenced' = referenced
        /\ ~referenced /\ local["client"].gen = Current /\ Current' = Current
        /\ object' = object
    BY Zenon, <1>1, ClientAlone DEF PassGroups, ClientInv, database, storage, Current
  <1>4. \/ pc'["client"] = "idle"
        \/ pc'["client"] = "drop" /\ object[Current] # 0
        \/ pc'["client"] \in {"begin", "send"} /\ local'["client"].gen = Current
    <2>1. CASE CheckStored
      BY Zenon, <1>3, <2>1, StepCheckStored DEF Stays, Ends, Now
    <2>2. CASE BeginCopy
      BY Zenon, <1>3, <2>2, StepBegin, Names DEF BeginCopy, Journals, Now
    <2>3. CASE ResolveCopy
      BY Zenon, <1>3, <2>3, StepResolveCopy DEF Stays, Ends, Now, ResolveCopy,
         PassGroups, ClientInv
    <2> QED
      BY Zenon, <2>1, <2>2, <2>3
  <1>5. ClientInv'
    BY Zenon, <1>3, <1>4 DEF PassGroups, ClientInv
  <1> QED
    BY Zenon, <1>2, <1>5 DEF PassGroups

LEMMA PassCopy ==
    ASSUME TypeInv, PassGroups, LoneGroups', ByHand, Copy
    PROVE  PassGroups'
  <1>1. PICK o : Only("client") /\ CopyEffect(local["client"].gen, o)
                 /\ Now("client", "resolve", local["client"].gen, local["client"].id, o,
                        local["client"].todo)
    BY Zenon, StepCopy
  <1>2. /\ pc["collector"] = "idle" /\ pc'["collector"] = "idle"
        /\ local'["collector"] = local["collector"]
        /\ \A d \in lateDeletes : d[1] < Current
        /\ Current \in Keys /\ Current \in Nat
    BY Zenon, <1>1, ClientAlone DEF Copy
  <1>3. Current' = Current /\ local["client"].gen = Current /\ row = "temp"
        /\ UNCHANGED <<row, referenced, work>>
    BY Zenon DEF PassGroups, ClientInv, Copy, database, Current
  <1>4. CollectorInv'
    BY Zenon, <1>2, <1>3, CollectorFrame DEF PassGroups
  <1>5. ClientInv'
    BY Zenon, <1>1, <1>2, <1>3 DEF PassGroups, ClientInv, CopyEffect, Now
  <1>6. DeletesInv'
    <2>1. UNCHANGED <<uploads, temp, lateDeletes>>
          /\ (\A k \in Keys : object'[k] = object[k] \/ (k = Current /\ object'[k] = temp))
          /\ (\A w \in lateWrites' : w \in lateWrites \/ w = <<Current, temp>>)
      BY Zenon, <1>1, <1>3 DEF CopyEffect
    <2>2. (\A g \in Keys : object'[g] <= uploads') /\ temp' <= uploads'
          /\ (\A w \in lateWrites' : w[2] <= uploads')
      BY <2>1 DEF PassGroups, DeletesInv
    <2>3. \A d \in lateDeletes' : d[1] < Current' /\ d[1] \in Keys
      BY Zenon, <1>2, <1>3, <2>1 DEF TypeInv, StorageType
    <2>4. ASSUME NEW d \in lateDeletes'
          PROVE  object'[d[1]] <= d[2]
      <3>1. d[1] \in Keys /\ d[1] # Current /\ d \in lateDeletes
        BY <1>2, <2>1, <2>3
      <3>2. object'[d[1]] = object[d[1]]
        BY Zenon, <2>1, <3>1
      <3> QED
        BY Zenon, <3>1, <3>2 DEF PassGroups, DeletesInv
    <2>5. \A d \in lateDeletes' : \A w \in lateWrites' : d[1] = w[1] => w[2] <= d[2]
      BY SMTT(30), <1>2, <2>1, <2>3, <1>3 DEF PassGroups, DeletesInv
    <2> QED
      BY Zenon, <2>2, <2>3, <2>4, <2>5 DEF DeletesInv
  <1> QED
    BY Zenon, <1>4, <1>5, <1>6 DEF PassGroups

LEMMA PassDropTemp ==
    ASSUME TypeInv, PassGroups, LoneGroups', ByHand, DropTemp
    PROVE  PassGroups'
  <1>1. Only("client") /\ (temp' = 0 \/ temp' = temp)
        /\ (Stays("client", "commit") \/ Ends("client"))
    BY Zenon, StepDropTemp
  <1>2. pc["collector"] = "idle" /\ pc'["collector"] = "idle" /\ ~Retiring
        /\ local'["collector"] = local["collector"] /\ Current' = Current
        /\ (\A d \in lateDeletes : d[1] < Current)
    BY Zenon, <1>1, ClientAlone DEF DropTemp, Current
  <1>3. CollectorInv'
    BY Zenon, <1>2, CollectorFrame DEF PassGroups
  <1>4. ClientInv'
    BY Zenon, <1>1, <1>2 DEF PassGroups, ClientInv, DropTemp, database, Stays, Ends, Now
  <1>5. DeletesInv'
    <2>1. uploads \in Nat
      BY DEF TypeInv, StorageType, Uploads
    <2> QED
      BY <1>1, <1>2, <2>1 DEF PassGroups, DeletesInv, DropTemp
  <1> QED
    BY Zenon, <1>3, <1>4, <1>5 DEF PassGroups

LEMMA PassCommitWrite ==
    ASSUME TypeInv, PassGroups, LoneGroups', ByHand, CommitWrite
    PROVE  PassGroups'
  <1>1. Only("client") /\ Ends("client") /\ Current' = Current
    BY Zenon, StepCommitWrite DEF CommitWrite, Current
  <1>2. CollectorInv' /\ DeletesInv'
    BY Zenon, <1>1, ClientKeepsStorage DEF CommitWrite
  <1>3. ClientInv'
    BY Zenon, <1>1 DEF PassGroups, ClientInv, CommitWrite, storage, Ends, Now
  <1> QED
    BY Zenon, <1>2, <1>3 DEF PassGroups

(* The collector at work on a row: nobody else is, and the content has no  *)
(* registration.                                                           *)
LEMMA CollectorAlone ==
    ASSUME PassGroups, ByHand, Only("collector"), pc["collector"] # "idle" \/ pc["client"] = "idle",
           UNCHANGED <<row, referenced, lateWrites>>,
           UNCHANGED <<object, retired>> \/ row = "none"
    PROVE  ClientInv'
  <1>1. pc["client"] = "idle" /\ pc'["client"] = "idle"
    BY Zenon, Names DEF PassGroups, ClientInv, Only
  <1> QED
    BY Zenon, <1>1 DEF PassGroups, ClientInv, Current

(* A step of the pass that leaves storage and the registry alone.          *)
LEMMA PassKeepsStorage ==
    ASSUME PassGroups, ByHand, Only("collector"), pc["collector"] # "idle" \/ pc["client"] = "idle",
           UNCHANGED <<row, referenced, storage, retired>>
    PROVE  ClientInv' /\ DeletesInv'
  <1>1. ClientInv'
    BY Zenon, CollectorAlone DEF storage
  <1>2. DeletesInv'
    BY Zenon, DeletesFrame DEF PassGroups
  <1> QED
    BY Zenon, <1>1, <1>2

LEMMA PassStartCollect ==
    ASSUME TypeInv, PassGroups, LoneGroups', ByHand, StartCollect
    PROVE  PassGroups'
  <1>1. Only("collector") /\ pc'["collector"] = "next" /\ UNCHANGED <<database, storage, retired>>
    BY Zenon, StepStartCollect DEF StartCollect, Now
  <1>2. ClientInv' /\ DeletesInv'
    BY Zenon, <1>1, PassKeepsStorage DEF database, StartCollect
  <1>3. CollectorInv'
    BY Zenon, <1>1 DEF CollectorInv, Deleting
  <1> QED
    BY Zenon, <1>2, <1>3 DEF PassGroups

LEMMA PassTakeRow ==
    ASSUME TypeInv, PassGroups, LoneGroups', ByHand, TakeRow
    PROVE  PassGroups'
  <1>1. Only("collector") /\ pc["collector"] = "next"
        /\ UNCHANGED <<row, referenced, storage, retired>>
    BY Zenon, StepTakeRow DEF TakeRow
  <1>2. ClientInv' /\ DeletesInv'
    BY Zenon, <1>1, PassKeepsStorage
  <1>3. pc'["collector"] \in {"idle", "check", "next"}
    BY Zenon, LoneTakeRow DEF PassGroups
  <1>4. CollectorInv'
    BY Zenon, <1>3 DEF CollectorInv, Deleting
  <1> QED
    BY Zenon, <1>2, <1>4 DEF PassGroups

LEMMA PassCheckReferenced ==
    ASSUME TypeInv, PassGroups, LoneGroups', ByHand, CheckReferenced
    PROVE  PassGroups'
  <1>1. Only("collector") /\ pc["collector"] = "check"
        /\ UNCHANGED <<row, referenced, storage, retired>>
    BY Zenon, StepCheckReferenced DEF CheckReferenced
  <1>2. ClientInv' /\ DeletesInv'
    BY Zenon, <1>1, PassKeepsStorage
  <1>3. pc'["collector"] = "next" \/ (row = "none" /\ pc'["collector"] = "generation")
    BY Zenon, StepCheckReferenced DEF Advanced, Stays, Now
  <1>4. CollectorInv'
    BY Zenon, <1>1, <1>3 DEF CollectorInv, Deleting
  <1> QED
    BY Zenon, <1>2, <1>4 DEF PassGroups

LEMMA PassReadGeneration ==
    ASSUME TypeInv, PassGroups, LoneGroups', ByHand, ReadGeneration
    PROVE  PassGroups'
  <1>1. Only("collector") /\ pc["collector"] = "generation"
        /\ UNCHANGED <<database, storage, retired>> /\ pc'["collector"] = "issue"
    BY Zenon, StepReadGeneration DEF ReadGeneration, Chosen, Now
  <1>2. ClientInv' /\ DeletesInv'
    BY Zenon, <1>1, PassKeepsStorage DEF database
  <1>3. row' = "none"
    BY Zenon, <1>1 DEF PassGroups, CollectorInv, database
  <1>4. CollectorInv'
    BY Zenon, <1>1, <1>3 DEF CollectorInv
  <1> QED
    BY Zenon, <1>2, <1>4 DEF PassGroups

LEMMA PassMarkIssuing ==
    ASSUME TypeInv, PassGroups, LoneGroups', ByHand, MarkIssuing
    PROVE  PassGroups'
  <1>1. Only("collector") /\ pc["collector"] = "issue"
        /\ UNCHANGED <<row, referenced, storage, retired>> /\ pc'["collector"] = "begin"
    BY Zenon, StepMarkIssuing DEF MarkIssuing, Stays, Now
  <1>2. ClientInv' /\ DeletesInv'
    BY Zenon, <1>1, PassKeepsStorage
  <1>3. row' = "none"
    BY Zenon, <1>1 DEF PassGroups, CollectorInv, Deleting
  <1>4. CollectorInv'
    BY Zenon, <1>1, <1>3 DEF CollectorInv
  <1> QED
    BY Zenon, <1>2, <1>4 DEF PassGroups

LEMMA PassBeginDelete ==
    ASSUME TypeInv, PassGroups, LoneGroups', ByHand, BeginDelete
    PROVE  PassGroups'
  <1>1. Only("collector") /\ pc["collector"] = "begin"
        /\ UNCHANGED <<database, storage, retired>> /\ Journals("collector", "delete")
    BY Zenon, StepBegin, Names DEF BeginDelete
  <1>2. ClientInv' /\ DeletesInv'
    BY Zenon, <1>1, PassKeepsStorage DEF database
  <1>3. pc'["collector"] = "send"
    BY Zenon, <1>1 DEF Journals, Now
  <1>4. row' = "none"
    BY Zenon, <1>1 DEF PassGroups, CollectorInv, Deleting, database
  <1>5. CollectorInv'
    BY Zenon, <1>3, <1>4 DEF CollectorInv
  <1> QED
    BY Zenon, <1>2, <1>5 DEF PassGroups

LEMMA PassDelete ==
    ASSUME TypeInv, PassGroups, LoneGroups', ByHand, Delete
    PROVE  PassGroups'
  <1>1. PICK o : Only("collector") /\ DeleteEffect(local["collector"].gen, o)
                 /\ Now("collector", "resolve", local["collector"].gen, local["collector"].id,
                        o, local["collector"].todo)
    BY Zenon, StepDelete, Names DEF Delete
  <1>2. pc["collector"] = "send" /\ UNCHANGED <<database, retired>>
    BY Zenon DEF Delete
  <1>3. pc'["collector"] = "resolve" /\ local'["collector"].out = o /\ Current' = Current
        /\ row = "none" /\ row' = row /\ local["collector"].gen = Current
    BY Zenon, <1>1, <1>2 DEF Now, Current, PassGroups, LoneGroups, KeyInv, CollectorInv,
       Deleting, database
  <1>4. ClientInv'
    BY Zenon, <1>1, <1>2, <1>3, CollectorAlone DEF DeleteEffect, database
  <1>5. CollectorInv'
    BY Zenon, <1>1, <1>3 DEF CollectorInv, DeleteEffect
  <1>6. DeletesInv'
    <2>1. Current \in Keys /\ Current \in Nat /\ uploads \in Nat
          /\ (\A g \in Keys : object[g] \in Nat)
      <3>1. Current \in Keys
        BY Zenon, Lengths
      <3>2. uploads \in Nat /\ \A g \in Keys : object[g] \in Nat
        BY BoundsAssumption DEF TypeInv, StorageType, Uploads, Objects
      <3>3. Keys \subseteq Nat
        BY BoundsAssumption DEF Keys
      <3> QED
        BY Zenon, <3>1, <3>2, <3>3
    <2>2. UNCHANGED <<uploads, temp, lateWrites>> /\ lateWrites = {}
          /\ (\A k \in Keys : object'[k] = object[k] \/ object'[k] = 0)
          /\ (\A d \in lateDeletes' : d \in lateDeletes \/ d = <<Current, uploads>>)
      BY Zenon, <1>1, <1>3 DEF DeleteEffect, PassGroups, ClientInv
    <2>3. \A g \in Keys : object'[g] <= object[g] /\ object'[g] \in Nat
      BY <2>1, <2>2
    <2>4. (\A g \in Keys : object[g] <= uploads) /\ temp <= uploads
      BY Zenon DEF PassGroups, DeletesInv
    <2>5. \A g \in Keys : object'[g] <= uploads
      BY <2>1, <2>3, <2>4
    <2>6. ASSUME NEW d \in lateDeletes'
          PROVE  object'[d[1]] <= d[2]
      <3>1. CASE d \in lateDeletes
        <4>1. d[1] \in Keys /\ d[2] \in Nat /\ object[d[1]] <= d[2]
          BY <3>1 DEF PassGroups, DeletesInv, TypeInv, StorageType, Uploads
        <4>2. object'[d[1]] <= object[d[1]] /\ object'[d[1]] \in Nat /\ object[d[1]] \in Nat
          BY ZenonT(40), <2>1, <2>3, <4>1
        <4> QED
          BY <4>1, <4>2
      <3>2. CASE d = <<Current, uploads>>
        BY Zenon, <2>1, <2>5, <3>2
      <3> QED
        BY Zenon, <2>2, <2>6, <3>1, <3>2
    <2> QED
      BY Zenon, <2>2, <2>4, <2>5, <2>6 DEF DeletesInv
  <1> QED
    BY Zenon, <1>4, <1>5, <1>6 DEF PassGroups

LEMMA PassResolveDelete ==
    ASSUME TypeInv, PassGroups, LoneGroups', ByHand, ResolveDelete
    PROVE  PassGroups'
  <1>1. Only("collector") /\ pc["collector"] = "resolve" /\ Stays("collector", "mark")
        /\ UNCHANGED <<database, storage, retired>>
    BY Zenon, StepResolveDelete DEF ResolveDelete
  <1>2. pc'["collector"] = "mark" /\ local'["collector"].out = local["collector"].out
        /\ Current' = Current
    BY Zenon, <1>1 DEF Stays, Now, Current
  <1>3. ClientInv' /\ DeletesInv'
    BY Zenon, <1>1, PassKeepsStorage DEF database
  <1>4. CollectorInv'
    BY Zenon, <1>1, <1>2 DEF PassGroups, CollectorInv, Deleting, database, storage
  <1> QED
    BY Zenon, <1>3, <1>4 DEF PassGroups

LEMMA PassMarkOutcome ==
    ASSUME TypeInv, PassGroups, LoneGroups', ByHand, MarkOutcome
    PROVE  PassGroups'
  <1>1. Only("collector") /\ pc["collector"] = "mark"
        /\ UNCHANGED <<row, referenced, storage, retired>>
    BY Zenon, Concludes DEF MarkOutcome
  <1>2. ClientInv' /\ DeletesInv'
    BY Zenon, <1>1, PassKeepsStorage
  <1>3. pc'["collector"] \in {"next", "retire"}
    BY Zenon, Concludes DEF MarkOutcome, Advanced, Stays, Now
  <1>4. row' = "none"
    BY Zenon, <1>1 DEF PassGroups, CollectorInv, Deleting
  <1>5. CollectorInv'
    BY Zenon, <1>3, <1>4 DEF CollectorInv
  <1> QED
    BY Zenon, <1>2, <1>5 DEF PassGroups

LEMMA PassRetire ==
    ASSUME TypeInv, PassGroups, LoneGroups', ByHand, Retire
    PROVE  PassGroups'
  <1>1. Only("collector") /\ pc["collector"] = "retire" /\ pc'["collector"] = "retired"
        /\ UNCHANGED <<database, storage>>
    BY Zenon, StepRetire DEF Retire, Stays, Now
  <1>2. row = "none" /\ row' = "none"
    BY Zenon, <1>1 DEF PassGroups, CollectorInv, Deleting, database
  <1>3. ClientInv'
    BY Zenon, <1>1, <1>2, CollectorAlone DEF database, storage
  <1>4. CollectorInv'
    BY Zenon, <1>1, <1>2 DEF CollectorInv
  <1>5. DeletesInv'
    BY Zenon, <1>1, DeletesFrame DEF PassGroups
  <1> QED
    BY Zenon, <1>3, <1>4, <1>5 DEF PassGroups

LEMMA PassMarkRetired ==
    ASSUME TypeInv, PassGroups, LoneGroups', ByHand, MarkRetired
    PROVE  PassGroups'
  <1>1. Only("collector") /\ pc["collector"] = "retired" /\ pc'["collector"] = "next"
        /\ UNCHANGED <<row, referenced, storage, retired>>
    BY Zenon, StepMarkRetired DEF MarkRetired, Advanced, Now
  <1>2. ClientInv' /\ DeletesInv'
    BY Zenon, <1>1, PassKeepsStorage
  <1>3. CollectorInv'
    BY Zenon, <1>1 DEF CollectorInv, Deleting
  <1> QED
    BY Zenon, <1>2, <1>3 DEF PassGroups

(* The store applies a request nobody waits for any more.                  *)
LEMMA PassLateDelete ==
    ASSUME TypeInv, PassGroups, LoneGroups', LateDelete
    PROVE  PassGroups'
  <1>1. PICK d \in lateDeletes : /\ lateDeletes' = lateDeletes \ {d}
                                 /\ object' = [object EXCEPT ![d[1]] = 0]
    BY ZenonT(40) DEF LateDelete
  <1>2. UNCHANGED <<database, uploads, temp, lateWrites, retired, pc, local>>
    BY Zenon DEF LateDelete
  <1>3. d[1] \in Keys /\ Current \in Keys /\ Current' = Current
        /\ (\A g \in Keys : object'[g] = IF g = d[1] THEN 0 ELSE object[g])
    BY Zenon, <1>1, <1>2, Lengths DEF TypeInv, StorageType, Current
  <1>4. d[1] = Current => row = "none" /\ pc["client"] = "idle" /\ pc["collector"] # "idle"
    <2>1. d[1] = Current => Retiring
      BY <1>3, BoundsAssumption DEF PassGroups, LoneGroups, KeyInv, Keys
    <2>2. Retiring => pc["collector"] \in Deleting /\ pc["collector"] # "idle"
      BY Zenon DEF Retiring, Deleting
    <2> QED
      BY Zenon, <2>1, <2>2 DEF PassGroups, ClientInv, CollectorInv
  <1>5. ClientInv'
    BY Zenon, <1>2, <1>3, <1>4 DEF PassGroups, ClientInv, database
  <1>6. CollectorInv'
    BY Zenon, <1>2, <1>3 DEF PassGroups, CollectorInv, database
  <1>7. DeletesInv'
    <2>2. \A g \in Keys : object[g] \in Nat /\ object'[g] <= object[g] /\ object'[g] \in Nat
      BY SMTT(30), <1>3, BoundsAssumption DEF TypeInv, StorageType, Objects
    <2>3. uploads \in Nat /\ \A e \in lateDeletes : e[1] \in Keys /\ e[2] \in Nat
      BY DEF TypeInv, StorageType, Uploads
    <2>4. \A g \in Keys : object'[g] <= uploads
      BY <2>2, <2>3 DEF PassGroups, DeletesInv
    <2>5. \A e \in lateDeletes : object'[e[1]] <= e[2]
      <3>1. \A e \in lateDeletes : object[e[1]] <= e[2]
        BY Zenon DEF PassGroups, DeletesInv
      <3> QED
        BY SMTT(30), <2>2, <2>3, <3>1
    <2> QED
      BY Zenon, <1>1, <1>2, <2>4, <2>5 DEF PassGroups, DeletesInv
  <1> QED
    BY Zenon, <1>5, <1>6, <1>7 DEF PassGroups

LEMMA PassLateWrite ==
    ASSUME TypeInv, PassGroups, LoneGroups', LateWrite
    PROVE  PassGroups'
  <1>1. PICK w \in lateWrites : /\ lateWrites' = lateWrites \ {w}
                                /\ object' = [object EXCEPT ![w[1]] = w[2]]
    BY ZenonT(40) DEF LateWrite
  <1>2. UNCHANGED <<database, uploads, temp, lateDeletes, retired, pc, local>>
    BY Zenon DEF LateWrite
  <1>3. w[1] \in Keys /\ w[2] # 0 /\ Current \in Keys /\ Current' = Current
        /\ (\A g \in Keys : object'[g] = IF g = w[1] THEN w[2] ELSE object[g])
    BY SMTT(30), <1>1, <1>2, Lengths, BoundsAssumption DEF TypeInv, StorageType, Uploads, Current
  <1>4. row # "none"
    BY Zenon, <1>1 DEF PassGroups, ClientInv
  <1>5. ClientInv'
    BY ZenonT(40), <1>1, <1>2, <1>3, <1>4 DEF PassGroups, ClientInv, database
  <1>6. CollectorInv'
    BY ZenonT(40), <1>2, <1>3, <1>4 DEF PassGroups, CollectorInv, Deleting, database
  <1>7. DeletesInv'
    <2>2. \A e \in lateDeletes : e[1] \in Keys
      BY Zenon DEF TypeInv, StorageType
    <2>3. \A g \in Keys : object'[g] <= uploads
      BY Zenon, <1>1, <1>3 DEF PassGroups, DeletesInv
    <2>4. \A e \in lateDeletes : object'[e[1]] <= e[2]
      BY Zenon, <1>1, <1>3, <2>2 DEF PassGroups, DeletesInv
    <2> QED
      BY Zenon, <1>1, <1>2, <2>3, <2>4 DEF PassGroups, DeletesInv
  <1> QED
    BY Zenon, <1>5, <1>6, <1>7 DEF PassGroups

LEMMA PassStep ==
    ASSUME TypeInv, NoWork, PassInv, LoneInv', [Next]_vars
    PROVE  PassInv'
  <1> SUFFICES ASSUME QuietPass'
               PROVE  PassGroups'
    BY Zenon DEF PassInv
  <1>1. LonePass' /\ LoneGroups' /\ ByHand
    BY Zenon DEF QuietPass, LonePass, LoneInv
  <1>2. /\ LonePass /\ ~DeleteRecord
        /\ ClientStep \/ CollectorStep \/ LateDelete \/ LateWrite \/ UNCHANGED vars
    BY Zenon, <1>1, LoneActions
  <1>3. PassGroups
    BY Zenon, <1>1, <1>2 DEF QuietPass, LonePass, PassInv
  <1>4. CASE ClientStep
    BY Zenon, <1>1, <1>2, <1>3, <1>4, PassUploadBlob, PassStartWrite, PassClient,
       PassCopy, PassDropTemp, PassCommitWrite DEF ClientStep
  <1>5. CASE CollectorStep
    <2>1. ~RecoverIssuing
      BY Zenon, <1>3 DEF RecoverIssuing, PassGroups, LoneGroups, KeyInv
    <2> QED
      BY Zenon, <1>1, <1>3, <1>5, <2>1, PassStartCollect, PassTakeRow,
         PassCheckReferenced, PassReadGeneration, PassMarkIssuing, PassBeginDelete,
         PassDelete, PassResolveDelete, PassMarkOutcome, PassRetire, PassMarkRetired DEF
         CollectorStep
  <1>6. CASE UNCHANGED vars
    <2>1. UNCHANGED <<database, storage, retired, pc, local>>
      BY Zenon, <1>6 DEF vars
    <2>2. DeletesInv'
      BY Zenon, <1>3, <2>1, DeletesFrame DEF PassGroups
    <2>3. ClientInv' /\ CollectorInv'
      BY ZenonT(40), <1>3, <2>1 DEF PassGroups, ClientInv, CollectorInv, database, storage, Current
    <2> QED
      BY Zenon, <1>1, <2>2, <2>3 DEF PassGroups
  <1> QED
    BY Zenon, <1>1, <1>2, <1>3, <1>4, <1>5, <1>6, PassLateDelete, PassLateWrite

BlobInv == TypeInv /\ NoWork /\ JournalInv /\ LoneInv /\ PassInv

(* The types, the journal, the lone collector and the quiet pass, for      *)
(* every behaviour.                                                        *)
THEOREM BlobInvariant == Spec => []BlobInv
  <1>1. Init => LoneInv /\ PassInv
    <2> SUFFICES ASSUME Init PROVE PassGroups
      BY Zenon DEF LoneInv, PassInv, PassGroups
    <2>1. pc["client"] = "idle" /\ pc["collector"] = "idle" /\ Todo = <<>>
      BY Zenon, Names DEF Init, Todo, NoLocals
    <2>2. ClientInv /\ CollectorInv /\ KeyInv
      BY Zenon, <2>1 DEF Init, ClientInv, CollectorInv, KeyInv, Deleting
    <2>3. RowsInv
      <3>1. DOMAIN Todo = {}
        BY <2>1
      <3>2. \A i \in DOMAIN work : work[i] \notin Unfinished
        BY Zenon DEF Init, Unfinished
      <3> QED
        BY Zenon, <2>1, <3>1, <3>2 DEF RowsInv, Between
    <2>4. DeletesInv
      BY DEF Init, DeletesInv
    <2> QED
      BY Zenon, <2>2, <2>3, <2>4 DEF PassGroups, LoneGroups
  <1>2. TypeInv /\ NoWork /\ LoneInv /\ [Next]_vars => LoneInv'
    BY Zenon, LoneStep
  <1>3. TypeInv /\ NoWork /\ PassInv /\ LoneInv' /\ [Next]_vars => PassInv'
    BY Zenon, PassStep
  <1> QED
    BY <1>1, <1>2, <1>3, JournalInvariant, PTL DEF Spec, BlobInv

(* As long as the collector is run by hand on a quiet server, no record is *)
(* deleted and nothing died, no delete the store may still apply can hit   *)
(* an object uploaded after it was sent, whatever the store answers and    *)
(* however late: a key whose delete is unconfirmed is retired before the   *)
(* server takes uploads again (collector.rs, Retire).                      *)
THEOREM OldDeletesMissNewObjects ==
    Spec => [](QuietPass => OldDeleteNamesNoNewObject)
  <1>1. BlobInv => (QuietPass => OldDeleteNamesNoNewObject)
    BY Zenon DEF BlobInv, PassInv, PassGroups, DeletesInv, OldDeleteNamesNoNewObject
  <1> QED
    BY <1>1, BlobInvariant, PTL

(* Under the same conditions a content some record names is stored at the  *)
(* key reads resolve to: neither a pass nor a late delete takes it away.   *)
THEOREM ReferencedStaysStored ==
    Spec => [](QuietPass => ReferencedIsStored)
  <1>1. BlobInv => (QuietPass => ReferencedIsStored)
    BY Zenon DEF BlobInv, PassInv, PassGroups, ClientInv, ReferencedIsStored
  <1> QED
    BY <1>1, BlobInvariant, PTL

(* As long as no record is deleted and nothing died, and whether or not    *)
(* the server takes uploads and writes beside the collector, the rows are  *)
(* all final only when every delete the store may still apply names a      *)
(* retired key.                                                            *)
THEOREM AmbiguousStaysRetired ==
    Spec => [](LonePass => AmbiguousIsRetired)
  <1>1. BlobInv => (LonePass => AmbiguousIsRetired)
    <2> SUFFICES ASSUME TypeInv, RowsInv, KeyInv,
                        \A i \in DOMAIN work : work[i] \in {"done", "retired", "superseded"},
                        NEW d \in lateDeletes
                 PROVE  IsRetired(d[1])
      BY Zenon DEF BlobInv, LoneInv, LoneGroups, AmbiguousIsRetired
    <2>1. ~Retiring
      <3>1. ASSUME pc["collector"] \in {"resolve", "mark", "retire"}
            PROVE  FALSE
        <4>1. work[RowId] \in Unfinished /\ DOMAIN Todo # {}
          BY Zenon, <3>1 DEF RowsInv, Between
        <4>2. RowId \in DOMAIN work
          BY Zenon, <4>1, RowIdIsFirst
        <4> QED
          BY Zenon, <4>1, <4>2 DEF Unfinished
      <3> QED
        BY Zenon, <3>1 DEF Retiring
    <2>2. d[1] < Current /\ d[1] \in Nat /\ Current \in Nat /\ DOMAIN retired = 1 .. Current
      BY SMTT(30), <2>1, Lengths, BoundsAssumption DEF KeyInv, TypeInv, StorageType, Keys
    <2>3. d[1] + 1 \in DOMAIN retired /\ retired[d[1] + 1] = (d[1] + 1) - 1
      BY <2>2 DEF TypeInv, RegistryType, OneKeyInUse
    <2> QED
      BY <2>2, <2>3 DEF IsRetired
  <1> QED
    BY <1>1, BlobInvariant, PTL

(* On a quiet server, as above, the collector calls a row done only when   *)
(* the object of the row's key is gone.                                    *)
THEOREM DoneRowsAreGone ==
    Spec /\ []QuietPass => DoneIsGone
  <1>1. BlobInv /\ QuietPass /\ [Next]_vars => [GoneWhenDone]_vars
    <2> SUFFICES ASSUME BlobInv, QuietPass, Next, NEW i \in DOMAIN work, work[i] # "done",
                        work'[i] = "done", pc["collector"] \in {"mark", "recover"}
                 PROVE  object[local["collector"].gen] = 0
      BY Zenon DEF GoneWhenDone
    <2>1. TypeInv /\ NoWork /\ CollectorInv /\ KeyInv /\ ~Worker /\ pc["worker"] = "idle"
          /\ pc["collector"] = "mark"
      BY Zenon DEF BlobInv, PassInv, PassGroups, LoneGroups, KeyInv, QuietPass, NoWork
    <2>2. work' # work
      BY Zenon
    <2>3. MarkOutcome
      BY ZenonT(40), <2>1, <2>2 DEF Next, ClientStep, WorkerStep, CollectorStep, UploadBlob, StartWrite,
         CheckStored, BeginCopy, Copy, ResolveCopy, DropTemp, CommitWrite, DeleteRecord,
         StartWork, WorkerGeneration, WorkerBegin, WorkerDelete, WorkerResolve, WorkerFinish,
         StartCollect, TakeRow, CheckReferenced, ReadGeneration, MarkIssuing, BeginDelete,
         Delete, ResolveDelete, RecoverIssuing, Retire, MarkRetired, LateDelete,
         LateWrite, Stop, database
    <2>4. local["collector"].out = "succeeded"
      <3>1. \A s \in {"failed", "ambiguous"} : ~Wrote(s)
        BY ZenonT(40) DEF Wrote
      <3> QED
        BY ZenonT(40), <2>1, <2>3, <3>1, Concludes DEF MarkOutcome
    <2> QED
      BY Zenon, <2>1, <2>4 DEF CollectorInv, KeyInv, Deleting
  <1> QED
    BY <1>1, BlobInvariant, PTL DEF Spec, DoneIsGone

=============================================================================
