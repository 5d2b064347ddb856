------------------------- MODULE BlobCollectorSteps -------------------------
(***************************************************************************)
(* Type correctness of BlobCollector and the order of its retirements, for *)
(* any number of uploads, attempts, rows, retirements and crashes; what    *)
(* each step does to the process that takes it; and the journal of         *)
(* attempts, with its inductive invariant.                                 *)
(***************************************************************************)
EXTENDS BlobCollector, WellFoundedInduction, TLAPS

----------------------------------------------------------------------------
(* Types, one group of variables at a time.                                *)
Attempts == [key : Keys, op : {"write", "delete"}, out : Outcomes]
Todos == UNION {[S -> WorkStates] : S \in SUBSET (1 .. MaxWork)}
Frames == [gen : Keys, id : 0 .. MaxAttempts, out : Outcomes, todo : Todos]

DatabaseType ==
    /\ row \in {"none", "temp", "permanent"} /\ referenced \in BOOLEAN
    /\ work \in Seq(WorkStates) /\ Len(work) <= MaxWork
StorageType ==
    /\ uploads \in Uploads /\ temp \in Objects /\ object \in [Keys -> Objects]
    /\ lateDeletes \subseteq Keys \X Uploads /\ lateWrites \subseteq Keys \X Uploads
JournalType == attempts \in Seq(Attempts) /\ Len(attempts) <= MaxAttempts
ProcsType ==
    /\ pc \in [Procs -> Labels] /\ local \in [Procs -> Frames]
    /\ \A p \in Procs : /\ local[p].gen <= Len(retired)
                        /\ local[p].id <= Len(attempts)
                        /\ DOMAIN local[p].todo \subseteq DOMAIN work

(* The registry retires the keys in order.                                 *)
RegistryType == retired \in Seq(Keys) /\ Len(retired) <= MaxGen /\ OneKeyInUse

TypeInv ==
    /\ DatabaseType /\ StorageType /\ JournalType /\ RegistryType /\ ProcsType
    /\ crashes \in 0 .. MaxCrashes

----------------------------------------------------------------------------
(* Types.                                                                  *)

LEMMA Lengths ==
    ASSUME TypeInv
    PROVE  /\ Len(work) \in 0 .. MaxWork /\ DOMAIN work = 1 .. Len(work)
           /\ Len(attempts) \in 0 .. MaxAttempts /\ DOMAIN attempts = 1 .. Len(attempts)
           /\ Len(retired) \in Keys /\ DOMAIN retired = 1 .. Len(retired)
           /\ Current = Len(retired)
  BY BoundsAssumption DEF TypeInv, DatabaseType, JournalType, RegistryType, Current, Keys

LEMMA Untouched ==
    ASSUME TypeInv
    PROVE  /\ UNCHANGED database => DatabaseType'
           /\ UNCHANGED storage => StorageType'
           /\ UNCHANGED attempts => JournalType'
           /\ UNCHANGED retired => RegistryType'
           /\ UNCHANGED crashes => crashes' \in 0 .. MaxCrashes
  BY Zenon DEF TypeInv, DatabaseType, StorageType, JournalType, RegistryType, OneKeyInUse,
     database, storage

(* The journal, the registry and the table of rows only grow.              *)
Grows ==
    /\ Len(attempts) \in Nat /\ Len(attempts') \in Nat /\ Len(attempts) <= Len(attempts')
    /\ Len(retired) \in Nat /\ Len(retired') \in Nat /\ Len(retired) <= Len(retired')
    /\ DOMAIN work \subseteq DOMAIN work'

LEMMA SameGrows ==
    ASSUME TypeInv, UNCHANGED <<attempts, retired, work>>
    PROVE  Grows
  BY Lengths, BoundsAssumption DEF Grows, Keys

LEMMA FrameFields ==
    ASSUME NEW f \in Frames
    PROVE  f.gen \in Keys /\ f.id \in 0 .. MaxAttempts /\ f.out \in Outcomes /\ f.todo \in Todos
  BY Zenon DEF Frames

LEMMA GenFrame ==
    ASSUME NEW f \in Frames, NEW g \in Keys
    PROVE  /\ [f EXCEPT !.gen = g] \in Frames
           /\ [f EXCEPT !.gen = g].gen = g /\ [f EXCEPT !.gen = g].id = f.id
           /\ [f EXCEPT !.gen = g].out = f.out /\ [f EXCEPT !.gen = g].todo = f.todo
  BY Zenon DEF Frames

LEMMA IdFrame ==
    ASSUME NEW f \in Frames, NEW i \in 0 .. MaxAttempts
    PROVE  /\ [f EXCEPT !.id = i] \in Frames
           /\ [f EXCEPT !.id = i].gen = f.gen /\ [f EXCEPT !.id = i].id = i
           /\ [f EXCEPT !.id = i].out = f.out /\ [f EXCEPT !.id = i].todo = f.todo
  BY Zenon DEF Frames

LEMMA OutFrame ==
    ASSUME NEW f \in Frames, NEW o \in Outcomes
    PROVE  /\ [f EXCEPT !.out = o] \in Frames
           /\ [f EXCEPT !.out = o].gen = f.gen /\ [f EXCEPT !.out = o].id = f.id
           /\ [f EXCEPT !.out = o].out = o /\ [f EXCEPT !.out = o].todo = f.todo
  BY Zenon DEF Frames

LEMMA TodoFrame ==
    ASSUME NEW f \in Frames, NEW t \in Todos
    PROVE  /\ [f EXCEPT !.todo = t] \in Frames
           /\ [f EXCEPT !.todo = t].gen = f.gen /\ [f EXCEPT !.todo = t].id = f.id
           /\ [f EXCEPT !.todo = t].out = f.out /\ [f EXCEPT !.todo = t].todo = t
  BY Zenon DEF Frames

LEMMA NoLocalsType ==
    /\ NoLocals \in Frames /\ NoLocals.gen = 0 /\ NoLocals.id = 0 /\ NoLocals.out = "none"
    /\ NoLocals.todo = <<>> /\ DOMAIN NoLocals.todo = {}
  <1>1. <<>> \in [{} -> WorkStates] /\ {} \in SUBSET (1 .. MaxWork) /\ DOMAIN <<>> = {}
    OBVIOUS
  <1>2. <<>> \in Todos
    BY <1>1, Zenon DEF Todos
  <1> QED
    BY <1>1, <1>2, BoundsAssumption DEF NoLocals, Frames, Keys, Outcomes

(* The rows a pass reads.                                                  *)
LEMMA RowsType ==
    ASSUME TypeInv, NEW S
    PROVE  /\ Rows(S) \in Todos
           /\ DOMAIN Rows(S) = {j \in DOMAIN work : work[j] \in S}
           /\ \A i \in DOMAIN Rows(S) : Rows(S)[i] = work[i]
  <1> DEFINE D == {j \in DOMAIN work : work[j] \in S}
  <1>1. D \in SUBSET (1 .. MaxWork)
    BY Lengths, BoundsAssumption
  <1>2. \A i \in D : work[i] \in WorkStates
    BY DEF TypeInv, DatabaseType
  <1>3. Rows(S) = [i \in D |-> work[i]]
    BY Zenon DEF Rows
  <1> HIDE DEF D
  <1>4. Rows(S) \in [D -> WorkStates] /\ DOMAIN Rows(S) = D
        /\ \A i \in D : Rows(S)[i] = work[i]
    BY <1>2, <1>3, Zenon
  <1>5. Rows(S) \in Todos
    BY <1>1, <1>4, Zenon DEF Todos
  <1> QED
    BY <1>4, <1>5, Zenon DEF D

(* The other processes do not notice a step of p.                          *)
Only(p) == \A q \in Procs \ {p} : pc'[q] = pc[q] /\ local'[q] = local[q]

(* The process goes on at l.                                               *)
Now(p, l, g, i, o, t) ==
    /\ pc'[p] = l /\ local'[p].gen = g /\ local'[p].id = i
    /\ local'[p].out = o /\ local'[p].todo = t

LEMMA Goes ==
    ASSUME ProcsType, Grows, NEW p \in Procs, NEW l \in Labels, NEW f \in Frames,
           f.gen <= Len(retired'), f.id <= Len(attempts'), DOMAIN f.todo \subseteq DOMAIN work',
           pc' = [pc EXCEPT ![p] = l], local' = [local EXCEPT ![p] = f]
    PROVE  ProcsType' /\ Only(p) /\ pc'[p] = l /\ local'[p] = f
  <1>1. pc' \in [Procs -> Labels] /\ local' \in [Procs -> Frames] /\ pc'[p] = l
        /\ local'[p] = f /\ Only(p)
    BY Zenon DEF ProcsType, Only
  <1>2. ASSUME NEW q \in Procs
        PROVE  /\ local'[q].gen <= Len(retired') /\ local'[q].id <= Len(attempts')
               /\ DOMAIN local'[q].todo \subseteq DOMAIN work'
    <2>1. CASE q = p
      BY <1>1, <2>1, Zenon
    <2>2. CASE q # p
      <3>1. local'[q] = local[q] /\ local[q] \in Frames
        BY Zenon, <1>1, <2>2 DEF Only, ProcsType
      <3>2. local[q].gen \in Nat /\ local[q].id \in Nat
        BY <3>1, FrameFields, BoundsAssumption DEF Keys
      <3> QED
        BY <3>1, <3>2 DEF ProcsType, Grows
    <2> QED
      BY Zenon, <2>1, <2>2
  <1> QED
    BY Zenon, <1>1, <1>2 DEF ProcsType

LEMMA Own ==
    ASSUME TypeInv, NEW p \in Procs
    PROVE  /\ local[p] \in Frames /\ local[p].gen \in Keys /\ local[p].gen <= Len(retired)
           /\ local[p].id \in 0 .. MaxAttempts /\ local[p].id <= Len(attempts)
           /\ local[p].out \in Outcomes /\ local[p].todo \in Todos
           /\ DOMAIN local[p].todo \subseteq DOMAIN work
           /\ ProcsType /\ pc[p] \in Labels
  BY Zenon, FrameFields DEF TypeInv, ProcsType

(* What assigning one variable of the frame does.                          *)
LEMMA Keeps ==
    ASSUME TypeInv, Grows, NEW p \in Procs, NEW l \in Labels, Keep(p, l)
    PROVE  /\ ProcsType' /\ Only(p)
           /\ Now(p, l, local[p].gen, local[p].id, local[p].out, local[p].todo)
  <1>1. pc' = [pc EXCEPT ![p] = l] /\ local' = [local EXCEPT ![p] = local[p]]
    BY Zenon DEF Keep, Goto, TypeInv, ProcsType
  <1>2. local[p].gen <= Len(retired') /\ local[p].id <= Len(attempts')
        /\ DOMAIN local[p].todo \subseteq DOMAIN work'
    BY Own, BoundsAssumption DEF Grows, Keys
  <1> QED
    BY <1>1, <1>2, Own, Goes, Zenon DEF Now

LEMMA Returns ==
    ASSUME TypeInv, Grows, NEW p \in Procs, Return(p)
    PROVE  ProcsType' /\ Only(p) /\ Now(p, "idle", 0, 0, "none", <<>>)
  <1>1. pc' = [pc EXCEPT ![p] = "idle"] /\ local' = [local EXCEPT ![p] = NoLocals]
        /\ ProcsType
    BY Zenon DEF Return, Goto, TypeInv
  <1>2. NoLocals.gen <= Len(retired') /\ NoLocals.id <= Len(attempts')
        /\ DOMAIN NoLocals.todo \subseteq DOMAIN work' /\ "idle" \in Labels
    BY NoLocalsType DEF Grows, Labels
  <1> QED
    BY <1>1, <1>2, NoLocalsType, Goes, Zenon DEF Now

Reading(p, g) == local' = [local EXCEPT ![p].gen = g]

LEMMA Reads ==
    ASSUME TypeInv, Grows, NEW p \in Procs, NEW l \in Labels, NEW g \in Keys,
           g <= Len(retired), Goto(p, l), Reading(p, g)
    PROVE  /\ ProcsType' /\ Only(p)
           /\ Now(p, l, g, local[p].id, local[p].out, local[p].todo)
  <1> DEFINE f == [local[p] EXCEPT !.gen = g]
  <1>1. pc' = [pc EXCEPT ![p] = l] /\ local' = [local EXCEPT ![p] = f]
    BY Zenon DEF Goto, Reading
  <1>2. f \in Frames /\ f.gen = g /\ f.id = local[p].id /\ f.out = local[p].out
        /\ f.todo = local[p].todo
    BY Own, GenFrame, Zenon
  <1> HIDE DEF f
  <1>3. f.gen <= Len(retired') /\ f.id <= Len(attempts') /\ DOMAIN f.todo \subseteq DOMAIN work'
    BY <1>2, Own, BoundsAssumption DEF Grows, Keys
  <1>4. ProcsType' /\ Only(p) /\ pc'[p] = l /\ local'[p] = f
    BY <1>1, <1>2, <1>3, Own, Goes, Zenon
  <1> QED
    BY <1>2, <1>4, Zenon DEF Now

LEMMA Hears ==
    ASSUME TypeInv, Grows, NEW p \in Procs, NEW l \in Labels, NEW o \in Outcomes,
           Goto(p, l), Heard(p, o)
    PROVE  /\ ProcsType' /\ Only(p)
           /\ Now(p, l, local[p].gen, local[p].id, o, local[p].todo)
  <1> DEFINE f == [local[p] EXCEPT !.out = o]
  <1>1. pc' = [pc EXCEPT ![p] = l] /\ local' = [local EXCEPT ![p] = f]
    BY Zenon DEF Goto, Heard
  <1>2. f \in Frames /\ f.gen = local[p].gen /\ f.id = local[p].id /\ f.out = o
        /\ f.todo = local[p].todo
    BY Own, OutFrame, Zenon
  <1> HIDE DEF f
  <1>3. f.gen <= Len(retired') /\ f.id <= Len(attempts') /\ DOMAIN f.todo \subseteq DOMAIN work'
    BY <1>2, Own, BoundsAssumption DEF Grows, Keys
  <1>4. ProcsType' /\ Only(p) /\ pc'[p] = l /\ local'[p] = f
    BY <1>1, <1>2, <1>3, Own, Goes, Zenon
  <1> QED
    BY <1>2, <1>4, Zenon DEF Now

Listing(p, S) == local' = [local EXCEPT ![p].todo = Rows(S)]

LEMMA Lists ==
    ASSUME TypeInv, Grows, NEW p \in Procs, NEW l \in Labels, NEW S,
           Goto(p, l), Listing(p, S)
    PROVE  /\ ProcsType' /\ Only(p)
           /\ Now(p, l, local[p].gen, local[p].id, local[p].out, Rows(S))
  <1> DEFINE f == [local[p] EXCEPT !.todo = Rows(S)]
  <1>1. pc' = [pc EXCEPT ![p] = l] /\ local' = [local EXCEPT ![p] = f]
    BY Zenon DEF Goto, Listing
  <1>2. f \in Frames /\ f.gen = local[p].gen /\ f.id = local[p].id /\ f.out = local[p].out
        /\ f.todo = Rows(S)
    <2>1. Rows(S) \in Todos
      BY ZenonT(40), RowsType
    <2> QED
      BY <2>1, Own, TodoFrame, Zenon
  <1> HIDE DEF f
  <1>3. f.gen <= Len(retired') /\ f.id <= Len(attempts') /\ DOMAIN f.todo \subseteq DOMAIN work'
    <2>1. DOMAIN Rows(S) \subseteq DOMAIN work
      BY ZenonT(40), RowsType
    <2> QED
      BY <1>2, <2>1, Own, BoundsAssumption DEF Grows, Keys
  <1>4. ProcsType' /\ Only(p) /\ pc'[p] = l /\ local'[p] = f
    BY <1>1, <1>2, <1>3, Own, Goes, Zenon
  <1> QED
    BY <1>2, <1>4, Zenon DEF Now

(* An attempt is journaled.                                                *)
LEMMA Begins ==
    ASSUME TypeInv, NEW p \in Procs, NEW l \in Labels, NEW op \in {"write", "delete"},
           Goto(p, l), Begin(p, op), UNCHANGED <<retired, work>>
    PROVE  /\ JournalType' /\ ProcsType' /\ Only(p)
           /\ Now(p, l, local[p].gen, Len(attempts) + 1, local[p].out, local[p].todo)
           /\ Len(attempts) \in Nat /\ Len(attempts') = Len(attempts) + 1
           /\ DOMAIN attempts' = DOMAIN attempts \cup {Len(attempts) + 1}
           /\ Len(attempts) + 1 \notin DOMAIN attempts
           /\ \A i \in DOMAIN attempts : attempts'[i] = attempts[i]
           /\ attempts'[Len(attempts) + 1].key = local[p].gen
           /\ attempts'[Len(attempts) + 1].op = op
           /\ attempts'[Len(attempts) + 1].out = "none"
  <1> DEFINE f == [local[p] EXCEPT !.id = Len(attempts) + 1]
             a == [key |-> local[p].gen, op |-> op, out |-> "none"]
  <1>1. pc' = [pc EXCEPT ![p] = l] /\ local' = [local EXCEPT ![p] = f]
        /\ Len(attempts) < MaxAttempts /\ attempts' = Append(attempts, a)
    BY Zenon DEF Goto, Begin
  <1>2. Len(attempts) + 1 \in 0 .. MaxAttempts /\ Len(attempts) \in Nat
    BY <1>1, Lengths, BoundsAssumption
  <1>3. f \in Frames /\ f.gen = local[p].gen /\ f.id = Len(attempts) + 1
        /\ f.out = local[p].out /\ f.todo = local[p].todo
    BY <1>2, Own, IdFrame, Zenon
  <1>4. a \in Attempts /\ a.key = local[p].gen /\ a.op = op /\ a.out = "none"
    BY Zenon, Own DEF Attempts, Outcomes
  <1> HIDE DEF f, a
  <1>5. attempts \in Seq(Attempts)
    BY Zenon DEF TypeInv, JournalType
  <1>6. attempts' \in Seq(Attempts) /\ Len(attempts') = Len(attempts) + 1
        /\ attempts'[Len(attempts) + 1] = a
        /\ \A i \in 1 .. Len(attempts) : attempts'[i] = attempts[i]
    BY <1>1, <1>4, <1>5
  <1>7. DOMAIN attempts = 1 .. Len(attempts) /\ DOMAIN attempts' = 1 .. Len(attempts) + 1
    BY <1>5, <1>6
  <1>8. JournalType'
    BY <1>2, <1>6 DEF JournalType
  <1>9. Grows /\ f.gen <= Len(retired') /\ f.id <= Len(attempts')
        /\ DOMAIN f.todo \subseteq DOMAIN work'
    BY <1>2, <1>3, <1>6, Own, Lengths, BoundsAssumption DEF Grows, Keys
  <1>10. ProcsType' /\ Only(p)
         /\ Now(p, l, local[p].gen, Len(attempts) + 1, local[p].out, local[p].todo)
    BY ZenonT(40), <1>1, <1>3, <1>9, Own, Goes DEF Now
  <1>11. DOMAIN attempts' = DOMAIN attempts \cup {Len(attempts) + 1}
         /\ Len(attempts) + 1 \notin DOMAIN attempts
    BY <1>2, <1>7
  <1> QED
    BY <1>2, <1>4, <1>6, <1>7, <1>8, <1>10, <1>11, Zenon

(* Its outcome is recorded.                                                *)
LEMMA Resolves ==
    ASSUME TypeInv, NEW p \in Procs, Resolve(p)
    PROVE  /\ JournalType' /\ Len(attempts') = Len(attempts)
           /\ DOMAIN attempts' = DOMAIN attempts
           /\ \A i \in DOMAIN attempts :
                 /\ attempts'[i].key = attempts[i].key /\ attempts'[i].op = attempts[i].op
                 /\ attempts'[i].out = IF i = local[p].id THEN local[p].out ELSE attempts[i].out
  <1>1. attempts \in Seq(Attempts) /\ local[p].out \in Outcomes
        /\ DOMAIN attempts = 1 .. Len(attempts) /\ Len(attempts) \in Nat
    BY Own, Lengths DEF TypeInv, JournalType
  <1> DEFINE i == local[p].id
             a == [attempts[i] EXCEPT !.out = local[p].out]
  <1>2. attempts' = [attempts EXCEPT ![i] = a]
    BY Zenon DEF Resolve
  <1>3. i \in DOMAIN attempts => a \in Attempts /\ a.key = attempts[i].key
          /\ a.op = attempts[i].op /\ a.out = local[p].out
    <2>1. \A b \in Attempts : \A o \in Outcomes :
             /\ [b EXCEPT !.out = o] \in Attempts /\ [b EXCEPT !.out = o].key = b.key
             /\ [b EXCEPT !.out = o].op = b.op /\ [b EXCEPT !.out = o].out = o
      BY Zenon DEF Attempts
    <2>2. i \in DOMAIN attempts => attempts[i] \in Attempts
      BY <1>1
    <2> QED
      BY <1>1, <2>1, <2>2, Zenon
  <1> HIDE DEF a, i
  <1>4. attempts' = [j \in 1 .. Len(attempts) |-> IF j = i THEN a ELSE attempts[j]]
    BY ZenonT(40), <1>1, <1>2
  <1>5. \A j \in 1 .. Len(attempts) : attempts[j] \in Attempts
    BY <1>1
  <1>6. attempts' \in [1 .. Len(attempts) -> Attempts]
    BY Zenon, <1>1, <1>3, <1>4, <1>5
  <1>7. DOMAIN attempts' = DOMAIN attempts /\ Len(attempts') = Len(attempts)
        /\ attempts' \in Seq(Attempts)
    BY <1>1, <1>6
  <1>8. JournalType'
    BY Zenon, <1>7 DEF JournalType, TypeInv
  <1> QED
    BY Zenon, <1>1, <1>3, <1>4, <1>7, <1>8 DEF i

(* The state of the row at hand.                                           *)
LEMMA Sets ==
    ASSUME TypeInv, NEW s \in WorkStates, SetState(s), UNCHANGED <<row, referenced>>
    PROVE  /\ DatabaseType' /\ DOMAIN work' = DOMAIN work
           /\ \A i \in DOMAIN work : work'[i] = IF i = RowId THEN s ELSE work[i]
           /\ UNCHANGED <<attempts, retired>> => Grows
  <1>1. work \in Seq(WorkStates) /\ DOMAIN work = 1 .. Len(work) /\ Len(work) \in Nat
        /\ Len(work) <= MaxWork
    BY Lengths DEF TypeInv, DatabaseType
  <1>2. work' = [j \in 1 .. Len(work) |-> IF j = RowId THEN s ELSE work[j]]
    BY ZenonT(40), <1>1 DEF SetState
  <1>3. \A j \in 1 .. Len(work) : work[j] \in WorkStates
    BY <1>1
  <1>4. work' \in [1 .. Len(work) -> WorkStates]
    BY Zenon, <1>2, <1>3
  <1>5. work' \in Seq(WorkStates) /\ DOMAIN work' = DOMAIN work /\ Len(work') = Len(work)
    BY <1>1, <1>4
  <1>6. DatabaseType'
    BY Zenon, <1>1, <1>5 DEF DatabaseType, TypeInv
  <1>7. UNCHANGED <<attempts, retired>> => Grows
    BY <1>5, Lengths, BoundsAssumption DEF Grows, Keys
  <1> QED
    BY Zenon, <1>1, <1>2, <1>5, <1>6, <1>7

(* There is a smallest id in what is still to do.                          *)
LEMMA RowIdIsFirst ==
    ASSUME TypeInv, DOMAIN Todo # {}
    PROVE  RowId \in DOMAIN Todo /\ RowId \in DOMAIN work
  <1>1. DOMAIN Todo \subseteq Nat /\ DOMAIN Todo \subseteq DOMAIN work
    BY Own, Lengths DEF Todo, Procs
  <1>2. PICK m \in DOMAIN Todo : \A k \in DOMAIN Todo : ~(<<k, m>> \in OpToRel(<, Nat))
    BY <1>1, NatLessThanWellFounded, WFMin, Zenon
  <1>3. \A k \in DOMAIN Todo : ~(k < m)
    BY <1>1, <1>2, ZenonT(40) DEF OpToRel
  <1>4. \A k \in DOMAIN Todo : m <= k
    BY <1>1, <1>3
  <1>5. RowId \in DOMAIN Todo
    BY <1>4, Zenon DEF RowId, FirstRow
  <1> QED
    BY Zenon, <1>1, <1>5

(* The pass goes on with the next row.                                     *)
Rest == [i \in DOMAIN Todo \ {RowId} |-> Todo[i]]

LEMMA RestType ==
    ASSUME TypeInv
    PROVE  /\ Rest \in Todos /\ DOMAIN Rest = DOMAIN Todo \ {RowId}
           /\ \A i \in DOMAIN Rest : Rest[i] = Todo[i]
  <1> DEFINE D == DOMAIN Todo \ {RowId}
  <1>1. Todo \in Todos
    BY Zenon, Own DEF Todo, Procs
  <1>2. PICK S \in SUBSET (1 .. MaxWork) : Todo \in [S -> WorkStates]
    BY <1>1, Zenon DEF Todos
  <1>3. D \in SUBSET (1 .. MaxWork) /\ \A i \in D : Todo[i] \in WorkStates
    BY ZenonT(40), <1>2
  <1>4. Rest = [i \in D |-> Todo[i]]
    BY Zenon DEF Rest
  <1> HIDE DEF D
  <1>5. Rest \in [D -> WorkStates] /\ DOMAIN Rest = D /\ \A i \in D : Rest[i] = Todo[i]
    BY <1>3, <1>4, Zenon
  <1>6. Rest \in Todos
    BY <1>3, <1>5, Zenon DEF Todos
  <1> QED
    BY <1>5, <1>6, Zenon DEF D

LEMMA Advances ==
    ASSUME TypeInv, Grows, NEW l \in Labels, Goto("collector", l), NextRow
    PROVE  ProcsType' /\ Only("collector") /\ Now("collector", l, 0, 0, "none", Rest)
  <1> DEFINE f == [NoLocals EXCEPT !.todo = Rest]
  <1>1. pc' = [pc EXCEPT !["collector"] = l] /\ local' = [local EXCEPT !["collector"] = f]
    BY Zenon DEF Goto, NextRow, Rest
  <1>2. f \in Frames /\ f.gen = 0 /\ f.id = 0 /\ f.out = "none" /\ f.todo = Rest
    BY NoLocalsType, RestType, TodoFrame, Zenon
  <1> HIDE DEF f
  <1>3. "collector" \in Procs
    BY Zenon DEF Procs
  <1>4. f.gen <= Len(retired') /\ f.id <= Len(attempts') /\ DOMAIN f.todo \subseteq DOMAIN work'
    BY <1>2, <1>3, Own, RestType DEF Grows, Todo
  <1> QED
    BY <1>1, <1>2, <1>3, <1>4, Own, Goes, Zenon DEF Now

----------------------------------------------------------------------------
(* What each step does to the types and to the process that takes it.      *)

LEMMA Names ==
    /\ "client" \in Procs /\ "worker" \in Procs /\ "collector" \in Procs
    /\ "idle" \in Labels /\ "stored" \in Labels /\ "begin" \in Labels /\ "send" \in Labels
    /\ "resolve" \in Labels /\ "drop" \in Labels /\ "commit" \in Labels
    /\ "generation" \in Labels /\ "finish" \in Labels /\ "next" \in Labels
    /\ "check" \in Labels /\ "issue" \in Labels /\ "mark" \in Labels
    /\ "recover" \in Labels /\ "retire" \in Labels /\ "retired" \in Labels
  BY Zenon DEF Procs, Labels

(* The process keeps its frame, or loses it.                               *)
Stays(p, l) == Now(p, l, local[p].gen, local[p].id, local[p].out, local[p].todo)
Ends(p) == Now(p, "idle", 0, 0, "none", <<>>)

LEMMA StepUploadBlob ==
    ASSUME TypeInv, UploadBlob
    PROVE  TypeInv'
  <1>1. uploads \in Nat /\ uploads + 1 \in Uploads /\ uploads + 1 \in Objects
    BY BoundsAssumption DEF TypeInv, StorageType, UploadBlob, Uploads, Objects
  <1>2. StorageType' /\ DatabaseType'
    BY Zenon, <1>1 DEF TypeInv, StorageType, DatabaseType, UploadBlob
  <1>3. ProcsType'
    BY Zenon DEF TypeInv, ProcsType, UploadBlob
  <1> QED
    BY Zenon, <1>2, <1>3, Untouched DEF TypeInv, UploadBlob

LEMMA StepStartWrite ==
    ASSUME TypeInv, StartWrite
    PROVE  /\ TypeInv' /\ Only("client")
           /\ \/ row = "permanent" /\ ~referenced /\ Stays("client", "commit")
              \/ /\ row = "temp"
                 /\ Now("client", "stored", Current, local["client"].id, local["client"].out,
                        local["client"].todo)
  <1>1. Grows /\ "client" \in Procs /\ Current \in Keys /\ Current <= Len(retired)
    BY SameGrows, Names, Lengths, BoundsAssumption DEF StartWrite, database, Keys
  <1>2. CASE row = "permanent" /\ ~referenced /\ Keep("client", "commit")
    <2>1. ProcsType' /\ Only("client") /\ Stays("client", "commit")
      BY <1>1, <1>2, Keeps, Names, Zenon DEF Stays
    <2> QED
      BY Zenon, <1>2, <2>1, Untouched DEF TypeInv, StartWrite
  <1>3. CASE row = "temp" /\ Reading("client", Current) /\ Goto("client", "stored")
    <2>1. ProcsType' /\ Only("client")
          /\ Now("client", "stored", Current, local["client"].id, local["client"].out,
                 local["client"].todo)
      BY <1>1, <1>3, Reads, Names, Zenon
    <2> QED
      BY Zenon, <1>3, <2>1, Untouched DEF TypeInv, StartWrite
  <1> QED
    BY Zenon, <1>2, <1>3 DEF StartWrite, Reading

LEMMA StepCheckStored ==
    ASSUME TypeInv, CheckStored
    PROVE  /\ TypeInv' /\ Only("client")
           /\ \/ object[local["client"].gen] # 0 /\ Stays("client", "drop")
              \/ object[local["client"].gen] = 0 /\ Stays("client", "begin")
              \/ Ends("client")
  <1>1. Grows /\ "client" \in Procs
    BY Zenon, SameGrows, Names DEF CheckStored, database
  <1>2. CASE object[local["client"].gen] # 0 /\ Keep("client", "drop")
    <2>1. ProcsType' /\ Only("client") /\ Stays("client", "drop")
      BY <1>1, <1>2, Keeps, Names, Zenon DEF Stays
    <2> QED
      BY Zenon, <1>2, <2>1, Untouched DEF TypeInv, CheckStored
  <1>3. CASE object[local["client"].gen] = 0 /\ Keep("client", "begin")
    <2>1. ProcsType' /\ Only("client") /\ Stays("client", "begin")
      BY <1>1, <1>3, Keeps, Names, Zenon DEF Stays
    <2> QED
      BY Zenon, <1>3, <2>1, Untouched DEF TypeInv, CheckStored
  <1>4. CASE Return("client")
    <2>1. ProcsType' /\ Only("client") /\ Ends("client")
      BY <1>1, <1>4, Returns, Zenon DEF Ends
    <2> QED
      BY Zenon, <2>1, Untouched DEF TypeInv, CheckStored
  <1> QED
    BY Zenon, <1>2, <1>3, <1>4 DEF CheckStored

(* A new attempt at the end of the journal.                                *)
Journals(p, op) ==
    /\ Now(p, "send", local[p].gen, Len(attempts) + 1, local[p].out, local[p].todo)
    /\ Len(attempts) \in Nat
    /\ DOMAIN attempts' = DOMAIN attempts \cup {Len(attempts) + 1}
    /\ Len(attempts) + 1 \notin DOMAIN attempts
    /\ \A i \in DOMAIN attempts : attempts'[i] = attempts[i]
    /\ attempts'[Len(attempts) + 1].key = local[p].gen
    /\ attempts'[Len(attempts) + 1].op = op
    /\ attempts'[Len(attempts) + 1].out = "none"

LEMMA StepBegin ==
    ASSUME TypeInv, NEW p \in Procs, NEW op \in {"write", "delete"},
           Begin(p, op), Goto(p, "send"), UNCHANGED <<database, storage, retired, crashes>>
    PROVE  TypeInv' /\ Only(p) /\ Journals(p, op)
  <1>1. JournalType' /\ ProcsType' /\ Only(p) /\ Journals(p, op)
    <2>1. "send" \in Labels /\ UNCHANGED <<retired, work>>
      BY Zenon, Names DEF database
    <2> QED
      BY <2>1, Begins, Zenon DEF Journals
  <1> QED
    BY Zenon, <1>1, Untouched DEF TypeInv

(* A delete was answered with o.                                           *)
DeleteEffect(g, o) ==
    /\ UNCHANGED <<uploads, temp, lateWrites>>
    /\ o \in {"succeeded", "failed", "ambiguous"}
    /\ o = "succeeded" => object'[g] = 0
    /\ \A k \in Keys : object'[k] = object[k] \/ (k = g /\ object'[k] = 0)
    /\ lateDeletes' = lateDeletes
       \/ (o = "ambiguous" /\ lateDeletes' = lateDeletes \cup {<<g, uploads>>})

LEMMA StepDelete ==
    ASSUME TypeInv, NEW p \in Procs, SendDelete(p), Goto(p, "resolve"),
           UNCHANGED <<database, attempts, retired, crashes>>
    PROVE  /\ TypeInv' /\ Only(p)
           /\ \E o : /\ DeleteEffect(local[p].gen, o)
                     /\ Now(p, "resolve", local[p].gen, local[p].id, o, local[p].todo)
  <1> DEFINE g == local[p].gen
  <1>1. g \in Keys /\ object \in [Keys -> Objects] /\ 0 \in Objects /\ uploads \in Uploads
    BY Own, BoundsAssumption DEF TypeInv, StorageType, Objects
  <1>2. PICK o : /\ Heard(p, o) /\ UNCHANGED <<uploads, temp, lateWrites>>
                 /\ o \in {"succeeded", "failed", "ambiguous"}
                 /\ \/ o \in {"succeeded", "ambiguous"} /\ UNCHANGED lateDeletes
                       /\ object' = [object EXCEPT ![g] = 0]
                    \/ o = "failed" /\ UNCHANGED <<object, lateDeletes>>
                    \/ /\ o = "ambiguous" /\ UNCHANGED object
                       /\ lateDeletes' = lateDeletes \cup {<<g, uploads>>}
    BY Zenon DEF SendDelete
  <1> HIDE DEF g
  <1>3. DeleteEffect(g, o)
    BY Zenon, <1>1, <1>2 DEF DeleteEffect
  <1>4. StorageType'
    <2>1. object' \in [Keys -> Objects]
      BY Zenon, <1>1, <1>2
    <2>2. lateDeletes' \subseteq Keys \X Uploads
      BY <1>1, <1>2 DEF TypeInv, StorageType
    <2> QED
      BY Zenon, <1>2, <2>1, <2>2 DEF TypeInv, StorageType
  <1>5. o \in Outcomes /\ Grows /\ "resolve" \in Labels
    BY Zenon, <1>2, SameGrows, Names DEF Outcomes, database
  <1>6. ProcsType' /\ Only(p)
        /\ Now(p, "resolve", local[p].gen, local[p].id, o, local[p].todo)
    BY <1>2, <1>5, Hears, Zenon
  <1>7. TypeInv'
    BY Zenon, <1>4, <1>6, Untouched DEF TypeInv
  <1> QED
    BY <1>3, <1>6, <1>7, Zenon DEF g

(* A copy of the temporary object was answered with o.                     *)
CopyEffect(g, o) ==
    /\ UNCHANGED <<uploads, temp, lateDeletes>>
    /\ o \in {"succeeded", "failed", "ambiguous"}
    /\ o = "succeeded" => object'[g] # 0
    /\ \A k \in Keys : object'[k] = object[k] \/ (k = g /\ temp # 0 /\ object'[k] = temp)
    /\ lateWrites' = lateWrites
       \/ (temp # 0 /\ lateWrites' = lateWrites \cup {<<g, temp>>})

LEMMA StepCopy ==
    ASSUME TypeInv, Copy
    PROVE  /\ TypeInv' /\ Only("client")
           /\ \E o : /\ CopyEffect(local["client"].gen, o)
                     /\ Now("client", "resolve", local["client"].gen, local["client"].id, o,
                            local["client"].todo)
  <1> DEFINE g == local["client"].gen
  <1>1. g \in Keys /\ object \in [Keys -> Objects] /\ temp \in Objects
        /\ (temp # 0 => temp \in Uploads) /\ "client" \in Procs
    BY Own, Names, BoundsAssumption DEF TypeInv, StorageType, Objects, Uploads
  <1>2. PICK o : /\ Heard("client", o) /\ UNCHANGED <<uploads, temp, lateDeletes>>
                 /\ o \in {"succeeded", "failed", "ambiguous"}
                 /\ \/ o \in {"succeeded", "ambiguous"} /\ UNCHANGED lateWrites
                       /\ temp # 0 /\ object' = [object EXCEPT ![g] = temp]
                    \/ o = "failed" /\ UNCHANGED <<object, lateWrites>>
                    \/ /\ o = "ambiguous" /\ UNCHANGED object /\ temp # 0
                       /\ lateWrites' = lateWrites \cup {<<g, temp>>}
    BY Zenon DEF Copy, SendCopy
  <1> HIDE DEF g
  <1>3. CopyEffect(g, o)
    BY Zenon, <1>1, <1>2 DEF CopyEffect
  <1>4. StorageType'
    <2>1. object' \in [Keys -> Objects]
      BY Zenon, <1>1, <1>2
    <2>2. lateWrites' \subseteq Keys \X Uploads
      BY <1>1, <1>2 DEF TypeInv, StorageType
    <2> QED
      BY Zenon, <1>2, <2>1, <2>2 DEF TypeInv, StorageType
  <1>5. o \in Outcomes /\ Grows /\ "resolve" \in Labels /\ Goto("client", "resolve")
    BY Zenon, <1>2, SameGrows, Names DEF Outcomes, database, Copy
  <1>6. ProcsType' /\ Only("client")
        /\ Now("client", "resolve", local["client"].gen, local["client"].id, o,
               local["client"].todo)
    BY <1>1, <1>2, <1>5, Hears, Zenon
  <1>7. TypeInv'
    BY Zenon, <1>4, <1>6, Untouched DEF TypeInv, Copy
  <1> QED
    BY <1>3, <1>6, <1>7, Zenon DEF g

(* The outcome of an attempt goes to the journal.                          *)
Records(p) ==
    /\ DOMAIN attempts' = DOMAIN attempts
    /\ \A i \in DOMAIN attempts :
          /\ attempts'[i].key = attempts[i].key /\ attempts'[i].op = attempts[i].op
          /\ attempts'[i].out = IF i = local[p].id THEN local[p].out ELSE attempts[i].out

LEMMA ResolveGrows ==
    ASSUME TypeInv, NEW p \in Procs, Resolve(p), UNCHANGED <<database, retired>>
    PROVE  JournalType' /\ Grows /\ Records(p)
  <1>1. JournalType' /\ Records(p) /\ Len(attempts') = Len(attempts)
    BY Zenon, Resolves DEF Records
  <1> QED
    BY <1>1, Lengths, BoundsAssumption DEF Grows, database, Keys

LEMMA StepResolveCopy ==
    ASSUME TypeInv, ResolveCopy
    PROVE  /\ TypeInv' /\ Only("client") /\ Records("client")
           /\ \/ local["client"].out = "succeeded" /\ Stays("client", "drop")
              \/ Ends("client")
  <1>1. JournalType' /\ Grows /\ Records("client") /\ "client" \in Procs
    BY Zenon, ResolveGrows, Names DEF ResolveCopy
  <1>2. CASE local["client"].out = "succeeded"
    <2>1. ProcsType' /\ Only("client") /\ Stays("client", "drop")
      BY Zenon, <1>1, <1>2, Keeps, Names DEF Stays, ResolveCopy
    <2> QED
      BY Zenon, <1>1, <1>2, <2>1, Untouched DEF TypeInv, ResolveCopy
  <1>3. CASE local["client"].out # "succeeded"
    <2>1. ProcsType' /\ Only("client") /\ Ends("client")
      BY Zenon, <1>1, <1>3, Returns DEF Ends, ResolveCopy
    <2> QED
      BY Zenon, <1>1, <2>1, Untouched DEF TypeInv, ResolveCopy
  <1> QED
    BY Zenon, <1>2, <1>3

LEMMA StepDropTemp ==
    ASSUME TypeInv, DropTemp
    PROVE  /\ TypeInv' /\ Only("client") /\ (temp' = 0 \/ temp' = temp)
           /\ Stays("client", "commit") \/ Ends("client")
  <1>1. Grows /\ "client" \in Procs /\ (temp' = 0 \/ temp' = temp)
    BY Zenon, SameGrows, Names DEF DropTemp, database
  <1>2. StorageType'
    BY <1>1, BoundsAssumption DEF TypeInv, StorageType, DropTemp, Objects
  <1>3. ProcsType' /\ Only("client") /\ (Stays("client", "commit") \/ Ends("client"))
    <2>1. CASE Keep("client", "commit")
      BY <1>1, <2>1, Keeps, Names, Zenon DEF Stays
    <2>2. CASE Return("client")
      BY <1>1, <2>2, Returns, Zenon DEF Ends
    <2> QED
      BY Zenon, <2>1, <2>2 DEF DropTemp
  <1> QED
    BY Zenon, <1>1, <1>2, <1>3, Untouched DEF TypeInv, DropTemp

LEMMA StepCommitWrite ==
    ASSUME TypeInv, CommitWrite
    PROVE  TypeInv' /\ Only("client") /\ Ends("client")
  <1>1. Grows /\ "client" \in Procs
    BY Zenon, SameGrows, Names DEF CommitWrite
  <1>2. ProcsType' /\ Only("client") /\ Ends("client")
    BY Zenon, <1>1, Returns DEF Ends, CommitWrite
  <1>3. DatabaseType'
    BY Zenon DEF TypeInv, DatabaseType, CommitWrite
  <1> QED
    BY Zenon, <1>2, <1>3, Untouched DEF TypeInv, CommitWrite

LEMMA StepDeleteRecord ==
    ASSUME TypeInv, DeleteRecord
    PROVE  /\ TypeInv' /\ DOMAIN work' = DOMAIN work \cup {Len(work) + 1}
           /\ Len(work) + 1 \notin DOMAIN work /\ work'[Len(work) + 1] = "delete-pending"
           /\ \A i \in DOMAIN work : work'[i] = work[i]
  <1>1. work \in Seq(WorkStates) /\ Len(work) \in Nat /\ Len(work) + 1 <= MaxWork
        /\ "delete-pending" \in WorkStates /\ work' = Append(work, "delete-pending")
    BY Lengths, BoundsAssumption DEF TypeInv, DatabaseType, DeleteRecord, WorkStates
  <1>2. work' \in Seq(WorkStates) /\ Len(work') = Len(work) + 1
        /\ work'[Len(work) + 1] = "delete-pending"
        /\ \A i \in 1 .. Len(work) : work'[i] = work[i]
    BY <1>1
  <1>3. DOMAIN work = 1 .. Len(work) /\ DOMAIN work' = 1 .. Len(work) + 1
    BY <1>1, <1>2
  <1>4. DatabaseType'
    BY ZenonT(40), <1>1, <1>2 DEF DatabaseType, DeleteRecord
  <1>5. DOMAIN work' = DOMAIN work \cup {Len(work) + 1} /\ Len(work) + 1 \notin DOMAIN work
    BY <1>1, <1>3
  <1>6. ProcsType'
    BY Zenon, <1>5 DEF TypeInv, ProcsType, DeleteRecord
  <1> QED
    BY Zenon, <1>2, <1>3, <1>4, <1>5, <1>6, Untouched DEF TypeInv, DeleteRecord

LEMMA StepStartWork ==
    ASSUME TypeInv, StartWork
    PROVE  /\ TypeInv' /\ Only("worker") /\ \E i \in DOMAIN work : work[i] = "delete-pending"
           /\ Now("worker", "generation", local["worker"].gen, local["worker"].id,
                  local["worker"].out, Rows({"delete-pending"}))
  <1>1. Grows /\ "worker" \in Procs /\ "generation" \in Labels
        /\ Goto("worker", "generation") /\ Listing("worker", {"delete-pending"})
    BY Zenon, SameGrows, Names DEF StartWork, database, Listing
  <1>2. /\ ProcsType' /\ Only("worker")
        /\ Now("worker", "generation", local["worker"].gen, local["worker"].id,
               local["worker"].out, Rows({"delete-pending"}))
    BY <1>1, Lists, Zenon
  <1> QED
    BY Zenon, <1>2, Untouched DEF TypeInv, StartWork

LEMMA StepWorkerGeneration ==
    ASSUME TypeInv, WorkerGeneration
    PROVE  /\ TypeInv' /\ Only("worker")
           /\ Now("worker", IF Current = 0 THEN "begin" ELSE "send", Current,
                  local["worker"].id, local["worker"].out, local["worker"].todo)
  <1> DEFINE l == IF Current = 0 THEN "begin" ELSE "send"
  <1>1. Grows /\ "worker" \in Procs /\ l \in Labels /\ Current \in Keys
        /\ Current <= Len(retired) /\ Goto("worker", l) /\ Reading("worker", Current)
    BY SameGrows, Names, Lengths, BoundsAssumption DEF WorkerGeneration, database, Keys, Reading
  <1>2. /\ ProcsType' /\ Only("worker")
        /\ Now("worker", l, Current, local["worker"].id, local["worker"].out,
               local["worker"].todo)
    <2> HIDE DEF l
    <2> QED
      BY <1>1, Reads, Zenon
  <1> QED
    BY Zenon, <1>2, Untouched DEF TypeInv, WorkerGeneration

LEMMA StepWorkerResolve ==
    ASSUME TypeInv, WorkerResolve
    PROVE  /\ TypeInv' /\ Only("worker")
           /\ IF local["worker"].gen = 0 THEN Records("worker") ELSE UNCHANGED attempts
           /\ Stays("worker", "finish") \/ Ends("worker")
  <1>1. /\ JournalType' /\ Grows /\ "worker" \in Procs
        /\ IF local["worker"].gen = 0 THEN Records("worker") ELSE UNCHANGED attempts
    <2>1. CASE local["worker"].gen = 0
      BY Zenon, <2>1, ResolveGrows, Names DEF WorkerResolve
    <2>2. CASE local["worker"].gen # 0
      BY Zenon, <2>2, SameGrows, Untouched, Names DEF WorkerResolve, database
    <2> QED
      BY Zenon, <2>1, <2>2
  <1>2. ProcsType' /\ Only("worker") /\ (Stays("worker", "finish") \/ Ends("worker"))
    <2>1. CASE Keep("worker", "finish")
      BY <1>1, <2>1, Keeps, Names, Zenon DEF Stays
    <2>2. CASE Return("worker")
      BY <1>1, <2>2, Returns, Zenon DEF Ends
    <2> QED
      BY Zenon, <2>1, <2>2 DEF WorkerResolve
  <1> QED
    BY Zenon, <1>1, <1>2, Untouched DEF TypeInv, WorkerResolve

LEMMA StepWorkerFinish ==
    ASSUME TypeInv, WorkerFinish
    PROVE  TypeInv' /\ Only("worker") /\ Ends("worker")
  <1>1. work \in Seq(WorkStates) /\ DOMAIN work = 1 .. Len(work) /\ Len(work) \in Nat
        /\ "done" \in WorkStates
    BY Lengths DEF TypeInv, DatabaseType, WorkStates
  <1>2. \A i \in 1 .. Len(work) : work[i] \in WorkStates
    BY <1>1
  <1>3. work' = [i \in 1 .. Len(work) |->
                   IF i \in DOMAIN local["worker"].todo THEN "done" ELSE work[i]]
    BY Zenon, <1>1 DEF WorkerFinish
  <1>4. work' \in [1 .. Len(work) -> WorkStates]
    BY Zenon, <1>1, <1>2, <1>3
  <1>5. work' \in Seq(WorkStates) /\ Len(work') = Len(work) /\ DOMAIN work' = DOMAIN work
    BY <1>1, <1>4
  <1>6. DatabaseType'
    BY Zenon, <1>5 DEF TypeInv, DatabaseType, WorkerFinish
  <1>7. Grows /\ "worker" \in Procs /\ Return("worker")
    BY <1>5, Lengths, Names, BoundsAssumption DEF Grows, WorkerFinish, Keys
  <1>8. ProcsType' /\ Only("worker") /\ Ends("worker")
    BY <1>7, Returns, Zenon DEF Ends
  <1> QED
    BY Zenon, <1>6, <1>8, Untouched DEF TypeInv, WorkerFinish

(* The row at hand gets the state s; the pass goes on with the next one.   *)
Wrote(s) ==
    /\ DOMAIN work' = DOMAIN work
    /\ \A i \in DOMAIN work : work'[i] = IF i = RowId THEN s ELSE work[i]
Advanced == Now("collector", "next", 0, 0, "none", Rest)

LEMMA KeepsRow ==
    ASSUME TypeInv, NEW s \in WorkStates, NEW l \in Labels, SetState(s), Keep("collector", l),
           UNCHANGED <<row, referenced, storage, attempts, retired, crashes>>
    PROVE  TypeInv' /\ Only("collector") /\ Wrote(s) /\ Stays("collector", l)
  <1>1. DatabaseType' /\ Wrote(s) /\ Grows
    BY Zenon, Sets DEF Wrote
  <1>2. ProcsType' /\ Only("collector") /\ Stays("collector", l)
    BY <1>1, Keeps, Names, Zenon DEF Stays
  <1> QED
    BY Zenon, <1>1, <1>2, Untouched DEF TypeInv

LEMMA EndsRow ==
    ASSUME TypeInv, NEW s \in WorkStates, SetState(s), NextRow, Goto("collector", "next"),
           UNCHANGED <<row, referenced, storage, attempts, retired, crashes>>
    PROVE  TypeInv' /\ Only("collector") /\ Wrote(s) /\ Advanced
  <1>1. DatabaseType' /\ Wrote(s) /\ Grows
    BY Zenon, Sets DEF Wrote
  <1>2. ProcsType' /\ Only("collector") /\ Advanced
    BY <1>1, Advances, Names, Zenon DEF Advanced
  <1> QED
    BY Zenon, <1>1, <1>2, Untouched DEF TypeInv

LEMMA StateNames ==
    /\ "checking" \in WorkStates /\ "superseded" \in WorkStates /\ "issuing" \in WorkStates
    /\ "done" \in WorkStates /\ "failed" \in WorkStates /\ "ambiguous" \in WorkStates
    /\ "retired" \in WorkStates
  BY Zenon DEF WorkStates

LEMMA StepStartCollect ==
    ASSUME TypeInv, StartCollect
    PROVE  /\ TypeInv' /\ Only("collector")
           /\ Now("collector", "next", local["collector"].gen, local["collector"].id,
                  local["collector"].out, Rows(WorkStates))
  <1>1. Grows /\ "collector" \in Procs /\ "next" \in Labels
        /\ Goto("collector", "next") /\ Listing("collector", WorkStates)
    BY Zenon, SameGrows, Names DEF StartCollect, database, Listing
  <1>2. /\ ProcsType' /\ Only("collector")
        /\ Now("collector", "next", local["collector"].gen, local["collector"].id,
               local["collector"].out, Rows(WorkStates))
    BY <1>1, Lists, Zenon
  <1> QED
    BY Zenon, <1>2, Untouched DEF TypeInv, StartCollect

(* The generation the pass reads.                                          *)
Chosen(l, g) == Now("collector", l, g, local["collector"].id, local["collector"].out, Todo)

LEMMA ChoosesKey ==
    ASSUME TypeInv, NEW l \in Labels, NEW g \in {0, Current}, Goto("collector", l),
           Reading("collector", g), UNCHANGED <<database, storage, attempts, retired, crashes>>
    PROVE  TypeInv' /\ Only("collector") /\ Chosen(l, g)
  <1>1. Grows /\ "collector" \in Procs /\ g \in Keys /\ g <= Len(retired)
    BY SameGrows, Names, Lengths, BoundsAssumption DEF database, Keys
  <1>2. ProcsType' /\ Only("collector") /\ Chosen(l, g)
    BY <1>1, Reads, Zenon DEF Chosen, Todo
  <1> QED
    BY Zenon, <1>2, Untouched DEF TypeInv

LEMMA StepTakeRow ==
    ASSUME TypeInv, TakeRow
    PROVE  /\ TypeInv' /\ Only("collector")
           /\ \/ DOMAIN Todo = {} /\ UNCHANGED work /\ Ends("collector")
              \/ /\ DOMAIN Todo # {} /\ RowState \in {"gc-deferred", "checking", "failed"}
                 /\ Wrote("checking") /\ Stays("collector", "check")
              \/ /\ DOMAIN Todo # {} /\ RowState = "issuing" /\ UNCHANGED work
                 /\ Chosen("recover", Current)
              \/ /\ DOMAIN Todo # {} /\ RowState = "ambiguous" /\ UNCHANGED work
                 /\ Chosen("retire", 0)
              \/ /\ DOMAIN Todo # {} /\ UNCHANGED work /\ Advanced
                 /\ RowState \in {"delete-pending", "superseded", "done", "retired"}
  <1> USE Names, StateNames
  <1>1. UNCHANGED <<row, referenced, storage, attempts, retired, crashes>>
        /\ (UNCHANGED work => UNCHANGED database)
    BY Zenon DEF TakeRow, database
  <1>2. CASE DOMAIN Todo = {} /\ Return("collector") /\ UNCHANGED work
    <2>1. Grows
      BY Zenon, <1>1, <1>2, SameGrows
    <2>2. ProcsType' /\ Only("collector") /\ Ends("collector")
      BY <1>2, <2>1, Returns, Zenon DEF Ends
    <2> QED
      BY Zenon, <1>1, <1>2, <2>2, Untouched DEF TypeInv
  <1>3. CASE /\ DOMAIN Todo # {} /\ RowState \in {"gc-deferred", "checking", "failed"}
             /\ SetState("checking") /\ Keep("collector", "check")
    <2>1. TypeInv' /\ Only("collector") /\ Wrote("checking") /\ Stays("collector", "check")
      BY Zenon, <1>1, <1>3, KeepsRow
    <2> QED
      BY Zenon, <1>3, <2>1
  <1>4. CASE /\ DOMAIN Todo # {} /\ RowState = "issuing" /\ UNCHANGED work
             /\ Reading("collector", Current) /\ Goto("collector", "recover")
    <2>1. TypeInv' /\ Only("collector") /\ Chosen("recover", Current)
      BY Zenon, <1>1, <1>4, ChoosesKey
    <2> QED
      BY Zenon, <1>4, <2>1
  <1>5. CASE /\ DOMAIN Todo # {} /\ RowState = "ambiguous" /\ UNCHANGED work
             /\ Reading("collector", 0) /\ Goto("collector", "retire")
    <2>1. TypeInv' /\ Only("collector") /\ Chosen("retire", 0)
      BY Zenon, <1>1, <1>5, ChoosesKey
    <2> QED
      BY Zenon, <1>5, <2>1
  <1>6. CASE /\ DOMAIN Todo # {} /\ NextRow /\ UNCHANGED <<pc, work>>
             /\ RowState \in {"delete-pending", "superseded", "done", "retired"}
    <2>1. Grows /\ Goto("collector", "next")
      BY Zenon, <1>1, <1>6, SameGrows DEF Goto, TakeRow, TypeInv, ProcsType
    <2>2. ProcsType' /\ Only("collector") /\ Advanced
      BY <1>6, <2>1, Advances, Zenon DEF Advanced
    <2> QED
      BY Zenon, <1>1, <1>6, <2>2, Untouched DEF TypeInv
  <1> QED
    BY Zenon, <1>2, <1>3, <1>4, <1>5, <1>6 DEF TakeRow, Reading

LEMMA StepCheckReferenced ==
    ASSUME TypeInv, CheckReferenced
    PROVE  /\ TypeInv' /\ Only("collector")
           /\ \/ Wrote("superseded") /\ Advanced
              \/ /\ row = "none" /\ ~referenced /\ UNCHANGED work
                 /\ Stays("collector", "generation")
  <1>1. UNCHANGED <<row, referenced, storage, attempts, retired, crashes>>
    BY Zenon DEF CheckReferenced
  <1>2. CASE SetState("superseded") /\ NextRow /\ Goto("collector", "next")
    BY Zenon, <1>1, <1>2, EndsRow, StateNames
  <1>3. CASE /\ row = "none" /\ ~referenced /\ UNCHANGED work
             /\ Keep("collector", "generation")
    <2>1. Grows
      BY Zenon, <1>1, <1>3, SameGrows
    <2>2. ProcsType' /\ Only("collector") /\ Stays("collector", "generation")
      BY <1>3, <2>1, Keeps, Names, Zenon DEF Stays
    <2> QED
      BY Zenon, <1>1, <1>3, <2>2, Untouched DEF TypeInv, database
  <1> QED
    BY Zenon, <1>2, <1>3 DEF CheckReferenced

LEMMA StepReadGeneration ==
    ASSUME TypeInv, ReadGeneration
    PROVE  TypeInv' /\ Only("collector") /\ Chosen("issue", Current)
  BY Zenon, ChoosesKey, Names DEF ReadGeneration, Reading

LEMMA StepMarkIssuing ==
    ASSUME TypeInv, MarkIssuing
    PROVE  TypeInv' /\ Only("collector") /\ Wrote("issuing") /\ Stays("collector", "begin")
  BY Zenon, KeepsRow, Names, StateNames DEF MarkIssuing

LEMMA StepResolveDelete ==
    ASSUME TypeInv, ResolveDelete
    PROVE  TypeInv' /\ Only("collector") /\ Records("collector") /\ Stays("collector", "mark")
  <1>1. JournalType' /\ Grows /\ Records("collector")
    BY Zenon, ResolveGrows, Names DEF ResolveDelete
  <1>2. ProcsType' /\ Only("collector") /\ Stays("collector", "mark")
    BY Zenon, <1>1, Keeps, Names DEF Stays, ResolveDelete
  <1> QED
    BY Zenon, <1>1, <1>2, Untouched DEF TypeInv, ResolveDelete

LEMMA Concludes ==
    ASSUME TypeInv, NEW o, Conclude(o),
           UNCHANGED <<row, referenced, storage, attempts, retired, crashes>>
    PROVE  /\ TypeInv' /\ Only("collector")
           /\ \/ o = "succeeded" /\ Wrote("done") /\ Advanced
              \/ o = "failed" /\ Wrote("failed") /\ Advanced
              \/ o \in {"none", "ambiguous"} /\ Wrote("ambiguous") /\ Stays("collector", "retire")
  <1> USE Names, StateNames
  <1>1. CASE o = "succeeded" /\ SetState("done") /\ NextRow /\ Goto("collector", "next")
    BY Zenon, <1>1, EndsRow
  <1>2. CASE o = "failed" /\ SetState("failed") /\ NextRow /\ Goto("collector", "next")
    BY Zenon, <1>2, EndsRow
  <1>3. CASE o \in {"none", "ambiguous"} /\ SetState("ambiguous") /\ Keep("collector", "retire")
    BY Zenon, <1>3, KeepsRow
  <1> QED
    BY Zenon, <1>1, <1>2, <1>3 DEF Conclude

(* The registry takes only the key in use.                                 *)
LEMMA StepRetire ==
    ASSUME TypeInv, Retire
    PROVE  /\ TypeInv' /\ Only("collector") /\ Stays("collector", "retired")
           /\ \/ UNCHANGED retired /\ local["collector"].gen < Current
              \/ local["collector"].gen = Current /\ Current' = Current + 1
  <1> DEFINE g == local["collector"].gen
  <1>1. g \in Nat /\ g <= Current /\ Current \in Nat /\ g \in Keys /\ Current = Len(retired)
        /\ DOMAIN retired = 1 .. Current /\ \A i \in 1 .. Current : retired[i] = i - 1
    BY SMTT(30), Own, Names, Lengths, BoundsAssumption DEF TypeInv, RegistryType, OneKeyInUse, Keys
  <1>2. IsRetired(g) <=> g < Current
    <2>1. ASSUME g < Current
          PROVE  IsRetired(g)
      <3>1. g + 1 \in 1 .. Current /\ g = (g + 1) - 1
        BY SMTT(30), <1>1, <2>1
      <3> QED
        BY Zenon, <1>1, <3>1 DEF IsRetired
    <2> QED
      BY <1>1, <2>1 DEF IsRetired
  <1>3. /\ RegistryType' /\ Grows
        /\ \/ UNCHANGED retired /\ g < Current
           \/ g = Current /\ Current' = Current + 1
    <2>1. CASE IsRetired(g)
      <3>1. UNCHANGED retired
        BY Zenon, <2>1 DEF Retire
      <3> QED
        BY Zenon, <1>2, <2>1, <3>1, SameGrows, Untouched DEF Retire, database
    <2>2. CASE ~IsRetired(g)
      <3>1. retired' = Append(retired, g) /\ Current < MaxGen /\ retired \in Seq(Keys)
        BY Zenon, <2>2 DEF Retire, TypeInv, RegistryType
      <3>2. retired' \in Seq(Keys) /\ Len(retired') = Current + 1
            /\ retired'[Current + 1] = g /\ \A i \in 1 .. Current : retired'[i] = retired[i]
        BY <1>1, <3>1
      <3>3. g = Current /\ DOMAIN retired' = 1 .. Current + 1
        BY <1>1, <1>2, <2>2, <3>2
      <3>4. OneKeyInUse'
        BY SMTT(30), <1>1, <3>2, <3>3 DEF OneKeyInUse
      <3>5. RegistryType'
        BY SMTT(30), <1>1, <3>1, <3>2, <3>4, BoundsAssumption DEF RegistryType
      <3>6. Current' = Current + 1
        BY Zenon, <3>2 DEF Current
      <3>7. Grows
        BY SMTT(30), <1>1, <3>2, Lengths, BoundsAssumption DEF Grows, Retire, database
      <3> QED
        BY Zenon, <3>3, <3>5, <3>6, <3>7
    <2> QED
      BY Zenon, <2>1, <2>2
  <1>4. ProcsType' /\ Only("collector") /\ Stays("collector", "retired")
    BY Zenon, <1>3, Keeps, Names DEF Stays, Retire
  <1> QED
    BY Zenon, <1>3, <1>4, Untouched DEF TypeInv, Retire

LEMMA StepMarkRetired ==
    ASSUME TypeInv, MarkRetired
    PROVE  TypeInv' /\ Only("collector") /\ Wrote("retired") /\ Advanced
  BY Zenon, EndsRow, StateNames DEF MarkRetired

LEMMA StepLate ==
    ASSUME TypeInv, LateDelete \/ LateWrite
    PROVE  TypeInv'
  <1>1. StorageType'
    <2>1. CASE LateDelete
      <3>1. PICK d \in lateDeletes : /\ lateDeletes' = lateDeletes \ {d}
                                     /\ object' = [object EXCEPT ![d[1]] = 0]
        BY ZenonT(40), <2>1 DEF LateDelete
      <3>2. object' \in [Keys -> Objects] /\ lateDeletes' \subseteq lateDeletes
        BY <3>1, BoundsAssumption DEF TypeInv, StorageType, Objects
      <3> QED
        BY Zenon, <2>1, <3>2 DEF TypeInv, StorageType, LateDelete
    <2>2. CASE LateWrite
      <3>1. PICK w \in lateWrites : /\ lateWrites' = lateWrites \ {w}
                                    /\ object' = [object EXCEPT ![w[1]] = w[2]]
        BY ZenonT(40), <2>2 DEF LateWrite
      <3>2. w[2] \in Objects
        BY <3>1, BoundsAssumption DEF TypeInv, StorageType, Objects, Uploads
      <3>3. object' \in [Keys -> Objects] /\ lateWrites' \subseteq lateWrites
        BY Zenon, <3>1, <3>2 DEF TypeInv, StorageType
      <3> QED
        BY Zenon, <2>2, <3>3 DEF TypeInv, StorageType, LateWrite
    <2> QED
      BY Zenon, <2>1, <2>2
  <1>2. ProcsType' /\ UNCHANGED <<database, attempts, retired, crashes>>
    BY Zenon DEF TypeInv, ProcsType, LateDelete, LateWrite, database
  <1> QED
    BY Zenon, <1>1, <1>2, Untouched DEF TypeInv

LEMMA StepStop ==
    ASSUME TypeInv, NEW p \in Procs, Stop(p)
    PROVE  TypeInv' /\ Only(p) /\ Ends(p) /\ crashes' # 0
  <1>1. Grows
    BY Zenon, SameGrows DEF Stop, database
  <1>2. ProcsType' /\ Only(p) /\ Ends(p)
    BY Zenon, <1>1, Returns DEF Stop, Ends
  <1>3. crashes' \in 0 .. MaxCrashes /\ crashes' # 0
    BY BoundsAssumption DEF Stop, TypeInv
  <1> QED
    BY Zenon, <1>2, <1>3, Untouched DEF TypeInv, Stop

LEMMA TypeStep ==
    ASSUME TypeInv, [Next]_vars
    PROVE  TypeInv'
  <1>1. CASE ClientStep
    <2>1. CASE BeginCopy
      BY Zenon, <2>1, StepBegin, Names DEF BeginCopy
    <2> QED
      BY Zenon, <1>1, <2>1, StepUploadBlob, StepStartWrite, StepCheckStored, StepCopy,
         StepResolveCopy, StepDropTemp, StepCommitWrite, StepDeleteRecord DEF ClientStep
  <1>2. CASE WorkerStep
    <2>1. CASE WorkerBegin
      BY Zenon, <2>1, StepBegin, Names DEF WorkerBegin
    <2>2. CASE WorkerDelete
      BY Zenon, <2>2, StepDelete, Names DEF WorkerDelete
    <2> QED
      BY Zenon, <1>2, <2>1, <2>2, StepStartWork, StepWorkerGeneration,
         StepWorkerResolve, StepWorkerFinish DEF WorkerStep
  <1>3. CASE CollectorStep
    <2>1. CASE BeginDelete
      BY Zenon, <2>1, StepBegin, Names DEF BeginDelete
    <2>2. CASE Delete
      BY Zenon, <2>2, StepDelete, Names DEF Delete
    <2>3. CASE MarkOutcome \/ RecoverIssuing
      BY Zenon, <2>3, Concludes DEF MarkOutcome, RecoverIssuing
    <2> QED
      BY Zenon, <1>3, <2>1, <2>2, <2>3, StepStartCollect, StepTakeRow,
         StepCheckReferenced, StepReadGeneration, StepMarkIssuing, StepResolveDelete,
         StepRetire, StepMarkRetired
         DEF CollectorStep
  <1>4. CASE \E p \in Procs : Stop(p)
    BY Zenon, <1>4, StepStop
  <1>5. CASE UNCHANGED vars
    BY ZenonT(40), <1>5, Untouched DEF TypeInv, ProcsType, vars, database
  <1> QED
    BY Zenon, <1>1, <1>2, <1>3, <1>4, <1>5, StepLate DEF Next

LEMMA InitType == Init => TypeInv
  <1> SUFFICES ASSUME Init PROVE TypeInv
    BY Zenon
  <1>1. DatabaseType /\ DOMAIN work = 1 .. Deferred
    <2>1. work \in [1 .. Deferred -> WorkStates] /\ Deferred \in Nat /\ Deferred <= MaxWork
      BY BoundsAssumption DEF Init, WorkStates
    <2>2. work \in Seq(WorkStates) /\ Len(work) = Deferred
      BY <2>1
    <2> QED
      BY ZenonT(40), <2>1, <2>2 DEF Init, DatabaseType
  <1>2. StorageType
    BY BoundsAssumption DEF Init, StorageType, Uploads, Objects, Keys
  <1>3. JournalType /\ RegistryType
    BY SMTT(30), BoundsAssumption DEF Init, JournalType, RegistryType, OneKeyInUse
  <1>4. ProcsType
    <2>1. \A p \in Procs : pc[p] = "idle" /\ local[p] = NoLocals
      BY Zenon DEF Init
    <2>2. pc \in [Procs -> Labels] /\ local \in [Procs -> Frames]
      BY Zenon, NoLocalsType, Names DEF Init
    <2>3. Len(retired) = 0 /\ Len(attempts) = 0
      BY Zenon DEF Init
    <2> QED
      BY SMTT(30), <2>1, <2>2, <2>3, NoLocalsType DEF ProcsType
  <1> QED
    BY SMTT(30), <1>1, <1>2, <1>3, <1>4, BoundsAssumption DEF TypeInv, Init

(* Every variable keeps its type, and every key and id in use exists.      *)
THEOREM TypeInvariant == Spec => []TypeInv
  BY InitType, TypeStep, PTL DEF Spec

(* The state of BlobCollector has the types TypeOK names.                  *)
THEOREM TypeCorrect == Spec => []TypeOK
  <1>1. TypeInv => TypeOK
    <2> SUFFICES ASSUME TypeInv PROVE TypeOK
      BY Zenon
    <2>1. \A p \in Procs : /\ local[p].gen \in Keys /\ local[p].id \in 0 .. Len(attempts)
                           /\ local[p].out \in Outcomes
                           /\ DOMAIN local[p].todo \subseteq DOMAIN work
      BY SMTT(30), Own, Lengths, BoundsAssumption
    <2>2. ASSUME NEW p \in Procs, NEW i \in DOMAIN local[p].todo
          PROVE  local[p].todo[i] \in WorkStates
      <3>1. PICK S \in SUBSET (1 .. MaxWork) : local[p].todo \in [S -> WorkStates]
        BY Own, Zenon DEF Todos
      <3> QED
        BY Zenon, <2>2, <3>1
    <2> QED
      BY <2>1, <2>2, Zenon DEF TypeInv, TypeOK, DatabaseType, StorageType, JournalType,
         RegistryType, ProcsType, Attempts
  <1> QED
    BY <1>1, TypeInvariant, PTL

(* The registry retires each key once and in order, whatever the uploads,  *)
(* passes, crashes and answers of the object store: Generations::retire is *)
(* only ever told a key that was current when it was read.                 *)
THEOREM KeyInUseIsOne == Spec => []OneKeyInUse
  <1>1. TypeInv => OneKeyInUse
    BY Zenon DEF TypeInv, RegistryType
  <1> QED
    BY <1>1, TypeInvariant, PTL

----------------------------------------------------------------------------
(* The journal.                                                            *)

(* Without record deletions there is no work for the worker.               *)
NoWork ==
    ~Worker => /\ pc["worker"] = "idle"
               /\ \A i \in DOMAIN work : work[i] # "delete-pending"

(* A request that is journaled: the worker's only at generation zero.      *)
Sending(p) == pc[p] \in {"send", "resolve"} /\ (p = "worker" => local[p].gen = 0)

(* Who sends has an open attempt of its own, bound to the key and the      *)
(* operation.                                                              *)
OwnAttempt(p) ==
    Sending(p) =>
        /\ local[p].id \in DOMAIN attempts
        /\ attempts[local[p].id].key = local[p].gen /\ attempts[local[p].id].out = "none"
        /\ p # "client" => attempts[local[p].id].op = "delete"

(* The attempt behind a delete the store may still apply: whoever will     *)
(* resolve it has heard nothing else.                                      *)
Open(d, i) ==
    /\ attempts[i].key = d[1] /\ attempts[i].op = "delete"
    /\ attempts[i].out \in {"none", "ambiguous"}
    /\ \A p \in Procs : Sending(p) /\ local[p].id = i =>
          pc[p] = "resolve" /\ local[p].out = "ambiguous"

JournalInv ==
    /\ \A p \in Procs : OwnAttempt(p)
    /\ \A p, q \in Procs : Sending(p) /\ Sending(q) /\ local[p].id = local[q].id => p = q
    /\ \A d \in lateDeletes : d[1] = 0 \/ ~Worker => \E i \in DOMAIN attempts : Open(d, i)

(* A step of p that sends nothing.                                         *)
LEMMA SendsNothing ==
    ASSUME JournalInv, NEW p \in Procs, Only(p), UNCHANGED attempts,
           lateDeletes' \subseteq lateDeletes,
           Sending(p)' => pc'[p] = pc[p] /\ local'[p] = local[p]
    PROVE  JournalInv'
  <1>1. \A q \in Procs : Sending(q)' => Sending(q) /\ pc'[q] = pc[q] /\ local'[q] = local[q]
    BY Zenon DEF Only, Sending
  <1>2. \A q \in Procs : OwnAttempt(q)'
    BY <1>1 DEF JournalInv, OwnAttempt
  <1>3. \A q, r \in Procs : Sending(q)' /\ Sending(r)' /\ local'[q].id = local'[r].id => q = r
    BY Zenon, <1>1 DEF JournalInv
  <1>4. ASSUME NEW d \in lateDeletes, NEW i \in DOMAIN attempts, Open(d, i)
        PROVE  Open(d, i)'
    BY <1>1, <1>4 DEF Open
  <1> QED
    BY <1>2, <1>3, <1>4, Zenon DEF JournalInv

(* An attempt of its own is open before the request.                       *)
LEMMA BeginsFresh ==
    ASSUME TypeInv, JournalInv, NEW p \in Procs, NEW op \in {"write", "delete"},
           p # "client" => op = "delete",
           Only(p), Journals(p, op), pc[p] = "begin", UNCHANGED lateDeletes
    PROVE  JournalInv'
  <1> DEFINE n == Len(attempts) + 1
  <1>1. \A q \in Procs \ {p} : (Sending(q)' <=> Sending(q)) /\ pc'[q] = pc[q]
                               /\ local'[q] = local[q]
    BY Zenon DEF Only, Sending
  <1>2. local'[p].id = n /\ local'[p].gen = local[p].gen /\ n \notin DOMAIN attempts
        /\ DOMAIN attempts' = DOMAIN attempts \cup {n}
        /\ (\A i \in DOMAIN attempts : attempts'[i] = attempts[i])
        /\ attempts'[n].key = local[p].gen /\ attempts'[n].op = op /\ attempts'[n].out = "none"
    BY Zenon DEF Journals, Now
  <1> HIDE DEF n
  <1>3. ASSUME NEW q \in Procs
        PROVE  OwnAttempt(q)' /\ (q # p /\ Sending(q) => local[q].id \in DOMAIN attempts)
    <2>1. CASE q = p
      BY Zenon, <1>2, <2>1 DEF OwnAttempt
    <2>2. CASE q # p
      BY <1>1, <1>2, <2>2 DEF JournalInv, OwnAttempt
    <2> QED
      BY Zenon, <2>1, <2>2
  <1>4. \A q, r \in Procs : Sending(q)' /\ Sending(r)' /\ local'[q].id = local'[r].id => q = r
    <2>1. \A q \in Procs \ {p} : Sending(q)' => local'[q].id \in DOMAIN attempts
      BY ZenonT(40), <1>1, <1>3
    <2>2. \A q \in Procs \ {p} : Sending(q)' => local'[q].id # local'[p].id
      BY ZenonT(40), <1>2, <2>1
    <2>3. \A q, r \in Procs \ {p} :
             Sending(q)' /\ Sending(r)' /\ local'[q].id = local'[r].id => q = r
      BY ZenonT(40), <1>1 DEF JournalInv
    <2> QED
      BY ZenonT(40), <2>2, <2>3
  <1>5. ASSUME NEW d \in lateDeletes, NEW i \in DOMAIN attempts, Open(d, i)
        PROVE  Open(d, i)' /\ i \in DOMAIN attempts'
    BY <1>1, <1>2, <1>5 DEF Open
  <1> QED
    BY <1>3, <1>4, <1>5, Zenon DEF JournalInv

(* An unconfirmed delete leaves its attempt open.                          *)
LEMMA SendsJournaled ==
    ASSUME JournalInv, NoWork, NEW p \in Procs, NEW o, Only(p), UNCHANGED attempts,
           pc[p] = "send", pc'[p] = "resolve", local'[p].gen = local[p].gen,
           local'[p].id = local[p].id, local'[p].out = o,
           \/ lateDeletes' = lateDeletes
           \/ /\ p # "client" /\ o = "ambiguous"
              /\ lateDeletes' = lateDeletes \cup {<<local[p].gen, uploads>>}
    PROVE  JournalInv'
  <1>1. \A q \in Procs : /\ Sending(q)' <=> Sending(q)
                         /\ local'[q].id = local[q].id /\ local'[q].gen = local[q].gen
                         /\ q # p => pc'[q] = pc[q] /\ local'[q] = local[q]
    BY Zenon DEF Only, Sending
  <1>2. \A q \in Procs : OwnAttempt(q)'
    BY <1>1 DEF JournalInv, OwnAttempt
  <1>3. \A q, r \in Procs : Sending(q)' /\ Sending(r)' /\ local'[q].id = local'[r].id => q = r
    BY Zenon, <1>1 DEF JournalInv
  <1>4. ASSUME NEW d \in lateDeletes, NEW i \in DOMAIN attempts, Open(d, i)
        PROVE  Open(d, i)'
    <2>1. ~(Sending(p) /\ local[p].id = i)
      BY Zenon, <1>4 DEF Open
    <2> QED
      BY <1>1, <1>4, <2>1 DEF Open
  <1>5. ASSUME p # "client", o = "ambiguous", local[p].gen = 0 \/ ~Worker,
               NEW d, d[1] = local[p].gen
        PROVE  \E i \in DOMAIN attempts : Open(d, i)'
    <2>1. Sending(p)
      BY Zenon, <1>5 DEF NoWork, Sending
    <2>2. /\ local[p].id \in DOMAIN attempts /\ attempts[local[p].id].key = local[p].gen
          /\ attempts[local[p].id].out = "none" /\ attempts[local[p].id].op = "delete"
      BY Zenon, <1>5, <2>1 DEF JournalInv, OwnAttempt
    <2>3. \A q \in Procs : Sending(q)' /\ local'[q].id = local[p].id => q = p
      BY Zenon, <1>1, <2>1 DEF JournalInv
    <2>4. PICK i : i = local[p].id
      BY Zenon
    <2>5. Open(d, i)'
      BY Zenon, <1>5, <2>2, <2>3, <2>4 DEF Open
    <2> QED
      BY Zenon, <2>2, <2>4, <2>5
  <1>6. ASSUME NEW d \in lateDeletes', d[1] = 0 \/ ~Worker
        PROVE  \E i \in DOMAIN attempts : Open(d, i)'
    <2>1. CASE d \in lateDeletes
      BY <1>4, <1>6, <2>1, Zenon DEF JournalInv
    <2>2. CASE d \notin lateDeletes
      <3>1. d = <<local[p].gen, uploads>> /\ p # "client" /\ o = "ambiguous"
        BY Zenon, <1>6, <2>2
      <3>2. d[1] = local[p].gen /\ (local[p].gen = 0 \/ ~Worker)
        BY Zenon, <1>6, <3>1
      <3> QED
        BY Zenon, <1>5, <3>1, <3>2
    <2> QED
      BY Zenon, <2>1, <2>2
  <1> QED
    BY <1>2, <1>3, <1>6, Zenon DEF JournalInv

(* An attempt is closed by who opened it, with what it heard.              *)
LEMMA ResolvesOwn ==
    ASSUME JournalInv, NEW p \in Procs, Only(p), Records(p), Sending(p), ~(Sending(p)'),
           UNCHANGED lateDeletes
    PROVE  JournalInv'
  <1>1. \A q \in Procs \ {p} : (Sending(q)' <=> Sending(q)) /\ pc'[q] = pc[q]
                               /\ local'[q] = local[q]
    BY Zenon DEF Only, Sending
  <1>2. \A q \in Procs : OwnAttempt(q)'
    BY <1>1 DEF JournalInv, OwnAttempt, Records
  <1>3. \A q, r \in Procs : Sending(q)' /\ Sending(r)' /\ local'[q].id = local'[r].id => q = r
    BY Zenon, <1>1 DEF JournalInv
  <1>4. ASSUME NEW d \in lateDeletes, NEW i \in DOMAIN attempts, Open(d, i)
        PROVE  Open(d, i)' /\ i \in DOMAIN attempts'
    <2>1. attempts'[i].key = d[1] /\ attempts'[i].op = "delete" /\ i \in DOMAIN attempts'
          /\ attempts'[i].out \in {"none", "ambiguous"}
      BY Zenon, <1>4 DEF Open, Records
    <2>2. \A q \in Procs : Sending(q)' /\ local'[q].id = i =>
             pc'[q] = "resolve" /\ local'[q].out = "ambiguous"
      BY <1>1, <1>4 DEF Open
    <2> QED
      BY Zenon, <2>1, <2>2 DEF Open
  <1> QED
    BY <1>2, <1>3, <1>4, Zenon DEF JournalInv

LEMMA NoWorkStep ==
    ASSUME TypeInv, NoWork, [Next]_vars
    PROVE  NoWork'
  <1> SUFFICES ASSUME ~Worker
               PROVE  pc'["worker"] = "idle"
                      /\ \A i \in DOMAIN work' : work'[i] # "delete-pending"
    BY Zenon DEF NoWork
  <1>1. pc["worker"] = "idle" /\ \A i \in DOMAIN work : work[i] # "delete-pending"
    BY Zenon DEF NoWork
  <1>2. ASSUME NEW p \in Procs \ {"worker"}, Only(p)
        PROVE  pc'["worker"] = "idle"
    BY Zenon, <1>1, <1>2, Names DEF Only
  <1>3. ASSUME NEW s \in WorkStates \ {"delete-pending"}, Wrote(s)
        PROVE  \A i \in DOMAIN work' : work'[i] # "delete-pending"
    BY Zenon, <1>1, <1>3 DEF Wrote
  <1>4. CASE ClientStep
    <2>1. ~DeleteRecord
      BY Zenon DEF DeleteRecord
    <2>2. UNCHANGED work
      BY Zenon, <1>4, <2>1 DEF ClientStep, UploadBlob, StartWrite, CheckStored,
         BeginCopy, Copy, ResolveCopy, DropTemp, CommitWrite, database
    <2>3. pc'["worker"] = "idle"
      BY Zenon, <1>1, <1>4, <2>1 DEF ClientStep, UploadBlob, StartWrite, CheckStored,
         BeginCopy, Copy, ResolveCopy, DropTemp, CommitWrite, Keep, Return, Goto, TypeInv,
         ProcsType, Procs
    <2> QED
      BY Zenon, <1>1, <2>2, <2>3
  <1>5. CASE WorkerStep
    BY Zenon, <1>1, <1>5 DEF WorkerStep, StartWork, WorkerGeneration, WorkerBegin,
       WorkerDelete, WorkerResolve, WorkerFinish
  <1>6. CASE CollectorStep
    <2>1. pc'["worker"] = "idle"
      BY Zenon, <1>1, <1>6 DEF CollectorStep, StartCollect, TakeRow, CheckReferenced,
         ReadGeneration, MarkIssuing, BeginDelete, Delete, ResolveDelete, MarkOutcome,
         RecoverIssuing, Conclude, Retire, MarkRetired, Keep, Return, Goto, TypeInv,
         ProcsType, Procs
    <2>2. UNCHANGED work \/ \E s \in WorkStates \ {"delete-pending"} : Wrote(s)
      <3> DEFINE Wrought == \E s \in WorkStates \ {"delete-pending"} : Wrote(s)
      <3>1. \A s \in WorkStates \ {"delete-pending"} : Wrote(s) => Wrought
        BY Zenon
      <3>2. /\ "checking" # "delete-pending" /\ "superseded" # "delete-pending"
            /\ "issuing" # "delete-pending" /\ "done" # "delete-pending"
            /\ "failed" # "delete-pending" /\ "ambiguous" # "delete-pending"
            /\ "retired" # "delete-pending"
        BY Zenon
      <3> HIDE DEF Wrought
      <3>3. CASE StartCollect \/ ReadGeneration \/ BeginDelete \/ Delete \/ ResolveDelete \/ Retire
        BY Zenon, <3>3 DEF StartCollect, ReadGeneration, BeginDelete, Delete,
           ResolveDelete, Retire, database
      <3>4. CASE MarkOutcome \/ RecoverIssuing
        BY Zenon, <3>1, <3>2, <3>4, Concludes, StateNames DEF MarkOutcome,
           RecoverIssuing
      <3>5. CASE TakeRow \/ CheckReferenced \/ MarkIssuing \/ MarkRetired
        BY Zenon, <3>1, <3>2, <3>5, StepTakeRow, StepCheckReferenced, StepMarkIssuing,
           StepMarkRetired, StateNames
      <3> QED
        BY Zenon, <1>6, <3>3, <3>4, <3>5 DEF CollectorStep, Wrought
    <2> QED
      BY Zenon, <1>1, <1>3, <2>1, <2>2
  <1>7. CASE LateDelete \/ LateWrite \/ UNCHANGED vars
    BY Zenon, <1>1, <1>7 DEF LateDelete, LateWrite, vars, database
  <1>8. CASE \E p \in Procs : Stop(p)
    BY Zenon, <1>1, <1>8 DEF Stop, Return, Goto, database, TypeInv, ProcsType, Procs
  <1> QED
    BY Zenon, <1>4, <1>5, <1>6, <1>7, <1>8 DEF Next

LEMMA JournalStep ==
    ASSUME TypeInv, NoWork, JournalInv, [Next]_vars
    PROVE  JournalInv'
  <1> USE Names
  <1>1. ASSUME NEW p \in Procs, Only(p), UNCHANGED attempts, lateDeletes' \subseteq lateDeletes,
               pc'[p] \notin {"send", "resolve"}
        PROVE  JournalInv'
    BY Zenon, <1>1, SendsNothing DEF Sending
  <1>2. ASSUME UNCHANGED <<attempts, pc, local>>, lateDeletes' \subseteq lateDeletes
        PROVE  JournalInv'
    <2>1. Only("client")
      BY Zenon, <1>2 DEF Only
    <2> QED
      BY Zenon, <1>2, <2>1, SendsNothing
  <1>3. CASE UploadBlob \/ DeleteRecord \/ LateDelete \/ LateWrite \/ UNCHANGED vars
    BY Zenon, <1>2, <1>3 DEF UploadBlob, DeleteRecord, LateDelete, LateWrite, vars,
       storage
  <1>4. CASE StartWrite \/ CheckStored \/ DropTemp \/ CommitWrite
    <2>1. UNCHANGED <<attempts, lateDeletes>>
      BY Zenon, <1>4 DEF StartWrite, CheckStored, DropTemp, CommitWrite, storage
    <2>2. Only("client") /\ pc'["client"] \notin {"send", "resolve"}
      BY Zenon, <1>4, StepStartWrite, StepCheckStored, StepDropTemp, StepCommitWrite
         DEF Stays, Ends, Now
    <2> QED
      BY Zenon, <1>1, <2>1, <2>2
  <1>5. CASE BeginCopy
    <2>1. Only("client") /\ Journals("client", "write")
      BY Zenon, <1>5, StepBegin DEF BeginCopy
    <2> QED
      BY Zenon, <1>5, <2>1, BeginsFresh DEF BeginCopy, storage
  <1>6. CASE Copy
    <2>1. PICK o : Only("client") /\ CopyEffect(local["client"].gen, o)
                   /\ Now("client", "resolve", local["client"].gen, local["client"].id, o,
                          local["client"].todo)
      BY Zenon, <1>6, StepCopy
    <2> QED
      BY Zenon, <1>6, <2>1, SendsJournaled DEF Copy, Now, CopyEffect
  <1>7. CASE ResolveCopy
    <2>1. Only("client") /\ Records("client") /\ Sending("client") /\ ~(Sending("client")')
      BY Zenon, <1>7, StepResolveCopy DEF ResolveCopy, Sending, Stays, Ends, Now
    <2> QED
      BY Zenon, <1>7, <2>1, ResolvesOwn DEF ResolveCopy, storage
  <1>8. CASE StartWork \/ WorkerFinish
    <2>1. UNCHANGED <<attempts, lateDeletes>>
      BY Zenon, <1>8 DEF StartWork, WorkerFinish, storage
    <2>2. Only("worker") /\ pc'["worker"] \notin {"send", "resolve"}
      BY Zenon, <1>8, StepStartWork, StepWorkerFinish DEF Ends, Now
    <2> QED
      BY Zenon, <1>1, <2>1, <2>2
  <1>9. CASE WorkerGeneration
    <2>1. Only("worker") /\ ~(Sending("worker")')
      BY Zenon, <1>9, StepWorkerGeneration DEF Now, Sending
    <2> QED
      BY Zenon, <1>9, <2>1, SendsNothing DEF WorkerGeneration, storage
  <1>10. CASE WorkerBegin
    <2>1. Only("worker") /\ Journals("worker", "delete")
      BY Zenon, <1>10, StepBegin DEF WorkerBegin
    <2> QED
      BY Zenon, <1>10, <2>1, BeginsFresh DEF WorkerBegin, storage
  <1>11. CASE WorkerDelete
    <2>1. PICK o : Only("worker") /\ DeleteEffect(local["worker"].gen, o)
                   /\ Now("worker", "resolve", local["worker"].gen, local["worker"].id, o,
                          local["worker"].todo)
      BY Zenon, <1>11, StepDelete DEF WorkerDelete
    <2> QED
      BY Zenon, <1>11, <2>1, SendsJournaled DEF WorkerDelete, Now, DeleteEffect
  <1>12. CASE WorkerResolve
    <2>1. Only("worker") /\ ~(Sending("worker")')
          /\ IF local["worker"].gen = 0 THEN Records("worker") ELSE UNCHANGED attempts
      BY Zenon, <1>12, StepWorkerResolve DEF Stays, Ends, Now, Sending
    <2>2. UNCHANGED lateDeletes
      BY Zenon, <1>12 DEF WorkerResolve, storage
    <2>3. CASE local["worker"].gen = 0
      <3>1. Sending("worker")
        BY Zenon, <1>12, <2>3 DEF WorkerResolve, Sending
      <3> QED
        BY Zenon, <2>1, <2>2, <2>3, <3>1, ResolvesOwn
    <2>4. CASE local["worker"].gen # 0
      BY Zenon, <2>1, <2>2, <2>4, SendsNothing
    <2> QED
      BY Zenon, <2>3, <2>4
  <1>13. CASE BeginDelete
    <2>1. Only("collector") /\ Journals("collector", "delete")
      BY Zenon, <1>13, StepBegin DEF BeginDelete
    <2> QED
      BY Zenon, <1>13, <2>1, BeginsFresh DEF BeginDelete, storage
  <1>14. CASE Delete
    <2>1. PICK o : Only("collector") /\ DeleteEffect(local["collector"].gen, o)
                   /\ Now("collector", "resolve", local["collector"].gen,
                          local["collector"].id, o, local["collector"].todo)
      BY Zenon, <1>14, StepDelete DEF Delete
    <2> QED
      BY Zenon, <1>14, <2>1, SendsJournaled DEF Delete, Now, DeleteEffect
  <1>15. CASE ResolveDelete
    <2>1. Only("collector") /\ Records("collector") /\ Sending("collector")
          /\ ~(Sending("collector")')
      BY Zenon, <1>15, StepResolveDelete DEF ResolveDelete, Sending, Stays, Now
    <2> QED
      BY Zenon, <1>15, <2>1, ResolvesOwn DEF ResolveDelete, storage
  <1>16. CASE StartCollect \/ TakeRow \/ CheckReferenced \/ ReadGeneration \/ MarkIssuing
              \/ MarkOutcome \/ RecoverIssuing \/ Retire \/ MarkRetired
    <2>1. UNCHANGED <<attempts, lateDeletes>>
      BY Zenon, <1>16 DEF StartCollect, TakeRow, CheckReferenced, ReadGeneration,
         MarkIssuing, MarkOutcome, RecoverIssuing, Retire, MarkRetired, storage
    <2>2. Only("collector") /\ pc'["collector"] \notin {"send", "resolve"}
      <3>1. CASE MarkOutcome \/ RecoverIssuing
        BY Zenon, <3>1, Concludes DEF MarkOutcome, RecoverIssuing, Stays, Advanced, Now
      <3>2. CASE StartCollect \/ TakeRow \/ CheckReferenced
        BY Zenon, <3>2, StepStartCollect, StepTakeRow, StepCheckReferenced
           DEF Stays, Ends, Advanced, Chosen, Now
      <3>3. CASE ReadGeneration \/ MarkIssuing \/ Retire \/ MarkRetired
        BY Zenon, <3>3, StepReadGeneration, StepMarkIssuing, StepRetire, StepMarkRetired
           DEF Stays, Advanced, Chosen, Now
      <3> QED
        BY Zenon, <1>16, <3>1, <3>2, <3>3
    <2> QED
      BY Zenon, <1>1, <2>1, <2>2
  <1>17. CASE \E p \in Procs : Stop(p)
    <2>1. PICK p \in Procs : Stop(p)
      BY Zenon, <1>17
    <2>2. Only(p) /\ pc'[p] = "idle"
      BY Zenon, <2>1, StepStop DEF Ends, Now
    <2> QED
      BY Zenon, <1>1, <2>1, <2>2 DEF Stop, storage
  <1> QED
    BY Zenon, <1>3, <1>4, <1>5, <1>6, <1>7, <1>8, <1>9, <1>10, <1>11, <1>12, <1>13,
       <1>14, <1>15, <1>16, <1>17 DEF Next, ClientStep, WorkerStep, CollectorStep

(* Whoever sends has an open attempt of its own, for every behaviour.      *)
THEOREM JournalInvariant == Spec => [](TypeInv /\ NoWork /\ JournalInv)
  <1>1. Init => TypeInv /\ NoWork /\ JournalInv
    <2> SUFFICES ASSUME Init PROVE TypeInv /\ NoWork /\ JournalInv
      BY Zenon
    <2>1. \A p \in Procs : pc[p] = "idle"
      BY Zenon DEF Init
    <2>2. NoWork
      BY Zenon, <2>1, Names DEF Init, NoWork
    <2>3. JournalInv
      BY Zenon, <2>1 DEF Init, JournalInv, OwnAttempt, Sending
    <2> QED
      BY Zenon, <2>2, <2>3, InitType
  <1>2. TypeInv /\ NoWork /\ JournalInv /\ [Next]_vars => (TypeInv /\ NoWork /\ JournalInv)'
    BY Zenon, TypeStep, NoWorkStep, JournalStep
  <1> QED
    BY <1>1, <1>2, PTL DEF Spec

(* Every delete the store may still apply is an open attempt of the        *)
(* journal, as long as no record is deleted: whatever crashes and whoever  *)
(* runs beside the collector, the attempt is journaled before the request  *)
(* and closed only by who sent it, with the answer it heard.  The worker   *)
(* journals its deletes at generation zero only (GenerationAware.delete),  *)
(* which is why the rest of the claim needs ~Worker.                       *)
THEOREM UnconfirmedStaysJournaled ==
    Spec => [](~Worker => UnconfirmedIsJournaled)
  <1>1. JournalInv => (~Worker => UnconfirmedIsJournaled)
    BY Zenon DEF JournalInv, Open, UnconfirmedIsJournaled
  <1> QED
    BY <1>1, JournalInvariant, PTL

(* Of deletes of the original key the claim holds without any condition.   *)
OriginalKeyIsJournaled ==
    \A d \in lateDeletes : d[1] = 0 =>
        \E i \in DOMAIN attempts : /\ attempts[i].key = 0 /\ attempts[i].op = "delete"
                                   /\ attempts[i].out \in {"none", "ambiguous"}

(* A delete of the original key the store may still apply has an open      *)
(* attempt, also while records are deleted and the worker runs.            *)
THEOREM OriginalKeyStaysJournaled == Spec => []OriginalKeyIsJournaled
  <1>1. JournalInv => OriginalKeyIsJournaled
    BY DEF JournalInv, Open, OriginalKeyIsJournaled
  <1> QED
    BY <1>1, JournalInvariant, PTL

=============================================================================
