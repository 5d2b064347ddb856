---------------------- MODULE SequencerOutboxProofs -------------------------
(***************************************************************************)
(* Proofs about SequencerOutbox: it is type-correct, and a subscriber of a *)
(* poll loop that is up before the server serves sees no gap and no        *)
(* repeat, for any number of subscribers and events and any page, poll and *)
(* broadcast sizes.                                                        *)
(***************************************************************************)
EXTENDS SequencerOutbox, FiniteSetTheorems, TLAPS

(* The poll loop is behind the rows; batches follow each other.            *)
PollInv ==
    /\ \A n \in rows : n <= head
    /\ polled <= head
    /\ \A k \in 1 .. Len(sent) : \A n \in sent[k] : n <= polled
    /\ \A j, k \in 1 .. Len(sent) : j < k =>
          \A m \in sent[j], n \in sent[k] : m < n

(* Nobody is subscribed before the poll loop has read its head.            *)
StartInv ==
    poller = "starting" =>
        /\ sent = <<>>
        /\ \A s \in Subscribers : phase[s] = "off"

(* What has been sent lies between the cursor and the position, ascending, *)
(* and nothing servable between the two is missing.                        *)
SentInv(s) ==
    /\ from[s] <= last[s]
    /\ \A i \in 1 .. Len(got[s]) : from[s] < got[s][i] /\ got[s][i] <= last[s]
    /\ \A i, j \in 1 .. Len(got[s]) : i < j => got[s][i] < got[s][j]
    /\ \A n \in rows : from[s] < n /\ n <= last[s] =>
          \E i \in 1 .. Len(got[s]) : got[s][i] = n

(* Still to come from the broadcast: what was polled above `above`.        *)
Waiting(s, above) ==
    \A n \in rows : above < n /\ n <= polled =>
        \/ n \in buf[s]
        \/ \E k \in 1 .. Len(sent) : pos[s] < k /\ n \in sent[k]

(* A page lies between the position and the head and leaves nothing out;   *)
(* what is polled above the head waits in the broadcast.                   *)
BackfillInv(s) ==
    /\ last[s] <= top[s]
    /\ \A b \in buf[s] : last[s] < b /\ b <= top[s]
    /\ \A n \in rows : \A b \in buf[s] : last[s] < n /\ n <= b => n \in buf[s]
    /\ \A n \in rows : top[s] < n /\ n <= polled =>
          \E k \in 1 .. Len(sent) : pos[s] < k /\ n \in sent[k]

(* What is polled above the position is in the batch at hand or waits, and *)
(* the batch at hand comes before what waits.                              *)
LiveInv(s) ==
    /\ Waiting(s, last[s])
    /\ \A b \in buf[s] : b <= polled
    /\ \A b \in buf[s] : \A k \in 1 .. Len(sent) :
          pos[s] < k => \A n \in sent[k] : b < n

StreamInv(s) ==
    /\ phase[s] \notin Streaming => buf[s] = {} /\ got[s] = <<>>
    /\ phase[s] = "opening" => from[s] <= head
    /\ phase[s] \in Streaming => SentInv(s)
    /\ phase[s] \in Streaming => last[s] <= head
    /\ phase[s] = "backfill" => BackfillInv(s) /\ top[s] <= head
    /\ phase[s] = "live" => LiveInv(s)

IInv ==
    /\ TypeOK
    /\ PollInv
    /\ StartInv
    /\ \A s \in Subscribers : StreamInv(s)

-----------------------------------------------------------------------------
(* The rows a poll or a page reads: some of the unread ones, and with each *)
(* of them every earlier one.                                              *)
LEMMA FirstOfPrefix ==
    ASSUME NEW S \in SUBSET Seqs, NEW k \in Nat \ {0}
    PROVE  /\ FirstOf(S, k) \subseteq S
           /\ \A n \in FirstOf(S, k), m \in S : m <= n => m \in FirstOf(S, k)
<1>1. FirstOf(S, k) \subseteq S
  BY Zenon DEF FirstOf
<1>2. ASSUME NEW n \in FirstOf(S, k), NEW m \in S, m <= n
      PROVE  m \in FirstOf(S, k)
  <2>1. IsFiniteSet(Seqs)
    BY FS_Interval, OutboxAssumption DEF Seqs
  <2>2. IsFiniteSet(S)
    BY Zenon, <2>1, FS_Subset
  <2> DEFINE A == {x \in S : x <= m}
             B == {x \in S : x <= n}
  <2>a. n \in S
    BY Zenon, <1>1
  <2>3. ASSUME NEW x \in S, x <= m PROVE x <= n
    <3>1. x \in Int /\ m \in Int /\ n \in Int
      BY <2>a, OutboxAssumption DEF Seqs
    <3> QED
      BY <1>2, <2>3, <3>1
  <2>9. A \subseteq B
    BY Zenon, <2>3
  <2>4. IsFiniteSet(B) /\ IsFiniteSet(A)
    BY Zenon, <2>2, FS_Subset
  <2>5. Cardinality(A) <= Cardinality(B)
    BY Zenon, <2>9, <2>4, FS_Subset
  <2>6. Cardinality(A) \in Nat /\ Cardinality(B) \in Nat
    BY Zenon, <2>4, FS_CardinalityType
  <2>7. Cardinality(B) <= k
    BY Zenon DEF FirstOf
  <2>8. Cardinality(A) <= k
    BY <2>5, <2>6, <2>7
  <2> QED
    BY Zenon, <2>8 DEF FirstOf
<1> QED
  BY Zenon, <1>1, <1>2

(* What a page may hold are sequence numbers.                              *)
LEMMA UnreadType ==
    ASSUME TypeOK, NEW a, NEW b
    PROVE  Unread(a, b) \in SUBSET Seqs
  BY Zenon DEF TypeOK, Unread

(* The state a server starts in is well typed.                             *)
LEMMA TypeInit == Init => TypeOK
  BY OutboxAssumption DEF Init, TypeOK, Seqs, NoCursor, PollerStates, Phases

(* The writers of the rows keep the types.                                 *)
LEMMA TypeRows ==
    ASSUME TypeOK,
           \/ Sequence
           \/ \E n \in Seqs : Invalidate(n)
           \/ \E D \in SUBSET Seqs : Prune(D)
    PROVE  TypeOK'
<1> USE OutboxAssumption DEF TypeOK, rowVars, pollVars, subVars
<1>1. CASE Sequence
  BY <1>1 DEF Sequence, Seqs
<1>2. CASE \E n \in Seqs : Invalidate(n)
  BY Zenon, <1>2 DEF Invalidate
<1>3. CASE \E D \in SUBSET Seqs : Prune(D)
  BY Zenon, <1>3 DEF Prune
<1> QED
  BY Zenon, <1>1, <1>2, <1>3

(* The poll loop keeps the types.                                          *)
LEMMA TypePoller ==
    ASSUME TypeOK, StartPoller \/ StartFails \/ Poll \/ Destroy
    PROVE  TypeOK'
<1> USE OutboxAssumption DEF TypeOK, rowVars, pollVars, subVars, PollerStates
<1>1. CASE StartPoller
  BY Zenon, <1>1 DEF StartPoller
<1>2. CASE StartFails
  BY Zenon, <1>2 DEF StartFails
<1>3. CASE Poll
  <2> DEFINE batch == FirstOf(Unread(polled, head), PollLimit)
  <2>1. batch \subseteq Seqs
    BY ZenonT(40), UnreadType, FirstOfPrefix
  <2>2. sent' = Append(sent, batch) /\ polled' \in batch
    BY Zenon, <1>3 DEF Poll
  <2>3. polled' \in 0 .. MaxSeq
    BY <2>1, <2>2 DEF Seqs
  <2> HIDE DEF batch
  <2>4. sent' \in Seq(SUBSET Seqs) /\ Len(sent') = Len(sent) + 1
    BY <2>1, <2>2
  <2>5. \A s \in Subscribers : pos'[s] <= Len(sent')
    BY <1>3, <2>4 DEF Poll
  <2> QED
    BY Zenon, <1>3, <2>3, <2>4, <2>5 DEF Poll
<1>4. CASE Destroy
  BY Zenon, <1>4 DEF Destroy
<1> QED
  BY Zenon, <1>1, <1>2, <1>3, <1>4

(* The end of a stream keeps the types.                                    *)
LEMMA TypeEnd ==
    ASSUME TypeOK, NEW s \in Subscribers, NEW how \in Phases, End(s, how),
           UNCHANGED <<rowVars, pollVars, restarts>>
    PROVE  TypeOK'
  BY SMTT(30), OutboxAssumption DEF TypeOK, End, rowVars, pollVars, NoCursor

(* The steps of a subscription keep the types.                             *)
LEMMA TypeStream ==
    ASSUME TypeOK, NEW s \in Subscribers,
           \/ \E cursor \in NoCursor .. MaxSeq : Subscribe(s, cursor)
           \/ ReadHead(s)
           \/ LoadPage(s)
           \/ Recv(s)
           \/ Yield(s)
           \/ Disconnect(s)
    PROVE  TypeOK'
<1> USE OutboxAssumption DEF TypeOK, rowVars, pollVars, Phases
<1>1. ASSUME NEW cursor \in NoCursor .. MaxSeq, Subscribe(s, cursor)
      PROVE  TypeOK'
  BY <1>1 DEF Subscribe
<1>2. CASE ReadHead(s)
  BY <1>2 DEF ReadHead, NoCursor
<1>3. CASE LoadPage(s)
  <2> DEFINE unread == Unread(last[s], top[s])
             page == FirstOf(unread, PageSize)
  <2>2. /\ \/ phase' = [phase EXCEPT ![s] = "live"] /\ buf' = buf
           \/ buf' = [buf EXCEPT ![s] = page] /\ phase' = phase
        /\ UNCHANGED <<rowVars, pollVars, from, top, last, pos, got, restarts>>
    BY Zenon, <1>3 DEF LoadPage
  <2>0. unread \in SUBSET Seqs
    BY Zenon DEF Unread
  <2> HIDE DEF unread
  <2>1. page \subseteq Seqs
    BY Zenon, <2>0, FirstOfPrefix
  <2> HIDE DEF page
  <2>3. phase' \in [Subscribers -> Phases]
    BY Zenon, <2>2
  <2>4. buf' \in [Subscribers -> SUBSET Seqs]
    BY ZenonT(40), <2>1, <2>2
  <2>5. \A x \in Subscribers : pos'[x] <= Len(sent')
    BY Zenon, <2>2
  <2> QED
    BY Zenon, <2>2, <2>3, <2>4, <2>5
<1>4. CASE Recv(s)
  <2>1. CASE End(s, "slow")
    BY ZenonT(40), <1>4, <2>1, TypeEnd DEF Recv
  <2>2. CASE ~End(s, "slow")
    <3>1. /\ buf' = [buf EXCEPT ![s] = sent[pos[s] + 1]]
          /\ pos' = [pos EXCEPT ![s] = @ + 1]
          /\ UNCHANGED <<phase, from, top, last, got, rowVars, pollVars, restarts>>
      BY ZenonT(40), <1>4, <2>2 DEF Recv
    <3>2. pos[s] < Len(sent)
      BY Zenon, <1>4 DEF Recv
    <3>3. sent[pos[s] + 1] \in SUBSET Seqs
      BY <3>2
    <3>4. buf' \in [Subscribers -> SUBSET Seqs]
      BY Zenon, <3>1, <3>3
    <3>5. pos[s] + 1 \in Nat /\ pos[s] + 1 <= Len(sent)
      BY <3>2
    <3>6. /\ pos' \in [Subscribers -> Nat]
          /\ \A x \in Subscribers : pos'[x] <= Len(sent)
      BY Zenon, <3>1, <3>5
    <3> QED
      BY ZenonT(40), <3>1, <3>4, <3>6
  <2> QED
    BY ZenonT(40), <2>1, <2>2
<1>5. CASE Yield(s)
  <2>1. PICK n \in buf[s] :
           /\ buf' = [buf EXCEPT ![s] = @ \ {n}]
           /\ IF phase[s] = "backfill" \/ n > last[s]
                 THEN /\ last' = [last EXCEPT ![s] = n]
                      /\ got' = [got EXCEPT ![s] = Append(@, n)]
                 ELSE UNCHANGED <<last, got>>
    BY ZenonT(40), <1>5 DEF Yield
  <2>2. n \in Seqs
    BY Zenon
  <2>3. Append(got[s], n) \in Seq(Seqs)
    BY <2>2
  <2>4. buf' \in [Subscribers -> SUBSET Seqs]
    BY Zenon, <2>1
  <2>5. last' \in [Subscribers -> 0 .. MaxSeq]
    <3>1. n \in 0 .. MaxSeq
      BY <2>2 DEF Seqs
    <3>2. last' = [last EXCEPT ![s] = n] \/ last' = last
      BY Zenon, <2>1
    <3> QED
      BY ZenonT(40), <3>1, <3>2
  <2>6. got' \in [Subscribers -> Seq(Seqs)]
    <3>1. \/ got' = [got EXCEPT ![s] = Append(got[s], n)]
          \/ got' = got
      BY Zenon, <2>1
    <3> QED
      BY ZenonT(40), <2>3, <3>1
  <2>7. UNCHANGED <<rowVars, pollVars, phase, from, top, pos, restarts>>
    BY Zenon, <1>5 DEF Yield
  <2>8. \A x \in Subscribers : pos'[x] <= Len(sent')
    BY Zenon, <2>7
  <2> QED
    BY Zenon, <2>4, <2>5, <2>6, <2>7, <2>8
<1>6. CASE Disconnect(s)
  BY ZenonT(40), <1>6, TypeEnd DEF Disconnect
<1> QED
  BY ZenonT(40), <1>1, <1>2, <1>3, <1>4, <1>5, <1>6

(* A restart keeps the types.                                              *)
LEMMA TypeRestart ==
    ASSUME TypeOK, Restart
    PROVE  TypeOK'
  BY OutboxAssumption DEF TypeOK, Restart, rowVars, PollerStates, Phases, NoCursor

(* Every step keeps the variables in their types.                          *)
LEMMA TypeStep == TypeOK /\ [Next]_vars => TypeOK'
<1> SUFFICES ASSUME TypeOK, [Next]_vars PROVE TypeOK'
  BY Zenon
<1>1. CASE UNCHANGED vars
  BY Zenon, <1>1 DEF TypeOK, vars, rowVars, pollVars, subVars
<1>2. CASE Next
  BY Zenon, <1>2, TypeRows, TypePoller, TypeStream, TypeRestart DEF Next
<1> QED
  BY Zenon, <1>1, <1>2

(* The firehose is type-correct, whatever its sizes.                       *)
THEOREM TypeCorrect == Spec => []TypeOK
  BY TypeInit, TypeStep, PTL DEF Spec

-----------------------------------------------------------------------------
(* What a poll reads: rows above the old position and up to the new one,   *)
(* all of them.                                                            *)
LEMMA PollBatch ==
    ASSUME TypeOK, Poll, NEW batch,
           batch = FirstOf(Unread(polled, head), PollLimit)
    PROVE  /\ sent' = Append(sent, batch)
           /\ batch \in SUBSET rows
           /\ polled' \in batch
           /\ \A n \in batch : polled < n /\ n <= polled' /\ n <= head
           /\ \A n \in rows : polled < n /\ n <= polled' /\ n <= head => n \in batch
<1> DEFINE unread == Unread(polled, head)
<1>1. unread \in SUBSET Seqs
  BY Zenon, UnreadType
<1>2. /\ batch \subseteq unread
      /\ \A n \in batch, m \in unread : m <= n => m \in batch
  BY Zenon, <1>1, FirstOfPrefix, OutboxAssumption
<1>3. /\ sent' = Append(sent, batch) /\ polled' \in batch
      /\ \A n \in batch : n <= polled'
  BY Zenon DEF Poll
<1>4. \A n : n \in unread <=> n \in rows /\ polled < n /\ n <= head
  BY Zenon DEF Unread
<1> HIDE DEF unread
<1> QED
  BY Zenon, <1>2, <1>3, <1>4

(* The poll loop stays behind the rows, and its batches follow each other. *)
LEMMA PollInvStep ==
    ASSUME TypeOK, PollInv, StartInv, [Next]_vars
    PROVE  PollInv'
<1>1. ASSUME UNCHANGED pollVars, head <= head',
             \A n \in rows' : n \in rows \/ n <= head', head' \in Int
      PROVE  PollInv'
  <2>1. sent' = sent /\ polled' = polled
    BY Zenon, <1>1 DEF pollVars
  <2>2. \A n \in rows : n \in Int
    BY DEF TypeOK, Seqs
  <2>3. \A n \in rows' : n <= head'
    BY <1>1, <2>2 DEF PollInv, TypeOK
  <2>4. polled' <= head'
    BY <1>1, <2>1 DEF PollInv, TypeOK
  <2> QED
    BY Zenon, <2>1, <2>3, <2>4 DEF PollInv
<1>2. ASSUME UNCHANGED <<pollVars, rowVars>> PROVE PollInv'
  BY Zenon, <1>2 DEF PollInv, pollVars, rowVars
<1>3. CASE UNCHANGED vars
  BY Zenon, <1>3, <1>2 DEF vars
<1>4. CASE Sequence
  BY <1>4, <1>1 DEF Sequence, TypeOK
<1>5. ASSUME NEW n \in Seqs, Invalidate(n) PROVE PollInv'
  BY <1>5, <1>1 DEF Invalidate, TypeOK
<1>6. ASSUME NEW D \in SUBSET Seqs, Prune(D) PROVE PollInv'
  BY <1>6, <1>1 DEF Prune, TypeOK
<1>7. CASE StartPoller
  <2>1. sent' = <<>> /\ polled' = head /\ head' = head /\ rows' = rows
    BY Zenon, <1>7 DEF StartPoller, StartInv, rowVars
  <2>2. Len(sent') = 0
    BY Zenon, <2>1
  <2> QED
    BY <2>1, <2>2 DEF PollInv, TypeOK
<1>8. CASE StartFails \/ Destroy
  BY Zenon, <1>8 DEF StartFails, Destroy, PollInv, rowVars
<1>9. CASE Poll
  <2> DEFINE batch == FirstOf(Unread(polled, head), PollLimit)
  <2>1. /\ sent' = Append(sent, batch)
        /\ batch \in SUBSET rows
        /\ polled' \in batch
        /\ \A n \in batch : polled < n /\ n <= polled' /\ n <= head
    BY Zenon, <1>9, PollBatch
  <2> HIDE DEF batch
  <2>2. UNCHANGED rowVars
    BY Zenon, <1>9 DEF Poll
  <2>3. /\ Len(sent') = Len(sent) + 1
        /\ \A k \in 1 .. Len(sent) : sent'[k] = sent[k]
        /\ sent'[Len(sent) + 1] = batch
        /\ Len(sent) \in Nat
        /\ batch \in SUBSET Seqs
    BY <2>1 DEF TypeOK
  <2>4. polled \in Int /\ polled' \in Int /\ polled < polled' /\ polled' <= head'
    BY <2>1, <2>2, <2>3, OutboxAssumption DEF TypeOK, rowVars, Seqs
  <2>5. ASSUME NEW k \in 1 .. Len(sent'), NEW n \in sent'[k]
        PROVE  n <= polled' /\ n \in Int /\ (k <= Len(sent) => n <= polled)
    <3>1. CASE k = Len(sent) + 1
      <4>1. n \in batch
        BY Zenon, <2>3, <2>5, <3>1
      <4>2. n \in Int
        BY <2>3, <4>1 DEF Seqs
      <4> QED
        BY <2>1, <2>3, <3>1, <4>1, <4>2
    <3>2. CASE k \in 1 .. Len(sent)
      <4>1. n \in sent[k] /\ n \in Seqs
        BY <2>3, <2>5, <3>2 DEF TypeOK
      <4> QED
        BY <2>3, <2>4, <3>2, <4>1, OutboxAssumption DEF PollInv, Seqs
    <3> QED
      BY <2>3, <3>1, <3>2
  <2>6. ASSUME NEW j \in 1 .. Len(sent'), NEW k \in 1 .. Len(sent'), j < k,
               NEW m \in sent'[j], NEW n \in sent'[k]
        PROVE  m < n
    <3>1. j \in 1 .. Len(sent) /\ sent'[j] = sent[j]
      BY <2>3, <2>6
    <3>2. CASE k = Len(sent) + 1
      <4>1. polled < n /\ m <= polled
        BY <2>1, <2>3, <2>5, <2>6, <3>1, <3>2
      <4> QED
        BY <2>4, <2>5, <2>6, <4>1
    <3>3. CASE k \in 1 .. Len(sent)
      BY Zenon, <2>3, <2>6, <3>1, <3>3 DEF PollInv
    <3> QED
      BY <2>3, <3>2, <3>3
  <2> QED
    BY Zenon, <2>2, <2>4, <2>5, <2>6 DEF PollInv, rowVars
<1>10. CASE \E s \in Subscribers, cursor \in NoCursor .. MaxSeq : Subscribe(s, cursor)
  BY Zenon, <1>10, <1>2 DEF Subscribe
<1>11. ASSUME NEW s \in Subscribers,
              ReadHead(s) \/ LoadPage(s) \/ Recv(s) \/ Yield(s) \/ Disconnect(s)
       PROVE  PollInv'
  BY Zenon, <1>11, <1>2 DEF ReadHead, LoadPage, Recv, Yield, Disconnect
<1>12. CASE Restart
  <2>1. sent' = <<>> /\ polled' = 0 /\ UNCHANGED rowVars
    BY Zenon, <1>12 DEF Restart
  <2> QED
    BY <2>1 DEF PollInv, rowVars, TypeOK
<1> QED
  BY Zenon, <1>3, <1>4, <1>5, <1>6, <1>7, <1>8, <1>9, <1>10, <1>11, <1>12 DEF Next

(* Subscriptions begin after the poll loop.                                *)
LEMMA StartInvStep ==
    ASSUME TypeOK, StartInv, ~LateStart, [Next]_vars
    PROVE  StartInv'
<1> USE DEF StartInv
<1>1. CASE UNCHANGED vars
  BY Zenon, <1>1 DEF vars, pollVars, subVars
<1>2. CASE Sequence \/ (\E n \in Seqs : Invalidate(n)) \/ (\E D \in SUBSET Seqs : Prune(D))
  BY Zenon, <1>2 DEF Sequence, Invalidate, Prune, pollVars, subVars
<1>3. CASE StartPoller \/ StartFails \/ Poll \/ Destroy
  BY Zenon, <1>3 DEF StartPoller, StartFails, Poll, Destroy
<1>4. CASE \E s \in Subscribers, cursor \in NoCursor .. MaxSeq : Subscribe(s, cursor)
  BY Zenon, <1>4 DEF Subscribe, pollVars
<1>5. ASSUME NEW s \in Subscribers,
             ReadHead(s) \/ LoadPage(s) \/ Recv(s) \/ Yield(s) \/ Disconnect(s)
      PROVE  StartInv'
  BY Zenon, <1>5 DEF ReadHead, LoadPage, Recv, Yield, Disconnect, Streaming, pollVars
<1>6. CASE Restart
  BY Zenon, <1>6 DEF Restart
<1> QED
  BY Zenon, <1>1, <1>2, <1>3, <1>4, <1>5, <1>6 DEF Next

-----------------------------------------------------------------------------
(* A step that leaves a stream, the rows and the poll loop alone.          *)
LEMMA StreamFrame ==
    ASSUME NEW t \in Subscribers, StreamInv(t),
           UNCHANGED <<rowVars, pollVars>>,
           phase'[t] = phase[t], from'[t] = from[t], top'[t] = top[t],
           last'[t] = last[t], pos'[t] = pos[t], buf'[t] = buf[t], got'[t] = got[t]
    PROVE  StreamInv(t)'
<1> USE DEF rowVars, pollVars
<1>1. SentInv(t) => SentInv(t)'
  BY Zenon DEF SentInv
<1>2. BackfillInv(t) => BackfillInv(t)'
  BY Zenon DEF BackfillInv
<1>3. LiveInv(t) => LiveInv(t)'
  BY Zenon DEF LiveInv, Waiting
<1> QED
  BY Zenon, <1>1, <1>2, <1>3 DEF StreamInv

(* Rows appear above the head and disappear anywhere.                      *)
LEMMA StreamRows ==
    ASSUME TypeOK, PollInv, NEW t \in Subscribers, StreamInv(t),
           UNCHANGED <<pollVars, subVars>>,
           head' \in Int, head <= head',
           \A n \in rows' : n \in Int /\ (n \in rows \/ n > head)
    PROVE  StreamInv(t)'
<1> USE DEF pollVars, subVars
<1>1. /\ last[t] \in Int /\ top[t] \in Int /\ from[t] \in Int
      /\ head \in Int /\ polled \in Int /\ polled <= head
      /\ \A b \in buf[t] : b \in Int
  BY SMTT(30), OutboxAssumption DEF TypeOK, PollInv, NoCursor, Seqs
<1>2. ASSUME SentInv(t), last[t] <= head PROVE SentInv(t)'
  <2>1. ASSUME NEW n \in rows', n <= last[t] PROVE n \in rows
    BY SMTT(30), <1>1, <1>2, <2>1
  <2> QED
    BY Zenon, <1>2, <2>1 DEF SentInv
<1>3. ASSUME BackfillInv(t), top[t] <= head PROVE BackfillInv(t)'
  <2>1. ASSUME NEW n \in rows', n <= head PROVE n \in rows
    BY <1>1, <2>1
  <2>2. ASSUME NEW n \in rows', NEW b \in buf[t], last[t] < n, n <= b PROVE n \in buf[t]
    <3>1. n <= head
      BY <1>1, <1>3, <2>2 DEF BackfillInv
    <3> QED
      BY Zenon, <1>3, <2>1, <2>2, <3>1 DEF BackfillInv
  <2>3. ASSUME NEW n \in rows', n <= polled PROVE n \in rows
    BY <1>1, <2>1, <2>3
  <2> QED
    BY Zenon, <1>3, <2>2, <2>3 DEF BackfillInv
<1>4. ASSUME LiveInv(t) PROVE LiveInv(t)'
  <2>1. ASSUME NEW n \in rows', n <= polled PROVE n \in rows
    BY <1>1, <2>1
  <2>2. Waiting(t, last[t])'
    BY Zenon, <1>4, <2>1 DEF LiveInv, Waiting
  <2> QED
    BY Zenon, <1>4, <2>2 DEF LiveInv
<1>5. \A x \in Int : x <= head => x <= head'
  BY <1>1
<1> QED
  BY Zenon, <1>1, <1>2, <1>3, <1>4, <1>5 DEF StreamInv

(* A batch joins what waits for each receiver.                             *)
LEMMA StreamPoll ==
    ASSUME TypeOK, PollInv, NEW t \in Subscribers, StreamInv(t), Poll
    PROVE  StreamInv(t)'
<1> DEFINE batch == FirstOf(Unread(polled, head), PollLimit)
<1>1. /\ sent' = Append(sent, batch)
      /\ batch \in SUBSET rows
      /\ polled' \in batch
      /\ \A n \in batch : polled < n /\ n <= polled' /\ n <= head
      /\ \A n \in rows : polled < n /\ n <= polled' /\ n <= head => n \in batch
  BY Zenon, PollBatch
<1> HIDE DEF batch
<1>2. UNCHANGED <<rowVars, subVars>>
  BY Zenon DEF Poll
<1>3. /\ Len(sent') = Len(sent) + 1
      /\ \A k \in 1 .. Len(sent) : sent'[k] = sent[k]
      /\ sent'[Len(sent) + 1] = batch
      /\ Len(sent) \in Nat
  BY <1>1 DEF TypeOK
<1>4. /\ \A n \in rows : n \in Int /\ n <= head
      /\ polled \in Int /\ polled' \in Int /\ polled < polled'
      /\ pos[t] \in Nat /\ pos[t] <= Len(sent)
      /\ \A b \in buf[t] : b \in Int
  <2>1. /\ \A n \in rows : n \in Int /\ n <= head
        /\ \A b \in buf[t] : b \in Int
    BY DEF TypeOK, PollInv, Seqs
  <2>2. polled \in Int /\ pos[t] \in Nat /\ pos[t] <= Len(sent)
    BY DEF TypeOK
  <2> QED
    BY Zenon, <1>1, <2>1, <2>2
<1>5. ASSUME NEW n \in rows, n <= polled', ~(n <= polled)
      PROVE  \E k \in 1 .. Len(sent') : pos[t] < k /\ n \in sent'[k]
  <2>1. n \in batch
    BY <1>1, <1>4, <1>5
  <2> QED
    BY <1>3, <1>4, <2>1
<1>6. ASSUME NEW n, \E k \in 1 .. Len(sent) : pos[t] < k /\ n \in sent[k]
      PROVE  \E k \in 1 .. Len(sent') : pos[t] < k /\ n \in sent'[k]
  BY <1>3, <1>6
<1>7. SentInv(t) => SentInv(t)'
  BY Zenon, <1>2 DEF SentInv, rowVars, subVars
<1>8. ASSUME BackfillInv(t) PROVE BackfillInv(t)'
  <2>1. ASSUME NEW n \in rows, top[t] < n, n <= polled'
        PROVE  \E k \in 1 .. Len(sent') : pos[t] < k /\ n \in sent'[k]
    BY Zenon, <1>5, <1>6, <1>8, <2>1 DEF BackfillInv
  <2> QED
    BY Zenon, <1>2, <1>8, <2>1 DEF BackfillInv, rowVars, subVars
<1>9. ASSUME LiveInv(t) PROVE LiveInv(t)'
  <2>1. ASSUME NEW n \in rows, last[t] < n, n <= polled'
        PROVE  n \in buf[t] \/ \E k \in 1 .. Len(sent') : pos[t] < k /\ n \in sent'[k]
    BY Zenon, <1>5, <1>6, <1>9, <2>1 DEF LiveInv, Waiting
  <2>2. ASSUME NEW b \in buf[t] PROVE b <= polled'
    BY <1>4, <1>9 DEF LiveInv
  <2>3. ASSUME NEW b \in buf[t], NEW k \in 1 .. Len(sent'), pos[t] < k, NEW n \in sent'[k]
        PROVE  b < n
    <3>1. CASE k \in 1 .. Len(sent)
      BY Zenon, <1>3, <1>9, <2>3, <3>1 DEF LiveInv
    <3>2. CASE k = Len(sent) + 1
      <4>1. n \in batch /\ b <= polled
        BY Zenon, <1>3, <1>9, <2>3, <3>2 DEF LiveInv
      <4> QED
        BY <1>1, <1>4, <4>1
    <3> QED
      BY <1>3, <3>1, <3>2
  <2> QED
    BY Zenon, <1>2, <2>1, <2>2, <2>3 DEF LiveInv, Waiting, rowVars, subVars
<1> QED
  BY Zenon, <1>2, <1>7, <1>8, <1>9 DEF StreamInv, rowVars, subVars

----------------------------------------------------------------------------
(* The streams.                                                            *)

(* A stream that is not running owes nothing.                              *)
LEMMA StreamIdle ==
    ASSUME NEW t \in Subscribers, phase'[t] \in {"off", "slow"},
           buf'[t] = {}, got'[t] = <<>>
    PROVE  StreamInv(t)'
  BY Zenon DEF StreamInv, Streaming

(* The first read decides between backfill and broadcast.                  *)
LEMMA StreamReadHead ==
    ASSUME TypeOK, PollInv, NEW s \in Subscribers, StreamInv(s), ReadHead(s)
    PROVE  StreamInv(s)'
<1>1. /\ UNCHANGED <<rowVars, pollVars>>
      /\ phase'[s] \in {"live", "backfill"}
      /\ top'[s] = head /\ from'[s] = last'[s]
      /\ buf'[s] = {} /\ got'[s] = <<>>
      /\ \/ last'[s] = head
         \/ phase'[s] = "backfill" /\ last'[s] = from[s] /\ from[s] <= head
  BY Zenon DEF ReadHead, TypeOK, StreamInv, Streaming
<1>2. head \in Int /\ from[s] \in Int /\ \A n \in rows : n \in Int /\ n <= head
  BY OutboxAssumption DEF TypeOK, PollInv, Seqs, NoCursor
<1>3. last'[s] \in Int /\ last'[s] <= head /\ (phase'[s] = "live" => last'[s] = head)
  BY <1>1, <1>2
<1>4. SentInv(s)'
  <2>1. Len(got'[s]) = 0
    BY <1>1
  <2> QED
    BY <1>1, <1>2, <1>3, <2>1 DEF SentInv, rowVars
<1>5. BackfillInv(s)'
  BY <1>1, <1>2, <1>3 DEF BackfillInv, rowVars, pollVars
<1>6. phase'[s] = "live" => LiveInv(s)'
  BY <1>1, <1>2, <1>3 DEF LiveInv, Waiting, rowVars, pollVars
<1> QED
  BY <1>1, <1>2, <1>3, <1>4, <1>5, <1>6 DEF StreamInv, Streaming, rowVars

(* The switch to the broadcast, or one more page.                          *)
LEMMA StreamLoadPage ==
    ASSUME TypeOK, PollInv, NEW s \in Subscribers, StreamInv(s), LoadPage(s)
    PROVE  StreamInv(s)'
<1> DEFINE unread == Unread(last[s], top[s])
           page == FirstOf(unread, PageSize)
<1>1. /\ UNCHANGED <<rowVars, pollVars, from, top, last, pos, got>>
      /\ phase[s] = "backfill" /\ buf[s] = {}
      /\ \/ unread = {} /\ phase'[s] = "live" /\ buf'[s] = {}
         \/ phase'[s] = "backfill" /\ buf'[s] = page
  BY Zenon DEF LoadPage, TypeOK
<1>2. SentInv(s) /\ BackfillInv(s) /\ top[s] <= head /\ last[s] <= head
  BY ZenonT(40), <1>1 DEF StreamInv, Streaming
<1>3. \A n : n \in unread <=> n \in rows /\ last[s] < n /\ n <= top[s]
  BY Zenon DEF Unread
<1>4. unread \in SUBSET Seqs
  BY Zenon, UnreadType
<1>5. /\ page \subseteq unread
      /\ \A n \in page, m \in unread : m <= n => m \in page
  BY Zenon, <1>4, FirstOfPrefix, OutboxAssumption
<1> HIDE DEF unread, page
<1>6. SentInv(s)'
  BY Zenon, <1>1, <1>2 DEF SentInv, rowVars
<1>7. top[s] \in Int /\ last[s] \in Int /\ \A n \in rows : n \in Int
  BY SMTT(30) DEF TypeOK, Seqs
<1>8. CASE phase'[s] = "backfill" /\ buf'[s] = page
  <2>1. ASSUME NEW n \in rows, NEW b \in page, last[s] < n, n <= b PROVE n \in page
    <3>1. n <= top[s]
      BY <1>3, <1>5, <1>7, <2>1
    <3> QED
      BY Zenon, <1>3, <1>5, <2>1, <3>1
  <2>2. \A b \in page : last[s] < b /\ b <= top[s]
    BY Zenon, <1>3, <1>5
  <2>3. BackfillInv(s)'
    BY Zenon, <1>1, <1>2, <1>8, <2>1, <2>2 DEF BackfillInv, rowVars, pollVars
  <2> QED
    BY ZenonT(40), <1>1, <1>2, <1>6, <1>8, <2>3 DEF StreamInv, Streaming, rowVars
<1>9. CASE unread = {} /\ phase'[s] = "live" /\ buf'[s] = {}
  <2>1. ASSUME NEW n \in rows, last[s] < n PROVE top[s] < n
    BY <1>3, <1>7, <1>9, <2>1
  <2>2. LiveInv(s)'
    BY Zenon, <1>1, <1>2, <1>9, <2>1 DEF LiveInv, Waiting, BackfillInv, rowVars,
       pollVars
  <2> QED
    BY Zenon, <1>1, <1>2, <1>6, <1>9, <2>2 DEF StreamInv, Streaming, rowVars
<1> QED
  BY Zenon, <1>1, <1>8, <1>9

(* The next batch comes before those that still wait.                      *)
LEMMA StreamRecv ==
    ASSUME TypeOK, PollInv, NEW s \in Subscribers, StreamInv(s), Recv(s)
    PROVE  StreamInv(s)'
<1>1. CASE End(s, "slow")
  BY Zenon, <1>1, StreamIdle DEF End, TypeOK
<1>2. CASE ~End(s, "slow")
  <2>1. /\ UNCHANGED <<rowVars, pollVars, phase, from, top, last, got>>
        /\ phase[s] = "live" /\ buf[s] = {} /\ pos[s] < Len(sent)
        /\ buf'[s] = sent[pos[s] + 1] /\ pos'[s] = pos[s] + 1
    BY Zenon, <1>2 DEF Recv, TypeOK
  <2>2. pos[s] \in Nat /\ Len(sent) \in Nat
    BY SMTT(30) DEF TypeOK
  <2>3. SentInv(s) /\ LiveInv(s) /\ last[s] <= head
    BY ZenonT(40), <2>1 DEF StreamInv, Streaming
  <2>4. SentInv(s)'
    BY ZenonT(40), <2>1, <2>3 DEF SentInv, rowVars
  <2>5. pos[s] + 1 \in 1 .. Len(sent)
    BY <2>1, <2>2
  <2>6. ASSUME NEW n \in rows, last[s] < n, n <= polled
        PROVE  n \in buf'[s] \/ \E k \in 1 .. Len(sent) : pos'[s] < k /\ n \in sent[k]
    <3>1. PICK k \in 1 .. Len(sent) : pos[s] < k /\ n \in sent[k]
      BY Zenon, <2>1, <2>3, <2>6 DEF LiveInv, Waiting
    <3>2. k = pos[s] + 1 \/ pos[s] + 1 < k
      BY <2>2, <3>1
    <3> QED
      BY Zenon, <2>1, <3>1, <3>2
  <2>7. LiveInv(s)'
    <3>1. \A b \in buf'[s] : b <= polled
      BY Zenon, <2>1, <2>5 DEF PollInv
    <3>2. ASSUME NEW b \in buf'[s], NEW k \in 1 .. Len(sent), pos'[s] < k, NEW n \in sent[k]
          PROVE  b < n
      BY Zenon, <2>1, <2>5, <3>2 DEF PollInv
    <3> QED
      BY Zenon, <2>1, <2>6, <3>1, <3>2 DEF LiveInv, Waiting, rowVars, pollVars
  <2> QED
    BY Zenon, <2>1, <2>3, <2>4, <2>7 DEF StreamInv, Streaming, rowVars
<1> QED
  BY Zenon, <1>1, <1>2

(* Sending the next row in order keeps a stream without gap and repeat.    *)
LEMMA SentAppend ==
    ASSUME TypeOK, NEW s \in Subscribers, SentInv(s), NEW n \in Seqs, last[s] < n,
           \A m \in rows : last[s] < m /\ m <= n => m = n,
           UNCHANGED <<rows, from>>, last'[s] = n, got'[s] = Append(got[s], n)
    PROVE  SentInv(s)'
<1>1. /\ last[s] \in Int /\ from[s] \in Int /\ n \in Int
      /\ \A m \in rows : m \in Int
  BY OutboxAssumption DEF TypeOK, NoCursor, Seqs
<1>2. got[s] \in Seq(Seqs)
  BY Zenon DEF TypeOK
<1>3. /\ Len(got'[s]) = Len(got[s]) + 1 /\ Len(got[s]) \in Nat
      /\ \A i \in 1 .. Len(got[s]) : got'[s][i] = got[s][i]
      /\ got'[s][Len(got[s]) + 1] = n
  BY <1>2
<1>4. \A i \in 1 .. Len(got[s]) : got[s][i] \in Int
  <2>1. \A i \in 1 .. Len(got[s]) : got[s][i] \in Seqs
    BY <1>2
  <2> QED
    BY SMTT(30), <2>1 DEF Seqs
<1>5. ASSUME NEW i \in 1 .. Len(got'[s])
      PROVE  /\ from[s] < got'[s][i] /\ got'[s][i] <= n
             /\ i \in 1 .. Len(got[s]) => got'[s][i] < n
  <2>1. CASE i = Len(got[s]) + 1
    BY <1>1, <1>3, <2>1 DEF SentInv
  <2>2. CASE i \in 1 .. Len(got[s])
    BY <1>1, <1>3, <1>4, <2>2 DEF SentInv
  <2> QED
    BY <1>3, <2>1, <2>2
<1>6. ASSUME NEW i \in 1 .. Len(got'[s]), NEW j \in 1 .. Len(got'[s]), i < j
      PROVE  got'[s][i] < got'[s][j]
  <2>1. i \in 1 .. Len(got[s])
    BY <1>3, <1>6
  <2>2. CASE j = Len(got[s]) + 1
    BY Zenon, <1>3, <1>5, <2>1, <2>2
  <2>3. CASE j \in 1 .. Len(got[s])
    BY Zenon, <1>3, <1>6, <2>1, <2>3 DEF SentInv
  <2> QED
    BY <1>3, <2>2, <2>3
<1>7. ASSUME NEW m \in rows, from[s] < m, m <= n
      PROVE  \E i \in 1 .. Len(got'[s]) : got'[s][i] = m
  <2>1. CASE m <= last[s]
    <3>1. PICK i \in 1 .. Len(got[s]) : got[s][i] = m
      BY Zenon, <1>7, <2>1 DEF SentInv
    <3> QED
      BY <1>3, <3>1
  <2>2. CASE last[s] < m
    BY <1>3, <1>7, <2>2
  <2> QED
    BY <1>1, <2>1, <2>2
<1>8. from[s] <= n
  BY <1>1 DEF SentInv
<1> QED
  BY Zenon, <1>5, <1>6, <1>7, <1>8 DEF SentInv

(* Sending a row of the page or of the batch.                              *)
LEMMA StreamYield ==
    ASSUME TypeOK, PollInv, NEW s \in Subscribers, StreamInv(s), Yield(s)
    PROVE  StreamInv(s)'
<1>1. PICK n \in buf[s] :
         /\ \A m \in buf[s] : n <= m
         /\ buf' = [buf EXCEPT ![s] = @ \ {n}]
         /\ IF phase[s] = "backfill" \/ n > last[s]
               THEN /\ last' = [last EXCEPT ![s] = n]
                    /\ got' = [got EXCEPT ![s] = Append(@, n)]
               ELSE UNCHANGED <<last, got>>
  BY ZenonT(40) DEF Yield
<1>2. /\ UNCHANGED <<rowVars, pollVars, phase, from, top, pos>>
      /\ phase[s] \in {"backfill", "live"}
      /\ buf'[s] = buf[s] \ {n} /\ n \in Seqs
  BY Zenon, <1>1 DEF Yield, Streaming, TypeOK
<1>3. SentInv(s) /\ last[s] <= head
  BY Zenon, <1>2 DEF StreamInv, Streaming
<1>4. /\ last[s] \in Int /\ top[s] \in Int /\ n \in Int
      /\ polled \in Int /\ head \in Int /\ polled <= head
      /\ \A m \in rows : m \in Int
      /\ \A b \in buf[s] : b \in Int
  <2>1. \A m \in Seqs : m \in Int
    BY SMTT(30), OutboxAssumption DEF Seqs
  <2>2. n \in Int /\ (\A m \in rows : m \in Int) /\ (\A b \in buf[s] : b \in Int)
    BY Zenon, <1>2, <2>1 DEF TypeOK
  <2>3. last[s] \in Int /\ top[s] \in Int /\ polled \in Int /\ head \in Int
    BY OutboxAssumption DEF TypeOK
  <2> QED
    BY Zenon, <2>2, <2>3 DEF PollInv
<1>5. CASE phase[s] = "backfill"
  <2>1. BackfillInv(s) /\ top[s] <= head
    BY Zenon, <1>5 DEF StreamInv
  <2>2. last'[s] = n /\ got'[s] = Append(got[s], n)
    BY Zenon, <1>1, <1>5 DEF TypeOK
  <2>3. last[s] < n /\ n <= top[s]
    BY Zenon, <2>1 DEF BackfillInv
  <2>4. ASSUME NEW m \in rows, last[s] < m, m <= n PROVE m = n
    <3>1. n <= m
      BY Zenon, <1>1, <2>1, <2>4 DEF BackfillInv
    <3> QED
      BY <1>4, <2>4, <3>1
  <2>5. SentInv(s)'
    BY Zenon, <1>2, <1>3, <2>2, <2>3, <2>4, SentAppend DEF rowVars
  <2>6. ASSUME NEW b \in buf'[s] PROVE n < b /\ b <= top[s] /\ b \in buf[s]
    BY <1>1, <1>2, <1>4, <2>1, <2>6 DEF BackfillInv
  <2>7. ASSUME NEW m \in rows, NEW b \in buf'[s], n < m, m <= b PROVE m \in buf'[s]
    <3>1. last[s] < m
      BY <1>4, <2>3, <2>7
    <3>2. m \in buf[s] /\ m # n
      BY <1>4, <2>1, <2>6, <2>7, <3>1 DEF BackfillInv
    <3> QED
      BY Zenon, <1>2, <3>2
  <2>8. BackfillInv(s)'
    BY Zenon, <1>2, <2>1, <2>2, <2>3, <2>6, <2>7 DEF BackfillInv, rowVars, pollVars
  <2>9. n <= head
    BY SMTT(30), <1>4, <2>1, <2>3
  <2> QED
    <3>1. phase'[s] = "backfill" /\ last'[s] <= head' /\ top'[s] <= head'
      BY Zenon, <1>2, <1>5, <2>1, <2>2, <2>9 DEF rowVars
    <3> QED
      BY Zenon, <2>5, <2>8, <3>1 DEF StreamInv, Streaming
<1>6. CASE phase[s] = "live" /\ n > last[s]
  <2>1. LiveInv(s)
    BY Zenon, <1>6 DEF StreamInv
  <2>2. last'[s] = n /\ got'[s] = Append(got[s], n)
    BY Zenon, <1>1, <1>6 DEF TypeOK
  <2>3. n <= polled
    BY Zenon, <2>1 DEF LiveInv
  <2>4. ASSUME NEW m \in rows, last[s] < m, m <= n PROVE m = n
    <3>1. m <= polled
      BY <1>4, <2>3, <2>4
    <3>2. m \in buf[s] \/ n < m
      BY Zenon, <2>1, <2>4, <3>1 DEF LiveInv, Waiting
    <3> QED
      BY <1>1, <1>4, <2>4, <3>2
  <2>5. SentInv(s)'
    BY Zenon, <1>2, <1>3, <1>4, <1>6, <2>2, <2>4, SentAppend DEF rowVars
  <2>6. ASSUME NEW m \in rows, n < m, m <= polled
        PROVE  m \in buf'[s] \/ \E k \in 1 .. Len(sent) : pos[s] < k /\ m \in sent[k]
    <3>1. last[s] < m /\ m # n
      BY <1>4, <1>6, <2>6
    <3> QED
      BY Zenon, <1>2, <2>1, <2>6, <3>1 DEF LiveInv, Waiting
  <2>7. LiveInv(s)'
    BY Zenon, <1>2, <2>1, <2>2, <2>6 DEF LiveInv, Waiting, rowVars, pollVars
  <2>8. n <= head
    BY SMTT(30), <1>4, <2>3
  <2> QED
    BY Zenon, <1>2, <1>6, <2>2, <2>5, <2>7, <2>8 DEF StreamInv, Streaming, rowVars
<1>7. CASE phase[s] = "live" /\ ~(n > last[s])
  <2>1. LiveInv(s)
    BY ZenonT(40), <1>7 DEF StreamInv
  <2>2. last' = last /\ got' = got
    BY Zenon, <1>1, <1>7
  <2>3. SentInv(s)'
    <3>1. UNCHANGED <<from, last, got, rows>>
      BY Zenon, <1>2, <2>2 DEF rowVars
    <3> QED
      BY ZenonT(40), <1>3, <3>1 DEF SentInv
  <2>4. ASSUME NEW m \in rows, last[s] < m PROVE m # n
    BY Zenon, <1>4, <1>7, <2>4
  <2>5. LiveInv(s)'
    BY Zenon, <1>2, <2>1, <2>2, <2>4 DEF LiveInv, Waiting, rowVars, pollVars
  <2>6. phase'[s] = "live" /\ last'[s] <= head'
    BY Zenon, <1>2, <1>3, <1>7, <2>2 DEF rowVars
  <2> QED
    BY Zenon, <2>3, <2>5, <2>6 DEF StreamInv, Streaming
<1> QED
  BY Zenon, <1>2, <1>5, <1>6, <1>7

-----------------------------------------------------------------------------
(* A step of one subscription leaves the others alone.                     *)
LEMMA Elsewhere ==
    ASSUME NEW S, NEW T, NEW f \in [S -> T], NEW g, NEW s \in S, NEW t \in S, s # t, NEW e,
           g = [f EXCEPT ![s] = e]
    PROVE  g[t] = f[t]
  BY Zenon

LEMMA EndElsewhere ==
    ASSUME TypeOK, NEW s \in Subscribers, NEW t \in Subscribers, s # t, NEW how, End(s, how)
    PROVE  /\ phase'[t] = phase[t] /\ from'[t] = from[t] /\ top'[t] = top[t]
           /\ last'[t] = last[t] /\ pos'[t] = pos[t] /\ buf'[t] = buf[t] /\ got'[t] = got[t]
<1>1. phase'[t] = phase[t]
  BY Elsewhere, Zenon DEF End, TypeOK
<1>2. from'[t] = from[t] /\ top'[t] = top[t]
  BY Elsewhere, Zenon DEF End, TypeOK
<1>3. last'[t] = last[t] /\ pos'[t] = pos[t]
  BY Elsewhere, Zenon DEF End, TypeOK
<1>4. buf'[t] = buf[t] /\ got'[t] = got[t]
  BY Elsewhere, Zenon DEF End, TypeOK
<1> QED
  BY Zenon, <1>1, <1>2, <1>3, <1>4

LEMMA StreamOther ==
    ASSUME TypeOK, NEW s \in Subscribers, NEW t \in Subscribers, s # t, StreamInv(t),
           \/ \E cursor \in NoCursor .. MaxSeq : Subscribe(s, cursor)
           \/ ReadHead(s)
           \/ LoadPage(s)
           \/ Recv(s)
           \/ Yield(s)
           \/ Disconnect(s)
    PROVE  StreamInv(t)'
<1>1. CASE \E cursor \in NoCursor .. MaxSeq : Subscribe(s, cursor)
  BY Zenon, <1>1, StreamFrame DEF Subscribe, TypeOK
<1>2. CASE ReadHead(s)
  BY Zenon, <1>2, StreamFrame DEF ReadHead, TypeOK
<1>3. CASE LoadPage(s)
  <2>1. PICK b : \/ phase' = [phase EXCEPT ![s] = "live"] /\ UNCHANGED buf
                 \/ buf' = [buf EXCEPT ![s] = b] /\ UNCHANGED phase
    BY <1>3, Zenon DEF LoadPage
  <2>2. phase'[t] = phase[t] /\ buf'[t] = buf[t]
    BY <2>1, Elsewhere, Zenon DEF TypeOK
  <2> QED
    BY Zenon, <1>3, <2>2, StreamFrame DEF LoadPage
<1>4. CASE Recv(s)
  <2>1. UNCHANGED <<rowVars, pollVars>>
    BY <1>4, Zenon DEF Recv
  <2>2. CASE End(s, "slow")
    BY <2>1, <2>2, EndElsewhere, StreamFrame, Zenon
  <2>3. CASE /\ buf' = [buf EXCEPT ![s] = sent[pos[s] + 1]]
             /\ pos' = [pos EXCEPT ![s] = @ + 1]
             /\ UNCHANGED <<phase, from, top, last, got>>
    <3>1. buf'[t] = buf[t] /\ pos'[t] = pos[t]
      BY <2>3, Elsewhere, Zenon DEF TypeOK
    <3> QED
      BY Zenon, <2>1, <2>3, <3>1, StreamFrame
  <2> QED
    BY <1>4, <2>2, <2>3, Zenon DEF Recv
<1>5. CASE Yield(s)
  <2>1. PICK n : /\ buf' = [buf EXCEPT ![s] = @ \ {n}]
                 /\ \/ /\ last' = [last EXCEPT ![s] = n]
                       /\ got' = [got EXCEPT ![s] = Append(@, n)]
                    \/ UNCHANGED <<last, got>>
    BY <1>5, Zenon DEF Yield
  <2>2. buf'[t] = buf[t]
    BY <2>1, Elsewhere, Zenon DEF TypeOK
  <2>3. last'[t] = last[t] /\ got'[t] = got[t]
    BY <2>1, Elsewhere, Zenon DEF TypeOK
  <2> QED
    BY Zenon, <1>5, <2>2, <2>3, StreamFrame DEF Yield
<1>6. CASE Disconnect(s)
  BY Zenon, <1>6, EndElsewhere, StreamFrame DEF Disconnect
<1> QED
  BY Zenon, <1>1, <1>2, <1>3, <1>4, <1>5, <1>6

(* Every step keeps every stream's invariant.                              *)
LEMMA StreamStep ==
    ASSUME TypeOK, PollInv, StartInv, ~LateStart, [Next]_vars,
           NEW t \in Subscribers, StreamInv(t)
    PROVE  StreamInv(t)'
<1>1. CASE UNCHANGED vars
  BY Zenon, <1>1, StreamFrame DEF vars, subVars
<1>2. CASE Sequence
  <2>1. \A n \in rows' : n \in Int /\ (n \in rows \/ n > head)
    BY <1>2 DEF Sequence, TypeOK, Seqs
  <2> QED
    BY SMTT(30), <1>2, <2>1, StreamRows DEF Sequence, TypeOK
<1>3. ASSUME NEW n \in Seqs, Invalidate(n) PROVE StreamInv(t)'
  <2>1. \A m \in rows' : m \in Int /\ m \in rows
    BY <1>3 DEF Invalidate, TypeOK, Seqs
  <2> QED
    BY SMTT(30), <1>3, <2>1, StreamRows DEF Invalidate, TypeOK
<1>4. ASSUME NEW D \in SUBSET Seqs, Prune(D) PROVE StreamInv(t)'
  <2>1. \A m \in rows' : m \in Int /\ m \in rows
    BY <1>4 DEF Prune, TypeOK, Seqs
  <2> QED
    BY SMTT(30), <1>4, <2>1, StreamRows DEF Prune, TypeOK
<1>5. CASE StartPoller
  <2>1. phase[t] = "off" /\ UNCHANGED subVars
    BY Zenon, <1>5 DEF StartPoller, StartInv
  <2> QED
    BY ZenonT(40), <2>1, StreamIdle DEF subVars, StreamInv, Streaming
<1>6. CASE StartFails \/ Destroy
  <2>1. UNCHANGED <<rowVars, polled, sent, subVars>>
    BY Zenon, <1>6 DEF StartFails, Destroy
  <2> QED
    BY <2>1, ZenonT(40) DEF rowVars, subVars, StreamInv, SentInv, BackfillInv, LiveInv, Waiting
<1>7. CASE Poll
  BY Zenon, <1>7, StreamPoll
<1>8. ASSUME NEW s \in Subscribers,
             \/ \E cursor \in NoCursor .. MaxSeq : Subscribe(s, cursor)
             \/ ReadHead(s)
             \/ LoadPage(s)
             \/ Recv(s)
             \/ Yield(s)
             \/ Disconnect(s)
      PROVE  StreamInv(t)'
  <2>1. CASE s # t
    BY Zenon, <1>8, <2>1, StreamOther
  <2>2. CASE s = t
    <3>1. ASSUME NEW cursor \in NoCursor .. MaxSeq, Subscribe(t, cursor)
          PROVE  StreamInv(t)'
      BY Zenon, <3>1 DEF Subscribe, StreamInv, Streaming, TypeOK, rowVars
    <3>2. CASE Disconnect(t)
      BY Zenon, <3>2, StreamIdle DEF Disconnect, End, TypeOK
    <3> QED
      BY Zenon, <1>8, <2>2, <3>1, <3>2, StreamReadHead, StreamLoadPage, StreamRecv,
         StreamYield
  <2> QED
    BY Zenon, <2>1, <2>2
<1>9. CASE Restart
  BY Zenon, <1>9, StreamIdle DEF Restart
<1> QED
  BY Zenon, <1>1, <1>2, <1>3, <1>4, <1>5, <1>6, <1>7, <1>8, <1>9 DEF Next

(* The invariant holds when the server starts.                             *)
LEMMA InvInit == Init => IInv
<1> SUFFICES ASSUME Init PROVE IInv
  BY Zenon
<1>1. Len(sent) = 0
  BY Zenon DEF Init
<1>2. PollInv /\ StartInv
  BY <1>1 DEF Init, PollInv, StartInv
<1>3. \A s \in Subscribers : StreamInv(s)
  BY Zenon DEF Init, StreamInv, Streaming
<1> QED
  BY Zenon, <1>2, <1>3, TypeInit DEF IInv

(* Every step keeps the invariant.                                         *)
LEMMA InvStep ==
    ASSUME ~LateStart
    PROVE  IInv /\ [Next]_vars => IInv'
<1> SUFFICES ASSUME IInv, [Next]_vars PROVE IInv'
  BY Zenon
<1>1. TypeOK' /\ PollInv' /\ StartInv'
  BY Zenon, TypeStep, PollInvStep, StartInvStep DEF IInv
<1>2. \A s \in Subscribers : StreamInv(s)'
  BY Zenon, StreamStep DEF IInv
<1> QED
  BY Zenon, <1>1, <1>2 DEF IInv

(* Outbox::events promises "in order, without gaps or repeats": for every  *)
(* number of subscribers and events and every page, poll and broadcast     *)
(* size, provided the poll loop reads its head before the server serves.   *)
THEOREM NoGapNoRepeat ==
    ASSUME ~LateStart
    PROVE  Spec => [](NoGap /\ InOrderOnce)
<1>1. IInv => NoGap /\ InOrderOnce
  BY Zenon DEF IInv, StreamInv, SentInv, NoGap, InOrderOnce
<1>2. IInv /\ [Next]_vars => IInv'
  BY Zenon, InvStep
<1> QED
  BY <1>1, <1>2, InvInit, PTL DEF Spec

(* A stream never repeats or reorders what it sent, also where the         *)
(* database pages and the broadcast batches overlap (Outbox::events).      *)
THEOREM NoRepeat ==
    ASSUME ~LateStart
    PROVE  Spec => []InOrderOnce
  BY NoGapNoRepeat, PTL

=============================================================================
