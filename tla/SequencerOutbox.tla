-------------------------- MODULE SequencerOutbox --------------------------
(***************************************************************************)
(* The firehose of the PDS: the rows of the sequencer database, the poll   *)
(* loop that broadcasts them (rsky-pds/src/sequencer/mod.rs), and the      *)
(* subscribers that read the database until they have caught up and the    *)
(* broadcast from then on (sequencer/outbox.rs, subscribe_repos.rs).       *)
(*                                                                         *)
(* An event is its sequence number.  A batch and a page are the sets of    *)
(* their events; both are handed on in ascending order.                    *)
(*                                                                         *)
(* A definition named X_Y is a deliberately wrong variant Y of X; no       *)
(* specification uses it.  It shows that a property notices that mistake.  *)
(***************************************************************************)
EXTENDS Integers, Sequences, FiniteSets

CONSTANTS
    Subscribers,  \* websocket connections, reused after they end
    MaxSeq,       \* bound: events sequenced
    MaxRestarts,  \* bound: restarts of the server
    PollLimit,    \* rows one poll reads (1000 in the code)
    PageSize,     \* rows one backfill page reads (500)
    Capacity,     \* batches the broadcast retains (PDS_MAX_SUBSCRIPTION_BUFFER)
    LateStart     \* the server may serve before the poll loop has read its head

ASSUME OutboxAssumption ==
    /\ MaxSeq \in Nat /\ MaxRestarts \in Nat
    /\ PollLimit \in Nat \ {0} /\ PageSize \in Nat \ {0} /\ Capacity \in Nat \ {0}
    /\ LateStart \in BOOLEAN

Seqs == 1 .. MaxSeq
NoCursor == -1

PollerStates == {"starting", "polling", "failed", "destroyed"}

(* "opening": subscribed to the broadcast, the head not read yet; "slow":  *)
(* ended with ConsumerTooSlow.                                             *)
Phases == {"off", "opening", "backfill", "live", "slow"}
Streaming == {"backfill", "live"}

VARIABLES
    head,         \* the highest row ever sequenced: what curr() returns
    rows,         \* the rows a subscriber may be served: not deleted, not invalidated
    invalidated,  \* the rows marked invalidated
    poller,       \* the poll loop
    polled,       \* last_seen of the poll loop
    sent,         \* the batches broadcast by this process
    phase,        \* of each subscription
    from,         \* its cursor; the head it began at if it gave none
    top,          \* the head its backfill runs to
    last,         \* last_seen of its stream
    pos,          \* batches its receiver has taken or skipped
    buf,          \* what is left of the page or batch it is yielding
    got,          \* what it has been sent, in order
    restarts

rowVars == <<head, rows, invalidated>>
pollVars == <<poller, polled, sent>>
subVars == <<phase, from, top, last, pos, buf, got>>
vars == <<rowVars, pollVars, subVars, restarts>>

TypeOK ==
    /\ head \in 0 .. MaxSeq
    /\ rows \in SUBSET Seqs /\ invalidated \in SUBSET Seqs
    /\ poller \in PollerStates /\ polled \in 0 .. MaxSeq
    /\ sent \in Seq(SUBSET Seqs)
    /\ phase \in [Subscribers -> Phases]
    /\ from \in [Subscribers -> NoCursor .. MaxSeq]
    /\ top \in [Subscribers -> 0 .. MaxSeq]
    /\ last \in [Subscribers -> 0 .. MaxSeq]
    /\ pos \in [Subscribers -> Nat] /\ \A s \in Subscribers : pos[s] <= Len(sent)
    /\ buf \in [Subscribers -> SUBSET Seqs]
    /\ got \in [Subscribers -> Seq(Seqs)]
    /\ restarts \in 0 .. MaxRestarts

Init ==
    /\ head = 0 /\ rows = {} /\ invalidated = {}
    /\ poller = "starting" /\ polled = 0 /\ sent = <<>>
    /\ phase = [s \in Subscribers |-> "off"]
    /\ from = [s \in Subscribers |-> NoCursor]
    /\ top = [s \in Subscribers |-> 0]
    /\ last = [s \in Subscribers |-> 0]
    /\ pos = [s \in Subscribers |-> 0]
    /\ buf = [s \in Subscribers |-> {}]
    /\ got = [s \in Subscribers |-> <<>>]
    /\ restarts = 0

-----------------------------------------------------------------------------
(* The rows.                                                               *)

(* request_seq_range: the servable rows above `above`, up to `upto`.       *)
Unread(above, upto) == {n \in rows : above < n /\ n <= upto}

(* ORDER BY seq ASC LIMIT k.                                               *)
FirstOf(S, k) == {n \in S : Cardinality({m \in S : m <= n}) <= k}

(* sequence_evt: an event of any kind gets the next number.                *)
Sequence ==
    /\ head < MaxSeq
    /\ head' = head + 1
    /\ rows' = rows \cup {head + 1}
    /\ UNCHANGED <<invalidated, pollVars, subVars, restarts>>

(* invalidate: the quarantine of a repair takes a row back.                *)
Invalidate(n) ==
    /\ n \in rows
    /\ rows' = rows \ {n}
    /\ invalidated' = invalidated \cup {n}
    /\ UNCHANGED <<head, pollVars, subVars, restarts>>

(* delete_all_for_user: the rows of a deleted account, all of them older   *)
(* than the deletion event just sequenced.                                 *)
Prune(D) ==
    /\ D # {} /\ D \subseteq rows \ {head}
    /\ rows' = rows \ D
    /\ UNCHANGED <<head, invalidated, pollVars, subVars, restarts>>

-----------------------------------------------------------------------------
(* The poll loop.                                                          *)

(* start: the loop begins above what is sequenced by now.                  *)
StartPoller ==
    /\ poller = "starting"
    /\ poller' = "polling" /\ polled' = head
    /\ UNCHANGED <<rowVars, sent, subVars, restarts>>

(* start when its first read fails: the task logs the error and ends.      *)
StartFails ==
    /\ poller = "starting"
    /\ poller' = "failed"
    /\ UNCHANGED <<rowVars, polled, sent, subVars, restarts>>

Poll_ToHead ==
    LET batch == FirstOf(Unread(polled, head), PollLimit) IN
    /\ poller = "polling" /\ batch # {}
    /\ polled' = head
    /\ sent' = Append(sent, batch)
    /\ UNCHANGED <<rowVars, poller, subVars, restarts>>

(* One turn of the loop that finds rows.  A turn that finds none, or fails *)
(* to read, sleeps until notified or for a second and changes nothing.     *)
Poll ==
    LET batch == FirstOf(Unread(polled, head), PollLimit) IN
    /\ poller = "polling"
    /\ \E m \in batch :
          /\ \A n \in batch : n <= m
          /\ polled' = m
    /\ sent' = Append(sent, batch)
    /\ UNCHANGED <<rowVars, poller, subVars, restarts>>

(* on_shutdown: the loop stops; the subscriptions see the shutdown too.    *)
Destroy ==
    /\ poller \in {"starting", "polling"}
    /\ poller' = "destroyed"
    /\ UNCHANGED <<rowVars, polled, sent, subVars, restarts>>

-----------------------------------------------------------------------------
(* A subscription.                                                         *)

Subscribe_SkipsNext(s, cursor) ==
    /\ phase[s] \in {"off", "slow"} /\ poller # "destroyed"
    /\ ~LateStart => poller # "starting"
    /\ cursor <= head
    /\ phase' = [phase EXCEPT ![s] = "opening"]
    /\ from' = [from EXCEPT ![s] = cursor]
    /\ pos' = [pos EXCEPT ![s] = Len(sent) + 1]
    /\ UNCHANGED <<rowVars, pollVars, top, last, buf, got, restarts>>

(* subscribe_repos up to the call of events: a cursor above the head is    *)
(* refused, one that is too old is raised or dropped, so any cursor up to  *)
(* the head may reach the outbox; and the subscription to the broadcast.   *)
Subscribe(s, cursor) ==
    /\ phase[s] \in {"off", "slow"} /\ poller # "destroyed"
    /\ ~LateStart => poller # "starting"
    /\ cursor <= head
    /\ phase' = [phase EXCEPT ![s] = "opening"]
    /\ from' = [from EXCEPT ![s] = cursor]
    /\ pos' = [pos EXCEPT ![s] = Len(sent)]
    /\ UNCHANGED <<rowVars, pollVars, top, last, buf, got, restarts>>

(* The rest of events: the head is read after the subscription.            *)
ReadHead(s) ==
    LET begin == IF from[s] = NoCursor THEN head ELSE from[s] IN
    /\ phase[s] = "opening"
    /\ phase' = [phase EXCEPT ![s] = IF from[s] = NoCursor THEN "live" ELSE "backfill"]
    /\ from' = [from EXCEPT ![s] = begin]
    /\ top' = [top EXCEPT ![s] = head]
    /\ last' = [last EXCEPT ![s] = begin]
    /\ UNCHANGED <<rowVars, pollVars, pos, buf, got, restarts>>

(* One turn of the backfill: the next page, or none left, which also holds *)
(* once last has reached the head.                                         *)
LoadPage(s) ==
    LET unread == Unread(last[s], top[s]) IN
    /\ phase[s] = "backfill" /\ buf[s] = {}
    /\ IF unread = {}
          THEN phase' = [phase EXCEPT ![s] = "live"] /\ UNCHANGED buf
          ELSE buf' = [buf EXCEPT ![s] = FirstOf(unread, PageSize)] /\ UNCHANGED phase
    /\ UNCHANGED <<rowVars, pollVars, from, top, last, pos, got, restarts>>

(* The stream is dropped, and its state and its receiver with it.           *)
End(s, how) ==
    /\ phase' = [phase EXCEPT ![s] = how]
    /\ from' = [from EXCEPT ![s] = NoCursor]
    /\ top' = [top EXCEPT ![s] = 0]
    /\ last' = [last EXCEPT ![s] = 0]
    /\ pos' = [pos EXCEPT ![s] = 0]
    /\ buf' = [buf EXCEPT ![s] = {}]
    /\ got' = [got EXCEPT ![s] = <<>>]

Recv_SkipsMissed(s) ==
    /\ phase[s] = "live" /\ buf[s] = {} /\ pos[s] < Len(sent)
    /\ LET next == IF Len(sent) - pos[s] > Capacity THEN Len(sent) - Capacity + 1 ELSE pos[s] + 1
       IN  /\ buf' = [buf EXCEPT ![s] = sent[next]]
           /\ pos' = [pos EXCEPT ![s] = next]
    /\ UNCHANGED <<rowVars, pollVars, phase, from, top, last, got, restarts>>

(* live.recv(): the next batch, or Lagged when the channel no longer holds *)
(* it, which ends the subscription.                                        *)
Recv(s) ==
    /\ phase[s] = "live" /\ buf[s] = {} /\ pos[s] < Len(sent)
    /\ IF Len(sent) - pos[s] > Capacity
          THEN End(s, "slow")
          ELSE /\ buf' = [buf EXCEPT ![s] = sent[pos[s] + 1]]
               /\ pos' = [pos EXCEPT ![s] = @ + 1]
               /\ UNCHANGED <<phase, from, top, last, got>>
    /\ UNCHANGED <<rowVars, pollVars, restarts>>

Yield_Unfiltered(s) ==
    /\ phase[s] \in Streaming
    /\ \E n \in buf[s] :
          /\ \A m \in buf[s] : n <= m
          /\ buf' = [buf EXCEPT ![s] = @ \ {n}]
          /\ last' = [last EXCEPT ![s] = n]
          /\ got' = [got EXCEPT ![s] = Append(@, n)]
    /\ UNCHANGED <<rowVars, pollVars, phase, from, top, pos, restarts>>

(* The next event of the page or batch: it is sent, unless the stream is   *)
(* live and is past it already.                                            *)
Yield(s) ==
    /\ phase[s] \in Streaming
    /\ \E n \in buf[s] :
          /\ \A m \in buf[s] : n <= m
          /\ buf' = [buf EXCEPT ![s] = @ \ {n}]
          /\ IF phase[s] = "backfill" \/ n > last[s]
                THEN /\ last' = [last EXCEPT ![s] = n]
                     /\ got' = [got EXCEPT ![s] = Append(@, n)]
                ELSE UNCHANGED <<last, got>>
    /\ UNCHANGED <<rowVars, pollVars, phase, from, top, pos, restarts>>

(* The client goes away, the server shuts down, or a read, an encoding or  *)
(* a send fails: the stream ends.                                          *)
Disconnect(s) ==
    /\ phase[s] \in {"opening", "backfill", "live"}
    /\ End(s, "off")
    /\ UNCHANGED <<rowVars, pollVars, restarts>>

(* The server ends and is started again: only the rows outlive it.         *)
Restart ==
    /\ restarts < MaxRestarts
    /\ restarts' = restarts + 1
    /\ poller' = "starting" /\ polled' = 0 /\ sent' = <<>>
    /\ phase' = [s \in Subscribers |-> "off"]
    /\ from' = [s \in Subscribers |-> NoCursor]
    /\ top' = [s \in Subscribers |-> 0]
    /\ last' = [s \in Subscribers |-> 0]
    /\ pos' = [s \in Subscribers |-> 0]
    /\ buf' = [s \in Subscribers |-> {}]
    /\ got' = [s \in Subscribers |-> <<>>]
    /\ UNCHANGED rowVars

Next ==
    \/ Sequence
    \/ \E n \in Seqs : Invalidate(n)
    \/ \E D \in SUBSET Seqs : Prune(D)
    \/ StartPoller
    \/ StartFails
    \/ Poll
    \/ Destroy
    \/ \E s \in Subscribers, cursor \in NoCursor .. MaxSeq : Subscribe(s, cursor)
    \/ \E s \in Subscribers : ReadHead(s)
    \/ \E s \in Subscribers : LoadPage(s)
    \/ \E s \in Subscribers : Recv(s)
    \/ \E s \in Subscribers : Yield(s)
    \/ \E s \in Subscribers : Disconnect(s)
    \/ Restart

Spec == Init /\ [][Next]_vars

(* The runtime polls every ready task: the poll loop, which wakes at least *)
(* once a second, and each stream as long as its client reads.             *)
Progress ==
    /\ WF_vars(StartPoller) /\ WF_vars(Poll)
    /\ \A s \in Subscribers :
          /\ WF_vars(ReadHead(s)) /\ WF_vars(LoadPage(s))
          /\ WF_vars(Recv(s)) /\ WF_vars(Yield(s))

FairSpec == Spec /\ Progress

-----------------------------------------------------------------------------
(* Outbox::events, "without gaps": while a stream runs, every row it may   *)
(* be served between its cursor and its position has been sent on it,      *)
(* whatever was polled, paged, invalidated or dropped meanwhile, and also  *)
(* across the switch from the database to the broadcast.                   *)
NoGap ==
    \A s \in Subscribers : phase[s] \in Streaming =>
        \A n \in rows : from[s] < n /\ n <= last[s] =>
            \E i \in 1 .. Len(got[s]) : got[s][i] = n

(* Outbox::events, "in order ... or repeats": a stream's events ascend and *)
(* all lie above its cursor, though the page and the batch it takes from   *)
(* the two sources overlap.                                                *)
InOrderOnce ==
    \A s \in Subscribers : phase[s] \in Streaming =>
        \A i \in 1 .. Len(got[s]) :
            /\ from[s] < got[s][i] /\ got[s][i] <= last[s]
            /\ \A j \in 1 .. Len(got[s]) : i < j => got[s][i] < got[s][j]

(* A row above a subscriber's cursor reaches it, by way of the poll loop   *)
(* or of the backfill, unless it is taken back, the stream ends or the     *)
(* poll loop is gone: no interleaving of the two sources strands it.       *)
Delivered ==
    \A s \in Subscribers : \A n \in Seqs :
        (phase[s] \in Streaming /\ n \in rows /\ from[s] < n) ~>
            \/ \E i \in 1 .. Len(got[s]) : got[s][i] = n
            \/ n \notin rows
            \/ phase[s] \notin Streaming
            \/ poller \in {"failed", "destroyed"}

(* CHANGELOG.md, "invalidated rows are never delivered".                   *)
(* The model refutes it: README, Divergences.                              *)
InvalidatedIsNotDelivered ==
    [][\A s \in Subscribers : Len(got'[s]) = Len(got[s]) + 1 =>
          got'[s][Len(got'[s])] \notin invalidated]_vars

(* OutboxError::SequencerStopped, "The poll loop that feeds the broadcast  *)
(* is gone": a stream whose poll loop never came up is ended.              *)
(* The model refutes it: README, Divergences.                              *)
StoppedIsReported ==
    \A s \in Subscribers : (phase[s] = "live" /\ poller = "failed") ~> phase[s] # "live"
=============================================================================
