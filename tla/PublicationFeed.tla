-------------------------- MODULE PublicationFeed --------------------------
(***************************************************************************)
(* What publication promises, without its mechanism: the commits of an     *)
(* actor reach the sequencer's log in commit order and each at most once,  *)
(* and only after they were committed (rsky-pds/src/publication.rs, header *)
(* comment).                                                               *)
(***************************************************************************)
EXTENDS Integers, Sequences

CONSTANTS Intents, Before(_, _), Other

VARIABLES committed, log

feed == <<committed, log>>

FeedInit == committed = {} /\ log = <<>>

(* A write commits: its events join those that may be published.           *)
Commit ==
    /\ committed' \in SUBSET Intents /\ committed \subseteq committed'
    /\ log' = log

(* One event is published, new to the log and later than all in it.        *)
Deliver(i) ==
    /\ i \in committed
    /\ \A k \in 1 .. Len(log) : log[k] \in Intents => Before(log[k], i)
    /\ log' = Append(log, i)
    /\ UNCHANGED committed

(* Events of other actors share the log.                                   *)
DeliverOther == log' = Append(log, Other) /\ UNCHANGED committed

FeedNext == Commit \/ DeliverOther \/ \E i \in Intents : Deliver(i)

FeedSpec == FeedInit /\ [][FeedNext]_feed
=============================================================================
