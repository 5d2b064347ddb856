------------------------- MODULE MCSequencerOutbox -------------------------
(* Small instances of the sequencer and its subscribers for TLC.  Streams  *)
(* share nothing but the rows and the broadcast, which they only read.     *)
EXTENDS SequencerOutbox

CONSTANT s1

One == {s1}
=============================================================================
