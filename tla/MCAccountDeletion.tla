------------------------- MODULE MCAccountDeletion -------------------------
(***************************************************************************)
(* Instances of AccountDeletion.                                           *)
(***************************************************************************)
EXTENDS AccountDeletion, TLC

RequestSymmetry == Permutations(Requests)

=============================================================================
