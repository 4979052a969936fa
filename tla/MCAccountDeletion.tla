------------------------- MODULE MCAccountDeletion -------------------------
(* Small instances of AccountDeletion for TLC. *)
EXTENDS AccountDeletion, TLC

Symmetry == Permutations(Tx) \cup Permutations(Row)
===========================================================================
