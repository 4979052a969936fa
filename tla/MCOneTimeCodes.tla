--------------------------- MODULE MCOneTimeCodes ---------------------------
(* A small instance of OneTimeCodes for TLC. *)
EXTENDS OneTimeCodes, TLC

CONSTANTS u1, u2, u3, c1, c2, c3

\* u1 is registered with c1, u2 has c2 and no password, c3 is free.
MCInitOwner == [c \in Contact |-> IF c = c1 THEN u1 ELSE IF c = c2 THEN u2 ELSE None]

SlotSymmetry == Permutations(Tx)
==============================================================================
