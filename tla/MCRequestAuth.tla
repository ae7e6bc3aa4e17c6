--------------------------- MODULE MCRequestAuth ----------------------------
(* Model-checking instance of RequestAuth. *)
EXTENDS RequestAuth, TLC

Symmetry == Permutations(Handler)
=============================================================================
