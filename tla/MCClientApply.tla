----------------------------- MODULE MCClientApply -----------------------------
(* ClientApply for TLC: client processes are interchangeable model values. *)
EXTENDS ClientApply, TLC

CONSTANTS c1, c2

OneClient == {c1}
TwoClients == {c1, c2}

ClientSymmetry == Permutations(TwoClients)
=============================================================================
