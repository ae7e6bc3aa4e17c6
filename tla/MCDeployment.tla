------------------------------ MODULE MCDeployment ------------------------------
(* Deployment for TLC: client processes are model values. *)
EXTENDS Deployment

CONSTANTS c1, c2

OneClient == {c1}
TwoClients == {c1, c2}
=============================================================================
