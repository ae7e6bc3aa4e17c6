------------------------------ MODULE MCBackup ------------------------------
(* Model-checking instance of Backup. *)
EXTENDS Backup, TLC

CONSTANTS p1, p2, f1, f2, env, tok, dns

OneProcess   == {p1}
TwoProcesses == {p1, p2}
TwoFileKeys  == {f1, f2}
Tokens       == {tok}
DnsSecrets   == {dns}

Symmetry == Permutations(Process) \union Permutations(FileKey)
=============================================================================
