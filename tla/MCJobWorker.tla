------------------------------ MODULE MCJobWorker ------------------------------
(* JobWorker for TLC: processes and jobs are model values and interchangeable. *)
EXTENDS JobWorker, TLC

CONSTANTS w1, w2, j1, j2

OneWorker == {w1}
TwoWorkers == {w1, w2}
OneJob == {j1}
TwoJobs == {j1, j2}
NoJobs == {}

(* What ClassifyError makes of the errors of this service, and of any reconciler. *)
PermanentOnly == {"permanent"}
AnyClass == {"permanent", "temporary"}

WorkerSymmetry == Permutations(TwoWorkers)
=============================================================================
