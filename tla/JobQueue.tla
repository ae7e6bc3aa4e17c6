------------------------------ MODULE JobQueue ------------------------------
(***************************************************************************)
(* What the certificate job queue promises, without rows, leases or        *)
(* clocks: a job once accepted stays known, and it is started at most      *)
(* MaxAttempts times, whoever stops, fails, retries or takes over.  Every  *)
(* execution under way is one of those starts.                             *)
(***************************************************************************)
EXTENDS Naturals

CONSTANTS Jobs, NoJob, Workers, MaxAttempts

VARIABLES known,    \* jobs accepted so far
          starts,   \* starts[j]: how often j was started
          doing     \* doing[w]: the job worker w executes, or NoJob

vars == <<known, starts, doing>>

Init ==
    /\ known = {}
    /\ starts = [j \in Jobs |-> 0]
    /\ doing = [w \in Workers |-> NoJob]

Accept(j) ==
    /\ j \notin known
    /\ known' = known \union {j}
    /\ UNCHANGED <<starts, doing>>

Start(w, j) ==
    /\ j \in known
    /\ doing[w] = NoJob
    /\ starts[j] < MaxAttempts
    /\ starts' = [starts EXCEPT ![j] = @ + 1]
    /\ doing' = [doing EXCEPT ![w] = j]
    /\ UNCHANGED known

\* The execution ends: done, failed, given up or its process is gone.
Stop(w) ==
    /\ doing[w] # NoJob
    /\ doing' = [doing EXCEPT ![w] = NoJob]
    /\ UNCHANGED <<known, starts>>

Next ==
    \/ \E j \in Jobs : Accept(j)
    \/ \E w \in Workers : Stop(w) \/ \E j \in Jobs : Start(w, j)

Spec == Init /\ [][Next]_vars
=============================================================================
