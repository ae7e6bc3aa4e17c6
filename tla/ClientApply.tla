------------------------------ MODULE ClientApply ------------------------------
(***************************************************************************)
(* "certk-client apply" for one domain: ApplyV2 of internal/client/v2.go,  *)
(* its state file .client-state.json (state.go) and its use of Deployment. *)
(*                                                                         *)
(* Of the server only the answers the client acts on are kept: the job of  *)
(* an idempotency key (ReconcileV2, GetJobV2) and the current generation.  *)
(* --force, which makes the job another one, is not modelled.              *)
(***************************************************************************)
EXTENDS Deployment, FiniteSets

CONSTANT MaxKeys  \* bound: idempotency keys in use

ASSUME MaxKeysAssumption == MaxKeys \in Nat
ASSUME ClientsAssumption == IsFiniteSet(Clients)

Keys == 1..MaxKeys

(* clientState, in memory and in the file; key None: there is none. *)
ClientState == [key    : Keys \cup {None},
                report : Report \cup {NoReport},
                sent   : BOOLEAN]

NoState == [key |-> None, report |-> NoReport, sent |-> FALSE]

VARIABLES
    due,   \* the current certificate is in its renewal window
    job,   \* status of the job of each key
    made,  \* the generation each job published
    file,  \* .client-state.json
    at,    \* where each ApplyV2 is
    mem    \* its clientState

server == <<due, job, made>>
caVars == <<dpVars, due, job, made, file, at, mem>>

CaTypeOK ==
    /\ DpTypeOK
    /\ due \in BOOLEAN
    /\ job \in [Keys -> {"none", "queued", "succeeded", "failed"}]
    /\ made \in [Keys -> Generations \cup {None}]
    /\ file \in ClientState
    /\ at \in [Clients -> {"idle", "save", "resend", "resave", "reconcile", "poll",
                           "deploying", "report", "send", "sent"}]
    /\ mem \in [Clients -> ClientState]

CaInit ==
    /\ DpInit
    /\ due = FALSE
    /\ job = [k \in Keys |-> "none"] /\ made = [k \in Keys |-> None]
    /\ file = NoState
    /\ at = [c \in Clients |-> "idle"]
    /\ mem = [c \in Clients |-> NoState]

-----------------------------------------------------------------------------
(* The server (JobWorker and Publication in detail). *)

(* Mutant: the generation is handed out without being published. *)
WorkerEndsUnpublished(k) ==
    /\ job[k] = "queued" /\ latest < MaxGenerations
    /\ made' = [made EXCEPT ![k] = latest + 1]
    /\ job' = [job EXCEPT ![k] = "succeeded"]
    /\ UNCHANGED <<dpVars, due, file, at, mem>>

(* The worker ends the job of a key: issued, not due, or failed. *)
WorkerEnds(k) ==
    /\ job[k] = "queued"
    /\ \/ /\ due \/ latest = None
          /\ ServerPublishes
          /\ due' = FALSE
          /\ made' = [made EXCEPT ![k] = latest + 1]
          /\ job' = [job EXCEPT ![k] = "succeeded"]
       \/ /\ ~due /\ latest # None
          /\ job' = [job EXCEPT ![k] = "succeeded"]
          /\ UNCHANGED <<dpVars, due, made>>
       \/ job' = [job EXCEPT ![k] = "failed"] /\ UNCHANGED <<dpVars, due, made>>
    /\ UNCHANGED <<file, at, mem>>

(* A job of somebody else issues. *)
OthersPublish ==
    /\ ServerPublishes
    /\ due' = FALSE
    /\ UNCHANGED <<job, made, file, at, mem>>

Expire ==
    /\ latest # None /\ ~due
    /\ due' = TRUE
    /\ UNCHANGED <<dpVars, job, made, file, at, mem>>

-----------------------------------------------------------------------------
Continue(c, p) == at' = [at EXCEPT ![c] = p]

Ends(c) == Continue(c, "idle") /\ mem' = [mem EXCEPT ![c] = NoState]

(* RandomHex: a key that no job, run or file has; the first of them. *)
Unused(k) == job[k] = "none" /\ file.key # k /\ \A c \in Clients : mem[c].key # k

Drawn(k) == Unused(k) /\ \A j \in Keys : Unused(j) => k <= j

(* Mutant: the saved key is ignored. *)
UsesFreshKey(k) == Drawn(k)

(* The saved key for ever, a new one without a file. *)
UsesKey(k) == IF file.key # None THEN k = file.key ELSE Drawn(k)

(* loadClientState: a saved report is taken over only while it is unsent. *)
Begin(c) ==
    /\ at[c] = "idle"
    /\ \E k \in Keys :
        /\ UsesKey(k)
        /\ mem' = [mem EXCEPT ![c] =
                     [key |-> k, sent |-> FALSE,
                      report |-> IF file.sent THEN NoReport ELSE file.report]]
    /\ Continue(c, "save")
    /\ UNCHANGED <<dpVars, server, file>>

(* saveClientState before the request, and again after a resent report. *)
SaveState(c) ==
    /\ at[c] \in {"save", "resave"}
    /\ file' = mem[c]
    /\ Continue(c, IF at[c] = "save" /\ mem[c].report # NoReport
                   THEN "resend" ELSE "reconcile")
    /\ UNCHANGED <<dpVars, server, mem>>

(* reportDeploymentV2 of the report kept from an earlier run. *)
Resend(c) ==
    /\ at[c] = "resend"
    /\ \/ mem' = [mem EXCEPT ![c].sent = TRUE] /\ Continue(c, "resave")
       \/ Continue(c, "reconcile") /\ UNCHANGED mem
    /\ UNCHANGED <<dpVars, server, file>>

(* The generation is known: its manifest is read and DeployGeneration called. *)
Obtains(c, g) == Deploy(c, g) /\ Continue(c, "deploying") /\ UNCHANGED mem

(* reconcileV2: a new job, or the one the key already has.  The answer carries *)
(* the server's current generation, used when the job has succeeded before.    *)
Reconcile(c) ==
    /\ at[c] = "reconcile"
    /\ LET k == mem[c].key IN
        \/ /\ job[k] \in {"none", "queued"}
           /\ job' = [job EXCEPT ![k] = "queued"]
           /\ Continue(c, "poll")
           /\ UNCHANGED <<dpVars, mem>>
        \/ job[k] = "failed" /\ Ends(c) /\ UNCHANGED <<dpVars, job>>
        \/ job[k] = "succeeded" /\ Obtains(c, latest) /\ UNCHANGED job
    /\ UNCHANGED <<due, made, file>>

(* Mutant: a job without a generation is not refused. *)
PollUnchecked(c) ==
    /\ at[c] = "poll"
    /\ job[mem[c].key] = "succeeded" /\ Obtains(c, made[mem[c].key])
    /\ UNCHANGED <<server, file>>

(* pollJobV2: a job answers with the generation it published itself; without *)
(* one the run ends.                                                         *)
Poll(c) ==
    /\ at[c] = "poll"
    /\ LET k == mem[c].key IN
        \/ job[k] = "succeeded" /\ made[k] # None /\ Obtains(c, made[k])
        \/ job[k] = "succeeded" /\ made[k] = None /\ Ends(c) /\ UNCHANGED dpVars
        \/ job[k] = "failed" /\ Ends(c) /\ UNCHANGED dpVars
    /\ UNCHANGED <<server, file>>

(* A save or a request fails, or polling times out: there is no report. *)
ApplyFails(c) ==
    /\ at[c] \in {"save", "resave", "reconcile", "poll"}
    /\ Ends(c)
    /\ UNCHANGED <<dpVars, server, file>>

Deploys(c) == DeployStep(c) /\ UNCHANGED <<server, file, at, mem>>

TakeReport(c) ==
    /\ Taken(c)
    /\ mem' = [mem EXCEPT ![c].report = report[c]]
    /\ Continue(c, "report")
    /\ UNCHANGED <<server, file>>

(* The errors of the last two saves are ignored. *)
SavedOrNot(c) ==
    \/ file' = mem[c] /\ UNCHANGED dpVars
    \/ Fault /\ UNCHANGED <<file, latest, disk, lock, pc, own, marks>>

SaveReport(c) ==
    /\ at[c] = "report"
    /\ SavedOrNot(c)
    /\ Continue(c, "send")
    /\ UNCHANGED <<server, mem>>

Send(c) ==
    /\ at[c] = "send"
    /\ \/ mem' = [mem EXCEPT ![c].sent = TRUE] /\ Continue(c, "sent")
       \/ Ends(c)
    /\ UNCHANGED <<dpVars, server, file>>

SaveSent(c) ==
    /\ at[c] = "sent"
    /\ SavedOrNot(c)
    /\ Ends(c)
    /\ UNCHANGED server

ApplyKilled(c) ==
    /\ at[c] # "idle"
    /\ Killed(c) /\ Ends(c)
    /\ UNCHANGED <<server, file>>

-----------------------------------------------------------------------------
ApplyStep(c) ==
    \/ SaveState(c) \/ Resend(c) \/ Reconcile(c) \/ Poll(c) \/ ApplyFails(c)
    \/ Deploys(c) \/ TakeReport(c) \/ SaveReport(c) \/ Send(c) \/ SaveSent(c)

CaNext ==
    \/ \E c \in Clients : Begin(c) \/ ApplyStep(c) \/ ApplyKilled(c)
    \/ \E k \in Keys : WorkerEnds(k)
    \/ OthersPublish \/ Expire

CaSpec == CaInit /\ [][CaNext]_caVars

-----------------------------------------------------------------------------
(* Retries never issue twice: however often runs fail, are killed and start     *)
(* again, the server sees no more keys than runs that raced before the first    *)
(* state file was written (the key is saved before the request that uses it).   *)
KeysAreReused ==
    Cardinality({k \in Keys : job[k] # "none"}) <= Cardinality(Clients)

(* Runs use DeployGeneration as Deployment describes it - only generations the  *)
(* server has published, one call at a time - so what holds there holds here.   *)
ImplementsDeployment == DpInit /\ [][DpNext]_dpVars

-----------------------------------------------------------------------------
(* What the repository says and the code does not do. *)

(* README.md, v2 renewal: the timer's apply has the worker issue when renewal   *)
(* is due: a run is not sent to the old generation while the certificate is.    *)
RenewalIsQueued ==
    [][\A c \in Clients :
        at[c] = "reconcile" /\ at'[c] = "deploying" => ~due]_caVars
=============================================================================
