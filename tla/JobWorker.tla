------------------------------- MODULE JobWorker -------------------------------
(***************************************************************************)
(* The persistent worker (internal/scheduler/persistent.go) of one or more *)
(* server processes on one certificate_jobs table, through the adapter of  *)
(* cmd/server/main.go, with the job-visible outcomes of                    *)
(* Service.ReconcileJob, the operator's "job retry" and "job cancel"       *)
(* commands, SIGTERM, crashes and restarts.                                *)
(*                                                                         *)
(* A worker is a server process: production runs one claim loop in each    *)
(* (Concurrency 1).  Claim picks the first row in (next_attempt_at or      *)
(* created_at) order; the model lets it pick any claimable row, so what is *)
(* shown holds for every order.                                            *)
(***************************************************************************)
EXTENDS CertificateJobs, FiniteSets

CONSTANTS Jobs,         \* (domain, operation, idempotency key) triples
          NoJob,        \* no job
          CliJobs,      \* jobs the operator may retry or cancel
          ErrorClasses, \* ClassifyError of an error that changed no row
          MaxStops      \* bound: shutdowns and crashes in a behaviour

ASSUME NoJobAssumption == NoJob \notin Jobs
ASSUME CliJobsAssumption == CliJobs \subseteq Jobs
ASSUME ErrorClassesAssumption == ErrorClasses \subseteq {"permanent", "temporary"}
ASSUME MaxStopsAssumption == MaxStops \in Nat

VARIABLES
    jobs,      \* [Jobs -> Row], the table
    pc,        \* where each worker's claim loop is
    task,      \* the job each worker executes
    tries,     \* Job.Attempts in the worker's copy of the claimed row
    result,    \* what ReconcileJob returned
    renewErr,  \* the renewal goroutine ended with an error
    stopping,  \* SIGTERM received: the scheduler context is cancelled
    stops,     \* shutdowns and crashes so far
    cli,       \* the job a "job retry" has read and not yet written
    held,      \* history: time left of the lease last granted to the worker
    robbed     \* history: workers whose unexpired lease another writer's
               \* status update overwrote

table   == <<jobs>>
local   == <<pc, task, tries, result, renewErr>>
process == <<stopping, stops>>
history == <<held, robbed>>
vars    == <<jobs, pc, task, tries, result, renewErr, stopping, stops, cli, held, robbed>>

Executing == {"exec", "returned"}

TypeOK ==
    /\ jobs \in [Jobs -> Row]
    /\ pc \in [Workers -> {"down", "idle", "claiming"} \cup Executing]
    /\ task \in [Workers -> Jobs \cup {NoJob}]
    /\ tries \in [Workers -> 0..MaxAttempts]
    /\ result \in [Workers -> {"none", "ok", "permanent", "temporary"}]
    /\ renewErr \in [Workers -> BOOLEAN]
    /\ stopping \in [Workers -> BOOLEAN]
    /\ stops \in 0..MaxStops
    /\ cli \in Jobs \cup {NoJob}
    /\ held \in [Workers -> 0..LeaseDuration]
    /\ robbed \subseteq Workers

Init ==
    /\ jobs = [j \in Jobs |-> NoRow]
    /\ pc = [w \in Workers |-> "idle"]
    /\ task = [w \in Workers |-> NoJob]
    /\ tries = [w \in Workers |-> 0]
    /\ result = [w \in Workers |-> "none"]
    /\ renewErr = [w \in Workers |-> FALSE]
    /\ stopping = [w \in Workers |-> FALSE]
    /\ stops = 0
    /\ cli = NoJob
    /\ held = [w \in Workers |-> 0]
    /\ robbed = {}

-----------------------------------------------------------------------------
(* Workers other than "by" that hold an unexpired lease on j. *)
Holders(j, by) == {v \in Workers \ {by} : task[v] = j /\ held[v] > 0}

(* CreateCertificateJob, from an HTTP request or from the candidate scan.  The *)
(* unique index spans every status, so an existing row is returned unchanged.  *)
CreateJob(j) ==
    /\ jobs[j].status = "absent"
    /\ jobs' = [jobs EXCEPT ![j] = NewRow]
    /\ UNCHANGED <<local, process, history, cli>>

(* Claim, first statement. *)
StartClaim(w) ==
    /\ pc[w] = "idle" /\ ~stopping[w]
    /\ jobs' = [j \in Jobs |-> Swept(jobs[j])]
    /\ pc' = [pc EXCEPT ![w] = "claiming"]
    /\ UNCHANGED <<task, tries, result, renewErr, process, history, cli>>

(* Claim, second statement, on row j; executeJob starts. *)
ClaimJob(w, j) ==
    /\ pc[w] = "claiming"
    /\ Claimable(jobs[j])
    /\ jobs' = [jobs EXCEPT ![j] = Claimed(jobs[j], w)]
    /\ pc' = [pc EXCEPT ![w] = "exec"]
    /\ task' = [task EXCEPT ![w] = j]
    /\ tries' = [tries EXCEPT ![w] = jobs[j].attempts + 1]
    /\ result' = [result EXCEPT ![w] = "none"]
    /\ renewErr' = [renewErr EXCEPT ![w] = FALSE]
    /\ held' = [held EXCEPT ![w] = LeaseDuration]
    /\ robbed' = robbed \ {w}
    /\ UNCHANGED <<process, cli>>

(* Claim finds no row, or its context is cancelled: the round ends. *)
ClaimNothing(w) ==
    /\ pc[w] = "claiming"
    /\ stopping[w] \/ \A j \in Jobs : ~Claimable(jobs[j])
    /\ pc' = [pc EXCEPT ![w] = "idle"]
    /\ UNCHANGED <<table, task, tries, result, renewErr, process, history, cli>>

(* The renewal goroutine: RenewLease succeeds only for the live owner.  It may *)
(* still tick after ReconcileJob returned and before its stop channel closes.  *)
RenewLease(w) ==
    /\ pc[w] \in Executing /\ ~renewErr[w] /\ ~stopping[w]
    /\ Fenced(jobs[task[w]], w)
    /\ jobs' = [jobs EXCEPT ![task[w]] = Renewed(@)]
    /\ held' = [held EXCEPT ![w] = LeaseDuration]
    /\ UNCHANGED <<local, process, robbed, cli>>

(* The statement touches no row, or the database refuses it. *)
RenewFails(w) ==
    /\ pc[w] \in Executing /\ ~renewErr[w]
    /\ renewErr' = [renewErr EXCEPT ![w] = TRUE]
    /\ UNCHANGED <<table, pc, task, tries, result, process, history, cli>>

-----------------------------------------------------------------------------
(* How ReconcileJob ends, as the job table sees it. *)

Returns(w, r) ==
    /\ pc[w] = "exec"
    /\ pc' = [pc EXCEPT ![w] = "returned"]
    /\ result' = [result EXCEPT ![w] = r]
    /\ UNCHANGED <<task, tries, renewErr, process, cli>>

(* UpdateJobStatus(s) of worker w on its job: it ends w's own lease, and takes *)
(* away the lease of whoever else holds the job.                               *)
StatusWrite(w, s) ==
    /\ jobs' = [jobs EXCEPT ![task[w]] = WithStatus(@, s)]
    /\ held' = [held EXCEPT ![w] = 0]
    /\ robbed' = robbed \cup Holders(task[w], w)

(* Certificate not due, recovered, or issued and published. *)
ReconcileSucceeds(w) == Returns(w, "ok") /\ StatusWrite(w, "succeeded")

(* finishV2GenerationFailure with a permanent cause; failed recovery. *)
ReconcileFails(w) == Returns(w, "permanent") /\ StatusWrite(w, "failed")

(* finishV2GenerationFailure with a retryable cause: Retry, whose error is     *)
(* ignored; the error it returns is a plain one, which is classified permanent.*)
ReconcileRetries(w) ==
    /\ Returns(w, "permanent")
    /\ IF Fenced(jobs[task[w]], w)
       THEN /\ jobs' = [jobs EXCEPT ![task[w]] = Retried(@)]
            /\ held' = [held EXCEPT ![w] = 0]
       ELSE UNCHANGED <<jobs, held>>
    /\ UNCHANGED robbed

(* The job row could not be read, or the last status write failed. *)
ReconcileErrors(w) ==
    /\ \E c \in ErrorClasses : Returns(w, c)
    /\ UNCHANGED <<table, history>>

Reconcile(w) ==
    \/ ReconcileSucceeds(w) \/ ReconcileFails(w)
    \/ ReconcileRetries(w) \/ ReconcileErrors(w)

-----------------------------------------------------------------------------
(* The second half of executeJob, after ReconcileJob. *)

EndsTask(w) ==
    /\ pc[w] = "returned"
    /\ pc' = [pc EXCEPT ![w] = "idle"]
    /\ task' = [task EXCEPT ![w] = NoJob]
    /\ UNCHANGED <<tries, result, renewErr, process, cli>>

Retries(w) == result[w] = "temporary" /\ tries[w] < MaxAttempts

(* releaseCanceledJob: the context is cancelled, whatever ReconcileJob did. *)
SettleCanceled(w) == stopping[w] /\ EndsTask(w) /\ StatusWrite(w, "queued")

SettleSucceeded(w) ==
    /\ ~stopping[w] /\ ~renewErr[w] /\ result[w] = "ok"
    /\ EndsTask(w) /\ StatusWrite(w, "succeeded")

SettleFailed(w) ==
    /\ ~stopping[w] /\ ~renewErr[w] /\ result[w] # "ok" /\ ~Retries(w)
    /\ EndsTask(w) /\ StatusWrite(w, "failed")

(* No status is written: the renewal failed, the status is "retrying" (not a *)
(* valid one for the store), or the write itself returns an error.           *)
SettleDropped(w) ==
    /\ EndsTask(w)
    /\ held' = [held EXCEPT ![w] = 0]
    /\ UNCHANGED <<table, robbed>>

Settle(w) ==
    \/ SettleCanceled(w) \/ SettleSucceeded(w)
    \/ SettleFailed(w) \/ SettleDropped(w)

-----------------------------------------------------------------------------
(* main: SIGTERM cancels the scheduler context. *)
Shutdown(w) ==
    /\ pc[w] # "down" /\ ~stopping[w] /\ stops < MaxStops
    /\ stopping' = [stopping EXCEPT ![w] = TRUE]
    /\ stops' = stops + 1
    /\ UNCHANGED <<table, local, history, cli>>

GoesDown(w) ==
    /\ pc' = [pc EXCEPT ![w] = "down"]
    /\ task' = [task EXCEPT ![w] = NoJob]
    /\ held' = [held EXCEPT ![w] = 0]
    /\ UNCHANGED <<table, tries, result, renewErr, stopping, robbed, cli>>

(* The loop ended, or main stopped waiting for it after 5 seconds. *)
Exit(w) == stopping[w] /\ pc[w] # "down" /\ GoesDown(w) /\ UNCHANGED stops

Crash(w) ==
    /\ ~stopping[w] /\ pc[w] # "down" /\ stops < MaxStops
    /\ stops' = stops + 1
    /\ GoesDown(w)

Restart(w) ==
    /\ pc[w] = "down"
    /\ pc' = [pc EXCEPT ![w] = "idle"]
    /\ stopping' = [stopping EXCEPT ![w] = FALSE]
    /\ UNCHANGED <<table, task, tries, result, renewErr, stops, history, cli>>

-----------------------------------------------------------------------------
(* server-cli job cancel: any existing job. *)
CliCancel(j) ==
    /\ j \in CliJobs /\ jobs[j].status # "absent"
    /\ jobs' = [jobs EXCEPT ![j] = WithStatus(@, "cancelled")]
    /\ robbed' = robbed \cup Holders(j, NoOwner)
    /\ UNCHANGED <<local, process, held, cli>>

(* server-cli job retry: the status is checked first and written later. *)
CliRetryRead(j) ==
    /\ j \in CliJobs /\ cli = NoJob
    /\ jobs[j].status \notin {"absent", "succeeded"}
    /\ cli' = j
    /\ UNCHANGED <<table, local, process, history>>

CliRetryWrite ==
    /\ cli # NoJob
    /\ jobs' = [jobs EXCEPT ![cli] = WithStatus(@, "queued")]
    /\ robbed' = robbed \cup Holders(cli, NoOwner)
    /\ cli' = NoJob
    /\ UNCHANGED <<local, process, held>>

(* The clock. *)
Tick ==
    /\ jobs' = [j \in Jobs |-> Aged(jobs[j])]
    /\ held' = [w \in Workers |-> Down(held[w])]
    /\ UNCHANGED <<local, process, robbed, cli>>

-----------------------------------------------------------------------------
WorkerStep(w) ==
    \/ StartClaim(w) \/ (\E j \in Jobs : ClaimJob(w, j)) \/ ClaimNothing(w)
    \/ RenewLease(w) \/ RenewFails(w) \/ Reconcile(w) \/ Settle(w)
    \/ Shutdown(w) \/ Exit(w) \/ Crash(w) \/ Restart(w)

Next ==
    \/ \E j \in Jobs : CreateJob(j) \/ CliCancel(j) \/ CliRetryRead(j)
    \/ \E w \in Workers : WorkerStep(w)
    \/ CliRetryWrite
    \/ Tick

Spec == Init /\ [][Next]_vars

(* The Go scheduler runs every goroutine, ReconcileJob ends (every ACME call   *)
(* has a timeout), time passes, and the container's restart policy brings a    *)
(* stopped server back.                                                        *)
Fairness ==
    /\ WF_vars(Tick)
    /\ WF_vars(CliRetryWrite)
    /\ \A w \in Workers :
        /\ WF_vars(StartClaim(w))
        /\ WF_vars((\E j \in Jobs : ClaimJob(w, j)) \/ ClaimNothing(w))
        /\ WF_vars(Reconcile(w))
        /\ WF_vars(Settle(w))
        /\ WF_vars(Exit(w))
        /\ WF_vars(Restart(w))

FairSpec == Spec /\ Fairness

-----------------------------------------------------------------------------
(* Every row is one a reader of the table can interpret: a terminal row has no *)
(* lease and no next attempt (nothing can claim or renew it), a running row    *)
(* has an owner and was counted as an attempt, and no row is queued with a     *)
(* delay and a lease of a run that went on.  All writers together keep it:     *)
(* Claim, its sweep, RenewLease, Retry and the unconditional status updates.   *)
RowShape == \A j \in Jobs : WellShaped(jobs[j])

(* Leases mean what the worker takes them to mean: while the lease last granted *)
(* to a worker has time left, the row is running, is the worker's, and carries  *)
(* exactly that lease - unless another writer's unfenced status update hit it.  *)
(* Neither a claim, a sweep, a renewal, a Retry nor a restart ever takes it.    *)
LeaseHonoured ==
    \A w \in Workers :
        held[w] > 0 /\ w \notin robbed =>
            /\ task[w] \in Jobs
            /\ Fenced(jobs[task[w]], w)
            /\ jobs[task[w]].lease = held[w]

(* Two workers execute the same job under unexpired leases only if an unfenced  *)
(* status update took the lease of one of them: Claim alone never hands out a   *)
(* job twice (persistent.go: ClaimJob takes over expired running jobs only).    *)
ExclusiveExecution ==
    \A v, w \in Workers :
        v # w /\ task[v] = task[w] /\ held[v] > 0 /\ held[w] > 0 =>
            v \in robbed \/ w \in robbed

(* Rows, leases, sweeps, releases and operator commands implement JobQueue: a  *)
(* job is started at most max_attempts times, every execution under way was    *)
(* paid for by an attempt, and attempts are never handed back.                 *)
Queue == INSTANCE JobQueue
         WITH known  <- {j \in Jobs : jobs[j].status # "absent"},
              starts <- [j \in Jobs |-> jobs[j].attempts],
              doing  <- task
ImplementsJobQueue == Queue!Spec

(* A succeeded job that no worker executes and no "job retry" has read is never *)
(* run again: only the operator's cancel may still relabel it.                  *)
SucceededIsFinal ==
    [][\A j \in Jobs :
        /\ jobs[j].status = "succeeded" /\ cli # j
        /\ \A w \in Workers : task[w] # j
        => jobs'[j].status \in {"succeeded", "cancelled"}]_vars

(* Queued without an attempt left: Claim never takes such a row, and its sweep *)
(* looks at running rows only.                                                 *)
Stranded(r) == r.status = "queued" /\ r.attempts >= MaxAttempts

(* Every job that was created is settled some day - in a terminal status, or    *)
(* queued with its attempts used up - although workers crash, lose their lease  *)
(* or drop their last status write.                                             *)
EveryJobSettles ==
    \A j \in Jobs :
        jobs[j].status # "absent" ~> (jobs[j].status \in Terminal \/ Stranded(jobs[j]))

-----------------------------------------------------------------------------
(* What the repository says and the code does not do. *)

(* workflows.go, Retry: a retryable failure re-queues the job and fails it only *)
(* at the limit: a queued job with attempts left is not failed.                 *)
RetryIsKept ==
    [][\A j \in Jobs :
        jobs[j].status = "queued" /\ jobs[j].attempts < MaxAttempts
            => jobs'[j].status # "failed"]_vars
=============================================================================
