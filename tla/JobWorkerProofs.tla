---------------------------- MODULE JobWorkerProofs ----------------------------
(***************************************************************************)
(* Proofs about JobWorker, for every set of workers and jobs and every     *)
(* attempt limit, lease and backoff.                                       *)
(***************************************************************************)
EXTENDS JobWorker, TLAPS

(* A worker has a job exactly while it executes one, and a lease only then. *)
TaskInv ==
    \A w \in Workers :
        /\ pc[w] \in Executing => task[w] \in Jobs
        /\ pc[w] \notin Executing => held[w] = 0

IInv == TypeOK /\ RowShape /\ TaskInv /\ LeaseHonoured

USE MaxAttemptsAssumption, LeaseAssumption, BackoffAssumption, NoOwnerAssumption,
    NoJobAssumption, CliJobsAssumption, ErrorClassesAssumption, MaxStopsAssumption

-----------------------------------------------------------------------------
(* A freshly inserted row (CreateCertificateJob) is a well-shaped row. *)
LEMMA NewRowShaped == NewRow \in Row /\ WellShaped(NewRow)
  BY DEF NewRow, NoRow, Row, WellShaped, JobStatus, Terminal

(* An absent row is a well-shaped row. *)
LEMMA NoRowShaped == NoRow \in Row /\ WellShaped(NoRow)
  BY DEF NoRow, Row, WellShaped, JobStatus, Terminal

(* The sweep of Claim keeps rows well shaped and leaves a live lease alone. *)
LEMMA SweptShaped ==
  ASSUME NEW r \in Row, WellShaped(r)
  PROVE  /\ Swept(r) \in Row /\ WellShaped(Swept(r))
         /\ r.lease > 0 => Swept(r) = r
  <1>1. Swept(r) \in Row
    BY DEF Swept, Row, JobStatus, Terminal
  <1>2. WellShaped(Swept(r))
    BY DEF Swept, Row, WellShaped, JobStatus, Terminal
  <1>3. r.lease > 0 => Swept(r) = r
    BY DEF Swept, Row
  <1> QED
    BY <1>1, <1>2, <1>3

(* Claim keeps rows well shaped; a fenced row is not claimable. *)
LEMMA ClaimedShaped ==
  ASSUME NEW r \in Row, NEW w \in Workers, Claimable(r)
  PROVE  /\ Claimed(r, w) \in Row /\ WellShaped(Claimed(r, w))
         /\ Fenced(Claimed(r, w), w) /\ Claimed(r, w).lease = LeaseDuration
         /\ \A v : ~Fenced(r, v)
  <1>1. r.attempts \in 0..MaxAttempts /\ r.attempts < MaxAttempts
    BY DEF Claimable, Row
  <1>2. Claimed(r, w) \in Row /\ WellShaped(Claimed(r, w))
    BY <1>1 DEF Claimed, Row, JobStatus, Terminal, WellShaped
  <1>3. Fenced(Claimed(r, w), w) /\ Claimed(r, w).lease = LeaseDuration
    BY DEF Claimed, Fenced
  <1>4. \A v : ~Fenced(r, v)
    BY DEF Claimable, Fenced, Row
  <1> QED
    BY <1>2, <1>3, <1>4

(* RenewLease keeps a fenced row well shaped and fenced. *)
LEMMA RenewedShaped ==
  ASSUME NEW r \in Row, WellShaped(r), NEW w \in Workers, Fenced(r, w)
  PROVE  /\ Renewed(r) \in Row /\ WellShaped(Renewed(r))
         /\ Fenced(Renewed(r), w) /\ Renewed(r).lease = LeaseDuration
         /\ \A v : Fenced(r, v) => v = w
  BY DEF Renewed, Fenced, Row, WellShaped, JobStatus, Terminal

(* Retry keeps rows well shaped, and is the owner's alone. *)
LEMMA RetriedShaped ==
  ASSUME NEW r \in Row, NEW w \in Workers, Fenced(r, w)
  PROVE  /\ Retried(r) \in Row /\ WellShaped(Retried(r))
         /\ \A v : Fenced(r, v) => v = w
  <1>1. CASE r.attempts >= MaxAttempts
    <2>1. Retried(r) = [status |-> "failed", attempts |-> r.attempts,
                        owner |-> NoOwner, lease |-> 0, next |-> 0]
      BY <1>1 DEF Retried, Row
    <2> QED
      BY <2>1 DEF Row, JobStatus, Terminal, WellShaped, Fenced
  <1>2. CASE ~(r.attempts >= MaxAttempts)
    <2>1. Retried(r) = [status |-> "queued", attempts |-> r.attempts,
                        owner |-> NoOwner, lease |-> 0, next |-> RetryBackoff]
      BY <1>2 DEF Retried, Row
    <2> QED
      BY <2>1 DEF Row, JobStatus, Terminal, WellShaped, Fenced
  <1> QED
    BY <1>1, <1>2

(* UpdateCertificateJobStatus keeps rows well shaped for each status the code writes. *)
LEMMA StatusShaped ==
  ASSUME NEW r \in Row, WellShaped(r), NEW s \in Terminal \cup {"queued"}
  PROVE  WithStatus(r, s) \in Row /\ WellShaped(WithStatus(r, s))
  <1>1. CASE s \in Terminal
    <2>1. WithStatus(r, s) = [status |-> s, attempts |-> r.attempts,
                              owner |-> NoOwner, lease |-> 0, next |-> 0]
      BY <1>1 DEF WithStatus, Row
    <2> QED
      BY <1>1, <2>1 DEF Row, JobStatus, Terminal, WellShaped
  <1>2. CASE s = "queued"
    BY <1>2 DEF WithStatus, Row, JobStatus, Terminal, WellShaped
  <1> QED
    BY <1>1, <1>2

(* Time passing keeps rows well shaped; a lease with time left beyond the tick *)
(* stays fenced and runs down like its holder's.                               *)
LEMMA AgedShaped ==
  ASSUME NEW r \in Row, WellShaped(r)
  PROVE  /\ Aged(r) \in Row /\ WellShaped(Aged(r))
         /\ \A v : Fenced(r, v) /\ Down(r.lease) > 0 =>
                Fenced(Aged(r), v) /\ Aged(r).lease = Down(r.lease)
  <1>1. /\ Aged(r).status = r.status /\ Aged(r).owner = r.owner
        /\ Aged(r).attempts = r.attempts
        /\ Aged(r).lease = Down(r.lease) /\ Aged(r).next = Down(r.next)
    BY DEF Aged, Row
  <1>2. /\ r.lease \in 0..LeaseDuration /\ Down(r.lease) \in 0..LeaseDuration
        /\ r.next \in 0..RetryBackoff /\ Down(r.next) \in 0..RetryBackoff
        /\ r.lease = 0 => Down(r.lease) = 0
        /\ r.next = 0 => Down(r.next) = 0
        /\ Down(r.lease) > 0 => r.lease > 0
        /\ Down(r.next) > 0 => r.next > 0
    BY DEF Down, Row
  <1>3. Aged(r) \in Row
    BY <1>2 DEF Aged, Row
  <1>4. WellShaped(Aged(r))
    BY <1>1, <1>2 DEF WellShaped, Row
  <1>5. \A v : Fenced(r, v) /\ Down(r.lease) > 0 =>
             Fenced(Aged(r), v) /\ Aged(r).lease = Down(r.lease)
    BY <1>1, <1>2 DEF Fenced
  <1> QED
    BY <1>3, <1>4, <1>5

-----------------------------------------------------------------------------
(* The initial state, an empty table and idle workers, satisfies the invariant. *)
LEMMA InitIInv == Init => IInv
  <1> SUFFICES ASSUME Init PROVE IInv
    OBVIOUS
  <1>1. TypeOK
    BY NoRowShaped DEF Init, TypeOK, Executing
  <1>2. RowShape
    BY NoRowShaped DEF Init, RowShape
  <1>3. TaskInv
    BY DEF Init, TaskInv, Executing
  <1>4. LeaseHonoured
    BY DEF Init, LeaseHonoured
  <1> QED
    BY <1>1, <1>2, <1>3, <1>4 DEF IInv

(* A worker's status update: whoever else held the job is recorded as robbed. *)
LEMMA StatusWriteIInv ==
  ASSUME IInv, NEW w \in Workers, NEW s \in Terminal \cup {"queued"},
         StatusWrite(w, s), pc[w] \in Executing
  PROVE  /\ jobs' \in [Jobs -> Row] /\ RowShape'
         /\ held' \in [Workers -> 0..LeaseDuration] /\ robbed' \subseteq Workers
         /\ held'[w] = 0 /\ \A v \in Workers \ {w} : held'[v] = held[v]
         /\ \A v \in Workers \ {w} :
                held[v] > 0 /\ v \notin robbed' =>
                    /\ task[v] \in Jobs
                    /\ Fenced(jobs'[task[v]], v)
                    /\ jobs'[task[v]].lease = held[v]
  <1> DEFINE j == task[w]
  <1>1. j \in Jobs /\ jobs \in [Jobs -> Row] /\ held \in [Workers -> 0..LeaseDuration]
    BY DEF IInv, TaskInv, TypeOK
  <1>2. WithStatus(jobs[j], s) \in Row /\ WellShaped(WithStatus(jobs[j], s))
    BY <1>1, StatusShaped DEF IInv, RowShape
  <1>3. jobs' = [jobs EXCEPT ![j] = WithStatus(jobs[j], s)]
    BY DEF StatusWrite
  <1>4. jobs' \in [Jobs -> Row] /\ RowShape'
    BY <1>1, <1>2, <1>3 DEF IInv, RowShape
  <1>5. /\ held' \in [Workers -> 0..LeaseDuration] /\ robbed' \subseteq Workers
        /\ held'[w] = 0 /\ \A v \in Workers \ {w} : held'[v] = held[v]
    BY <1>1 DEF StatusWrite, IInv, TypeOK, Holders
  <1>6. ASSUME NEW v \in Workers \ {w}, held[v] > 0, v \notin robbed'
        PROVE  /\ task[v] \in Jobs
               /\ Fenced(jobs'[task[v]], v)
               /\ jobs'[task[v]].lease = held[v]
    <2>1. v \notin robbed /\ task[v] # j
      BY <1>6 DEF StatusWrite, Holders
    <2>2. /\ task[v] \in Jobs /\ Fenced(jobs[task[v]], v)
          /\ jobs[task[v]].lease = held[v]
      BY <1>6, <2>1 DEF IInv, LeaseHonoured
    <2> QED
      BY <1>1, <1>3, <2>1, <2>2
  <1> QED
    BY <1>4, <1>5, <1>6

(* The operator's status update has no lease of its own and robs every holder. *)
LEMMA CliWriteIInv ==
  ASSUME IInv, NEW j \in Jobs, NEW s \in Terminal \cup {"queued"},
         jobs' = [jobs EXCEPT ![j] = WithStatus(jobs[j], s)],
         robbed' = robbed \cup Holders(j, NoOwner), cli' \in Jobs \cup {NoJob},
         UNCHANGED <<local, process, held>>
  PROVE  IInv'
  <1>1. WithStatus(jobs[j], s) \in Row /\ WellShaped(WithStatus(jobs[j], s))
    BY StatusShaped DEF IInv, RowShape, TypeOK
  <1>2. TypeOK'
    BY <1>1 DEF IInv, TypeOK, local, process, Holders
  <1>3. RowShape'
    BY <1>1 DEF IInv, TypeOK, RowShape
  <1>4. TaskInv'
    BY DEF IInv, TaskInv, local
  <1>5. LeaseHonoured'
    <2> SUFFICES ASSUME NEW v \in Workers, held'[v] > 0, v \notin robbed'
                 PROVE  /\ task'[v] \in Jobs
                        /\ Fenced(jobs'[task'[v]], v)
                        /\ jobs'[task'[v]].lease = held'[v]
      BY DEF LeaseHonoured
    <2>1. v \notin robbed /\ task[v] # j /\ held[v] > 0
      BY DEF Holders, local
    <2>2. /\ task[v] \in Jobs /\ Fenced(jobs[task[v]], v)
          /\ jobs[task[v]].lease = held[v]
      BY <2>1 DEF IInv, LeaseHonoured
    <2> QED
      BY <2>1, <2>2 DEF local, IInv, TypeOK
  <1> QED
    BY <1>2, <1>3, <1>4, <1>5 DEF IInv

(* Creating a job touches an absent row only. *)
LEMMA CreateJobIInv == ASSUME IInv, NEW j \in Jobs, CreateJob(j) PROVE IInv'
  <1>1. TypeOK'
    BY NewRowShaped DEF IInv, TypeOK, CreateJob, local, process, history
  <1>2. RowShape'
    BY NewRowShaped DEF IInv, TypeOK, RowShape, CreateJob
  <1>3. TaskInv'
    BY DEF IInv, TaskInv, CreateJob, local, history
  <1>4. LeaseHonoured'
    BY DEF IInv, TypeOK, LeaseHonoured, CreateJob, local, history, Fenced
  <1> QED
    BY <1>1, <1>2, <1>3, <1>4 DEF IInv

(* The sweep of Claim fails rows whose lease is over, so no holder's row. *)
LEMMA StartClaimIInv == ASSUME IInv, NEW w \in Workers, StartClaim(w) PROVE IInv'
  <1>1. \A j \in Jobs : /\ Swept(jobs[j]) \in Row /\ WellShaped(Swept(jobs[j]))
                        /\ jobs[j].lease > 0 => Swept(jobs[j]) = jobs[j]
    BY SweptShaped DEF IInv, TypeOK, RowShape
  <1>2. TypeOK'
    BY <1>1 DEF IInv, TypeOK, StartClaim, process, history
  <1>3. RowShape'
    BY <1>1 DEF IInv, RowShape, StartClaim
  <1>4. TaskInv'
    BY DEF IInv, TypeOK, TaskInv, StartClaim, history, Executing
  <1>5. LeaseHonoured'
    BY <1>1 DEF IInv, TypeOK, LeaseHonoured, StartClaim, history, Fenced
  <1> QED
    BY <1>2, <1>3, <1>4, <1>5 DEF IInv

(* A claim takes a row nobody holds. *)
LEMMA ClaimJobIInv ==
  ASSUME IInv, NEW w \in Workers, NEW j \in Jobs, ClaimJob(w, j) PROVE IInv'
  <1>1. /\ Claimed(jobs[j], w) \in Row /\ WellShaped(Claimed(jobs[j], w))
        /\ Fenced(Claimed(jobs[j], w), w)
        /\ Claimed(jobs[j], w).lease = LeaseDuration
        /\ \A v : ~Fenced(jobs[j], v)
    BY ClaimedShaped DEF IInv, TypeOK, ClaimJob
  <1>2. TypeOK'
    <2>1. jobs[j].attempts + 1 \in 0..MaxAttempts
      BY DEF IInv, TypeOK, Row, ClaimJob, Claimable
    <2> QED
      BY <1>1, <2>1 DEF IInv, TypeOK, ClaimJob, process, Executing
  <1>3. RowShape'
    BY <1>1 DEF IInv, TypeOK, RowShape, ClaimJob
  <1>4. TaskInv'
    BY DEF IInv, TypeOK, TaskInv, ClaimJob, Executing
  <1>5. LeaseHonoured'
    <2> SUFFICES ASSUME NEW v \in Workers, held'[v] > 0, v \notin robbed'
                 PROVE  /\ task'[v] \in Jobs
                        /\ Fenced(jobs'[task'[v]], v)
                        /\ jobs'[task'[v]].lease = held'[v]
      BY DEF LeaseHonoured
    <2>1. CASE v = w
      BY <1>1, <2>1 DEF IInv, TypeOK, ClaimJob
    <2>2. CASE v # w
      <3>1. v \notin robbed /\ held'[v] = held[v] /\ task'[v] = task[v]
        BY <2>2 DEF IInv, TypeOK, ClaimJob
      <3>2. /\ task[v] \in Jobs /\ Fenced(jobs[task[v]], v)
            /\ jobs[task[v]].lease = held[v]
        BY <3>1 DEF IInv, LeaseHonoured
      <3>3. task[v] # j
        BY <3>2, <1>1
      <3> QED
        BY <3>1, <3>2, <3>3 DEF IInv, TypeOK, ClaimJob
    <2> QED
      BY <2>1, <2>2
  <1> QED
    BY <1>2, <1>3, <1>4, <1>5 DEF IInv

(* A renewal lengthens the lease on both sides and touches no other holder's row. *)
LEMMA RenewLeaseIInv == ASSUME IInv, NEW w \in Workers, RenewLease(w) PROVE IInv'
  <1> DEFINE j == task[w]
  <1>1. j \in Jobs /\ jobs' = [jobs EXCEPT ![j] = Renewed(jobs[j])]
    BY DEF IInv, TaskInv, RenewLease
  <1>2. /\ Renewed(jobs[j]) \in Row /\ WellShaped(Renewed(jobs[j]))
        /\ Fenced(Renewed(jobs[j]), w) /\ Renewed(jobs[j]).lease = LeaseDuration
        /\ \A v : Fenced(jobs[j], v) => v = w
    BY <1>1, RenewedShaped DEF IInv, TypeOK, RowShape, RenewLease
  <1>3. TypeOK'
    BY <1>1, <1>2 DEF IInv, TypeOK, RenewLease, local, process
  <1>4. RowShape'
    BY <1>1, <1>2 DEF IInv, TypeOK, RowShape
  <1>5. TaskInv'
    BY DEF IInv, TypeOK, TaskInv, RenewLease, local
  <1>6. LeaseHonoured'
    <2> SUFFICES ASSUME NEW v \in Workers, held'[v] > 0, v \notin robbed'
                 PROVE  /\ task'[v] \in Jobs
                        /\ Fenced(jobs'[task'[v]], v)
                        /\ jobs'[task'[v]].lease = held'[v]
      BY DEF LeaseHonoured
    <2>0. task' = task /\ robbed' = robbed /\ held' = [held EXCEPT ![w] = LeaseDuration]
      BY DEF RenewLease, local
    <2>1. CASE v = w
      BY <1>1, <1>2, <2>0, <2>1 DEF IInv, TypeOK
    <2>2. CASE v # w
      <3>1. held'[v] = held[v]
        BY <2>0, <2>2 DEF IInv, TypeOK
      <3>2. /\ task[v] \in Jobs /\ Fenced(jobs[task[v]], v)
            /\ jobs[task[v]].lease = held[v]
        BY <2>0, <3>1 DEF IInv, LeaseHonoured
      <3>3. task[v] # j
        BY <3>2, <2>2, <1>2
      <3> QED
        BY <1>1, <2>0, <3>1, <3>2, <3>3 DEF IInv, TypeOK
    <2> QED
      BY <2>1, <2>2
  <1> QED
    BY <1>3, <1>4, <1>5, <1>6 DEF IInv

(* Retry gives the worker's own lease back, or changes nothing. *)
LEMMA ReconcileRetriesIInv ==
  ASSUME IInv, NEW w \in Workers, ReconcileRetries(w) PROVE IInv'
  <1> DEFINE j == task[w]
  <1>0. /\ j \in Jobs /\ task' = task /\ robbed' = robbed
        /\ pc' = [pc EXCEPT ![w] = "returned"]
        /\ result' = [result EXCEPT ![w] = "permanent"]
        /\ UNCHANGED <<tries, renewErr, stopping, stops, cli>>
    BY DEF IInv, TaskInv, ReconcileRetries, Returns, Executing, process
  <1>1. CASE Fenced(jobs[j], w)
    <2>1. /\ Retried(jobs[j]) \in Row /\ WellShaped(Retried(jobs[j]))
          /\ \A v : Fenced(jobs[j], v) => v = w
      BY <1>0, <1>1, RetriedShaped DEF IInv, TypeOK
    <2>2. /\ jobs' = [jobs EXCEPT ![j] = Retried(jobs[j])]
          /\ held' = [held EXCEPT ![w] = 0]
      BY <1>1 DEF ReconcileRetries
    <2>3. TypeOK'
      BY <1>0, <2>1, <2>2 DEF IInv, TypeOK, Executing
    <2>4. RowShape'
      BY <1>0, <2>1, <2>2 DEF IInv, TypeOK, RowShape
    <2>5. TaskInv'
      BY <1>0, <2>2 DEF IInv, TypeOK, TaskInv, Executing
    <2>6. LeaseHonoured'
      <3> SUFFICES ASSUME NEW v \in Workers, held'[v] > 0, v \notin robbed'
                   PROVE  /\ task'[v] \in Jobs
                          /\ Fenced(jobs'[task'[v]], v)
                          /\ jobs'[task'[v]].lease = held'[v]
        BY DEF LeaseHonoured
      <3>1. v # w /\ held'[v] = held[v]
        BY <2>2 DEF IInv, TypeOK
      <3>2. /\ task[v] \in Jobs /\ Fenced(jobs[task[v]], v)
            /\ jobs[task[v]].lease = held[v]
        BY <1>0, <3>1 DEF IInv, LeaseHonoured
      <3>3. task[v] # j
        BY <2>1, <3>1, <3>2
      <3> QED
        BY <1>0, <2>2, <3>1, <3>2, <3>3 DEF IInv, TypeOK
    <2> QED
      BY <2>3, <2>4, <2>5, <2>6 DEF IInv
  <1>2. CASE ~Fenced(jobs[j], w)
    <2>1. jobs' = jobs /\ held' = held
      BY <1>2 DEF ReconcileRetries
    <2> QED
      BY <1>0, <2>1 DEF IInv, TypeOK, RowShape, TaskInv, LeaseHonoured, Executing
  <1> QED
    BY <1>1, <1>2

(* Time runs down the row's lease and the holder's copy of it alike. *)
LEMMA TickIInv == ASSUME IInv, Tick PROVE IInv'
  <1>1. \A j \in Jobs : /\ Aged(jobs[j]) \in Row /\ WellShaped(Aged(jobs[j]))
                        /\ \A v : Fenced(jobs[j], v) /\ Down(jobs[j].lease) > 0 =>
                              /\ Fenced(Aged(jobs[j]), v)
                              /\ Aged(jobs[j]).lease = Down(jobs[j].lease)
    BY AgedShaped DEF IInv, TypeOK, RowShape
  <1>2. \A n \in 0..LeaseDuration :
           /\ Down(n) \in 0..LeaseDuration
           /\ n = 0 => Down(n) = 0
           /\ Down(n) > 0 => n > 0
    BY DEF Down
  <1>3. TypeOK'
    BY <1>1, <1>2 DEF IInv, TypeOK, Tick, local, process
  <1>4. RowShape'
    BY <1>1 DEF IInv, RowShape, Tick
  <1>5. TaskInv'
    BY <1>2 DEF IInv, TypeOK, TaskInv, Tick, local
  <1>6. LeaseHonoured'
    <2> SUFFICES ASSUME NEW v \in Workers, held'[v] > 0, v \notin robbed'
                 PROVE  /\ task'[v] \in Jobs
                        /\ Fenced(jobs'[task'[v]], v)
                        /\ jobs'[task'[v]].lease = held'[v]
      BY DEF LeaseHonoured
    <2>1. /\ task'[v] = task[v] /\ v \notin robbed /\ held'[v] = Down(held[v])
          /\ held[v] \in 0..LeaseDuration
      BY DEF Tick, local, IInv, TypeOK
    <2>2. held[v] > 0
      BY <1>2, <2>1
    <2>3. /\ task[v] \in Jobs /\ Fenced(jobs[task[v]], v)
          /\ jobs[task[v]].lease = held[v]
      BY <2>1, <2>2 DEF IInv, LeaseHonoured
    <2>4. jobs'[task[v]] = Aged(jobs[task[v]])
      BY <2>3 DEF Tick
    <2> QED
      BY <1>1, <2>1, <2>3, <2>4
  <1> QED
    BY <1>3, <1>4, <1>5, <1>6 DEF IInv

(* ReconcileJob's own status update. *)
LEMMA ReconcileWritesIInv ==
  ASSUME IInv, NEW w \in Workers, NEW s \in Terminal,
         NEW r \in {"ok", "permanent"}, Returns(w, r), StatusWrite(w, s)
  PROVE  IInv'
  <1>1. /\ pc[w] \in Executing /\ task' = task
        /\ pc' = [pc EXCEPT ![w] = "returned"]
        /\ result' = [result EXCEPT ![w] = r]
        /\ UNCHANGED <<tries, renewErr, stopping, stops, cli>>
    BY DEF Returns, Executing, process
  <1>2. /\ jobs' \in [Jobs -> Row] /\ RowShape'
        /\ held' \in [Workers -> 0..LeaseDuration] /\ robbed' \subseteq Workers
        /\ held'[w] = 0 /\ \A v \in Workers \ {w} : held'[v] = held[v]
        /\ \A v \in Workers \ {w} :
               held[v] > 0 /\ v \notin robbed' =>
                   /\ task[v] \in Jobs
                   /\ Fenced(jobs'[task[v]], v)
                   /\ jobs'[task[v]].lease = held[v]
    BY <1>1, StatusWriteIInv
  <1>3. TypeOK'
    BY <1>1, <1>2 DEF IInv, TypeOK, Executing
  <1>4. TaskInv'
    BY <1>1, <1>2 DEF IInv, TypeOK, TaskInv, Executing
  <1>5. LeaseHonoured'
    BY <1>1, <1>2 DEF LeaseHonoured
  <1> QED
    BY <1>2, <1>3, <1>4, <1>5 DEF IInv

(* The status update of executeJob, after which the worker has no job. *)
LEMMA SettleWritesIInv ==
  ASSUME IInv, NEW w \in Workers, NEW s \in Terminal \cup {"queued"},
         EndsTask(w), StatusWrite(w, s)
  PROVE  IInv'
  <1>1. /\ pc[w] \in Executing /\ task' = [task EXCEPT ![w] = NoJob]
        /\ pc' = [pc EXCEPT ![w] = "idle"]
        /\ UNCHANGED <<result, tries, renewErr, stopping, stops, cli>>
    BY DEF EndsTask, Executing, process
  <1>2. /\ jobs' \in [Jobs -> Row] /\ RowShape'
        /\ held' \in [Workers -> 0..LeaseDuration] /\ robbed' \subseteq Workers
        /\ held'[w] = 0 /\ \A v \in Workers \ {w} : held'[v] = held[v]
        /\ \A v \in Workers \ {w} :
               held[v] > 0 /\ v \notin robbed' =>
                   /\ task[v] \in Jobs
                   /\ Fenced(jobs'[task[v]], v)
                   /\ jobs'[task[v]].lease = held[v]
    BY <1>1, StatusWriteIInv
  <1>3. TypeOK'
    BY <1>1, <1>2 DEF IInv, TypeOK, Executing
  <1>4. TaskInv'
    BY <1>1, <1>2 DEF IInv, TypeOK, TaskInv, Executing
  <1>5. LeaseHonoured'
    BY <1>1, <1>2 DEF IInv, TypeOK, LeaseHonoured
  <1> QED
    BY <1>2, <1>3, <1>4, <1>5 DEF IInv

(* A worker that ends its job without a status update, or goes down, holds nothing. *)
LEMMA LetsGoIInv ==
  ASSUME IInv, NEW w \in Workers, SettleDropped(w) \/ Exit(w) \/ Crash(w)
  PROVE  IInv'
  <1>1. /\ jobs' = jobs /\ robbed' = robbed /\ cli' = cli
        /\ task' = [task EXCEPT ![w] = NoJob]
        /\ held' = [held EXCEPT ![w] = 0]
        /\ \E p \in {"idle", "down"} : pc' = [pc EXCEPT ![w] = p]
        /\ UNCHANGED <<tries, result, renewErr, stopping>>
        /\ stops' \in 0..MaxStops
    BY DEF SettleDropped, EndsTask, Exit, Crash, GoesDown, process, table, IInv, TypeOK
  <1>2. TypeOK'
    BY <1>1 DEF IInv, TypeOK
  <1>3. RowShape'
    BY <1>1 DEF IInv, RowShape
  <1>4. TaskInv'
    BY <1>1 DEF IInv, TypeOK, TaskInv, Executing
  <1>5. LeaseHonoured'
    BY <1>1 DEF IInv, TypeOK, LeaseHonoured
  <1> QED
    BY <1>2, <1>3, <1>4, <1>5 DEF IInv

(* Steps that leave the table and the leases alone. *)
LEMMA QuietIInv ==
  ASSUME IInv, NEW w \in Workers,
         \/ ClaimNothing(w) \/ RenewFails(w) \/ ReconcileErrors(w)
         \/ Shutdown(w) \/ Restart(w)
  PROVE  IInv'
  <1>1. jobs' = jobs /\ held' = held /\ robbed' = robbed /\ task' = task
    BY DEF ClaimNothing, RenewFails, ReconcileErrors, Returns, Shutdown, Restart,
           table, history, local
  <1>2. /\ tries' = tries /\ cli' = cli
        /\ pc' \in [Workers -> {"down", "idle", "claiming"} \cup Executing]
        /\ result' \in [Workers -> {"none", "ok", "permanent", "temporary"}]
        /\ stopping' \in [Workers -> BOOLEAN]
        /\ renewErr' \in [Workers -> BOOLEAN]
        /\ stops' \in 0..MaxStops
        /\ \A v \in Workers : pc'[v] \in Executing <=> pc[v] \in Executing
    <2>1. CASE ClaimNothing(w)
      BY <2>1 DEF ClaimNothing, process, IInv, TypeOK, Executing
    <2>2. CASE RenewFails(w)
      BY <2>2 DEF RenewFails, process, IInv, TypeOK
    <2>3. CASE ReconcileErrors(w)
      <3>1. PICK c \in ErrorClasses : Returns(w, c)
        BY <2>3 DEF ReconcileErrors
      <3>2. c \in {"permanent", "temporary"}
        BY ErrorClassesAssumption
      <3> QED
        BY <3>1, <3>2 DEF Returns, process, IInv, TypeOK, Executing
    <2>4. CASE Shutdown(w)
      <3>1. stops' \in 0..MaxStops
        BY <2>4, MaxStopsAssumption DEF Shutdown, IInv, TypeOK
      <3> QED
        BY <2>4, <3>1 DEF Shutdown, local, IInv, TypeOK
    <2>5. CASE Restart(w)
      BY <2>5 DEF Restart, IInv, TypeOK, Executing
    <2> QED
      BY <2>1, <2>2, <2>3, <2>4, <2>5
  <1>3. TypeOK'
    BY <1>1, <1>2 DEF IInv, TypeOK
  <1>4. RowShape' /\ LeaseHonoured'
    BY <1>1 DEF IInv, RowShape, LeaseHonoured
  <1>5. TaskInv'
    BY <1>1, <1>2 DEF IInv, TypeOK, TaskInv
  <1> QED
    BY <1>3, <1>4, <1>5 DEF IInv

(* The invariant is inductive. *)
LEMMA NextIInv == IInv /\ [Next]_vars => IInv'
  <1> SUFFICES ASSUME IInv, [Next]_vars PROVE IInv'
    OBVIOUS
  <1>1. ASSUME NEW j \in Jobs, CreateJob(j) PROVE IInv'
    BY <1>1, CreateJobIInv
  <1>2. ASSUME NEW j \in Jobs, CliCancel(j) PROVE IInv'
    BY <1>2, CliWriteIInv DEF CliCancel, Terminal, IInv, TypeOK
  <1>3. ASSUME NEW j \in Jobs, CliRetryRead(j) PROVE IInv'
    BY <1>3 DEF CliRetryRead, table, local, process, history,
                IInv, TypeOK, RowShape, TaskInv, LeaseHonoured
  <1>4. ASSUME CliRetryWrite PROVE IInv'
    <2>1. cli \in Jobs
      BY <1>4 DEF CliRetryWrite, IInv, TypeOK
    <2> QED
      BY <1>4, <2>1, CliWriteIInv DEF CliRetryWrite
  <1>5. ASSUME Tick PROVE IInv'
    BY <1>5, TickIInv
  <1>6. ASSUME NEW w \in Workers, Reconcile(w) PROVE IInv'
    <2>1. CASE ReconcileSucceeds(w)
      BY <2>1, ReconcileWritesIInv DEF ReconcileSucceeds, Terminal
    <2>2. CASE ReconcileFails(w)
      BY <2>2, ReconcileWritesIInv DEF ReconcileFails, Terminal
    <2> QED
      BY <1>6, <2>1, <2>2, ReconcileRetriesIInv, QuietIInv DEF Reconcile
  <1>7. ASSUME NEW w \in Workers, Settle(w) PROVE IInv'
    <2>1. CASE SettleCanceled(w)
      BY <2>1, SettleWritesIInv DEF SettleCanceled
    <2>2. CASE SettleSucceeded(w)
      BY <2>2, SettleWritesIInv DEF SettleSucceeded, Terminal
    <2>3. CASE SettleFailed(w)
      BY <2>3, SettleWritesIInv DEF SettleFailed, Terminal
    <2> QED
      BY <1>7, <2>1, <2>2, <2>3, LetsGoIInv DEF Settle
  <1>8. ASSUME NEW w \in Workers, WorkerStep(w) PROVE IInv'
    BY <1>6, <1>7, <1>8, StartClaimIInv, ClaimJobIInv, RenewLeaseIInv, LetsGoIInv,
       QuietIInv DEF WorkerStep
  <1>9. CASE UNCHANGED vars
    BY <1>9 DEF vars, IInv, TypeOK, RowShape, TaskInv, LeaseHonoured
  <1> QED
    BY <1>1, <1>2, <1>3, <1>4, <1>5, <1>8, <1>9 DEF Next

(* The inductive invariant holds in every reachable state. *)
THEOREM Invariance == Spec => []IInv
  BY InitIInv, NextIInv, PTL DEF Spec

-----------------------------------------------------------------------------
(* Every reachable state is well typed: the table, the workers and the history. *)
THEOREM TypeCorrect == Spec => []TypeOK
  <1>1. IInv => TypeOK
    BY DEF IInv
  <1> QED
    BY <1>1, Invariance, PTL

(* No interleaving of claims, sweeps, renewals, retries, status updates, crashes *)
(* and operator commands leaves a row with a lease or a delay it should not have.*)
THEOREM RowsStayShaped == Spec => []RowShape
  <1>1. IInv => RowShape
    BY DEF IInv
  <1> QED
    BY <1>1, Invariance, PTL

(* A lease is honoured by every fenced statement, for any number of workers. *)
THEOREM LeasesAreHonoured == Spec => []LeaseHonoured
  <1>1. IInv => LeaseHonoured
    BY DEF IInv
  <1> QED
    BY <1>1, Invariance, PTL

(* Two workers run one job under unexpired leases only after an unfenced update. *)
THEOREM ExecutionIsExclusive == Spec => []ExclusiveExecution
  <1>1. IInv => ExclusiveExecution
    BY DEF IInv, LeaseHonoured, ExclusiveExecution, Fenced
  <1> QED
    BY <1>1, Invariance, PTL

(* A settled success is never run again by the queue itself. *)
THEOREM SuccessIsFinal == Spec => SucceededIsFinal
  <1>1. ASSUME IInv, [Next]_vars, NEW j \in Jobs, jobs[j].status = "succeeded", cli # j,
               \A w \in Workers : task[w] # j
        PROVE  jobs'[j].status \in {"succeeded", "cancelled"}
    <2>0. jobs \in [Jobs -> Row]
      BY <1>1 DEF IInv, TypeOK
    <2>1. ASSUME NEW i \in Jobs, CreateJob(i) \/ CliCancel(i) \/ CliRetryRead(i)
          PROVE  jobs'[j].status \in {"succeeded", "cancelled"}
      <3>1. CASE CreateJob(i)
        BY <1>1, <2>0, <3>1 DEF CreateJob
      <3>2. CASE CliCancel(i)
        <4>1. WithStatus(jobs[i], "cancelled").status = "cancelled"
          BY <2>0 DEF WithStatus, Terminal, Row
        <4> QED
          BY <1>1, <2>0, <3>2, <4>1 DEF CliCancel
      <3>3. CASE CliRetryRead(i)
        BY <1>1, <3>3 DEF CliRetryRead, table
      <3> QED
        BY <2>1, <3>1, <3>2, <3>3
    <2>2. CASE CliRetryWrite
      BY <1>1, <2>0, <2>2 DEF CliRetryWrite
    <2>5. CASE Tick
      <3>1. Aged(jobs[j]).status = jobs[j].status
        BY <2>0 DEF Aged, Row
      <3> QED
        BY <1>1, <2>5, <3>1 DEF Tick
    <2>3. ASSUME NEW w \in Workers, WorkerStep(w)
          PROVE  jobs'[j].status \in {"succeeded", "cancelled"}
      <3>1. CASE StartClaim(w)
        BY <1>1, <2>0, <3>1 DEF StartClaim, Swept
      <3>2. ASSUME NEW i \in Jobs, ClaimJob(w, i)
            PROVE  jobs'[j] = jobs[j]
        BY <1>1, <2>0, <3>2 DEF ClaimJob, Claimable
      <3>3. CASE Reconcile(w) \/ Settle(w) \/ RenewLease(w)
        <4>1. task[w] # j
          BY <1>1
        <4> QED
          BY <1>1, <2>0, <3>3, <4>1
             DEF Reconcile, ReconcileSucceeds, ReconcileFails, ReconcileRetries,
                 ReconcileErrors, Settle, SettleCanceled, SettleSucceeded, SettleFailed,
                 SettleDropped, StatusWrite, RenewLease, table
      <3>4. CASE \/ ClaimNothing(w) \/ RenewFails(w) \/ Shutdown(w)
                 \/ Exit(w) \/ Crash(w) \/ Restart(w)
        BY <1>1, <3>4 DEF ClaimNothing, RenewFails, Shutdown, Exit, Crash, GoesDown,
                          Restart, table
      <3> QED
        BY <1>1, <2>3, <3>1, <3>2, <3>3, <3>4 DEF WorkerStep
    <2>4. CASE UNCHANGED vars
      BY <1>1, <2>4 DEF vars
    <2> QED
      BY <1>1, <2>1, <2>2, <2>3, <2>4, <2>5 DEF Next
  <1>2. IInv /\ [Next]_vars =>
          [\A j \in Jobs :
             /\ jobs[j].status = "succeeded" /\ cli # j
             /\ \A w \in Workers : task[w] # j
             => jobs'[j].status \in {"succeeded", "cancelled"}]_vars
    BY <1>1
  <1> QED
    BY <1>2, Invariance, PTL DEF Spec, SucceededIsFinal

-----------------------------------------------------------------------------
(* JobWorker implements JobQueue.                                              *)
(*                                                                             *)
(* What the rows of the table say to JobQueue: which jobs are known and how    *)
(* often each was started.                                                     *)
Known == {j \in Jobs : jobs[j].status # "absent"}
Starts == [j \in Jobs |-> jobs[j].attempts]

(* A worker outside executeJob has no job, and what a worker executes or a "job *)
(* retry" has read is a row of the table; a job without a row was never started. *)
QueueInv ==
    /\ \A w \in Workers : pc[w] \notin Executing => task[w] = NoJob
    /\ \A w \in Workers : task[w] # NoJob => jobs[task[w]].status # "absent"
    /\ cli # NoJob => jobs[cli].status # "absent"
    /\ \A j \in Jobs : jobs[j].status = "absent" => jobs[j].attempts = 0

(* A step that adds and removes no row and starts no job. *)
SameJobs ==
    \A j \in Jobs : /\ jobs'[j].attempts = jobs[j].attempts
                    /\ jobs'[j].status = "absent" <=> jobs[j].status = "absent"

(* No statement but Claim's second one changes attempts, and no statement turns *)
(* a row into none: attempts are never handed back.                             *)
LEMMA RowsAreKept ==
  ASSUME NEW r \in Row, NEW s \in Terminal \cup {"queued"}
  PROVE  /\ Swept(r).attempts = r.attempts
         /\ Swept(r).status = "absent" <=> r.status = "absent"
         /\ Aged(r).attempts = r.attempts /\ Aged(r).status = r.status
         /\ Renewed(r).attempts = r.attempts /\ Renewed(r).status = r.status
         /\ Retried(r).attempts = r.attempts /\ Retried(r).status # "absent"
         /\ WithStatus(r, s).attempts = r.attempts /\ WithStatus(r, s).status # "absent"
  <1>1. /\ Swept(r).attempts = r.attempts
        /\ Swept(r).status = "absent" <=> r.status = "absent"
    BY DEF Swept, Row
  <1>2. /\ Aged(r).attempts = r.attempts /\ Aged(r).status = r.status
        /\ Renewed(r).attempts = r.attempts /\ Renewed(r).status = r.status
    BY DEF Aged, Renewed, Row
  <1>3. Retried(r).attempts = r.attempts /\ Retried(r).status # "absent"
    BY DEF Retried, Row
  <1>4. WithStatus(r, s).attempts = r.attempts /\ WithStatus(r, s).status # "absent"
    BY DEF WithStatus, Terminal, Row
  <1> QED
    BY <1>1, <1>2, <1>3, <1>4

(* A step without starts and new rows is a stutter of the table's part of JobQueue. *)
LEMMA SameJobsMap == SameJobs => Known' = Known /\ Starts' = Starts
  BY DEF SameJobs, Known, Starts

(* Such a step keeps QueueInv when it leaves the claim loops alone. *)
LEMMA SameJobsInv ==
  ASSUME IInv, QueueInv, SameJobs, cli' \in {cli, NoJob},
         \A w \in Workers : \/ task'[w] = task[w] /\ (pc[w] \in Executing <=> pc'[w] \in Executing)
                            \/ task'[w] = NoJob /\ pc'[w] \notin Executing
  PROVE  QueueInv'
  <1>0. task \in [Workers -> Jobs \cup {NoJob}] /\ cli \in Jobs \cup {NoJob}
    BY DEF IInv, TypeOK
  <1>1. \A w \in Workers : pc'[w] \notin Executing => task'[w] = NoJob
    BY DEF QueueInv
  <1>2. ASSUME NEW w \in Workers, task'[w] # NoJob PROVE jobs'[task'[w]].status # "absent"
    <2>1. task'[w] = task[w] /\ task[w] \in Jobs
      BY <1>0, <1>2
    <2> QED
      BY <1>2, <2>1 DEF QueueInv, SameJobs
  <1>3. cli' # NoJob => jobs'[cli'].status # "absent"
    BY <1>0 DEF QueueInv, SameJobs
  <1>4. \A j \in Jobs : jobs'[j].status = "absent" => jobs'[j].attempts = 0
    BY DEF QueueInv, SameJobs
  <1> QED
    BY <1>1, <1>2, <1>3, <1>4 DEF QueueInv

(* UpdateJobStatus on a job of the table adds no row and starts nothing. *)
LEMMA StatusWriteSame ==
  ASSUME IInv, NEW j \in Jobs, jobs[j].status # "absent", NEW s \in Terminal \cup {"queued"},
         jobs' = [jobs EXCEPT ![j] = WithStatus(@, s)]
  PROVE  SameJobs
  <1>1. jobs \in [Jobs -> Row]
    BY DEF IInv, TypeOK
  <1>2. WithStatus(jobs[j], s).attempts = jobs[j].attempts /\ WithStatus(jobs[j], s).status # "absent"
    BY <1>1, RowsAreKept
  <1> QED
    BY <1>1, <1>2 DEF SameJobs

(* The statements a worker makes between Claim and the end of executeJob, and   *)
(* the steps of its process, either leave its job alone or end its execution.   *)
LEMMA WorkerQueueStep ==
  ASSUME IInv, QueueInv, NEW w \in Workers,
         WorkerStep(w), ~\E j \in Jobs : ClaimJob(w, j)
  PROVE  /\ SameJobs /\ cli' = cli
         /\ \/ task' = task /\ \A v \in Workers : pc[v] \in Executing <=> pc'[v] \in Executing
            \/ /\ task' = [task EXCEPT ![w] = NoJob]
               /\ \A v \in Workers : v # w => pc'[v] = pc[v]
               /\ pc'[w] \notin Executing
  <1> DEFINE G == /\ SameJobs /\ cli' = cli
                  /\ \/ task' = task /\ \A v \in Workers : pc[v] \in Executing <=> pc'[v] \in Executing
                     \/ /\ task' = [task EXCEPT ![w] = NoJob]
                        /\ \A v \in Workers : v # w => pc'[v] = pc[v]
                        /\ pc'[w] \notin Executing
  <1>0. /\ jobs \in [Jobs -> Row] /\ task \in [Workers -> Jobs \cup {NoJob}]
        /\ pc \in [Workers -> {"down", "idle", "claiming"} \cup Executing]
    BY DEF IInv, TypeOK
  <1>t. pc[w] \in Executing => task[w] \in Jobs /\ jobs[task[w]].status # "absent"
    BY DEF IInv, TaskInv, QueueInv
  <1>u. jobs' = jobs => SameJobs
    BY DEF SameJobs
  <1>1. CASE StartClaim(w)
    <2>1. SameJobs
      BY <1>0, <1>1, RowsAreKept DEF StartClaim, SameJobs
    <2> QED
      BY <1>0, <1>1, <2>1 DEF StartClaim, Executing
  <1>2. CASE ClaimNothing(w) \/ RenewFails(w) \/ Shutdown(w) \/ Restart(w)
    BY <1>0, <1>2, <1>u DEF ClaimNothing, RenewFails, Shutdown, Restart, table, local,
                            process, history, Executing
  <1>3. CASE RenewLease(w)
    <2>1. SameJobs
      BY <1>0, <1>3, <1>t, RowsAreKept DEF RenewLease, SameJobs
    <2> QED
      BY <1>3, <2>1 DEF RenewLease, local
  <1>4. CASE Reconcile(w)
    <2>r. ASSUME NEW r, Returns(w, r)
          PROVE  /\ task' = task /\ cli' = cli /\ pc[w] \in Executing
                 /\ \A v \in Workers : pc[v] \in Executing <=> pc'[v] \in Executing
      BY <1>0, <2>r DEF Returns, Executing
    <2>1. CASE ReconcileSucceeds(w)
      BY <1>t, <2>r, <2>1, StatusWriteSame DEF ReconcileSucceeds, StatusWrite, Terminal
    <2>2. CASE ReconcileFails(w)
      BY <1>t, <2>r, <2>2, StatusWriteSame DEF ReconcileFails, StatusWrite, Terminal
    <2>3. CASE ReconcileRetries(w)
      <3>1. SameJobs
        BY <1>0, <1>t, <1>u, <2>r, <2>3, RowsAreKept DEF ReconcileRetries, SameJobs
      <3> QED
        BY <2>r, <2>3, <3>1 DEF ReconcileRetries
    <2>4. CASE ReconcileErrors(w)
      BY <1>u, <2>r, <2>4 DEF ReconcileErrors, table
    <2> QED
      BY <1>4, <2>1, <2>2, <2>3, <2>4 DEF Reconcile
  <1>5. CASE Settle(w)
    <2>e. EndsTask(w) => /\ task' = [task EXCEPT ![w] = NoJob] /\ cli' = cli /\ pc[w] \in Executing
                         /\ \A v \in Workers : v # w => pc'[v] = pc[v]
                         /\ pc'[w] \notin Executing
      BY <1>0 DEF EndsTask, Executing
    <2>1. CASE SettleCanceled(w)
      BY <1>t, <2>e, <2>1, StatusWriteSame DEF SettleCanceled, StatusWrite
    <2>2. CASE SettleSucceeded(w)
      BY <1>t, <2>e, <2>2, StatusWriteSame DEF SettleSucceeded, StatusWrite, Terminal
    <2>3. CASE SettleFailed(w)
      BY <1>t, <2>e, <2>3, StatusWriteSame DEF SettleFailed, StatusWrite, Terminal
    <2>4. CASE SettleDropped(w)
      BY <1>u, <2>e, <2>4 DEF SettleDropped, table
    <2> QED
      BY <1>5, <2>1, <2>2, <2>3, <2>4 DEF Settle
  <1>6. CASE Exit(w) \/ Crash(w)
    BY <1>0, <1>6, <1>u DEF Exit, Crash, GoesDown, table, Executing
  <1> QED
    BY <1>1, <1>2, <1>3, <1>4, <1>5, <1>6 DEF WorkerStep

(* Every step of the system keeps QueueInv and is a step of JobQueue or leaves  *)
(* its variables alone.                                                         *)
LEMMA QueueStep ==
  ASSUME IInv, IInv', QueueInv, [Next]_vars
  PROVE  QueueInv' /\ [Queue!Next]_(Queue!vars)
  <1> DEFINE Stutters == Known' = Known /\ Starts' = Starts /\ task' = task
  <1>s. Stutters => [Queue!Next]_(Queue!vars)
    BY DEF Queue!vars, Known, Starts
  <1>0. /\ jobs \in [Jobs -> Row] /\ task \in [Workers -> Jobs \cup {NoJob}]
        /\ pc \in [Workers -> {"down", "idle", "claiming"} \cup Executing]
        /\ cli \in Jobs \cup {NoJob}
    BY DEF IInv, TypeOK
  <1> HIDE DEF Stutters
  <1>1. ASSUME NEW j \in Jobs, CreateJob(j) PROVE QueueInv' /\ [Queue!Next]_(Queue!vars)
    <2>1. jobs' = [jobs EXCEPT ![j] = NewRow] /\ UNCHANGED <<task, pc, cli>> /\ jobs[j].status = "absent"
      BY <1>1 DEF CreateJob, local
    <2>2. NewRow.status = "queued" /\ NewRow.attempts = 0
      BY DEF NewRow, NoRow
    <2>3. QueueInv'
      <3>1. \A i \in Jobs : jobs[i].status # "absent" => jobs'[i].status # "absent"
        BY <1>0, <2>1, <2>2
      <3>2. \A i \in Jobs : jobs'[i].status = "absent" => jobs'[i].attempts = 0
        BY <1>0, <2>1, <2>2 DEF QueueInv
      <3> QED
        BY <1>0, <2>1, <3>1, <3>2 DEF QueueInv
    <2>4. /\ j \notin Known /\ Known' = Known \cup {j}
      BY <1>0, <2>1, <2>2 DEF Known
    <2>5. Starts' = Starts
      <3>1. jobs[j].attempts = 0
        BY <2>1 DEF QueueInv
      <3> QED
        BY <1>0, <2>1, <2>2, <3>1 DEF Starts
    <2>6. Queue!Accept(j)
      BY <2>1, <2>4, <2>5 DEF Queue!Accept, Known, Starts
    <2> QED
      BY <2>3, <2>6 DEF Queue!Next
  <1>2. ASSUME NEW w \in Workers, NEW j \in Jobs, ClaimJob(w, j)
        PROVE  QueueInv' /\ [Queue!Next]_(Queue!vars)
    <2>1. /\ jobs' = [jobs EXCEPT ![j] = Claimed(jobs[j], w)]
          /\ task' = [task EXCEPT ![w] = j] /\ pc' = [pc EXCEPT ![w] = "exec"] /\ cli' = cli
          /\ pc[w] \notin Executing
      BY <1>2 DEF ClaimJob, Executing
    <2>2. /\ jobs[j].status # "absent" /\ jobs[j].attempts < MaxAttempts
          /\ Claimed(jobs[j], w).status # "absent"
          /\ Claimed(jobs[j], w).attempts = jobs[j].attempts + 1
      BY <1>2 DEF ClaimJob, Claimable, Claimed
    <2>3. QueueInv'
      <3>1. \A i \in Jobs : jobs'[i].status = "absent" <=> jobs[i].status = "absent"
        BY <1>0, <2>1, <2>2
      <3>2. pc'[w] \in Executing /\ task'[w] = j
        BY <1>0, <2>1 DEF Executing
      <3>3. \A v \in Workers : v # w => pc'[v] = pc[v] /\ task'[v] = task[v]
        BY <1>0, <2>1
      <3>4. \A i \in Jobs : jobs'[i].status = "absent" => jobs'[i].attempts = 0
        BY <1>0, <2>1, <2>2 DEF QueueInv
      <3> QED
        BY <1>0, <2>1, <2>2, <3>1, <3>2, <3>3, <3>4, NoJobAssumption DEF QueueInv
    <2>4. j \in Known /\ Known' = Known
      BY <1>0, <2>1, <2>2 DEF Known
    <2>5. task[w] = NoJob
      BY <2>1 DEF QueueInv
    <2>6. Starts' = [Starts EXCEPT ![j] = @ + 1] /\ Starts[j] < MaxAttempts
      BY <1>0, <2>1, <2>2 DEF Starts
    <2>7. Queue!Start(w, j)
      BY <2>1, <2>4, <2>5, <2>6 DEF Queue!Start, Known, Starts
    <2> QED
      BY <2>3, <2>7 DEF Queue!Next
  <1>3. ASSUME NEW w \in Workers, WorkerStep(w), ~\E j \in Jobs : ClaimJob(w, j)
        PROVE  QueueInv' /\ [Queue!Next]_(Queue!vars)
    <2>1. /\ SameJobs /\ cli' = cli
          /\ \/ task' = task /\ \A v \in Workers : pc[v] \in Executing <=> pc'[v] \in Executing
             \/ /\ task' = [task EXCEPT ![w] = NoJob]
                /\ \A v \in Workers : v # w => pc'[v] = pc[v]
                /\ pc'[w] \notin Executing
      BY <1>3, WorkerQueueStep
    <2>2. Known' = Known /\ Starts' = Starts
      BY <2>1, SameJobsMap
    <2>3. CASE task' = task /\ \A v \in Workers : pc[v] \in Executing <=> pc'[v] \in Executing
      <3>1. Stutters
        BY <2>2, <2>3 DEF Stutters
      <3> QED
        BY <1>s, <2>1, <2>3, <3>1, SameJobsInv
    <2>4. CASE /\ task' = [task EXCEPT ![w] = NoJob]
               /\ \A v \in Workers : v # w => pc'[v] = pc[v]
               /\ pc'[w] \notin Executing
      <3>1. \A v \in Workers : \/ task'[v] = task[v] /\ (pc[v] \in Executing <=> pc'[v] \in Executing)
                               \/ task'[v] = NoJob /\ pc'[v] \notin Executing
        BY <1>0, <2>4
      <3>2. QueueInv'
        BY <2>1, <3>1, SameJobsInv
      <3>3. CASE task[w] = NoJob
        <4>1. task' = task
          BY <1>0, <2>4, <3>3
        <4>2. Stutters
          BY <2>2, <4>1 DEF Stutters
        <4> QED
          BY <1>s, <3>2, <4>2
      <3>4. CASE task[w] # NoJob
        <4>1. Queue!Stop(w)
          BY <2>2, <2>4, <3>4 DEF Queue!Stop, Known, Starts
        <4> QED
          BY <3>2, <4>1 DEF Queue!Next
      <3> QED
        BY <3>3, <3>4
    <2> QED
      BY <2>1, <2>3, <2>4
  <1>4. ASSUME SameJobs, UNCHANGED <<task, pc>>, cli' \in {cli, NoJob}
        PROVE  QueueInv' /\ [Queue!Next]_(Queue!vars)
    <2>1. Stutters
      BY <1>4, SameJobsMap DEF Stutters
    <2> QED
      BY <1>s, <1>4, <2>1, SameJobsInv
  <1>5. ASSUME NEW j \in Jobs, CliCancel(j) PROVE QueueInv' /\ [Queue!Next]_(Queue!vars)
    <2>1. SameJobs
      BY <1>5, StatusWriteSame DEF CliCancel, Terminal
    <2> QED
      BY <1>4, <1>5, <2>1 DEF CliCancel, local
  <1>6. ASSUME NEW j \in Jobs, CliRetryRead(j) PROVE QueueInv' /\ [Queue!Next]_(Queue!vars)
    <2>1. jobs' = jobs /\ task' = task /\ pc' = pc /\ cli' = j /\ jobs[j].status # "absent"
      BY <1>6 DEF CliRetryRead, table, local
    <2>2. Stutters
      BY <2>1 DEF Stutters, Known, Starts
    <2> QED
      BY <1>s, <2>1, <2>2 DEF QueueInv
  <1>7. CASE CliRetryWrite
    <2>1. SameJobs
      BY <1>0, <1>7, StatusWriteSame DEF CliRetryWrite, QueueInv
    <2> QED
      BY <1>4, <1>7, <2>1 DEF CliRetryWrite, local
  <1>8. CASE Tick
    <2>1. SameJobs
      BY <1>0, <1>8, RowsAreKept DEF Tick, SameJobs
    <2> QED
      BY <1>4, <1>8, <2>1 DEF Tick, local
  <1>9. CASE UNCHANGED vars
    <2>1. SameJobs
      BY <1>9 DEF vars, SameJobs
    <2> QED
      BY <1>4, <1>9, <2>1 DEF vars
  <1> QED
    BY <1>1, <1>2, <1>3, <1>5, <1>6, <1>7, <1>8, <1>9 DEF Next

(* The table, the workers, the operator and the clock implement JobQueue: a job *)
(* is started at most max_attempts times and every execution under way was paid *)
(* for by an attempt, for any number of workers and jobs.                       *)
THEOREM QueueIsImplemented == Spec => ImplementsJobQueue
  <1>1. Init => QueueInv /\ Queue!Init
    <2> SUFFICES ASSUME Init PROVE QueueInv /\ Queue!Init
      OBVIOUS
    <2>1. QueueInv
      BY DEF Init, QueueInv, NoRow
    <2>2. Queue!Init
      BY DEF Init, Queue!Init, NoRow
    <2> QED
      BY <2>1, <2>2
  <1>2. IInv /\ IInv' /\ QueueInv /\ [Next]_vars => QueueInv' /\ [Queue!Next]_(Queue!vars)
    BY QueueStep
  <1> QED
    BY <1>1, <1>2, Invariance, PTL DEF Spec, ImplementsJobQueue, Queue!Spec
=============================================================================
