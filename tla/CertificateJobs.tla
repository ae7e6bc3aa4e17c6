---------------------------- MODULE CertificateJobs ----------------------------
(***************************************************************************)
(* The rows of table certificate_jobs and what each statement of           *)
(* internal/store/workflows.go does to one of them.                        *)
(*                                                                         *)
(* Times are kept relative to the clock: "lease" is lease_until - now and  *)
(* "next" is next_attempt_at - now, both cut off at 0.  NULL is 0 too: the *)
(* statements treat a NULL and a past time alike (lease_until IS NULL OR   *)
(* lease_until<=now; NULL>now is not true).  So the table has finitely     *)
(* many states although the clock never stops.                             *)
(***************************************************************************)
EXTENDS Naturals

CONSTANTS Workers,        \* server processes; each one's lease owner name
          NoOwner,        \* lease_owner IS NULL
          MaxAttempts,    \* max_attempts of every job (defaultMaxAttempts)
          LeaseDuration,  \* lease granted by a claim or a renewal, in ticks
          RetryBackoff    \* delay the service asks of Retry, in ticks

ASSUME MaxAttemptsAssumption == MaxAttempts \in Nat \ {0}
ASSUME LeaseAssumption == LeaseDuration \in Nat \ {0}
ASSUME BackoffAssumption == RetryBackoff \in Nat
ASSUME NoOwnerAssumption == NoOwner \notin Workers

-----------------------------------------------------------------------------
(* isTerminalJobStatus and validJobStatus; "absent" is a job without row. *)
Terminal == {"succeeded", "failed", "cancelled"}

JobStatus == {"queued", "running"} \cup Terminal

Row == [status   : JobStatus \cup {"absent"},
        attempts : 0..MaxAttempts,
        owner    : Workers \cup {NoOwner},
        lease    : 0..LeaseDuration,
        next     : 0..RetryBackoff]

NoRow == [status |-> "absent", attempts |-> 0, owner |-> NoOwner,
          lease |-> 0, next |-> 0]

(* INSERT of CreateCertificateJob. *)
NewRow == [NoRow EXCEPT !.status = "queued"]

(* Mutant: an expired run without attempts left is not swept. *)
SweptNever(r) == r

(* First statement of Claim: an expired run without attempts left fails. *)
Swept(r) ==
    IF r.status = "running" /\ r.attempts >= MaxAttempts /\ r.lease = 0
    THEN [r EXCEPT !.status = "failed", !.owner = NoOwner, !.lease = 0]
    ELSE r

(* Mutants: the attempt limit, the expiry of the lease or the status is not *)
(* looked at.                                                                *)
ClaimableUnlimited(r) ==
    (r.status = "queued" /\ r.next = 0) \/ (r.status = "running" /\ r.lease = 0)

ClaimableLeased(r) ==
    r.attempts < MaxAttempts /\ r.status \in {"queued", "running"} /\ r.next = 0

ClaimableAnyStatus(r) == r.attempts < MaxAttempts /\ r.next = 0 /\ r.lease = 0

(* Second statement of Claim: which rows it may take, and the row it leaves. *)
Claimable(r) ==
    /\ r.attempts < MaxAttempts
    /\ \/ r.status = "queued" /\ r.next = 0
       \/ r.status = "running" /\ r.lease = 0

(* Mutant: the attempt is not counted. *)
ClaimedUnpaid(r, w) ==
    [status |-> "running", attempts |-> r.attempts, owner |-> w,
     lease |-> LeaseDuration, next |-> 0]

Claimed(r, w) ==
    [status |-> "running", attempts |-> r.attempts + 1, owner |-> w,
     lease |-> LeaseDuration, next |-> 0]

(* Mutant: the owner is not compared. *)
FencedByTimeOnly(r, w) == r.status = "running" /\ r.lease > 0

(* The WHERE clause shared by RenewLease and Retry: only the owner, and only *)
(* while its lease has time left.                                            *)
Fenced(r, w) == r.status = "running" /\ r.owner = w /\ r.lease > 0

Renewed(r) == [r EXCEPT !.lease = LeaseDuration]

(* Retry: back to the queue with a delay, or failed when attempts ran out. *)
Retried(r) ==
    IF r.attempts >= MaxAttempts
    THEN [r EXCEPT !.status = "failed", !.owner = NoOwner, !.lease = 0, !.next = 0]
    ELSE [r EXCEPT !.status = "queued", !.owner = NoOwner, !.lease = 0,
                   !.next = RetryBackoff]

(* Mutant: a terminal status leaves the lease. *)
WithStatusOnly(r, s) == [r EXCEPT !.status = s]

(* UpdateCertificateJobStatus: WHERE id=? only.  A terminal status clears   *)
(* the lease and the next attempt, any other status keeps them.             *)
WithStatus(r, s) ==
    IF s \in Terminal
    THEN [r EXCEPT !.status = s, !.owner = NoOwner, !.lease = 0, !.next = 0]
    ELSE [r EXCEPT !.status = s]

(* One tick of the clock seen from a relative time and from a row. *)
Down(n) == IF n > 0 THEN n - 1 ELSE 0

Aged(r) == [r EXCEPT !.lease = Down(r.lease), !.next = Down(r.next)]

-----------------------------------------------------------------------------
(* A row that every reader of the table can interpret. *)
WellShaped(r) ==
    /\ r.status \in Terminal \cup {"absent"} =>
           r.owner = NoOwner /\ r.lease = 0 /\ r.next = 0
    /\ r.status = "running" => r.owner # NoOwner /\ r.next = 0 /\ r.attempts > 0
    /\ r.status = "queued" /\ r.next > 0 => r.lease = 0
=============================================================================
