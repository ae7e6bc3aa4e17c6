------------------------------- MODULE Publication -------------------------------
(***************************************************************************)
(* Issuing and publishing the certificate of one domain: executeClaimedV2- *)
(* Job of internal/service/v2.go, the certificate_generations rows it      *)
(* writes (internal/store/workflows.go) and the repository of CertStore.   *)
(*                                                                         *)
(* The server's runs for a domain are serialized (v2DomainLock, one claim  *)
(* loop).  A run is one claimed job; what it leaves in certificate_jobs is *)
(* the subject of JobWorker.  The server may die between any two steps.    *)
(* SIGTERM cancels the context that the rows are read and written with, so *)
(* every statement that uses it may also fail (Faults); statements with    *)
(* context.Background() are taken to succeed.                              *)
(***************************************************************************)
EXTENDS CertStore, Sequences

CONSTANTS Faults,  \* a read or a statement of a run may fail
          MaxRows  \* bound: rows of certificate_generations

ASSUME FaultsAssumption == Faults \in BOOLEAN
ASSUME MaxRowsAssumption == MaxRows \in Nat

VARIABLES
    rows,     \* certificate_generations of the domain, in order of generation
    run,      \* where the run is
    force,    \* the operation ends in ":force"
    at,       \* the row the run works on
    target,   \* the generation the run is recording
    due,      \* generations whose certificate is to be renewed (ShouldRenew)
    verdict   \* how the last run ended

dbVars == <<rows, run, force, at, target, due, verdict>>
pVars  == <<csVars, dbVars>>

GenerationRow ==
    [status   : {"pending", "publishing", "issued", "failed"},
     ref      : Generations \cup {None},
     revision : Nat,
     current  : BOOLEAN,
     own      : Generations \cup {None}]  \* history: the release of its own run

TypeOK ==
    /\ CsTypeOK
    /\ rows \in Seq(GenerationRow) /\ Len(rows) <= MaxRows
    /\ run \in {"idle", "check", "recover", "finalise", "create", "issue",
                "intend", "publish", "publishing", "record", "artifact"}
    /\ force \in BOOLEAN
    /\ at \in 0..Len(rows)
    /\ run \in {"finalise", "issue", "intend", "publish", "publishing", "record",
               "artifact"} => at # 0
    /\ target \in Generations \cup {None}
    /\ due \subseteq Generations
    /\ verdict \in {"none", "succeeded", "failed"}

Init ==
    /\ CsInit
    /\ rows = <<>>
    /\ run = "idle" /\ force = FALSE /\ at = 0 /\ target = None
    /\ due = {}
    /\ verdict = "none"

-----------------------------------------------------------------------------
(* The statements on certificate_generations. *)

Rows == DOMAIN rows

(* Mutant: the other rows keep the current flag. *)
WithGenerationStatusOnly(i, s, g) ==
    [rows EXCEPT ![i].status = s, ![i].ref = g,
                 ![i].current = (s = "issued" /\ g # None)]

(* UpdateCertificateGenerationStatus: the row is current exactly when it is   *)
(* issued with a reference, and then no other row of the domain is.           *)
WithGenerationStatus(i, s, g) ==
    [k \in Rows |->
        IF k = i
        THEN [rows[k] EXCEPT !.status = s, !.ref = g,
                             !.current = (s = "issued" /\ g # None)]
        ELSE IF s = "issued" /\ g # None THEN [rows[k] EXCEPT !.current = FALSE]
        ELSE rows[k]]

(* UpdateCertificateGenerationArtifact with Current: the unique index on      *)
(* (domain, revision) refuses a revision that another row has.                *)
RevisionTaken(i, r) == \E k \in Rows \ {i} : rows[k].revision = r

(* Mutant: the update is sent without Current. *)
WithArtifactOnly(i, r) ==
    [rows EXCEPT ![i].revision = r, ![i].current = FALSE]

WithArtifact(i, r) ==
    [k \in Rows |->
        IF k = i THEN [rows[k] EXCEPT !.revision = r, !.current = TRUE]
                 ELSE [rows[k] EXCEPT !.current = FALSE]]

Publishing == {i \in Rows : rows[i].status = "publishing"}

-----------------------------------------------------------------------------
Goto(p) == run' = p

(* The run returns to the worker. *)
Ends(v) ==
    /\ run' = "idle" /\ verdict' = v
    /\ at' = 0 /\ target' = None /\ force' = FALSE

Keeps == UNCHANGED <<force, at, target, due, verdict>>

(* finishV2GenerationFailure: the row fails and loses its reference. *)
FailsRow == rows' = WithGenerationStatus(at, "failed", None) /\ Ends("failed")

Begin(f) ==
    /\ run = "idle"
    /\ Goto("check")
    /\ force' = f
    /\ UNCHANGED <<csVars, rows, at, target, due, verdict>>

(* Configuration or current release unreadable: no row is touched. *)
CheckFails ==
    /\ run = "check" /\ (CurrentBroken \/ Faults)
    /\ Ends("failed")
    /\ UNCHANGED <<csVars, rows, due>>

(* Mutant: no release at all is taken for one that is not due. *)
CheckFreshUnread ==
    /\ run = "check" /\ ~force /\ current \notin due
    /\ Ends("succeeded")
    /\ UNCHANGED <<csVars, rows, due>>

(* The certificate is not due: nothing to issue. *)
CheckFresh ==
    /\ run = "check" /\ ~force /\ CurrentOk /\ current \notin due
    /\ Ends("succeeded")
    /\ UNCHANGED <<csVars, rows, due>>

CheckDue ==
    /\ run = "check" /\ ~CurrentBroken
    /\ force \/ ~CurrentOk \/ current \in due
    /\ Goto("recover")
    /\ UNCHANGED <<csVars, rows>> /\ Keeps

-----------------------------------------------------------------------------
(* recoverPublishingGeneration: newest row first. *)

(* Mutant: a left-over row is not looked for. *)
RecoverNever ==
    /\ run = "recover"
    /\ Goto("create")
    /\ UNCHANGED <<csVars, rows>> /\ Keeps

RecoverNothing ==
    /\ run = "recover" /\ Publishing = {}
    /\ Goto("create")
    /\ UNCHANGED <<csVars, rows>> /\ Keeps

(* Mutant: the newest row whatever its status. *)
NewestOfAny(i) == i = Len(rows)

Newest(i) == i \in Publishing /\ \A k \in Publishing : k <= i

RecoverDrops(i) ==
    /\ run = "recover" /\ Newest(i) /\ ~CurrentOk
    /\ rows' = WithGenerationStatus(i, "failed", None)
    /\ UNCHANGED <<csVars, run>> /\ Keeps

(* Whatever release is current is taken for that of the row. *)
RecoverIssues(i) ==
    /\ run = "recover" /\ Newest(i) /\ CurrentOk
    /\ rows' = WithGenerationStatus(i, "issued", current)
    /\ Goto("finalise")
    /\ at' = i /\ target' = current
    /\ UNCHANGED <<csVars, force, due, verdict>>

RecoverFinalises ==
    /\ run = "finalise" /\ ~RevisionTaken(at, rev[target])
    /\ rows' = WithArtifact(at, rev[target])
    /\ Ends("succeeded")
    /\ UNCHANGED <<csVars, due>>

(* Another row has the revision, or a statement fails: the row keeps what it has. *)
RecoverFails ==
    /\ \/ run = "finalise" /\ RevisionTaken(at, rev[target])
       \/ run \in {"recover", "finalise"} /\ Faults
    /\ Ends("failed")
    /\ UNCHANGED <<csVars, rows, due>>

-----------------------------------------------------------------------------
(* Mutant: the run goes on with the row before the new one. *)
CreateRowMissed ==
    /\ run = "create" /\ Len(rows) < MaxRows
    /\ rows' = Append(rows, [status |-> "pending", ref |-> None,
                             revision |-> Len(rows) + 1, current |-> FALSE,
                             own |-> None])
    /\ at' = Len(rows)
    /\ Goto("issue")
    /\ UNCHANGED <<csVars, force, target, due, verdict>>

(* CreateCertificateGeneration: generation and revision are MAX(generation)+1; *)
(* the unique index on the revision may refuse the row.                        *)
CreateRow ==
    /\ run = "create" /\ Len(rows) < MaxRows
    /\ ~RevisionTaken(0, Len(rows) + 1)
    /\ rows' = Append(rows, [status |-> "pending", ref |-> None,
                             revision |-> Len(rows) + 1, current |-> FALSE,
                             own |-> None])
    /\ at' = Len(rows) + 1
    /\ Goto("issue")
    /\ UNCHANGED <<csVars, force, target, due, verdict>>

CreateFails ==
    /\ run = "create"
    /\ Faults \/ RevisionTaken(0, Len(rows) + 1) \/ Len(rows) = MaxRows
    /\ Ends("failed")
    /\ UNCHANGED <<csVars, rows, due>>

(* DNS credentials, staging directory and Issue: nothing stored changes. *)
IssueDone ==
    /\ run = "issue"
    /\ Goto("intend")
    /\ UNCHANGED <<csVars, rows>> /\ Keeps

RecordIntent ==
    /\ run = "intend"
    /\ rows' = WithGenerationStatus(at, "publishing", None)
    /\ Goto("publish")
    /\ UNCHANGED csVars /\ Keeps

Publishes ==
    /\ run = "publish"
    /\ \/ PublishStart /\ rows' = [rows EXCEPT ![at].own = made']
       \/ PublishRefused /\ UNCHANGED rows
    /\ Goto("publishing") /\ Keeps

PublishContinues ==
    /\ run = "publishing" /\ pub # "idle"
    /\ PublishStep
    /\ UNCHANGED dbVars

(* publish returned; the manifest of the new generation is loaded. *)
PublishReturns ==
    /\ run = "publishing" /\ pub = "idle" /\ out = "ok"
    /\ Goto("record")
    /\ target' = made
    /\ UNCHANGED <<csVars, rows, force, at, due, verdict>>

RecordIssued ==
    /\ run = "record"
    /\ rows' = WithGenerationStatus(at, "issued", target)
    /\ Goto("artifact")
    /\ UNCHANGED csVars /\ Keeps

RecordArtifact ==
    /\ run = "artifact" /\ ~RevisionTaken(at, rev[target])
    /\ rows' = WithArtifact(at, rev[target])
    /\ Ends("succeeded")
    /\ UNCHANGED <<csVars, due>>

(* Credentials, staging directory or Issue failed: finishV2GenerationFailure. *)
IssueFails == run = "issue" /\ FailsRow /\ UNCHANGED <<csVars, due>>

PublishFails ==
    /\ run = "publishing" /\ pub = "idle" /\ out = "error"
    /\ FailsRow
    /\ UNCHANGED <<csVars, due>>

(* The revision of the new release is that of an earlier row. *)
ArtifactRefused ==
    /\ run = "artifact" /\ RevisionTaken(at, rev[target])
    /\ FailsRow
    /\ UNCHANGED <<csVars, due>>

(* A cancelled statement, or the manifest of the new release cannot be loaded. *)
StatementFails ==
    /\ Faults
    /\ \/ run \in {"intend", "record", "artifact"}
       \/ run = "publishing" /\ pub = "idle" /\ out = "ok"
    /\ FailsRow
    /\ UNCHANGED <<csVars, due>>

-----------------------------------------------------------------------------
(* The server dies and comes back; rows and files stay. *)
Crash ==
    /\ ServerCrash
    /\ run' = "idle" /\ verdict' = "none"
    /\ at' = 0 /\ target' = None /\ force' = FALSE
    /\ UNCHANGED <<rows, due>>

(* Time passes: the current certificate comes into its renewal window. *)
Expire ==
    /\ CurrentOk /\ current \notin due
    /\ due' = due \cup {current}
    /\ UNCHANGED <<csVars, rows, run, force, at, target, verdict>>

(* The gc command. *)
Collect == GcStep /\ UNCHANGED dbVars

RunStep ==
    \/ CheckFails \/ CheckFresh \/ CheckDue
    \/ RecoverNothing \/ (\E i \in Rows : RecoverDrops(i) \/ RecoverIssues(i))
    \/ RecoverFinalises \/ RecoverFails
    \/ CreateRow \/ CreateFails \/ IssueDone \/ RecordIntent
    \/ Publishes \/ PublishContinues \/ PublishReturns
    \/ RecordIssued \/ RecordArtifact
    \/ IssueFails \/ PublishFails \/ ArtifactRefused \/ StatementFails

Next ==
    \/ \E f \in BOOLEAN : Begin(f)
    \/ RunStep \/ Crash \/ Expire \/ Collect

Spec == Init /\ [][Next]_pVars

-----------------------------------------------------------------------------
(* The table has at most one current row for the domain, and that row is issued *)
(* and names a release: no order of status updates, artifact updates, failures  *)
(* and recoveries leaves two, or a failed one.                                  *)
OneCurrentRow ==
    \A i, k \in Rows :
        rows[i].current =>
            /\ rows[i].status = "issued" /\ rows[i].ref # None
            /\ rows[k].current => i = k

(* A publication under way is never overtaken: whatever crashed or failed       *)
(* before, only the newest row can be "publishing", so recovery always deals    *)
(* with the last attempt and a new row is created only when there is none.      *)
OnlyNewestPublishing == \A i \in Publishing : i = Len(rows)

(* A job that succeeded - not due, recovered or issued - leaves a complete      *)
(* release to download, unless gc or a failed fsync took it (see CertStore).    *)
SucceededHasCertificate ==
    run = "idle" /\ verdict = "succeeded" /\ ~restored /\ ~overtaken => CurrentOk

(* The record of a finished attempt is never rewritten: a settled row other     *)
(* than the one the run works on only ever loses the current flag.              *)
SettledRowsAreKept ==
    [][\A i \in Rows :
        rows[i].status \in {"issued", "failed"} /\ i # at =>
            /\ i \in DOMAIN rows'
            /\ rows'[i] \in {rows[i], [rows[i] EXCEPT !.current = FALSE]}]_pVars

(* When a job succeeded - also one that only found the certificate fresh after  *)
(* crashes and failures - the table agrees with the repository: the current row *)
(* names the current release.  Two traces may remain instead: a row that still  *)
(* waits for recoverPublishingGeneration, and an attempt that published and     *)
(* then failed, for instance because its revision was taken.                    *)
CurrentIsRecorded ==
    run = "idle" /\ verdict = "succeeded" /\ ~restored /\ ~overtaken =>
        \/ Publishing # {}
        \/ \E i \in Rows : rows[i].status = "failed" /\ rows[i].own = current
        \/ \E i \in Rows : rows[i].current /\ rows[i].ref = current
=============================================================================
