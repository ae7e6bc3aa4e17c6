----------------------------- MODULE AcmeRunner -----------------------------
(***************************************************************************)
(* The driver of acme.sh (internal/acme), for one domain.  Every operation *)
(* runs inside withIsolatedConfig: a temporary directory for the DNS       *)
(* credentials the plugins save, a scan of the persistent directories for  *)
(* those credentials, the commands, a second scan that no deadline cuts    *)
(* short, and the removal of the directory.  The home of acme.sh holds one *)
(* version of the certificate; --install-cert copies its files one after   *)
(* the other, each as the home holds it at that moment.                    *)
(*                                                                         *)
(* A command runs in a process group of its own: when the program that     *)
(* started it is killed, the command goes on as an orphan, without the     *)
(* file lock its parent held.                                              *)
(***************************************************************************)
EXTENDS Naturals, FiniteSets

CONSTANTS Locked,    \* v1 applications: serialized by a file lock, they install
                     \* into CertsDir/<domain>, the live directory
          Free,      \* everything else: no lock, and no file in the live directory
          Process,   \* the sets of runners that one process executes
          MaxIssued, \* bound: certificates the authority issues
          MaxKills   \* bound: processes killed

Runner == Locked \cup Free

ASSUME RunnerAssumption ==
    /\ Locked \cap Free = {}
    /\ Process \subseteq SUBSET Runner
    /\ MaxIssued \in Nat /\ MaxKills \in Nat

VARIABLES held,    \* the version in the home of acme.sh; 0: none
          issued,  \* versions issued so far
          live,    \* version of each file of the live directory; 0: missing
          op,      \* the operation of each runner
          temp,    \* runners whose credential directory exists
          residue, \* a DNS credential is in a persistent directory
          orphan,  \* the command each killed runner left running
          broken,  \* history: an installation into live was cut or disturbed
          kills

homeVars == <<held, issued, live, residue, broken>>
acVars   == <<homeVars, op, temp, orphan, kills>>

File    == {"key", "fullchain"}
Kind    == {"issue", "renew", "revoke", "remove"}
Err     == {"none", "failed", "canceled", "residue"}
Idle    == [at |-> "idle", kind |-> "issue", err |-> "none", todo |-> {},
            clean |-> TRUE, wrote |-> FALSE]
NoChild == [at |-> "idle", todo |-> {}]

Installs(k) == k \in {"issue", "renew"}
Isolates(k) == Installs(k)
Running(r)  == op[r].at \notin {"idle", "done"}
Between(r)  == op[r].at = "install" /\ op[r].todo # File

\* A change of the home that no lock keeps away from the installations under way.
Disturbed(ops) ==
    [r \in Runner |-> IF ops[r].at = "install" /\ ops[r].todo # File
                      THEN [ops[r] EXCEPT !.clean = FALSE] ELSE ops[r]]

-----------------------------------------------------------------------------
(***************************************************************************)
(* withIsolatedConfig: prepareAccountConf and the first scan, which stops  *)
(* the operation when it finds a credential or the deadline has passed;    *)
(* the directory is then removed again.                                    *)
(***************************************************************************)
Found == residue   \* scanPersistentDirs meets a canary of the credentials

Begin(r, k) ==
    \E e \in IF Found THEN {"residue"} ELSE {"none", "canceled"} :
      /\ op' = [op EXCEPT ![r] = [Idle EXCEPT !.at = IF e = "none" THEN "run" ELSE "done",
                                              !.kind = k, !.err = e,
                                              !.todo = IF Installs(k) THEN File ELSE {}]]
      /\ temp' = IF e = "none" /\ Isolates(k) THEN temp \cup {r} ELSE temp

\* Where the operation leaves the commands for the second scan.
Leaves(o, e) == [o EXCEPT !.at = "rescan", !.err = e]

-----------------------------------------------------------------------------
(***************************************************************************)
(* execute: exit 0 succeeded, 2 skipped, 3 waiting for a manual step, both *)
(* without an error, anything else failed; at the deadline the group of    *)
(* processes is killed, after or before it changed the home.               *)
(***************************************************************************)
Outcome(k) ==
    {"failed", "canceled"}
    \cup (IF Installs(k) /\ issued < MaxIssued THEN {"succeeded", "canceledLate"} ELSE {})
    \cup (IF Installs(k) THEN {"manual"} ELSE {"succeeded"})
    \cup (IF Installs(k) /\ held # 0 THEN {"skipped"} ELSE {})

ErrOf(out) == CASE out = "failed" -> "failed"
                [] out \in {"canceled", "canceledLate"} -> "canceled"
                [] OTHER -> "none"

\* issue installs what it issued; renew installs also when it was skipped.
Proceeds(k, out) == \/ Installs(k) /\ out = "succeeded"
                    \/ k = "renew" /\ out = "skipped"

NewVersion == /\ held' = issued + 1
              /\ issued' = issued + 1

HomeAfter(k, out) ==
    IF Installs(k) /\ out \in {"succeeded", "canceledLate"}
    THEN NewVersion
    ELSE /\ held' = IF k = "remove" /\ out = "succeeded" THEN 0 ELSE held
         /\ UNCHANGED issued

Run(r) ==
    /\ op[r].at = "run"
    /\ \E out \in Outcome(op[r].kind), w \in BOOLEAN :
         LET o == IF Proceeds(op[r].kind, out)
                  THEN [op[r] EXCEPT !.at = "install"]
                  ELSE Leaves(op[r], ErrOf(out))
         IN /\ w => Installs(op[r].kind) /\ ~residue
            /\ HomeAfter(op[r].kind, out)
            /\ residue' = (residue \/ w)
            /\ op' = [(IF r \in Free /\ held' # held THEN Disturbed(op) ELSE op)
                      EXCEPT ![r] = [o EXCEPT !.wrote = w]]
    /\ UNCHANGED <<live, broken, temp, orphan, kills>>

-----------------------------------------------------------------------------
(***************************************************************************)
(* installCert and writeIssueMetadata.  After the last file the deadline   *)
(* may have passed, or time.log cannot be written.                         *)
(***************************************************************************)
Ends == {"none", "failed", "canceled"}

InstallFile(r) ==
    /\ op[r].at = "install" /\ r \in Locked /\ held # 0
    /\ \E f \in op[r].todo :
         LET o == [op[r] EXCEPT !.todo = @ \ {f}]
         IN /\ live' = [live EXCEPT ![f] = held]
            /\ IF o.todo # {}
               THEN op' = [op EXCEPT ![r] = o] /\ UNCHANGED broken
               ELSE /\ \E e \in Ends : op' = [op EXCEPT ![r] = Leaves(o, e)]
                    /\ broken' = ~o.clean
    /\ UNCHANGED <<held, issued, residue, temp, orphan, kills>>

InstallStops(r) ==
    /\ op[r].at = "install" /\ r \in Locked
    /\ \E e \in {"failed", "canceled"} : op' = [op EXCEPT ![r] = Leaves(@, e)]
    /\ broken' = (broken \/ Between(r))
    /\ UNCHANGED <<held, issued, live, residue, temp, orphan, kills>>

\* The other runners install into a staging directory, which is checked before
\* it is published (module CertStore).
StageFiles(r) ==
    /\ op[r].at = "install" /\ r \in Free
    /\ \E e \in Ends : /\ held = 0 => e # "none"
                       /\ op' = [op EXCEPT ![r] = Leaves(@, e)]
    /\ UNCHANGED <<homeVars, temp, orphan, kills>>

-----------------------------------------------------------------------------
(***************************************************************************)
(* The second scan and the deferred removal of the credential directory.   *)
(***************************************************************************)
ScanAfterTillDeadline(r) ==
    /\ op[r].at = "rescan"
    /\ op' = [op EXCEPT ![r].at = "done",
                        ![r].err = IF residue /\ @ # "canceled" THEN "residue" ELSE @]
    /\ temp' = temp \ {r}
    /\ UNCHANGED <<homeVars, orphan, kills>>

ScanAfter(r) ==
    /\ op[r].at = "rescan"
    /\ op' = [op EXCEPT ![r].at = "done",
                        ![r].err = IF Found THEN "residue" ELSE @]
    /\ temp' = temp \ {r}
    /\ UNCHANGED <<homeVars, orphan, kills>>

\* The operator removes what the error reported.
CleanResidue ==
    /\ residue /\ residue' = FALSE
    /\ op' = [r \in Runner |-> [op[r] EXCEPT !.wrote = FALSE]]
    /\ UNCHANGED <<held, issued, live, broken, temp, orphan, kills>>

-----------------------------------------------------------------------------
(***************************************************************************)
(* A process is killed.  Its commands go on; its credential directories    *)
(* stay where they are, known to nobody.                                   *)
(***************************************************************************)
ChildAlways(r) == [at |-> op[r].at, todo |-> op[r].todo]

Child(r) == IF op[r].at = "run" \/ (op[r].at = "install" /\ r \in Locked)
            THEN [at |-> op[r].at, todo |-> op[r].todo] ELSE NoChild

Killed(P) ==
    /\ kills < MaxKills /\ kills' = kills + 1
    /\ orphan' = [r \in Runner |-> IF r \in P THEN Child(r) ELSE orphan[r]]
    /\ broken' = (broken \/ \E r \in P \cap Locked : op[r].at = "install")
    /\ op' = [r \in Runner |-> IF r \in P THEN Idle ELSE op[r]]
    /\ temp' = temp \ P
    /\ UNCHANGED <<held, issued, live, residue>>

OrphanRuns(r) ==
    /\ orphan[r].at = "run"
    /\ orphan' = [orphan EXCEPT ![r] = NoChild]
    /\ \/ issued < MaxIssued /\ orphan[r].todo # {} /\ NewVersion /\ op' = Disturbed(op)
       \/ UNCHANGED <<held, issued, op>>
    /\ UNCHANGED <<live, residue, broken, temp, kills>>

OrphanInstalls(r) ==
    /\ orphan[r].at = "install" /\ held # 0
    /\ \E f \in orphan[r].todo :
         LET left == orphan[r].todo \ {f}
         IN /\ orphan' = [orphan EXCEPT ![r] =
                            IF left = {} THEN NoChild ELSE [@ EXCEPT !.todo = left]]
            /\ live' = [live EXCEPT ![f] = held]
            /\ broken' = TRUE
    /\ UNCHANGED <<held, issued, residue, op, temp, kills>>

-----------------------------------------------------------------------------
AcInit ==
    /\ held = 0 /\ issued = 0 /\ kills = 0
    /\ live = [f \in File |-> 0]
    /\ op = [r \in Runner |-> Idle]
    /\ temp = {} /\ residue = FALSE /\ broken = FALSE
    /\ orphan = [r \in Runner |-> NoChild]

Operates(r) ==
    \/ Run(r) \/ InstallFile(r) \/ InstallStops(r) \/ StageFiles(r) \/ ScanAfter(r)

Elsewhere ==
    \/ CleanResidue
    \/ \E r \in Runner : OrphanRuns(r) \/ OrphanInstalls(r)

-----------------------------------------------------------------------------
(***************************************************************************)
(* Properties                                                              *)
(***************************************************************************)
AcTypeOK ==
    /\ held \in 0..MaxIssued /\ issued \in 0..MaxIssued /\ kills \in 0..MaxKills
    /\ live \in [File -> 0..MaxIssued]
    /\ op \in [Runner -> [at : {"idle", "run", "install", "rescan", "done"},
                          kind : Kind, err : Err, todo : SUBSET File,
                          clean : BOOLEAN, wrote : BOOLEAN]]
    /\ temp \subseteq Runner /\ residue \in BOOLEAN /\ broken \in BOOLEAN
    /\ orphan \in [Runner -> [at : {"idle", "run", "install"}, todo : SUBSET File]]

\* The key and the chain of the live directory are of one version whenever no
\* v1 application is installing, unless an installation was cut short, or a
\* command that takes no lock (v2, revoke, remove, an orphan) changed the home
\* between the two files (service.Apply under .certkeeper.issue.lock).
LivePairMatches ==
    (~broken /\ \A r \in Locked : op[r].at # "install") => live["key"] = live["fullchain"]

\* The credentials of an operation stay out of what persists: its temporary
\* directory exists as long as it runs and no longer, however it ends; and when
\* its commands left a credential in a persistent directory, the operation says
\* so, also when its deadline had passed (withIsolatedConfig).
CredentialsStayOut ==
    /\ temp = {r \in Runner : Running(r) /\ Isolates(op[r].kind)}
    /\ \A r \in Runner : op[r].at = "done" /\ op[r].wrote => op[r].err = "residue"
=============================================================================
