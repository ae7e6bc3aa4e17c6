------------------------------- MODULE Deployment -------------------------------
(***************************************************************************)
(* DeployGeneration (internal/client/deploy.go) on one output directory:   *)
(* the directories releases/<generation>, the "current" link, the flock    *)
(* (lock_unix.go), the verify and reload commands (both configured) and    *)
(* the report a deployment returns.  The timer and the administrator may   *)
(* run two clients at a time; either may be killed.                        *)
(*                                                                         *)
(* A release is renamed into place when its files are complete and nothing *)
(* removes one, so a release is there or not.  Generations are 1, 2, ...   *)
(* in the order the server publishes them; a client may come with an older *)
(* one than another client that asked later.                               *)
(***************************************************************************)
EXTENDS Naturals

CONSTANTS Clients,        \* client processes that can run at the same time
          NoClient,       \* nobody holds the lock
          MaxGenerations, \* bound: generations the server publishes
          MaxFaults       \* bound: clients killed and disk writes that fail

ASSUME NoClientAssumption == NoClient \notin Clients
ASSUME MaxGenerationsAssumption == MaxGenerations \in Nat
ASSUME MaxFaultsAssumption == MaxFaults \in Nat

None == 0
Generations == 1..MaxGenerations

(* DeploymentReport: the fields that say what was done. *)
Report == [gen      : Generations,
           state    : {"succeeded", "failed", "skipped"},
           verified : BOOLEAN,
           reloaded : BOOLEAN]

NoReport == [gen |-> None, state |-> "none", verified |-> FALSE, reloaded |-> FALSE]

VARIABLES
    latest,   \* the server's current generation
    releases, \* releases/<generation>
    current,  \* the link
    lock,     \* holder of .deploy.lock
    pc,       \* where each DeployGeneration is
    gen,      \* its generation
    prev,     \* current when it got the lock
    report,   \* what it returned
    live,     \* history: generations a reload command has loaded
    checked,  \* history: generations a verify command has accepted
    upset,    \* history: a fault left current unverified
    faults    \* kills and failed disk writes so far

disk   == <<releases, current>>
own    == <<gen, prev, report>>
marks  == <<live, checked, upset>>
dpVars == <<latest, releases, current, lock, pc, gen, prev, report, live, checked,
            upset, faults>>

(* Between reading current and returning. *)
Section == {"stage", "renamed", "switched", "verified"}

DpTypeOK ==
    /\ latest \in 0..MaxGenerations
    /\ releases \subseteq Generations
    /\ current \in releases \cup {None}
    /\ lock \in Clients \cup {NoClient}
    /\ pc \in [Clients -> {"idle", "lock", "done"} \cup Section]
    /\ \A c \in Clients : pc[c] \in {"lock"} \cup Section => gen[c] # None
    /\ gen \in [Clients -> Generations \cup {None}]
    /\ prev \in [Clients -> Generations \cup {None}]
    /\ report \in [Clients -> Report \cup {NoReport}]
    /\ live \subseteq Generations /\ checked \subseteq Generations
    /\ upset \in BOOLEAN
    /\ faults \in 0..MaxFaults

DpInit ==
    /\ latest = None
    /\ releases = {} /\ current = None /\ lock = NoClient
    /\ pc = [c \in Clients |-> "idle"]
    /\ gen = [c \in Clients |-> None] /\ prev = [c \in Clients |-> None]
    /\ report = [c \in Clients |-> NoReport]
    /\ live = {} /\ checked = {} /\ upset = FALSE
    /\ faults = 0

-----------------------------------------------------------------------------
Goto(c, p) == pc' = [pc EXCEPT ![c] = p]

Fault == faults < MaxFaults /\ faults' = faults + 1

(* The call; what the arguments are checked for is not modelled. *)
Deploy(c, g) ==
    /\ pc[c] = "idle"
    /\ Goto(c, "lock")
    /\ gen' = [gen EXCEPT ![c] = g]
    /\ UNCHANGED <<latest, disk, lock, prev, report, marks, faults>>

(* The return: the lock is closed and the report is made. *)
Returns(c, state, verified, reloaded) ==
    /\ lock' = NoClient
    /\ report' = [report EXCEPT ![c] = [gen |-> gen[c], state |-> state,
                                        verified |-> verified, reloaded |-> reloaded]]
    /\ gen' = [gen EXCEPT ![c] = None] /\ prev' = [prev EXCEPT ![c] = None]
    /\ Goto(c, "done")

Fails(c) == Returns(c, "failed", FALSE, FALSE)

(* Mutant: no lock. *)
LockIgnored == TRUE

(* lockDeployment polls until nobody has the flock. *)
LockFree == lock = NoClient

(* The lock, then current.  What is current already is reported as deployed. *)
Lock(c) ==
    /\ pc[c] = "lock" /\ LockFree
    /\ IF current = gen[c]
       THEN Returns(c, "skipped", TRUE, TRUE)
       ELSE /\ lock' = c
            /\ prev' = [prev EXCEPT ![c] = current]
            /\ Goto(c, "stage")
            /\ UNCHANGED <<gen, report>>
    /\ UNCHANGED <<latest, disk, marks, faults>>

(* The download, the manifest or certificate check or the rename fails, or the *)
(* release is there already.                                                   *)
StageFails(c) ==
    /\ pc[c] = "stage"
    /\ Fails(c)
    /\ UNCHANGED <<latest, disk, marks, faults>>

RenameRelease(c) ==
    /\ pc[c] = "stage" /\ gen[c] \notin releases
    /\ releases' = releases \cup {gen[c]}
    /\ Goto(c, "renamed")
    /\ UNCHANGED <<latest, current, lock, own, marks, faults>>

(* Mutant: the link is switched before the release is renamed. *)
SwitchCurrentEarly(c) ==
    /\ pc[c] = "stage"
    /\ current' = gen[c]
    /\ Goto(c, "switched")
    /\ UNCHANGED <<latest, releases, lock, own, marks, faults>>

SwitchCurrent(c) ==
    /\ pc[c] = "renamed"
    /\ current' = gen[c]
    /\ Goto(c, "switched")
    /\ UNCHANGED <<latest, releases, lock, own, marks, faults>>

(* The release cannot be synced or the link not written; or it is, and the     *)
(* directory cannot be synced.                                                 *)
SwitchFails(c) ==
    /\ pc[c] = "renamed" /\ Fault
    /\ \/ UNCHANGED <<current, upset>>
       \/ current' = gen[c] /\ upset' = TRUE
    /\ Fails(c)
    /\ UNCHANGED <<latest, releases, live, checked>>

VerifyOk(c) ==
    /\ pc[c] = "switched"
    /\ checked' = checked \cup {gen[c]}
    /\ Goto(c, "verified")
    /\ UNCHANGED <<latest, disk, lock, own, live, upset, faults>>

(* Mutant: without a previous link the new one stays. *)
RestoredIfAny(c) == IF prev[c] = None THEN current ELSE prev[c]

(* restoreDeploymentCurrent, to the link that was there or to none at all. *)
Restored(c) == prev[c]

VerifyFails(c) ==
    /\ pc[c] = "switched"
    /\ \/ current' = Restored(c) /\ UNCHANGED <<upset, faults>>
       \/ Fault /\ upset' = TRUE /\ UNCHANGED current
    /\ Fails(c)
    /\ UNCHANGED <<latest, releases, live, checked>>

(* A failed reload keeps current: RetryableError. *)
Reload(c) ==
    /\ pc[c] = "verified"
    /\ \/ live' = live \cup {gen[c]} /\ Returns(c, "succeeded", TRUE, TRUE)
       \/ UNCHANGED live /\ Returns(c, "failed", TRUE, FALSE)
    /\ UNCHANGED <<latest, disk, checked, upset, faults>>

(* The caller takes the report. *)
Taken(c) ==
    /\ pc[c] = "done"
    /\ Goto(c, "idle")
    /\ report' = [report EXCEPT ![c] = NoReport]
    /\ UNCHANGED <<latest, disk, lock, gen, prev, marks, faults>>

(* Mutant: a lock file instead of a flock. *)
ReleasedNever(c) == lock

(* The kernel drops the flock of a process that dies. *)
Released(c) == IF lock = c THEN NoClient ELSE lock

Killed(c) ==
    /\ Fault
    /\ lock' = Released(c)
    /\ upset' = (upset \/ pc[c] = "switched")
    /\ Goto(c, "idle")
    /\ gen' = [gen EXCEPT ![c] = None] /\ prev' = [prev EXCEPT ![c] = None]
    /\ report' = [report EXCEPT ![c] = NoReport]
    /\ UNCHANGED <<latest, disk, live, checked>>

ServerPublishes ==
    /\ latest < MaxGenerations
    /\ latest' = latest + 1
    /\ UNCHANGED <<disk, lock, pc, own, marks, faults>>

-----------------------------------------------------------------------------
SectionStep(c) ==
    \/ StageFails(c) \/ RenameRelease(c) \/ SwitchCurrent(c) \/ SwitchFails(c)
    \/ VerifyOk(c) \/ VerifyFails(c) \/ Reload(c)

DeployStep(c) == Lock(c) \/ SectionStep(c)

DpNext ==
    \/ \E c \in Clients :
        \/ \E g \in 1..latest : Deploy(c, g)
        \/ DeployStep(c) \/ Taken(c)
        \/ Killed(c)
    \/ ServerPublishes

(* A process that holds the lock goes on: a download has the timeout of the    *)
(* HTTP client, and the configured commands are taken to end.                  *)
DpSpec ==
    /\ DpInit /\ [][DpNext]_dpVars
    /\ \A c \in Clients : WF_dpVars(SectionStep(c))

-----------------------------------------------------------------------------
(* DeployGeneration has the output directory to itself from the moment it read  *)
(* current until it returns: the link only ever is what it found or what it     *)
(* put there, so that "restore previous" restores what the last deployment      *)
(* left (flock around the whole of DeployGeneration).                           *)
SectionIsIsolated ==
    \A c \in Clients :
        pc[c] \in Section => lock = c /\ current \in {prev[c], gen[c]}

(* While nobody deploys, the certificate in use is one the verify command has   *)
(* accepted: a failed verification is rolled back, also when it overlaps other  *)
(* runs or follows killed ones.  Only a run killed between switch and           *)
(* verification and a link or a directory that cannot be written break it.      *)
CurrentWasVerified ==
    lock = NoClient /\ ~upset /\ current # None => current \in checked

(* A deployment lock is given back, also by a run that is killed or whose       *)
(* deployment fails half-way: no later run waits for ever.                      *)
LockIsReleased == \A c \in Clients : lock = c ~> lock # c

(* What a client reports is so: a report that says "verified" - also one of a   *)
(* run that found its generation current and did nothing - is about a           *)
(* generation the verify command has accepted, and one of a run that deployed   *)
(* says "reloaded" only of a generation the service has loaded.  (A run that    *)
(* found its generation current says "reloaded" without knowing.)               *)
ReportIsTrue ==
    \A c \in Clients :
        /\ report[c].verified /\ ~upset => report[c].gen \in checked
        /\ report[c].reloaded /\ report[c].state # "skipped" => report[c].gen \in live
=============================================================================
