---------------------------- MODULE DeploymentProofs ----------------------------
(***************************************************************************)
(* Proofs about Deployment, for every set of client processes and any      *)
(* number of generations and faults.                                       *)
(***************************************************************************)
EXTENDS Deployment, TLAPS

(* What the holder of the lock knows at each step of DeployGeneration: where   *)
(* the link points, that the releases it names are there, and which of them    *)
(* the verify command has accepted.                                            *)
SectionInv ==
    \A c \in Clients :
        /\ lock = c <=> pc[c] \in Section
        /\ pc[c] \in {"stage", "renamed"} => current = prev[c]
        /\ pc[c] \in {"switched", "verified"} => current = gen[c]
        /\ pc[c] \in Section => prev[c] \in releases \cup {None}
        /\ pc[c] \in Section \ {"stage"} => gen[c] \in releases
        /\ pc[c] \in Section /\ ~upset /\ prev[c] # None => prev[c] \in checked
        /\ pc[c] = "verified" => gen[c] \in checked

IInv == DpTypeOK /\ SectionInv /\ CurrentWasVerified /\ ReportIsTrue

USE NoClientAssumption, MaxGenerationsAssumption, MaxFaultsAssumption

-----------------------------------------------------------------------------
(* The lock has one holder: while c is in its section nobody else is. *)
LEMMA OneInSection ==
  ASSUME SectionInv, NEW c \in Clients, NEW d \in Clients,
         pc[c] \in Section, pc[d] \in Section
  PROVE  c = d
  BY DEF SectionInv

(* The section of the code is isolated in every state that satisfies the       *)
(* invariant.                                                                  *)
LEMMA InvIsolated == SectionInv => SectionIsIsolated
  BY DEF SectionInv, SectionIsIsolated, Section

(* A report DeployGeneration returns is a well-formed report. *)
LEMMA ReportTyped ==
  ASSUME NEW g \in Generations, NEW s \in {"succeeded", "failed", "skipped"},
         NEW v \in BOOLEAN, NEW l \in BOOLEAN
  PROVE  [gen |-> g, state |-> s, verified |-> v, reloaded |-> l] \in Report
  BY DEF Report

(* An empty output directory satisfies the invariant. *)
LEMMA InitIInv == DpInit => IInv
  <1> SUFFICES ASSUME DpInit PROVE IInv
    OBVIOUS
  <1>1. DpTypeOK
    <2>1. None \in 0..MaxGenerations /\ 0 \in 0..MaxFaults
      BY DEF None
    <2> QED
      BY <2>1 DEF DpInit, DpTypeOK, Section
  <1>2. SectionInv
    BY DEF DpInit, SectionInv, Section
  <1>3. CurrentWasVerified
    BY DEF DpInit, CurrentWasVerified
  <1>4. ReportIsTrue
    BY DEF DpInit, ReportIsTrue, NoReport
  <1> QED
    BY <1>1, <1>2, <1>3, <1>4 DEF IInv

-----------------------------------------------------------------------------
(* The call of DeployGeneration preserves the invariant. *)
LEMMA DeployIInv ==
  ASSUME IInv, NEW c \in Clients, NEW g \in 1..latest, Deploy(c, g)
  PROVE  IInv'
  <1>g. g \in Generations /\ g # None
    BY DEF IInv, DpTypeOK, Generations, None
  <1>1. DpTypeOK'
    BY <1>g DEF IInv, DpTypeOK, Deploy, Goto, disk, marks, Section
  <1>2. SectionInv'
    BY DEF IInv, DpTypeOK, SectionInv, Deploy, Goto, disk, marks, Section
  <1>3. CurrentWasVerified'
    BY DEF IInv, CurrentWasVerified, Deploy, disk, marks
  <1>4. ReportIsTrue'
    BY DEF IInv, ReportIsTrue, Deploy, marks
  <1> QED
    BY <1>1, <1>2, <1>3, <1>4 DEF IInv

(* Getting the lock preserves the invariant; a run that finds its generation   *)
(* current reports it as verified, which the lock's being free makes true.     *)
LEMMA LockIInv ==
  ASSUME IInv, NEW c \in Clients, Lock(c)
  PROVE  IInv'
  <1> USE DEF Lock, LockFree, Goto, disk, marks
  <1>g. gen[c] \in Generations /\ gen[c] # None
    BY DEF IInv, DpTypeOK
  <1>1. CASE current = gen[c]
    <2> DEFINE r == [gen |-> gen[c], state |-> "skipped", verified |-> TRUE, reloaded |-> TRUE]
    <2>r. r \in Report
      BY <1>g, ReportTyped
    <2>e. /\ report' = [report EXCEPT ![c] = r]
          /\ lock' = NoClient /\ lock = NoClient
          /\ gen' = [gen EXCEPT ![c] = None] /\ prev' = [prev EXCEPT ![c] = None]
          /\ pc' = [pc EXCEPT ![c] = "done"]
      BY <1>1 DEF Returns
    <2> HIDE DEF r
    <2>1. DpTypeOK'
      BY <2>r, <2>e DEF IInv, DpTypeOK, Section
    <2>2. SectionInv'
      BY <2>e DEF IInv, DpTypeOK, SectionInv, Section
    <2>3. CurrentWasVerified'
      BY <2>e DEF IInv, CurrentWasVerified
    <2>4. ReportIsTrue'
      <3>1. r.gen = current /\ r.state = "skipped"
        BY <1>1 DEF r
      <3>2. ~upset => current \in checked
        BY <1>1, <1>g, <2>e DEF IInv, CurrentWasVerified
      <3> QED
        BY <3>1, <3>2, <2>e DEF IInv, DpTypeOK, ReportIsTrue
    <2> QED
      BY <2>1, <2>2, <2>3, <2>4 DEF IInv
  <1>2. CASE current # gen[c]
    <2>1. DpTypeOK'
      BY <1>2 DEF IInv, DpTypeOK, Section
    <2>2. SectionInv'
      BY <1>2 DEF IInv, DpTypeOK, SectionInv, CurrentWasVerified, Section
    <2>3. CurrentWasVerified'
      BY <1>2 DEF CurrentWasVerified
    <2>4. ReportIsTrue'
      BY <1>2 DEF IInv, ReportIsTrue
    <2> QED
      BY <2>1, <2>2, <2>3, <2>4 DEF IInv
  <1> QED
    BY <1>1, <1>2

(* A return from inside the section preserves the invariant when the link it   *)
(* leaves is verified, unless the run says it is upset, and its report is so.  *)
LEMMA ReturnsIInv ==
  ASSUME IInv, NEW c \in Clients, pc[c] \in Section,
         NEW s \in {"succeeded", "failed"}, NEW v \in BOOLEAN, NEW l \in BOOLEAN,
         Returns(c, s, v, l),
         UNCHANGED <<latest, releases, checked>>,
         faults' \in 0..MaxFaults, upset' \in BOOLEAN, upset => upset',
         live \subseteq live', live' \subseteq Generations,
         current' \in releases \cup {None},
         ~upset' /\ current' # None => current' \in checked,
         v => gen[c] \in checked,
         l => gen[c] \in live'
  PROVE  IInv'
  <1> DEFINE r == [gen |-> gen[c], state |-> s, verified |-> v, reloaded |-> l]
  <1>g. gen[c] \in Generations
    BY DEF IInv, DpTypeOK
  <1>r. r \in Report /\ r.gen = gen[c] /\ r.verified = v /\ r.reloaded = l
    BY <1>g, ReportTyped
  <1>e. /\ report' = [report EXCEPT ![c] = r] /\ lock' = NoClient
        /\ gen' = [gen EXCEPT ![c] = None] /\ prev' = [prev EXCEPT ![c] = None]
        /\ pc' = [pc EXCEPT ![c] = "done"]
    BY DEF Returns, Goto
  <1> HIDE DEF r
  <1>1. DpTypeOK'
    BY <1>r, <1>e DEF IInv, DpTypeOK, Section
  <1>2. SectionInv'
    <2>1. \A d \in Clients : d # c => pc[d] \notin Section
      BY OneInSection DEF IInv
    <2>2. \A d \in Clients : pc'[d] \notin Section
      BY <2>1, <1>e DEF IInv, DpTypeOK, Section
    <2>3. \A d \in Clients : lock' # d
      BY <1>e
    <2> QED
      BY <2>2, <2>3 DEF SectionInv, Section
  <1>3. CurrentWasVerified'
    BY DEF CurrentWasVerified
  <1>4. ReportIsTrue'
    BY <1>r, <1>e DEF IInv, DpTypeOK, ReportIsTrue
  <1> QED
    BY <1>1, <1>2, <1>3, <1>4 DEF IInv

(* A download or a check that fails leaves current at the verified link found. *)
LEMMA StageFailsIInv ==
  ASSUME IInv, NEW c \in Clients, StageFails(c)
  PROVE  IInv'
  <1>1. /\ pc[c] \in Section /\ Returns(c, "failed", FALSE, FALSE)
        /\ UNCHANGED <<latest, releases, current, live, checked, upset, faults>>
    BY DEF StageFails, Fails, disk, marks, Section
  <1>2. ~upset /\ current # None => current \in checked
    BY DEF IInv, SectionInv, StageFails, Section
  <1>3. /\ faults' \in 0..MaxFaults /\ upset' \in BOOLEAN /\ live' \subseteq Generations
        /\ current' \in releases \cup {None}
    BY <1>1 DEF IInv, DpTypeOK
  <1> QED
    BY <1>1, <1>2, <1>3, ReturnsIInv

(* The rename that puts the release in place preserves the invariant. *)
LEMMA RenameReleaseIInv ==
  ASSUME IInv, NEW c \in Clients, RenameRelease(c)
  PROVE  IInv'
  <1> USE DEF RenameRelease, Goto, own, marks
  <1>g. gen[c] \in Generations /\ pc[c] \in Section
    BY DEF IInv, DpTypeOK, Section
  <1>1. DpTypeOK'
    BY <1>g DEF IInv, DpTypeOK, Section
  <1>2. SectionInv'
    BY <1>g DEF IInv, DpTypeOK, SectionInv, Section
  <1>3. CurrentWasVerified'
    BY DEF IInv, CurrentWasVerified
  <1>4. ReportIsTrue'
    BY DEF IInv, ReportIsTrue
  <1> QED
    BY <1>1, <1>2, <1>3, <1>4 DEF IInv

(* The link is switched by the holder of the lock only, to a release in place. *)
LEMMA SwitchCurrentIInv ==
  ASSUME IInv, NEW c \in Clients, SwitchCurrent(c)
  PROVE  IInv'
  <1> USE DEF SwitchCurrent, Goto, own, marks
  <1>g. gen[c] \in releases /\ pc[c] \in Section /\ lock = c
    BY DEF IInv, SectionInv, Section
  <1>1. DpTypeOK'
    BY <1>g DEF IInv, DpTypeOK, Section
  <1>2. SectionInv'
    <2>1. \A d \in Clients : d # c => pc[d] \notin Section
      BY <1>g, OneInSection DEF IInv
    <2> QED
      BY <1>g, <2>1 DEF IInv, DpTypeOK, SectionInv, Section
  <1>3. CurrentWasVerified'
    BY <1>g DEF CurrentWasVerified
  <1>4. ReportIsTrue'
    BY DEF IInv, ReportIsTrue
  <1> QED
    BY <1>1, <1>2, <1>3, <1>4 DEF IInv

(* A switch that fails leaves the verified link, or the new one and an upset. *)
LEMMA SwitchFailsIInv ==
  ASSUME IInv, NEW c \in Clients, SwitchFails(c)
  PROVE  IInv'
  <1>1. /\ pc[c] \in Section /\ Returns(c, "failed", FALSE, FALSE)
        /\ UNCHANGED <<latest, releases, live, checked>>
    BY DEF SwitchFails, Fails, Section
  <1>2. /\ ~upset' /\ current' # None => current' \in checked
        /\ current' \in releases \cup {None}
        /\ upset => upset'
        /\ upset' \in BOOLEAN
    <2>1. /\ current = prev[c] /\ gen[c] \in releases /\ upset \in BOOLEAN
          /\ current \in releases \cup {None}
          /\ ~upset /\ current # None => current \in checked
      BY DEF IInv, DpTypeOK, SectionInv, SwitchFails, Section
    <2>2. UNCHANGED <<current, upset>> \/ (current' = gen[c] /\ upset' = TRUE)
      BY DEF SwitchFails
    <2> QED
      BY <2>1, <2>2
  <1>3. faults' \in 0..MaxFaults /\ live' \subseteq Generations
    BY DEF IInv, DpTypeOK, SwitchFails, Fault
  <1> QED
    BY <1>1, <1>2, <1>3, ReturnsIInv

(* A successful verification preserves the invariant. *)
LEMMA VerifyOkIInv ==
  ASSUME IInv, NEW c \in Clients, VerifyOk(c)
  PROVE  IInv'
  <1> USE DEF VerifyOk, Goto, own, disk
  <1>g. gen[c] \in Generations /\ pc[c] \in Section
    BY DEF IInv, DpTypeOK, Section
  <1>1. DpTypeOK'
    BY <1>g DEF IInv, DpTypeOK, Section
  <1>2. SectionInv'
    BY <1>g DEF IInv, DpTypeOK, SectionInv, Section
  <1>3. CurrentWasVerified'
    BY DEF IInv, CurrentWasVerified
  <1>4. ReportIsTrue'
    BY DEF IInv, ReportIsTrue
  <1> QED
    BY <1>1, <1>2, <1>3, <1>4 DEF IInv

(* A failed verification puts the verified link back, or says it could not. *)
LEMMA VerifyFailsIInv ==
  ASSUME IInv, NEW c \in Clients, VerifyFails(c)
  PROVE  IInv'
  <1>1. /\ pc[c] \in Section /\ Returns(c, "failed", FALSE, FALSE)
        /\ UNCHANGED <<latest, releases, live, checked>>
    BY DEF VerifyFails, Fails, Section
  <1>2. /\ ~upset' /\ current' # None => current' \in checked
        /\ current' \in releases \cup {None}
        /\ upset => upset'
        /\ upset' \in BOOLEAN
    <2>1. /\ prev[c] \in releases \cup {None} /\ current \in releases \cup {None}
          /\ upset \in BOOLEAN
          /\ ~upset /\ prev[c] # None => prev[c] \in checked
      BY DEF IInv, DpTypeOK, SectionInv, VerifyFails, Section
    <2>2. (current' = prev[c] /\ UNCHANGED upset) \/ (UNCHANGED current /\ upset' = TRUE)
      BY DEF VerifyFails, Restored
    <2> QED
      BY <2>1, <2>2
  <1>3. faults' \in 0..MaxFaults /\ live' \subseteq Generations
    BY DEF IInv, DpTypeOK, VerifyFails, Fault
  <1> QED
    BY <1>1, <1>2, <1>3, ReturnsIInv

(* The reload, which succeeds or fails, comes after the verification. *)
LEMMA ReloadIInv ==
  ASSUME IInv, NEW c \in Clients, Reload(c)
  PROVE  IInv'
  <1>1. /\ pc[c] \in Section
        /\ UNCHANGED <<latest, releases, current, checked, upset, faults>>
    BY DEF Reload, disk, Section
  <1>2. /\ gen[c] \in checked /\ current = gen[c] /\ gen[c] \in Generations
        /\ current' \in releases \cup {None}
        /\ faults' \in 0..MaxFaults /\ upset' \in BOOLEAN /\ live \subseteq Generations
    BY <1>1 DEF IInv, DpTypeOK, SectionInv, Reload
  <1>3. CASE live' = live \cup {gen[c]} /\ Returns(c, "succeeded", TRUE, TRUE)
    BY <1>1, <1>2, <1>3, ReturnsIInv
  <1>4. CASE UNCHANGED live /\ Returns(c, "failed", TRUE, FALSE)
    BY <1>1, <1>2, <1>4, ReturnsIInv
  <1> QED
    BY <1>3, <1>4 DEF Reload

(* Handing the report to the caller preserves the invariant. *)
LEMMA TakenIInv ==
  ASSUME IInv, NEW c \in Clients, Taken(c)
  PROVE  IInv'
  <1> USE DEF Taken, Goto, disk, marks
  <1>1. DpTypeOK'
    BY DEF IInv, DpTypeOK, Section
  <1>2. SectionInv'
    BY DEF IInv, DpTypeOK, SectionInv, Section
  <1>3. CurrentWasVerified'
    BY DEF IInv, CurrentWasVerified
  <1>4. ReportIsTrue'
    BY DEF IInv, DpTypeOK, ReportIsTrue, NoReport
  <1> QED
    BY <1>1, <1>2, <1>3, <1>4 DEF IInv

(* A kill at any point preserves the invariant: the flock goes with the process,  *)
(* and only a kill between switch and verification leaves an unverified link.     *)
LEMMA KilledIInv ==
  ASSUME IInv, NEW c \in Clients, Killed(c)
  PROVE  IInv'
  <1> USE DEF Killed, Released, Goto, disk
  <1>1. DpTypeOK'
    BY DEF IInv, DpTypeOK, Section, Fault
  <1>2. SectionInv'
    BY DEF IInv, DpTypeOK, SectionInv, Section
  <1>3. CurrentWasVerified'
    <2>1. CASE lock = c
      <3>1. pc[c] \in Section
        BY <2>1 DEF IInv, SectionInv
      <3>2. \/ current = prev[c] /\ (~upset /\ prev[c] # None => prev[c] \in checked)
            \/ pc[c] = "switched"
            \/ current \in checked
        BY <3>1 DEF IInv, SectionInv, Section
      <3>3. upset \in BOOLEAN /\ upset' = (upset \/ pc[c] = "switched")
        BY DEF IInv, DpTypeOK
      <3> QED
        BY <3>2, <3>3 DEF CurrentWasVerified
    <2>2. CASE lock # c
      BY <2>2 DEF IInv, CurrentWasVerified
    <2> QED
      BY <2>1, <2>2
  <1>4. ReportIsTrue'
    BY DEF IInv, DpTypeOK, ReportIsTrue, NoReport
  <1> QED
    BY <1>1, <1>2, <1>3, <1>4 DEF IInv

(* A new generation on the server touches nothing of the client. *)
LEMMA ServerPublishesIInv ==
  ASSUME IInv, ServerPublishes
  PROVE  IInv'
  <1> USE DEF ServerPublishes, disk, own, marks
  <1>1. DpTypeOK'
    BY DEF IInv, DpTypeOK
  <1>2. SectionInv'
    BY DEF IInv, SectionInv
  <1>3. CurrentWasVerified' /\ ReportIsTrue'
    BY DEF IInv, CurrentWasVerified, ReportIsTrue
  <1> QED
    BY <1>1, <1>2, <1>3 DEF IInv

(* Every step of the specification preserves the invariant. *)
LEMMA NextIInv == IInv /\ [DpNext]_dpVars => IInv'
  <1> SUFFICES ASSUME IInv, [DpNext]_dpVars PROVE IInv'
    OBVIOUS
  <1>1. ASSUME NEW c \in Clients, NEW g \in 1..latest, Deploy(c, g) PROVE IInv'
    BY <1>1, DeployIInv
  <1>2. ASSUME NEW c \in Clients, DeployStep(c) PROVE IInv'
    <2>1. CASE Lock(c)
      BY <2>1, LockIInv
    <2>2. CASE StageFails(c)
      BY <2>2, StageFailsIInv
    <2>3. CASE RenameRelease(c)
      BY <2>3, RenameReleaseIInv
    <2>4. CASE SwitchCurrent(c)
      BY <2>4, SwitchCurrentIInv
    <2>5. CASE SwitchFails(c)
      BY <2>5, SwitchFailsIInv
    <2>6. CASE VerifyOk(c)
      BY <2>6, VerifyOkIInv
    <2>7. CASE VerifyFails(c)
      BY <2>7, VerifyFailsIInv
    <2>8. CASE Reload(c)
      BY <2>8, ReloadIInv
    <2> QED
      BY <1>2, <2>1, <2>2, <2>3, <2>4, <2>5, <2>6, <2>7, <2>8 DEF DeployStep, SectionStep
  <1>3. ASSUME NEW c \in Clients, Taken(c) PROVE IInv'
    BY <1>3, TakenIInv
  <1>4. ASSUME NEW c \in Clients, Killed(c) PROVE IInv'
    BY <1>4, KilledIInv
  <1>5. CASE ServerPublishes
    BY <1>5, ServerPublishesIInv
  <1>6. CASE UNCHANGED dpVars
    BY <1>6 DEF IInv, DpTypeOK, SectionInv, CurrentWasVerified, ReportIsTrue, dpVars
  <1> QED
    BY <1>1, <1>2, <1>3, <1>4, <1>5, <1>6 DEF DpNext

(* The invariant holds in every reachable state. *)
THEOREM Invariance == DpSpec => []IInv
  BY InitIInv, NextIInv, PTL DEF DpSpec

(* Types of the output directory, the lock and the processes. *)
THEOREM TypeCorrect == DpSpec => []DpTypeOK
  <1>1. IInv => DpTypeOK
    BY DEF IInv
  <1> QED
    BY <1>1, Invariance, PTL

(* DeployGeneration has the output directory to itself, for any number of      *)
(* clients and kills.                                                          *)
THEOREM Isolation == DpSpec => []SectionIsIsolated
  <1>1. IInv => SectionIsIsolated
    BY InvIsolated DEF IInv
  <1> QED
    BY <1>1, Invariance, PTL

(* With nobody deploying, the certificate in use was accepted by the verify    *)
(* command, unless a fault between switch and verification is on record.       *)
THEOREM InUseIsVerified == DpSpec => []CurrentWasVerified
  <1>1. IInv => CurrentWasVerified
    BY DEF IInv
  <1> QED
    BY <1>1, Invariance, PTL

(* Reports do not claim a verification or a reload that did not happen. *)
THEOREM ReportsAreTrue == DpSpec => []ReportIsTrue
  <1>1. IInv => ReportIsTrue
    BY DEF IInv
  <1> QED
    BY <1>1, Invariance, PTL
=============================================================================
