--------------------------- MODULE ClientApplyProofs ---------------------------
(***************************************************************************)
(* Proofs about ClientApply, for every finite set of client processes and  *)
(* any number of idempotency keys, generations and faults: it implements   *)
(* Deployment, so that what DeploymentProofs shows holds of whole apply    *)
(* runs, and retries do not multiply idempotency keys.                     *)
(***************************************************************************)
EXTENDS ClientApply, DeploymentProofs, FiniteSetTheorems

(* Types of the server's answers, the state file and the runs. *)
ApplyType ==
    /\ due \in BOOLEAN
    /\ job \in [Keys -> {"none", "queued", "succeeded", "failed"}]
    /\ made \in [Keys -> Generations \cup {None}]
    /\ file \in ClientState
    /\ at \in [Clients -> {"idle", "save", "resend", "resave", "reconcile", "poll",
                           "deploying", "report", "send", "sent"}]
    /\ mem \in [Clients -> ClientState]

(* The server answers with generations it has published: a job that succeeded    *)
(* found or made one.                                                            *)
AnswerInv ==
    \A k \in Keys :
        /\ job[k] = "succeeded" => latest # None
        /\ made[k] \in 0..latest

(* DeployGeneration is called from one place only, and leaves nothing behind. *)
CallInv ==
    \A c \in Clients :
        /\ at[c] # "deploying" => pc[c] = "idle"
        /\ pc[c] \in {"idle", "done"} => gen[c] = None /\ prev[c] = None
        /\ pc[c] = "idle" => report[c] = NoReport

(* A run has its key, and has saved it before anything is asked of the server. *)
KeyInv ==
    /\ \A c \in Clients :
        /\ at[c] # "idle" => mem[c].key \in Keys
        /\ at[c] \notin {"idle", "save"} => file.key # None
    /\ \A k \in Keys : job[k] # "none" => file.key # None

(* Keys that somebody has. *)
Used == {k \in Keys : job[k] # "none" \/ file.key = k \/ \E c \in Clients : mem[c].key = k}

FewKeys == Cardinality(Used) <= Cardinality(Clients)

ApplyInv == ApplyType /\ AnswerInv /\ CallInv /\ KeyInv

CaIInv == IInv /\ ApplyInv /\ FewKeys

USE NoClientAssumption, MaxGenerationsAssumption, MaxFaultsAssumption, MaxKeysAssumption,
    ClientsAssumption

-----------------------------------------------------------------------------
(* Keys. *)

(* The keys in use are finitely many. *)
LEMMA UsedFinite == IsFiniteSet(Keys) /\ IsFiniteSet(Used) /\ IsFiniteSet(Used')
  <1>1. IsFiniteSet(Keys)
    BY FS_Interval DEF Keys
  <1>2. Used \in SUBSET Keys /\ Used' \in SUBSET Keys
    BY DEF Used
  <1> QED
    BY <1>1, <1>2, FS_Subset

(* A step that gives nobody a key that was not in use keeps them few. *)
LEMMA NoNewKey ==
  ASSUME FewKeys, Used' \subseteq Used
  PROVE  FewKeys'
  <1>1. Cardinality(Used') <= Cardinality(Used)
    BY UsedFinite, FS_Subset
  <1>2. /\ Cardinality(Used') \in Nat /\ Cardinality(Used) \in Nat
        /\ Cardinality(Clients) \in Nat
    BY UsedFinite, FS_CardinalityType
  <1> QED
    BY <1>1, <1>2 DEF FewKeys

(* Keys that only runs have are at most as many as the runs. *)
LEMMA KeysOfRuns ==
  ASSUME NEW f, NEW U, \A k \in U : \E c \in Clients : f[c] = k
  PROVE  Cardinality(U) <= Cardinality(Clients)
  <1>1. CASE U = {}
    BY <1>1, FS_EmptySet, FS_CardinalityType
  <1>2. CASE U # {}
    <2>1. PICK u : u \in U
      BY <1>2
    <2> DEFINE g == [c \in Clients |-> IF f[c] \in U THEN f[c] ELSE u]
    <2>2. g \in Surjection(Clients, U)
      <3>1. g \in [Clients -> U]
        BY <2>1
      <3>2. \A k \in U : \E c \in Clients : g[c] = k
        OBVIOUS
      <3> QED
        BY <3>1, <3>2 DEF Surjection
    <2> QED
      BY <2>2, FS_Surjection
  <1> QED
    BY <1>1, <1>2

-----------------------------------------------------------------------------
(* An empty directory, no state file and a server without jobs. *)
LEMMA InitCaIInv == CaInit => CaIInv
  <1> SUFFICES ASSUME CaInit PROVE CaIInv
    OBVIOUS
  <1>1. IInv
    BY InitIInv DEF CaInit
  <1>2. NoState \in ClientState /\ NoState.key = None
    BY DEF NoState, ClientState
  <1>3. ApplyType
    BY <1>2 DEF CaInit, ApplyType
  <1>4. AnswerInv
    BY DEF CaInit, DpInit, AnswerInv, None
  <1>5. CallInv
    BY DEF CaInit, DpInit, CallInv
  <1>6. KeyInv
    BY DEF CaInit, KeyInv
  <1>7. FewKeys
    <2>1. Used = {}
      BY <1>2 DEF CaInit, Used, Keys, None
    <2> QED
      BY <2>1, FS_EmptySet, FS_CardinalityType DEF FewKeys
  <1> QED
    BY <1>1, <1>3, <1>4, <1>5, <1>6, <1>7 DEF CaIInv, ApplyInv

-----------------------------------------------------------------------------
(* What every step shows: it is a step of Deployment or none of its concern,     *)
(* and it keeps the rest of the invariant.                                       *)
Good == [DpNext]_dpVars /\ ApplyInv' /\ FewKeys'

(* The answers of the server stay true while it publishes or does nothing. *)
LEMMA AnswersKept ==
  ASSUME AnswerInv, DpTypeOK, ApplyType, UNCHANGED <<job, made>>,
         latest' = latest \/ latest' = latest + 1
  PROVE  AnswerInv'
  BY DEF AnswerInv, DpTypeOK, ApplyType, None, Generations

(* A run that moves outside DeployGeneration leaves every deployment where it is. *)
LEMMA CallsKept ==
  ASSUME CallInv, ApplyType, UNCHANGED dpVars, NEW c \in Clients, at[c] # "deploying",
         NEW p, at' = [at EXCEPT ![c] = p]
  PROVE  CallInv'
  BY DEF CallInv, ApplyType, dpVars

(* Jobs end, certificates expire and others publish. *)
LEMMA ServerGood ==
  ASSUME CaIInv, (\E k \in Keys : WorkerEnds(k)) \/ OthersPublish \/ Expire
  PROVE  Good
  <1>0. ApplyType /\ AnswerInv /\ CallInv /\ KeyInv /\ DpTypeOK /\ FewKeys
    BY DEF CaIInv, ApplyInv, IInv
  <1>s. ASSUME ServerPublishes
        PROVE  /\ latest' = latest + 1 /\ [DpNext]_dpVars /\ UNCHANGED <<pc, gen, prev, report>>
               /\ latest' \in Generations
    BY <1>0, <1>s DEF ServerPublishes, DpNext, own, DpTypeOK, Generations
  <1>1. ASSUME NEW k \in Keys, WorkerEnds(k) PROVE Good
    <2>1. PICK e \in {"succeeded", "failed"} : job' = [job EXCEPT ![k] = e]
      BY <1>1 DEF WorkerEnds
    <2>2. job[k] = "queued" /\ UNCHANGED <<file, at, mem>>
      BY <1>1 DEF WorkerEnds
    <2>3. /\ [DpNext]_dpVars /\ UNCHANGED <<pc, gen, prev, report>> /\ due' \in BOOLEAN
          /\ made' \in [Keys -> Generations \cup {None}]
      <3>1. CASE ServerPublishes /\ due' = FALSE /\ made' = [made EXCEPT ![k] = latest + 1]
        BY <1>0, <1>s, <3>1 DEF ApplyType
      <3>2. CASE UNCHANGED <<dpVars, due, made>>
        BY <1>0, <3>2 DEF ApplyType, dpVars
      <3> QED
        BY <1>1, <3>1, <3>2 DEF WorkerEnds
    <2>4. ApplyType'
      BY <1>0, <2>1, <2>2, <2>3 DEF ApplyType
    <2>5. AnswerInv'
      <3>1. CASE ServerPublishes /\ made' = [made EXCEPT ![k] = latest + 1]
        BY <1>0, <1>s, <2>1, <3>1 DEF AnswerInv, ApplyType, DpTypeOK, None, Generations
      <3>2. CASE UNCHANGED <<dpVars, made>> /\ (e = "succeeded" => latest # None)
        BY <1>0, <2>1, <3>2 DEF AnswerInv, ApplyType, dpVars
      <3> QED
        BY <1>0, <1>1, <2>1, <3>1, <3>2 DEF WorkerEnds, ApplyType
    <2>6. CallInv'
      BY <1>0, <2>2, <2>3 DEF CallInv
    <2>7. KeyInv'
      BY <1>0, <2>1, <2>2 DEF KeyInv, ApplyType
    <2>8. Used' \subseteq Used
      BY <1>0, <2>1, <2>2 DEF Used, ApplyType
    <2> QED
      BY <1>0, <2>3, <2>4, <2>5, <2>6, <2>7, <2>8, NoNewKey DEF Good, ApplyInv
  <1>2. CASE OthersPublish
    <2>1. /\ ServerPublishes /\ due' = FALSE /\ UNCHANGED <<job, made, file, at, mem>>
      BY <1>2 DEF OthersPublish
    <2>2. ApplyType' /\ CallInv' /\ KeyInv' /\ AnswerInv'
      BY <1>0, <1>s, <2>1, AnswersKept DEF ApplyType, CallInv, KeyInv
    <2>3. Used' \subseteq Used
      BY <2>1 DEF Used
    <2> QED
      BY <1>0, <1>s, <2>1, <2>2, <2>3, NoNewKey DEF Good, ApplyInv
  <1>3. CASE Expire
    <2>1. /\ UNCHANGED <<dpVars, job, made, file, at, mem>> /\ due' = TRUE
      BY <1>3 DEF Expire
    <2>2. ApplyType' /\ CallInv' /\ KeyInv' /\ AnswerInv'
      BY <1>0, <2>1, AnswersKept DEF ApplyType, CallInv, KeyInv, dpVars
    <2>3. Used' \subseteq Used
      BY <2>1 DEF Used
    <2> QED
      BY <1>0, <2>1, <2>2, <2>3, NoNewKey DEF Good, ApplyInv
  <1> QED
    BY <1>1, <1>2, <1>3

(* A run starts: with the saved key if there is a state file, else with a fresh  *)
(* one, and then only runs have keys.                                            *)
LEMMA BeginGood ==
  ASSUME CaIInv, NEW c \in Clients, Begin(c)
  PROVE  Good
  <1>0. ApplyType /\ AnswerInv /\ CallInv /\ KeyInv /\ DpTypeOK /\ FewKeys
    BY DEF CaIInv, ApplyInv, IInv
  <1>1. PICK k \in Keys, r \in Report \cup {NoReport} :
          UsesKey(k) /\ mem' = [mem EXCEPT ![c] = [key |-> k, sent |-> FALSE, report |-> r]]
    <2>1. file.report \in Report \cup {NoReport}
      BY <1>0 DEF ApplyType, ClientState
    <2> QED
      BY <2>1 DEF Begin
  <1> DEFINE m == [key |-> k, sent |-> FALSE, report |-> r]
  <1>2. m \in ClientState /\ m.key = k
    BY DEF ClientState
  <1>3. mem' = [mem EXCEPT ![c] = m]
    BY <1>1
  <1> HIDE DEF m
  <1>4. /\ UNCHANGED dpVars /\ UNCHANGED <<due, job, made, file>>
        /\ at' = [at EXCEPT ![c] = "save"] /\ at[c] = "idle"
    BY DEF Begin, Continue, server
  <1>5. ApplyType'
    BY <1>0, <1>2, <1>3, <1>4 DEF ApplyType
  <1>6. AnswerInv' /\ CallInv'
    BY <1>0, <1>4, AnswersKept, CallsKept DEF dpVars
  <1>7. KeyInv'
    BY <1>0, <1>2, <1>3, <1>4 DEF KeyInv, ApplyType
  <1>8. FewKeys'
    <2>1. CASE file.key # None
      <3>1. k = file.key
        BY <1>1, <2>1 DEF UsesKey
      <3>2. Used' \subseteq Used
        BY <1>0, <1>2, <1>3, <1>4, <3>1 DEF Used, ApplyType
      <3> QED
        BY <1>0, <3>2, NoNewKey
    <2>2. CASE file.key = None
      <3> DEFINE f == [d \in Clients |-> mem'[d].key]
      <3>1. \A j \in Used' : \E d \in Clients : f[d] = j
        BY <1>0, <1>4, <2>2 DEF Used, KeyInv, Keys, None
      <3> HIDE DEF f
      <3>2. Cardinality(Used') <= Cardinality(Clients)
        BY <3>1, KeysOfRuns
      <3> QED
        BY <3>2 DEF FewKeys
    <2> QED
      BY <2>1, <2>2
  <1> QED
    BY <1>4, <1>5, <1>6, <1>7, <1>8 DEF Good, ApplyInv

(* A run ends or goes on with the key it has, and nothing else changes. *)
LEMMA MoveGood ==
  ASSUME CaIInv, NEW c \in Clients, UNCHANGED dpVars, UNCHANGED <<due, made>>,
         at[c] \notin {"idle", "deploying"},
         NEW p \in {"idle", "resave", "reconcile", "poll", "sent"},
         at' = [at EXCEPT ![c] = p],
         p # "idle" => file.key # None,
         NEW m \in ClientState, mem' = [mem EXCEPT ![c] = m],
         m.key = mem[c].key \/ (m.key = None /\ p = "idle"),
         file' \in {file, mem[c]},
         job' = job \/ (job' = [job EXCEPT ![mem[c].key] = "queued"] /\ file.key # None
                         /\ job[mem[c].key] \in {"none", "queued"})
  PROVE  Good
  <1>0. ApplyType /\ AnswerInv /\ CallInv /\ KeyInv /\ DpTypeOK /\ FewKeys
    BY DEF CaIInv, ApplyInv, IInv
  <1>k. mem[c].key \in Keys /\ mem[c] \in ClientState
    BY <1>0 DEF KeyInv, ApplyType
  <1>1. ApplyType'
    BY <1>0, <1>k DEF ApplyType
  <1>2. CallInv'
    BY <1>0, CallsKept
  <1>3. AnswerInv'
    BY <1>0, <1>k DEF AnswerInv, ApplyType, dpVars
  <1>4. file.key # None => file'.key # None
    BY <1>k DEF Keys, None
  <1>5. KeyInv'
    BY <1>0, <1>k, <1>4 DEF KeyInv, ApplyType
  <1>6. Used' \subseteq Used
    BY <1>0, <1>k DEF Used, ApplyType, Keys, None
  <1> QED
    BY <1>0, <1>1, <1>2, <1>3, <1>5, <1>6, NoNewKey DEF Good, ApplyInv

(* A run ends without a report. *)
LEMMA EndsGood ==
  ASSUME CaIInv, NEW c \in Clients, UNCHANGED <<dpVars, due, made, job>>,
         at[c] \notin {"idle", "deploying"}, Ends(c), file' \in {file, mem[c]}
  PROVE  Good
  <1>1. NoState \in ClientState /\ NoState.key = None
    BY DEF NoState, ClientState
  <1>2. at' = [at EXCEPT ![c] = "idle"] /\ mem' = [mem EXCEPT ![c] = NoState]
    BY DEF Ends, Continue
  <1> QED
    BY <1>1, <1>2, MoveGood

(* A fault that only costs a save is a kill of an idle deployment to Deployment. *)
LEMMA LostSaveIsAKill ==
  ASSUME CaIInv, NEW c \in Clients, at[c] # "deploying", Fault,
         UNCHANGED <<latest, releases, current, lock, pc, gen, prev, report, live, checked, upset>>
  PROVE  Killed(c)
  <1>1. pc[c] = "idle" /\ gen[c] = None /\ prev[c] = None /\ report[c] = NoReport
    BY DEF CaIInv, ApplyInv, CallInv
  <1>2. /\ pc \in [Clients -> {"idle", "lock", "done"} \cup Section]
        /\ gen \in [Clients -> Generations \cup {None}]
        /\ prev \in [Clients -> Generations \cup {None}]
        /\ report \in [Clients -> Report \cup {NoReport}]
        /\ upset \in BOOLEAN
    BY DEF CaIInv, IInv, DpTypeOK
  <1>3. lock # c
    BY <1>1 DEF CaIInv, IInv, SectionInv, Section
  <1>4. /\ pc = [pc EXCEPT ![c] = "idle"] /\ gen = [gen EXCEPT ![c] = None]
        /\ prev = [prev EXCEPT ![c] = None] /\ report = [report EXCEPT ![c] = NoReport]
    BY <1>1, <1>2
  <1>5. upset' = (upset \/ pc[c] = "switched")
    BY <1>1, <1>2
  <1> QED
    BY <1>3, <1>4, <1>5 DEF Killed, Released, Goto, disk

(* The first save, the resent report and its save. *)
LEMMA SaveStateGood ==
  ASSUME CaIInv, NEW c \in Clients, SaveState(c)
  PROVE  Good
  <1>0. ApplyType /\ AnswerInv /\ CallInv /\ KeyInv /\ DpTypeOK /\ FewKeys
    BY DEF CaIInv, ApplyInv, IInv
  <1>1. PICK p \in {"resend", "reconcile"} : at' = [at EXCEPT ![c] = p]
    BY DEF SaveState, Continue
  <1>2. /\ at[c] \in {"save", "resave"} /\ file' = mem[c]
        /\ UNCHANGED <<dpVars, due, job, made, mem>>
    BY DEF SaveState, server
  <1>k. mem[c].key \in Keys /\ mem[c] \in ClientState
    BY <1>0, <1>2 DEF KeyInv, ApplyType
  <1>3. ApplyType'
    BY <1>0, <1>1, <1>2, <1>k DEF ApplyType
  <1>4. CallInv' /\ AnswerInv'
    BY <1>0, <1>1, <1>2, CallsKept, AnswersKept DEF dpVars
  <1>5. KeyInv'
    <2>1. file'.key # None
      BY <1>2, <1>k DEF Keys, None
    <2> QED
      BY <1>0, <1>1, <1>2, <2>1 DEF KeyInv, ApplyType
  <1>6. Used' \subseteq Used
    BY <1>2 DEF Used
  <1> QED
    BY <1>0, <1>2, <1>3, <1>4, <1>5, <1>6, NoNewKey DEF Good, ApplyInv

(* The resent report arrives or not. *)
LEMMA ResendGood ==
  ASSUME CaIInv, NEW c \in Clients, Resend(c)
  PROVE  Good
  <1>1. /\ UNCHANGED dpVars /\ UNCHANGED <<due, made, job, file>> /\ at[c] = "resend"
    BY DEF Resend, server
  <1>2. mem \in [Clients -> ClientState] /\ mem[c] \in ClientState /\ file.key # None
    BY <1>1 DEF CaIInv, ApplyInv, ApplyType, KeyInv
  <1>3. CASE mem' = [mem EXCEPT ![c].sent = TRUE] /\ Continue(c, "resave")
    <2> DEFINE m == [mem[c] EXCEPT !.sent = TRUE]
    <2>1. m \in ClientState /\ m.key = mem[c].key
      BY <1>2 DEF ClientState
    <2>2. mem' = [mem EXCEPT ![c] = m] /\ at' = [at EXCEPT ![c] = "resave"]
      BY <1>3 DEF Continue
    <2> HIDE DEF m
    <2> QED
      BY <1>1, <1>2, <2>1, <2>2, MoveGood
  <1>4. CASE Continue(c, "reconcile") /\ UNCHANGED mem
    <2>1. mem' = [mem EXCEPT ![c] = mem[c]] /\ at' = [at EXCEPT ![c] = "reconcile"]
      BY <1>2, <1>4 DEF Continue
    <2> QED
      BY <1>1, <1>2, <2>1, MoveGood
  <1> QED
    BY <1>3, <1>4 DEF Resend

(* The report of this run is sent or lost. *)
LEMMA SendGood ==
  ASSUME CaIInv, NEW c \in Clients, Send(c)
  PROVE  Good
  <1>1. /\ UNCHANGED dpVars /\ UNCHANGED <<due, made, job, file>> /\ at[c] = "send"
    BY DEF Send, server
  <1>2. mem \in [Clients -> ClientState] /\ mem[c] \in ClientState /\ file.key # None
    BY <1>1 DEF CaIInv, ApplyInv, ApplyType, KeyInv
  <1>3. CASE mem' = [mem EXCEPT ![c].sent = TRUE] /\ Continue(c, "sent")
    <2> DEFINE m == [mem[c] EXCEPT !.sent = TRUE]
    <2>1. m \in ClientState /\ m.key = mem[c].key
      BY <1>2 DEF ClientState
    <2>2. mem' = [mem EXCEPT ![c] = m] /\ at' = [at EXCEPT ![c] = "sent"]
      BY <1>3 DEF Continue
    <2> HIDE DEF m
    <2> QED
      BY <1>1, <1>2, <2>1, <2>2, MoveGood
  <1>4. CASE Ends(c)
    BY <1>1, <1>4, EndsGood
  <1> QED
    BY <1>3, <1>4 DEF Send

(* A save or a request fails. *)
LEMMA ApplyFailsGood ==
  ASSUME CaIInv, NEW c \in Clients, ApplyFails(c)
  PROVE  Good
  BY EndsGood DEF ApplyFails, server

(* A call of DeployGeneration with a generation the server has published. *)
LEMMA ObtainsGood ==
  ASSUME CaIInv, NEW c \in Clients, at[c] \in {"reconcile", "poll"},
         NEW g \in 1..latest, Obtains(c, g), UNCHANGED <<due, made, job, file>>
  PROVE  Good
  <1>0. ApplyType /\ AnswerInv /\ CallInv /\ KeyInv /\ DpTypeOK /\ FewKeys
    BY DEF CaIInv, ApplyInv, IInv
  <1>1. Deploy(c, g) /\ at' = [at EXCEPT ![c] = "deploying"] /\ mem' = mem
    BY DEF Obtains, Continue
  <1>2. /\ pc' = [pc EXCEPT ![c] = "lock"] /\ gen' = [gen EXCEPT ![c] = g]
        /\ UNCHANGED <<latest, prev, report>>
    BY <1>1 DEF Deploy, Goto
  <1>3. [DpNext]_dpVars
    BY <1>1 DEF DpNext
  <1>4. ApplyType' /\ KeyInv'
    BY <1>0, <1>1 DEF ApplyType, KeyInv
  <1>5. AnswerInv'
    BY <1>0, <1>2, AnswersKept
  <1>6. CallInv'
    BY <1>0, <1>1, <1>2 DEF CallInv, ApplyType, DpTypeOK
  <1>7. Used' \subseteq Used
    BY <1>1 DEF Used
  <1> QED
    BY <1>0, <1>3, <1>4, <1>5, <1>6, <1>7, NoNewKey DEF Good, ApplyInv

(* reconcileV2. *)
LEMMA ReconcileGood ==
  ASSUME CaIInv, NEW c \in Clients, Reconcile(c)
  PROVE  Good
  <1>1. at[c] = "reconcile" /\ UNCHANGED <<due, made, file>>
    BY DEF Reconcile
  <1>2. /\ mem \in [Clients -> ClientState] /\ mem[c] \in ClientState /\ file.key # None
        /\ mem[c].key \in Keys
    BY <1>1 DEF CaIInv, ApplyInv, ApplyType, KeyInv
  <1>3. CASE /\ job[mem[c].key] \in {"none", "queued"}
             /\ job' = [job EXCEPT ![mem[c].key] = "queued"]
             /\ Continue(c, "poll")
             /\ UNCHANGED <<dpVars, mem>>
    <2>1. mem' = [mem EXCEPT ![c] = mem[c]] /\ at' = [at EXCEPT ![c] = "poll"]
      BY <1>2, <1>3 DEF Continue
    <2> QED
      BY <1>1, <1>2, <1>3, <2>1, MoveGood
  <1>4. CASE Ends(c) /\ UNCHANGED <<dpVars, job>>
    BY <1>1, <1>4, EndsGood
  <1>5. CASE job[mem[c].key] = "succeeded" /\ Obtains(c, latest) /\ UNCHANGED job
    <2>1. latest \in 1..latest
      BY <1>2, <1>5 DEF CaIInv, IInv, DpTypeOK, ApplyInv, AnswerInv, None
    <2> QED
      BY <1>1, <1>5, <2>1, ObtainsGood
  <1> QED
    BY <1>3, <1>4, <1>5 DEF Reconcile

(* pollJobV2. *)
LEMMA PollGood ==
  ASSUME CaIInv, NEW c \in Clients, Poll(c)
  PROVE  Good
  <1>1. at[c] = "poll" /\ UNCHANGED <<due, made, job, file>>
    BY DEF Poll, server
  <1>2. mem[c].key \in Keys
    BY <1>1 DEF CaIInv, ApplyInv, KeyInv
  <1>3. CASE made[mem[c].key] # None /\ Obtains(c, made[mem[c].key])
    <2>1. made[mem[c].key] \in 1..latest
      BY <1>2, <1>3 DEF CaIInv, IInv, DpTypeOK, ApplyInv, AnswerInv, None
    <2> QED
      BY <1>1, <1>3, <2>1, ObtainsGood
  <1>4. CASE Ends(c) /\ UNCHANGED dpVars
    BY <1>1, <1>4, EndsGood
  <1> QED
    BY <1>3, <1>4 DEF Poll

(* A step of DeployGeneration touches no other call, and a call that returned    *)
(* left nothing behind.                                                          *)
LEMMA DeployStepEffect ==
  ASSUME DpTypeOK, NEW c \in Clients, DeployStep(c)
  PROVE  /\ pc[c] # "idle" /\ latest' = latest
         /\ \A d \in Clients : d # c => /\ pc'[d] = pc[d] /\ gen'[d] = gen[d]
                                       /\ prev'[d] = prev[d] /\ report'[d] = report[d]
         /\ pc'[c] # "idle"
         /\ pc'[c] = "done" => gen'[c] = None /\ prev'[c] = None
  <1> USE DEF DpTypeOK, Goto, disk, own, marks
  <1>r. ASSUME NEW s, NEW v, NEW l, Returns(c, s, v, l)
        PROVE  /\ \A d \in Clients : d # c => /\ pc'[d] = pc[d] /\ gen'[d] = gen[d]
                                             /\ prev'[d] = prev[d] /\ report'[d] = report[d]
               /\ pc'[c] # "idle" /\ gen'[c] = None /\ prev'[c] = None
    BY <1>r DEF Returns
  <1>1. CASE Lock(c)
    <2>1. CASE current = gen[c]
      BY <1>r, <1>1, <2>1 DEF Lock
    <2>2. CASE current # gen[c]
      BY <1>1, <2>2 DEF Lock
    <2> QED
      BY <2>1, <2>2
  <1>2. CASE StageFails(c) \/ SwitchFails(c) \/ VerifyFails(c)
    BY <1>r, <1>2 DEF StageFails, SwitchFails, VerifyFails, Fails
  <1>3. CASE Reload(c)
    BY <1>r, <1>3 DEF Reload
  <1>4. CASE RenameRelease(c) \/ SwitchCurrent(c) \/ VerifyOk(c)
    BY <1>4 DEF RenameRelease, SwitchCurrent, VerifyOk
  <1> QED
    BY <1>1, <1>2, <1>3, <1>4 DEF DeployStep, SectionStep

(* DeployGeneration goes on inside a run. *)
LEMMA DeploysGood ==
  ASSUME CaIInv, NEW c \in Clients, Deploys(c)
  PROVE  Good
  <1>0. ApplyType /\ AnswerInv /\ CallInv /\ KeyInv /\ DpTypeOK /\ FewKeys
    BY DEF CaIInv, ApplyInv, IInv
  <1>1. DeployStep(c) /\ UNCHANGED <<due, job, made, file, at, mem>>
    BY DEF Deploys, server
  <1>2. [DpNext]_dpVars
    BY <1>1 DEF DpNext
  <1>3. ApplyType' /\ KeyInv'
    BY <1>0, <1>1 DEF ApplyType, KeyInv
  <1>4. AnswerInv'
    BY <1>0, <1>1, DeployStepEffect, AnswersKept
  <1>5. CallInv'
    BY <1>0, <1>1, DeployStepEffect DEF CallInv
  <1>6. Used' \subseteq Used
    BY <1>1 DEF Used
  <1> QED
    BY <1>0, <1>2, <1>3, <1>4, <1>5, <1>6, NoNewKey DEF Good, ApplyInv

(* The report reaches the run. *)
LEMMA TakeReportGood ==
  ASSUME CaIInv, NEW c \in Clients, TakeReport(c)
  PROVE  Good
  <1>0. ApplyType /\ AnswerInv /\ CallInv /\ KeyInv /\ DpTypeOK /\ FewKeys
    BY DEF CaIInv, ApplyInv, IInv
  <1>1. /\ Taken(c) /\ at' = [at EXCEPT ![c] = "report"]
        /\ UNCHANGED <<due, job, made, file>>
    BY DEF TakeReport, Continue, server
  <1> DEFINE m == [mem[c] EXCEPT !.report = report[c]]
  <1>2. m \in ClientState /\ m.key = mem[c].key
    BY <1>0 DEF ApplyType, ClientState, DpTypeOK
  <1>3. mem' = [mem EXCEPT ![c] = m]
    BY DEF TakeReport
  <1> HIDE DEF m
  <1>4. pc[c] = "done" /\ at[c] = "deploying"
    BY <1>0, <1>1 DEF Taken, CallInv
  <1>5. /\ pc' = [pc EXCEPT ![c] = "idle"] /\ report' = [report EXCEPT ![c] = NoReport]
        /\ UNCHANGED <<latest, gen, prev>>
    BY <1>1 DEF Taken, Goto
  <1>6. [DpNext]_dpVars
    BY <1>1 DEF DpNext
  <1>7. ApplyType'
    BY <1>0, <1>1, <1>2, <1>3 DEF ApplyType
  <1>8. KeyInv'
    BY <1>0, <1>1, <1>2, <1>3, <1>4 DEF KeyInv, ApplyType
  <1>9. AnswerInv'
    BY <1>0, <1>1, <1>5, AnswersKept
  <1>10. CallInv'
    BY <1>0, <1>1, <1>4, <1>5 DEF CallInv, ApplyType, DpTypeOK
  <1>11. Used' \subseteq Used
    BY <1>0, <1>1, <1>2, <1>3 DEF Used, ApplyType
  <1> QED
    BY <1>0, <1>6, <1>7, <1>8, <1>9, <1>10, <1>11, NoNewKey DEF Good, ApplyInv

(* The last two saves, whose errors are ignored. *)
LEMMA LastSavesGood ==
  ASSUME CaIInv, NEW c \in Clients, SaveReport(c) \/ SaveSent(c)
  PROVE  Good
  <1>0. ApplyType /\ AnswerInv /\ CallInv /\ KeyInv /\ DpTypeOK /\ FewKeys
    BY DEF CaIInv, ApplyInv, IInv
  <1>1. PICK p \in {"send", "idle"}, m \in {mem[c], NoState} :
          /\ at' = [at EXCEPT ![c] = p] /\ mem' = [mem EXCEPT ![c] = m]
          /\ p = "send" => m = mem[c]
    BY <1>0 DEF SaveReport, SaveSent, Continue, Ends, ApplyType
  <1>2. /\ at[c] \in {"report", "sent"} /\ UNCHANGED <<due, job, made>> /\ SavedOrNot(c)
    BY DEF SaveReport, SaveSent, server
  <1>3. /\ file' \in {file, mem[c]} /\ [DpNext]_dpVars
        /\ UNCHANGED <<latest, pc, gen, prev, report>>
    <2>1. CASE file' = mem[c] /\ UNCHANGED dpVars
      BY <2>1 DEF dpVars
    <2>2. CASE Fault /\ UNCHANGED <<file, latest, disk, lock, pc, own, marks>>
      <3>1. Killed(c)
        BY <1>2, <2>2, LostSaveIsAKill DEF disk, own, marks
      <3> QED
        BY <2>2, <3>1 DEF DpNext, own
    <2> QED
      BY <1>2, <2>1, <2>2 DEF SavedOrNot
  <1>4. /\ NoState \in ClientState /\ NoState.key = None
        /\ mem[c] \in ClientState /\ mem[c].key \in Keys /\ file.key # None
    BY <1>0, <1>2 DEF NoState, ClientState, ApplyType, KeyInv
  <1>5. ApplyType'
    BY <1>0, <1>1, <1>2, <1>3, <1>4 DEF ApplyType
  <1>6. KeyInv'
    <2>1. file'.key # None
      BY <1>3, <1>4 DEF Keys, None
    <2> QED
      BY <1>0, <1>1, <1>2, <1>4, <2>1 DEF KeyInv, ApplyType
  <1>7. AnswerInv'
    BY <1>0, <1>2, <1>3, AnswersKept
  <1>8. CallInv'
    BY <1>0, <1>1, <1>2, <1>3 DEF CallInv, ApplyType
  <1>9. Used' \subseteq Used
    BY <1>0, <1>1, <1>2, <1>3, <1>4 DEF Used, ApplyType, Keys, None
  <1> QED
    BY <1>0, <1>3, <1>5, <1>6, <1>7, <1>8, <1>9, NoNewKey DEF Good, ApplyInv

(* A run is killed, inside DeployGeneration or outside. *)
LEMMA ApplyKilledGood ==
  ASSUME CaIInv, NEW c \in Clients, ApplyKilled(c)
  PROVE  Good
  <1>0. ApplyType /\ AnswerInv /\ CallInv /\ KeyInv /\ DpTypeOK /\ FewKeys
    BY DEF CaIInv, ApplyInv, IInv
  <1>1. /\ Killed(c) /\ at' = [at EXCEPT ![c] = "idle"] /\ mem' = [mem EXCEPT ![c] = NoState]
        /\ UNCHANGED <<due, job, made, file>>
    BY DEF ApplyKilled, Ends, Continue, server
  <1>2. /\ pc' = [pc EXCEPT ![c] = "idle"] /\ report' = [report EXCEPT ![c] = NoReport]
        /\ gen' = [gen EXCEPT ![c] = None] /\ prev' = [prev EXCEPT ![c] = None]
        /\ latest' = latest
    BY <1>1 DEF Killed, Goto
  <1>3. NoState \in ClientState /\ NoState.key = None
    BY DEF NoState, ClientState
  <1>4. [DpNext]_dpVars
    BY <1>1 DEF DpNext
  <1>5. ApplyType' /\ KeyInv'
    BY <1>0, <1>1, <1>3 DEF ApplyType, KeyInv
  <1>6. AnswerInv'
    BY <1>0, <1>1, <1>2, AnswersKept
  <1>7. CallInv'
    BY <1>0, <1>1, <1>2 DEF CallInv, ApplyType, DpTypeOK
  <1>8. Used' \subseteq Used
    BY <1>0, <1>1, <1>3 DEF Used, ApplyType, Keys, None
  <1> QED
    BY <1>0, <1>4, <1>5, <1>6, <1>7, <1>8, NoNewKey DEF Good, ApplyInv

-----------------------------------------------------------------------------
(* Every step of a run, of the server or of time is Good, and Deployment's own   *)
(* invariant follows from its proofs.                                            *)
LEMMA NextCaIInv ==
  ASSUME CaIInv, [CaNext]_caVars
  PROVE  CaIInv' /\ [DpNext]_dpVars
  <1>1. ASSUME NEW c \in Clients, ApplyStep(c) PROVE Good
    BY <1>1, SaveStateGood, ResendGood, ReconcileGood, PollGood, ApplyFailsGood, DeploysGood,
       TakeReportGood, LastSavesGood, SendGood DEF ApplyStep
  <1>2. ASSUME NEW c \in Clients, Begin(c) \/ ApplyKilled(c) PROVE Good
    BY <1>2, BeginGood, ApplyKilledGood
  <1>3. ASSUME (\E k \in Keys : WorkerEnds(k)) \/ OthersPublish \/ Expire PROVE Good
    BY <1>3, ServerGood
  <1>4. ASSUME UNCHANGED caVars PROVE Good
    <2>1. UNCHANGED dpVars /\ UNCHANGED <<due, job, made, file, at, mem>>
      BY <1>4 DEF caVars
    <2>2. ApplyInv'
      BY <2>1 DEF CaIInv, ApplyInv, ApplyType, AnswerInv, CallInv, KeyInv, dpVars
    <2>3. FewKeys'
      BY <2>1 DEF CaIInv, FewKeys, Used
    <2> QED
      BY <2>1, <2>2, <2>3 DEF Good
  <1>5. Good
    BY <1>1, <1>2, <1>3, <1>4 DEF CaNext
  <1>6. IInv'
    BY <1>5, NextIInv DEF CaIInv, Good
  <1> QED
    BY <1>5, <1>6 DEF CaIInv, Good

(* The invariant holds in every reachable state of ClientApply. *)
THEOREM ApplyInvariance == CaSpec => []CaIInv
  <1>1. CaIInv /\ [CaNext]_caVars => CaIInv'
    BY NextCaIInv
  <1> QED
    BY <1>1, InitCaIInv, PTL DEF CaSpec

(* Types of a run, its state file and the answers it acts on. *)
THEOREM ApplyTypeCorrect == CaSpec => []CaTypeOK
  <1>1. CaIInv => CaTypeOK
    BY DEF CaIInv, ApplyInv, ApplyType, CaTypeOK, IInv
  <1> QED
    BY <1>1, ApplyInvariance, PTL

(* However often runs fail, are killed and start again, the server sees no more  *)
(* idempotency keys than there can be runs at a time.                            *)
THEOREM RetriesReuseKeys == CaSpec => []KeysAreReused
  <1>1. ASSUME CaIInv PROVE KeysAreReused
    <2> DEFINE J == {k \in Keys : job[k] # "none"}
    <2>1. J \in SUBSET Used
      BY DEF Used
    <2>2. /\ IsFiniteSet(J) /\ Cardinality(J) <= Cardinality(Used)
      BY <2>1, UsedFinite, FS_Subset
    <2>3. /\ Cardinality(J) \in Nat /\ Cardinality(Used) \in Nat /\ Cardinality(Clients) \in Nat
      BY <2>2, UsedFinite, FS_CardinalityType
    <2> QED
      BY <1>1, <2>2, <2>3 DEF CaIInv, FewKeys, KeysAreReused
  <1> QED
    BY <1>1, ApplyInvariance, PTL

(* Apply runs use DeployGeneration as Deployment says: every step of a run, of   *)
(* the server or of the network is a step of Deployment or a stutter of it.      *)
THEOREM DeploymentIsImplemented == CaSpec => ImplementsDeployment
  <1>1. CaInit => DpInit
    BY DEF CaInit
  <1>2. CaIInv /\ [CaNext]_caVars => [DpNext]_dpVars
    BY NextCaIInv
  <1> QED
    BY <1>1, <1>2, ApplyInvariance, PTL DEF CaSpec, ImplementsDeployment

(* What DeploymentProofs shows of DeployGeneration holds of whole apply runs:    *)
(* isolation, a verified certificate in use and true reports.                    *)
THEOREM ApplyRunsDeploySafely ==
  CaSpec => [](SectionIsIsolated /\ CurrentWasVerified /\ ReportIsTrue)
  <1>1. CaIInv => SectionIsIsolated /\ CurrentWasVerified /\ ReportIsTrue
    BY InvIsolated DEF CaIInv, IInv
  <1> QED
    BY <1>1, ApplyInvariance, PTL
=============================================================================
