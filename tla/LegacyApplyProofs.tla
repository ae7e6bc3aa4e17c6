------------------------- MODULE LegacyApplyProofs -------------------------
(***************************************************************************)
(* Proofs about AcmeRunner and LegacyApply, for any runners, processes and *)
(* bounds.                                                                 *)
(*                                                                         *)
(* The file lock makes the v1 applications take turns (LockInv), so a      *)
(* home that changes between the two files of an installation was changed  *)
(* by somebody without the lock, and the installation is marked (LiveOK).  *)
(* A run of the v1 client is described file by file (ClientOK): those      *)
(* before its position are as listed, those after it as it found them, and *)
(* what it moved aside is in the backups.                                  *)
(***************************************************************************)
EXTENDS LegacyApply, TLAPS

OpRec == [at : {"idle", "run", "install", "rescan", "done"}, kind : Kind, err : Err,
          todo : SUBSET File, clean : BOOLEAN, wrote : BOOLEAN]

AppRec == [at : {"idle", "waits", "issues", "lists"}, save : BOOLEAN,
           forClient : BOOLEAN, list : [File -> 0..MaxIssued], i : 1..2]

ClientRec == [at : {"idle", "awaits", "fetches", "downloads", "verifies"},
              list : [File -> 0..MaxIssued], i : 1..3, baks : SUBSET File,
              before : [File -> 0..Torn], runs : 0..MaxRuns,
              out : {"none", "refused", "stuck", "rolledBack", "killed", "done"}]

(* What an operation still has to install, and what it confessed. *)
OpOK(o) ==
    /\ o.at = "run" /\ Installs(o.kind) => o.todo = File
    /\ o.at = "install" => o.todo # {} /\ Installs(o.kind)
    /\ o.wrote => residue
    /\ o.at = "done" /\ o.wrote => o.err = "residue"

Busy(o) == o.at \notin {"idle", "done"} /\ Isolates(o.kind)

OpInv == (\A r \in Runner : OpOK(op[r])) /\ temp = {r \in Runner : Busy(op[r])}

PairMatches == live["key"] = live["fullchain"]

(* An installation under way has copied what the home holds, or was disturbed. *)
LiveOK(o) ==
    IF o.todo = File THEN ~broken => PairMatches
                     ELSE o.clean => \A f \in File \ o.todo : live[f] = held

Installing(r) == op[r].at = "install"

LiveInv == LivePairMatches /\ \A r \in Locked : Installing(r) => LiveOK(op[r])

(* Only the holder of the lock runs acme.sh for v1. *)
LockInv ==
    \A h \in Locked : /\ op[h].at = "idle" <=> app[h].at # "issues"
                      /\ app[h].at = "issues" => lock = h

Past(i) == CASE i = 1 -> {} [] i = 2 -> {"key"} [] OTHER -> File

(* A file that the run has not touched, has moved aside, or did not find. *)
Kept(c, f) == IF f \in c.baks THEN cbak[f] = c.before[f]
              ELSE c.before[f] # 0 => cdir[f] = c.before[f]

AsFound(c, f) == cdir[f] = c.before[f] /\ f \notin c.baks

ClientOK(c) ==
    /\ c.at = "awaits" => cdir = c.before /\ c.i = 1 /\ c.baks = {}
    /\ c.at \in {"fetches", "downloads", "verifies"} =>
         /\ \A f \in File : Kept(c, f)
         /\ \A f \in Past(c.i) : c.list[f] # 0 => cdir[f] = c.list[f]
    /\ c.at = "fetches" => c.i \in 1..2 /\ \A f \in File \ Past(c.i) : AsFound(c, f)
    /\ c.at = "downloads" =>
         /\ c.i \in 1..2 /\ \A f \in File \ Past(c.i + 1) : AsFound(c, f)
         /\ c.before[Listed[c.i]] = 0 \/ Listed[c.i] \in c.baks
    /\ c.at = "verifies" => c.i = 3

AcInv == AcTypeOK /\ OpInv /\ LiveInv

AppType ==
    /\ lock \in Locked \cup {Nobody} /\ preset \in BOOLEAN /\ calls \in 0..MaxCalls
    /\ app \in [Locked -> AppRec]

ClientType == cdir \in [File -> 0..Torn] /\ cbak \in [File -> 0..Torn] /\ cl \in ClientRec

ClientInv == ClientType /\ ClientOK(cl) /\ ClientIsWholeOrOld

LaInv == AcInv /\ AppType /\ LockInv /\ ClientInv

(* Nobody begins or ends an operation. *)
SameIdle == \A q \in Runner : op'[q].at = "idle" <=> op[q].at = "idle"

(* No v1 application other than r is installing. *)
Alone(r) == r \in Locked => \A q \in Locked : Installing(q) => q = r

-----------------------------------------------------------------------------
(* One operation moves; it is not and was not writing into the live directory. *)
LEMMA QuietOp ==
  ASSUME AcInv, NEW r \in Runner, NEW o \in OpRec, op' = [op EXCEPT ![r] = o], OpOK(o),
         o.at # "install", r \in Locked => op[r].at # "install",
         temp' = IF Busy(o) THEN temp \cup {r} ELSE temp \ {r},
         UNCHANGED <<held, issued, live, residue, broken, orphan, kills>>
  PROVE  AcInv'
  <1>1. op \in [Runner -> OpRec] /\ temp \subseteq Runner
    BY DEF AcInv, AcTypeOK, OpRec
  <1>2. /\ op' \in [Runner -> OpRec] /\ op'[r] = o
        /\ \A q \in Runner : q # r => op'[q] = op[q]
    BY <1>1
  <1>3. temp' \subseteq Runner
    BY <1>1
  <1>4. AcTypeOK'
    BY <1>2, <1>3 DEF AcInv, AcTypeOK, OpRec
  <1>5. OpInv'
    <2>1. ASSUME NEW q \in Runner PROVE OpOK(op[q])'
      BY <1>2 DEF AcInv, OpInv, OpOK
    <2>2. ASSUME NEW q \in Runner PROVE q \in temp' <=> Busy(op'[q])
      <3>1. q # r => (q \in temp' <=> q \in temp)
        OBVIOUS
      <3>2. q \in temp <=> Busy(op[q])
        BY DEF AcInv, OpInv
      <3> QED
        BY <1>2, <3>1, <3>2
    <2> QED
      BY <1>3, <2>1, <2>2 DEF OpInv, Busy
  <1>6. ASSUME NEW q \in Locked PROVE Installing(q)' <=> Installing(q)
    BY <1>2 DEF Installing, Runner
  <1>7. LivePairMatches'
    BY <1>6 DEF AcInv, LiveInv, LivePairMatches, Installing
  <1>8. ASSUME NEW q \in Locked, Installing(q)' PROVE LiveOK(op[q])'
    <2>1. q # r /\ q \in Runner /\ op'[q] = op[q]
      BY <1>2, <1>6, <1>8 DEF Installing, Runner
    <2>2. LiveOK(op[q])
      BY <1>6, <1>8 DEF AcInv, LiveInv
    <2> QED
      BY <2>1, <2>2 DEF LiveOK, PairMatches
  <1> QED
    BY <1>4, <1>5, <1>7, <1>8 DEF AcInv, LiveInv

(* withIsolatedConfig begins, or refuses before the first command. *)
LEMMA BeginGood ==
  ASSUME AcInv, NEW r \in Runner, NEW k \in Kind, op[r].at = "idle", Begin(r, k),
         UNCHANGED <<held, issued, live, residue, broken, orphan, kills>>
  PROVE  /\ AcInv' /\ op'[r].at # "idle" /\ \A q \in Runner : q # r => op'[q] = op[q]
  <1>1. PICK e \in IF Found THEN {"residue"} ELSE {"none", "canceled"} :
          /\ op' = [op EXCEPT ![r] = [Idle EXCEPT !.at = IF e = "none" THEN "run" ELSE "done",
                                                  !.kind = k, !.err = e,
                                                  !.todo = IF Installs(k) THEN File ELSE {}]]
          /\ temp' = IF e = "none" /\ Isolates(k) THEN temp \cup {r} ELSE temp
    BY DEF Begin
  <1> DEFINE o == [Idle EXCEPT !.at = IF e = "none" THEN "run" ELSE "done",
                               !.kind = k, !.err = e,
                               !.todo = IF Installs(k) THEN File ELSE {}]
  <1>2. e \in {"residue", "none", "canceled"}
    BY <1>1
  <1>3. /\ o.at = (IF e = "none" THEN "run" ELSE "done") /\ o.kind = k /\ o.err = e
        /\ o.todo = (IF Installs(k) THEN File ELSE {}) /\ o.clean = TRUE /\ o.wrote = FALSE
        /\ o \in OpRec
    BY <1>2 DEF Idle, OpRec, Err, Kind
  <1> HIDE DEF o
  <1>4. op' = [op EXCEPT ![r] = o]
    BY <1>1 DEF o
  <1>5. OpOK(o) /\ o.at # "install" /\ o.at # "idle"
    BY <1>3 DEF OpOK
  <1>6. r \notin temp
    BY DEF AcInv, OpInv, Busy
  <1>7. temp' = IF Busy(o) THEN temp \cup {r} ELSE temp \ {r}
    BY <1>1, <1>3, <1>6 DEF Busy
  <1>8. op \in [Runner -> OpRec]
    BY DEF AcInv, AcTypeOK, OpRec
  <1>9. AcInv'
    BY <1>3, <1>4, <1>5, <1>7, QuietOp
  <1> QED
    BY <1>4, <1>5, <1>8, <1>9

(* The result of an operation is taken. *)
LEMMA CollectGood ==
  ASSUME AcInv, NEW r \in Runner, op[r].at = "done", op' = [op EXCEPT ![r] = Idle],
         UNCHANGED <<held, issued, live, residue, broken, temp, orphan, kills>>
  PROVE  /\ AcInv' /\ op'[r].at = "idle" /\ \A q \in Runner : q # r => op'[q] = op[q]
  <1>1. Idle \in OpRec /\ Idle.at = "idle" /\ Idle.wrote = FALSE
    BY DEF Idle, OpRec, Kind, Err
  <1>2. OpOK(Idle) /\ ~Busy(Idle)
    BY <1>1 DEF OpOK, Busy
  <1>3. r \notin temp
    BY DEF AcInv, OpInv, Busy
  <1>4. op \in [Runner -> OpRec]
    BY DEF AcInv, AcTypeOK, OpRec
  <1>5. AcInv'
    BY <1>1, <1>2, <1>3, QuietOp
  <1> QED
    BY <1>1, <1>4, <1>5

(* The second scan; an installation into a staging directory. *)
LEMMA ScanAfterGood ==
  ASSUME AcInv, NEW r \in Runner, ScanAfter(r) \/ StageFiles(r)
  PROVE  AcInv' /\ SameIdle
  <1>1. op \in [Runner -> OpRec] /\ op[r] \in OpRec /\ OpOK(op[r])
    BY DEF AcInv, AcTypeOK, OpRec, OpInv
  <1>2. UNCHANGED <<held, issued, live, residue, broken, orphan, kills>>
    BY DEF ScanAfter, StageFiles, homeVars
  <1>3. CASE ScanAfter(r)
    <2> DEFINE o == [op[r] EXCEPT !.at = "done", !.err = IF residue THEN "residue" ELSE @]
    <2>1. op[r].at = "rescan" /\ op' = [op EXCEPT ![r] = o] /\ temp' = temp \ {r}
      BY <1>3, Zenon DEF ScanAfter, Found
    <2>2. /\ o \in OpRec /\ o.at = "done" /\ o.wrote = op[r].wrote
          /\ o.err = (IF residue THEN "residue" ELSE op[r].err)
      BY <1>1 DEF OpRec, Err
    <2> HIDE DEF o
    <2>3. OpOK(o) /\ ~Busy(o)
      BY <1>1, <2>2 DEF OpOK, Busy
    <2>4. AcInv'
      BY <1>2, <2>1, <2>2, <2>3, QuietOp
    <2> QED
      BY <1>1, <2>1, <2>2, <2>4 DEF SameIdle
  <1>4. CASE StageFiles(r)
    <2>1. PICK e \in Ends : op' = [op EXCEPT ![r] = Leaves(op[r], e)]
      BY <1>4 DEF StageFiles
    <2>2. op[r].at = "install" /\ r \in Free /\ temp' = temp
      BY <1>4 DEF StageFiles
    <2> DEFINE o == Leaves(op[r], e)
    <2>3. /\ o \in OpRec /\ o.at = "rescan" /\ o.wrote = op[r].wrote /\ o.kind = op[r].kind
      BY <1>1 DEF OpRec, Leaves, Ends, Err
    <2> HIDE DEF o
    <2>4. op' = [op EXCEPT ![r] = o]
      BY <2>1 DEF o
    <2>5. OpOK(o) /\ (Busy(o) <=> Busy(op[r]))
      BY <1>1, <2>2, <2>3 DEF OpOK, Busy
    <2>6. (r \in temp <=> Busy(op[r])) /\ r \notin Locked
      BY <2>2, RunnerAssumption DEF AcInv, OpInv
    <2>7. temp' = IF Busy(o) THEN temp \cup {r} ELSE temp \ {r}
      BY <2>2, <2>5, <2>6
    <2>8. AcInv'
      BY <1>2, <2>3, <2>4, <2>5, <2>6, <2>7, QuietOp
    <2> QED
      BY <1>1, <2>2, <2>3, <2>4, <2>8 DEF SameIdle
  <1> QED
    BY <1>3, <1>4

-----------------------------------------------------------------------------
(* Nothing but the mark of an installation that is between two files. *)
Marked(o, d) ==
    /\ d.at = o.at /\ d.kind = o.kind /\ d.err = o.err /\ d.todo = o.todo /\ d.wrote = o.wrote
    /\ d.clean => o.clean /\ ~(o.at = "install" /\ o.todo # File)

(* The home changes while installations are under way. *)
LEMMA DisturbedMarks ==
  ASSUME op \in [Runner -> OpRec]
  PROVE  /\ Disturbed(op) \in [Runner -> OpRec]
         /\ \A q \in Runner : Marked(op[q], Disturbed(op)[q])
  <1>1. ASSUME NEW q \in Runner
        PROVE  /\ Disturbed(op)[q] \in OpRec /\ Marked(op[q], Disturbed(op)[q])
    <2>1. op[q] \in OpRec
      OBVIOUS
    <2> DEFINE d == [op[q] EXCEPT !.clean = FALSE]
    <2>2. /\ d \in OpRec /\ d.at = op[q].at /\ d.kind = op[q].kind /\ d.err = op[q].err
          /\ d.todo = op[q].todo /\ d.wrote = op[q].wrote /\ d.clean = FALSE
      BY <2>1 DEF OpRec
    <2> HIDE DEF d
    <2>3. Disturbed(op)[q] = IF op[q].at = "install" /\ op[q].todo # File THEN d ELSE op[q]
      BY DEF Disturbed, d
    <2>4. CASE op[q].at = "install" /\ op[q].todo # File
      BY <2>2, <2>3, <2>4 DEF Marked
    <2>5. CASE ~(op[q].at = "install" /\ op[q].todo # File)
      BY <2>1, <2>3, <2>5 DEF Marked
    <2> QED
      BY <2>4, <2>5
  <1>2. Disturbed(op) \in [Runner -> OpRec]
    <2>1. DOMAIN Disturbed(op) = Runner /\ Disturbed(op) = [q \in Runner |-> Disturbed(op)[q]]
      BY DEF Disturbed
    <2> QED
      BY <1>1, <2>1
  <1> QED
    BY <1>1, <1>2

(* A version is issued or removed: whoever is between two files is marked, or   *)
(* the lock keeps everybody else from installing.                               *)
LEMMA HomeChanges ==
  ASSUME AcInv, op' \in [Runner -> OpRec], UNCHANGED <<live, broken, temp, kills>>,
         held' \in 0..MaxIssued, issued' \in 0..MaxIssued, residue' \in BOOLEAN,
         orphan' \in [Runner -> [at : {"idle", "run", "install"}, todo : SUBSET File]],
         \A q \in Runner : OpOK(op[q])' /\ (Busy(op[q]) <=> Busy(op'[q])),
         \/ \A q \in Locked : Marked(op[q], op'[q]) \/ (op'[q] = op[q] /\ held' = held)
         \/ \A q \in Locked : ~Installing(q) /\ (Installing(q)' => op'[q].todo = File)
  PROVE  AcInv'
  <1>1. AcTypeOK'
    BY DEF AcInv, AcTypeOK, OpRec
  <1>2. OpInv'
    <2>1. temp' = {r \in Runner : Busy(op'[r])}
      BY DEF AcInv, OpInv
    <2> QED
      BY <2>1 DEF OpInv, Busy
  <1>3. CASE \A q \in Locked : Marked(op[q], op'[q]) \/ (op'[q] = op[q] /\ held' = held)
    <2>1. ASSUME NEW q \in Locked PROVE op'[q].at = op[q].at
      BY <1>3 DEF Marked
    <2>2. LivePairMatches'
      BY <2>1 DEF AcInv, LiveInv, LivePairMatches
    <2>3. ASSUME NEW q \in Locked, Installing(q)' PROVE LiveOK(op[q])'
      <3>1. Installing(q) /\ LiveOK(op[q])
        BY <2>1, <2>3 DEF AcInv, LiveInv, Installing
      <3>2. CASE op'[q] = op[q] /\ held' = held
        BY <3>1, <3>2 DEF LiveOK, PairMatches
      <3>3. CASE Marked(op[q], op'[q])
        <4>1. op'[q].todo = op[q].todo /\ (op'[q].todo # File => ~op'[q].clean)
          BY <3>1, <3>3 DEF Marked, Installing
        <4> QED
          BY <3>1, <4>1 DEF LiveOK, PairMatches
      <3> QED
        BY <1>3, <3>2, <3>3
    <2> QED
      BY <1>1, <1>2, <2>2, <2>3 DEF AcInv, LiveInv
  <1>4. CASE \A q \in Locked : ~Installing(q) /\ (Installing(q)' => op'[q].todo = File)
    <2>1. ~broken => PairMatches
      BY <1>4 DEF AcInv, LiveInv, LivePairMatches, PairMatches, Installing
    <2>2. LivePairMatches' /\ \A q \in Locked : Installing(q)' => LiveOK(op[q])'
      BY <1>4, <2>1 DEF LivePairMatches, PairMatches, LiveOK
    <2> QED
      BY <1>1, <1>2, <2>2 DEF AcInv, LiveInv
  <1> QED
    BY <1>3, <1>4

(* A command ran: the home and the persistent directories may have changed. *)
LEMMA RunGood ==
  ASSUME AcInv, NEW r \in Runner, Run(r), Alone(r)
  PROVE  AcInv' /\ SameIdle
  <1>1. op \in [Runner -> OpRec] /\ op[r] \in OpRec /\ OpOK(op[r]) /\ op[r].at = "run"
    BY DEF AcInv, AcTypeOK, OpRec, OpInv, Run
  <1>2. PICK out \in Outcome(op[r].kind), w \in BOOLEAN :
         LET o == IF Proceeds(op[r].kind, out)
                  THEN [op[r] EXCEPT !.at = "install"]
                  ELSE Leaves(op[r], ErrOf(out))
         IN /\ w => Installs(op[r].kind) /\ ~residue
            /\ HomeAfter(op[r].kind, out)
            /\ residue' = (residue \/ w)
            /\ op' = [(IF r \in Free /\ held' # held THEN Disturbed(op) ELSE op)
                      EXCEPT ![r] = [o EXCEPT !.wrote = w]]
    BY DEF Run
  <1> DEFINE i == [op[r] EXCEPT !.at = "install"]
             l == Leaves(op[r], ErrOf(out))
             oi == [i EXCEPT !.wrote = w]
             ol == [l EXCEPT !.wrote = w]
             o == IF Proceeds(op[r].kind, out) THEN oi ELSE ol
  <1>3. /\ HomeAfter(op[r].kind, out) /\ residue' = (residue \/ w)
        /\ op' = [(IF r \in Free /\ held' # held THEN Disturbed(op) ELSE op) EXCEPT ![r] = o]
    BY <1>2
  <1>4. ErrOf(out) \in Err
    BY DEF ErrOf, Err
  <1>5. /\ oi \in OpRec /\ oi.at = "install" /\ oi.kind = op[r].kind /\ oi.todo = op[r].todo
        /\ oi.wrote = w
    BY <1>1 DEF OpRec
  <1>6. ol \in OpRec /\ ol.at = "rescan" /\ ol.kind = op[r].kind /\ ol.wrote = w
    BY <1>1, <1>4 DEF OpRec, Leaves
  <1> HIDE DEF oi, ol
  <1>7. Proceeds(op[r].kind, out) => Installs(op[r].kind)
    BY DEF Proceeds, Installs
  <1>8. /\ o \in OpRec /\ o.at \in {"install", "rescan"} /\ o.kind = op[r].kind /\ o.wrote = w
        /\ o.at = "install" => o.todo = File /\ Installs(o.kind)
    BY <1>1, <1>5, <1>6, <1>7 DEF OpOK
  <1> HIDE DEF o
  <1> DEFINE D == IF r \in Free /\ held' # held THEN Disturbed(op) ELSE op
  <1>9. /\ D \in [Runner -> OpRec]
        /\ \A q \in Runner : \/ Marked(op[q], D[q])
                             \/ D[q] = op[q] /\ (r \in Free => held' = held)
    BY <1>1, DisturbedMarks
  <1> HIDE DEF D
  <1>10. op' = [D EXCEPT ![r] = o]
    BY <1>3 DEF D
  <1>11. /\ op' \in [Runner -> OpRec] /\ op'[r] = o
         /\ \A q \in Runner : q # r => op'[q] = D[q]
    BY <1>8, <1>9, <1>10
  <1>12. residue' \in BOOLEAN /\ (residue => residue') /\ (w => residue')
    BY <1>3 DEF AcInv, AcTypeOK
  <1>13. held' \in 0..MaxIssued /\ issued' \in 0..MaxIssued
    <2>1. held \in 0..MaxIssued /\ issued \in 0..MaxIssued
      BY DEF AcInv, AcTypeOK
    <2>2. out \in {"succeeded", "canceledLate"} /\ Installs(op[r].kind) => issued < MaxIssued
      BY DEF Outcome
    <2> QED
      BY <1>3, <2>1, <2>2, RunnerAssumption DEF HomeAfter, NewVersion
  <1>14. ASSUME NEW q \in Runner PROVE OpOK(op[q])' /\ (Busy(op[q]) <=> Busy(op'[q]))
    <2>1. CASE q = r
      <3>1. /\ op'[r].at \in {"install", "rescan"} /\ (op'[r].wrote => residue')
            /\ op'[r].at = "install" => op'[r].todo = File /\ Installs(op'[r].kind)
        BY <1>8, <1>11, <1>12
      <3>2. File # {}
        BY DEF File
      <3>3. OpOK(op[r])'
        BY <3>1, <3>2 DEF OpOK, Installs
      <3> QED
        BY <1>1, <1>8, <1>11, <2>1, <3>3 DEF Busy
    <2>2. CASE q # r
      <3>1. op'[q] = D[q] /\ OpOK(op[q])
        BY <1>11, <2>2 DEF AcInv, OpInv
      <3>2. CASE Marked(op[q], D[q])
        BY <1>12, <3>1, <3>2 DEF OpOK, Busy, Marked
      <3>3. CASE D[q] = op[q]
        BY <1>12, <3>1, <3>3 DEF OpOK
      <3> QED
        BY <1>9, <3>2, <3>3
    <2> QED
      BY <2>1, <2>2
  <1>15. \/ \A q \in Locked : Marked(op[q], op'[q]) \/ (op'[q] = op[q] /\ held' = held)
         \/ \A q \in Locked : ~Installing(q) /\ (Installing(q)' => op'[q].todo = File)
    <2>1. CASE r \in Locked
      <3>1. ASSUME NEW q \in Locked PROVE ~Installing(q)
        BY <1>1, <2>1 DEF Alone, Installing
      <3>2. ASSUME NEW q \in Locked, Installing(q)' PROVE op'[q].todo = File
        <4>1. q \in Runner /\ r \notin Free
          BY <2>1, RunnerAssumption DEF Runner
        <4>2. CASE q = r
          BY <1>8, <1>11, <3>2, <4>2 DEF Installing
        <4>3. CASE q # r
          BY <1>9, <1>11, <3>1, <3>2, <4>1, <4>3 DEF Installing, Marked
        <4> QED
          BY <4>2, <4>3
      <3> QED
        BY <3>1, <3>2
    <2>2. CASE r \notin Locked
      <3>1. r \in Free
        BY <2>2 DEF Runner
      <3> QED
        BY <1>9, <1>11, <2>2, <3>1 DEF Runner
    <2> QED
      BY <2>1, <2>2
  <1>16. /\ UNCHANGED <<live, broken, temp, kills>>
         /\ orphan' \in [Runner -> [at : {"idle", "run", "install"}, todo : SUBSET File]]
    BY DEF Run, AcInv, AcTypeOK
  <1>17. AcInv'
    BY <1>11, <1>12, <1>13, <1>14, <1>15, <1>16, HomeChanges
  <1>18. SameIdle
    BY <1>1, <1>8, <1>9, <1>11 DEF SameIdle, Marked
  <1> QED
    BY <1>17, <1>18

-----------------------------------------------------------------------------
(* The operation of r, alone in the live directory, goes on or ends there. *)
LEMMA LiveStep ==
  ASSUME AcInv, NEW r \in Locked, NEW o \in OpRec, op' = [op EXCEPT ![r] = o], OpOK(o),
         Installing(r), Alone(r), o.at \in {"install", "rescan"}, o.kind = op[r].kind,
         live' \in [File -> 0..MaxIssued], broken' \in BOOLEAN,
         UNCHANGED <<held, issued, residue, temp, orphan, kills>>,
         IF o.at = "install" THEN LiveOK(o)' ELSE ~broken' => PairMatches'
  PROVE  AcInv' /\ SameIdle
  <1>1. op \in [Runner -> OpRec] /\ r \in Runner
    BY DEF AcInv, AcTypeOK, OpRec, Runner
  <1>2. /\ op' \in [Runner -> OpRec] /\ op'[r] = o
        /\ \A q \in Runner : q # r => op'[q] = op[q]
    BY <1>1
  <1>3. AcTypeOK'
    BY <1>2 DEF AcInv, AcTypeOK, OpRec
  <1>4. Busy(o) <=> Busy(op[r])
    BY DEF Busy, Installing
  <1>5. OpInv'
    <2>1. ASSUME NEW q \in Runner PROVE OpOK(op[q])'
      BY <1>2 DEF AcInv, OpInv, OpOK
    <2>2. ASSUME NEW q \in Runner PROVE q \in temp' <=> Busy(op'[q])
      BY <1>2, <1>4 DEF AcInv, OpInv
    <2>3. temp' \subseteq Runner
      BY <1>3 DEF AcTypeOK
    <2> QED
      BY <2>1, <2>2, <2>3 DEF OpInv, Busy
  <1>6. ASSUME NEW q \in Locked, Installing(q)' PROVE q = r
    BY <1>2, <1>6 DEF Alone, Installing, Runner
  <1>7. LivePairMatches'
    BY <1>2 DEF LivePairMatches, PairMatches
  <1>8. ASSUME NEW q \in Locked, Installing(q)' PROVE LiveOK(op[q])'
    BY <1>2, <1>6, <1>8 DEF Installing, LiveOK, PairMatches
  <1>9. SameIdle
    BY <1>2 DEF SameIdle, Installing
  <1> QED
    BY <1>3, <1>5, <1>7, <1>8, <1>9 DEF AcInv, LiveInv

(* --install-cert copies a file. *)
LEMMA InstallFileGood ==
  ASSUME AcInv, NEW r \in Runner, InstallFile(r), Alone(r)
  PROVE  AcInv' /\ SameIdle
  <1>1. /\ op[r].at = "install" /\ r \in Locked /\ op[r] \in OpRec /\ OpOK(op[r])
        /\ held \in 0..MaxIssued /\ live \in [File -> 0..MaxIssued] /\ LiveOK(op[r])
        /\ broken \in BOOLEAN
    BY DEF InstallFile, AcInv, AcTypeOK, OpRec, OpInv, LiveInv, Installing
  <1>2. PICK f \in op[r].todo :
         LET o == [op[r] EXCEPT !.todo = @ \ {f}]
         IN /\ live' = [live EXCEPT ![f] = held]
            /\ IF o.todo # {}
               THEN op' = [op EXCEPT ![r] = o] /\ UNCHANGED broken
               ELSE /\ \E e \in Ends : op' = [op EXCEPT ![r] = Leaves(o, e)]
                    /\ broken' = ~o.clean
    BY DEF InstallFile
  <1>3. PICK o : o = [op[r] EXCEPT !.todo = @ \ {f}]
    OBVIOUS
  <1>4. /\ o \in OpRec /\ o.at = "install" /\ o.kind = op[r].kind /\ o.todo = op[r].todo \ {f}
        /\ o.clean = op[r].clean /\ o.wrote = op[r].wrote /\ f \in File
    BY <1>1, <1>3 DEF OpRec
  <1>5. /\ live' = [live EXCEPT ![f] = held]
        /\ o.todo # {} => op' = [op EXCEPT ![r] = o] /\ UNCHANGED broken
        /\ o.todo = {} => (\E e \in Ends : op' = [op EXCEPT ![r] = Leaves(o, e)]) /\ broken' = ~o.clean
    BY <1>2, <1>3
  <1>6. /\ live' \in [File -> 0..MaxIssued] /\ live'[f] = held
        /\ \A g \in File : g # f => live'[g] = live[g]
    BY <1>1, <1>4, <1>5
  <1>7. /\ UNCHANGED <<held, issued, residue, temp, orphan, kills>> /\ Installing(r)
    BY <1>1 DEF InstallFile, Installing
  <1>8. o.clean => \A g \in File \ o.todo : live'[g] = held
    <2> SUFFICES ASSUME o.clean, NEW g \in File \ o.todo, g # f PROVE live'[g] = held
      BY <1>6
    <2>1. g \notin op[r].todo /\ op[r].todo # File
      BY <1>4
    <2>2. live[g] = held
      BY <1>1, <1>4, <2>1 DEF LiveOK
    <2> QED
      BY <1>6, <2>2
  <1>9. CASE o.todo # {}
    <2>1. OpOK(o)
      BY <1>1, <1>4, <1>9 DEF OpOK
    <2>2. o.todo # File
      BY <1>4
    <2>3. LiveOK(o)'
      BY <1>7, <1>8, <2>2 DEF LiveOK
    <2>4. op' = [op EXCEPT ![r] = o] /\ broken' \in BOOLEAN
      BY <1>1, <1>5, <1>9
    <2> QED
      BY <1>1, <1>4, <1>6, <1>7, <2>1, <2>3, <2>4, LiveStep
  <1>10. CASE o.todo = {}
    <2>1. PICK e \in Ends : op' = [op EXCEPT ![r] = Leaves(o, e)]
      BY <1>5, <1>10
    <2> DEFINE l == Leaves(o, e)
    <2>2. l \in OpRec /\ l.at = "rescan" /\ l.kind = op[r].kind /\ l.wrote = op[r].wrote
      BY <1>4 DEF OpRec, Leaves, Ends, Err
    <2> HIDE DEF l
    <2>3. op' = [op EXCEPT ![r] = l]
      BY <2>1 DEF l
    <2>4. broken' = ~o.clean
      BY <1>5, <1>10
    <2>5. o.clean \in BOOLEAN
      BY <1>4 DEF OpRec
    <2>6. OpOK(l)
      BY <1>1, <2>2 DEF OpOK
    <2>7. ~broken' => PairMatches'
      <3>1. "key" \in File \ o.todo /\ "fullchain" \in File \ o.todo
        BY <1>10 DEF File
      <3>2. o.clean => PairMatches'
        BY <1>8, <3>1 DEF PairMatches
      <3> QED
        BY <2>4, <2>5, <3>2
    <2>8. broken' \in BOOLEAN
      BY <2>4, <2>5
    <2> QED
      BY <1>1, <1>6, <1>7, <2>2, <2>3, <2>6, <2>7, <2>8, LiveStep
  <1> QED
    BY <1>9, <1>10

(* The copying stops. *)
LEMMA InstallStopsGood ==
  ASSUME AcInv, NEW r \in Runner, InstallStops(r), Alone(r)
  PROVE  AcInv' /\ SameIdle
  <1>1. /\ op[r].at = "install" /\ r \in Locked /\ op[r] \in OpRec /\ OpOK(op[r])
        /\ live \in [File -> 0..MaxIssued] /\ LiveOK(op[r]) /\ broken \in BOOLEAN
    BY DEF InstallStops, AcInv, AcTypeOK, OpRec, OpInv, LiveInv, Installing
  <1>2. /\ UNCHANGED <<held, issued, live, residue, temp, orphan, kills>> /\ Installing(r)
        /\ broken' = (broken \/ Between(r))
    BY <1>1 DEF InstallStops, Installing
  <1>3. PICK e \in {"failed", "canceled"} : op' = [op EXCEPT ![r] = Leaves(op[r], e)]
    BY DEF InstallStops
  <1> DEFINE l == Leaves(op[r], e)
  <1>4. l \in OpRec /\ l.at = "rescan" /\ l.kind = op[r].kind /\ l.wrote = op[r].wrote
    BY <1>1 DEF OpRec, Leaves, Err
  <1> HIDE DEF l
  <1>5. op' = [op EXCEPT ![r] = l]
    BY <1>3 DEF l
  <1>6. OpOK(l)
    BY <1>1, <1>4 DEF OpOK
  <1>7. broken' \in BOOLEAN /\ live' \in [File -> 0..MaxIssued]
    BY <1>1, <1>2 DEF Between
  <1>8. ~broken' => PairMatches'
    BY <1>1, <1>2 DEF Between, LiveOK, PairMatches
  <1> QED
    BY <1>1, <1>2, <1>4, <1>5, <1>6, <1>7, <1>8, LiveStep

-----------------------------------------------------------------------------
OrphanRec == [at : {"idle", "run", "install"}, todo : SUBSET File]

(* The operator removes a credential: nobody has left one any more. *)
LEMMA CleanResidueGood ==
  ASSUME AcInv, CleanResidue
  PROVE  AcInv' /\ SameIdle
  <1>1. /\ residue' = FALSE /\ op' = [r \in Runner |-> [op[r] EXCEPT !.wrote = FALSE]]
        /\ UNCHANGED <<held, issued, live, broken, temp, orphan, kills>>
    BY DEF CleanResidue
  <1>2. ASSUME NEW q \in Runner
        PROVE  /\ op'[q] \in OpRec /\ op'[q].at = op[q].at /\ op'[q].kind = op[q].kind
               /\ op'[q].todo = op[q].todo /\ op'[q].wrote = FALSE /\ op'[q].clean = op[q].clean
               /\ OpOK(op[q])
    <2>1. op[q] \in OpRec /\ OpOK(op[q])
      BY DEF AcInv, AcTypeOK, OpRec, OpInv
    <2>2. op'[q] = [op[q] EXCEPT !.wrote = FALSE]
      BY <1>1
    <2> QED
      BY <2>1, <2>2 DEF OpRec
  <1>3. op' \in [Runner -> OpRec]
    BY <1>1, <1>2
  <1>4. AcTypeOK'
    BY <1>1, <1>3 DEF AcInv, AcTypeOK, OpRec
  <1>5. ASSUME NEW q \in Runner PROVE OpOK(op[q])' /\ (Busy(op'[q]) <=> Busy(op[q]))
    BY <1>2 DEF OpOK, Busy
  <1>6. OpInv'
    <2>1. temp' = {r \in Runner : Busy(op'[r])}
      BY <1>1, <1>5 DEF AcInv, OpInv
    <2> QED
      BY <1>5, <2>1 DEF OpInv, Busy
  <1>7. LiveInv'
    <2>1. ASSUME NEW q \in Locked
          PROVE  /\ op'[q].at = op[q].at /\ op'[q].todo = op[q].todo /\ op'[q].clean = op[q].clean
      BY <1>2 DEF Runner
    <2>2. LivePairMatches'
      BY <1>1, <2>1 DEF AcInv, LiveInv, LivePairMatches
    <2>3. ASSUME NEW q \in Locked, Installing(q)' PROVE LiveOK(op[q])'
      BY <1>1, <2>1, <2>3 DEF AcInv, LiveInv, Installing, LiveOK, PairMatches
    <2> QED
      BY <2>2, <2>3 DEF LiveInv
  <1>8. SameIdle
    BY <1>2 DEF SameIdle
  <1> QED
    BY <1>4, <1>6, <1>7, <1>8 DEF AcInv

(* A process is killed: an installation that it was at counts as cut. *)
LEMMA KilledGood ==
  ASSUME AcInv, NEW P \in Process, Killed(P)
  PROVE  AcInv' /\ \A q \in Runner : op'[q] = IF q \in P THEN Idle ELSE op[q]
  <1>1. /\ kills < MaxKills /\ kills' = kills + 1
        /\ orphan' = [r \in Runner |-> IF r \in P THEN Child(r) ELSE orphan[r]]
        /\ broken' = (broken \/ \E r \in P \cap Locked : op[r].at = "install")
        /\ op' = [r \in Runner |-> IF r \in P THEN Idle ELSE op[r]]
        /\ temp' = temp \ P
        /\ UNCHANGED <<held, issued, live, residue>>
    BY DEF Killed
  <1>2. Idle \in OpRec /\ Idle.at = "idle" /\ Idle.wrote = FALSE
    BY DEF Idle, OpRec, Kind, Err
  <1>3. op \in [Runner -> OpRec] /\ temp \subseteq Runner /\ broken \in BOOLEAN
        /\ orphan \in [Runner -> OrphanRec] /\ kills \in 0..MaxKills
    BY DEF AcInv, AcTypeOK, OpRec, OrphanRec
  <1>4. \A q \in Runner : op'[q] = IF q \in P THEN Idle ELSE op[q]
    BY <1>1
  <1>5. op' \in [Runner -> OpRec]
    BY <1>1, <1>2, <1>3
  <1>6. orphan' \in [Runner -> OrphanRec]
    <2>1. ASSUME NEW r \in Runner PROVE Child(r) \in OrphanRec
      <3>1. op[r] \in OpRec
        BY <1>3
      <3> QED
        BY <3>1 DEF Child, NoChild, OrphanRec, OpRec
    <2> QED
      BY <1>1, <1>3, <2>1
  <1>7. broken' \in BOOLEAN /\ (broken => broken')
    BY <1>1, <1>3
  <1>8. kills' \in 0..MaxKills
    BY <1>1, <1>3, RunnerAssumption
  <1>9. AcTypeOK'
    BY <1>1, <1>3, <1>5, <1>6, <1>7, <1>8 DEF AcInv, AcTypeOK, OpRec, OrphanRec
  <1>10. OpInv'
    <2>1. ASSUME NEW q \in Runner PROVE OpOK(op[q])'
      BY <1>1, <1>2, <1>4 DEF AcInv, OpInv, OpOK
    <2>2. ASSUME NEW q \in Runner PROVE q \in temp' <=> Busy(op'[q])
      <3>1. q \in temp <=> Busy(op[q])
        BY DEF AcInv, OpInv
      <3>2. ~Busy(Idle)
        BY <1>2 DEF Busy
      <3> QED
        BY <1>1, <1>4, <3>1, <3>2
    <2> QED
      BY <1>1, <1>3, <2>1, <2>2 DEF OpInv, Busy
  <1>11. ASSUME NEW q \in Locked, Installing(q)' PROVE Installing(q) /\ op'[q] = op[q]
    BY <1>2, <1>4, <1>11 DEF Installing, Runner
  <1>12. LivePairMatches'
    <2> SUFFICES ASSUME ~broken', \A r \in Locked : op'[r].at # "install"
                 PROVE  live'["key"] = live'["fullchain"]
      BY DEF LivePairMatches
    <2>1. ASSUME NEW r \in Locked PROVE op[r].at # "install"
      <3>1. CASE r \in P
        BY <1>1, <3>1
      <3>2. CASE r \notin P
        BY <1>4, <3>2 DEF Runner
      <3> QED
        BY <3>1, <3>2
    <2> QED
      BY <1>1, <1>7, <2>1 DEF AcInv, LiveInv, LivePairMatches
  <1>13. ASSUME NEW q \in Locked, Installing(q)' PROVE LiveOK(op[q])'
    <2>1. LiveOK(op[q]) /\ op'[q] = op[q]
      BY <1>11, <1>13 DEF AcInv, LiveInv
    <2> QED
      BY <1>1, <1>7, <2>1 DEF LiveOK, PairMatches
  <1> QED
    BY <1>4, <1>9, <1>10, <1>12, <1>13 DEF AcInv, LiveInv

(* A command without a parent issues: who installs meanwhile is marked. *)
LEMMA OrphanRunsGood ==
  ASSUME AcInv, NEW r \in Runner, OrphanRuns(r)
  PROVE  AcInv' /\ SameIdle
  <1>1. /\ orphan' = [orphan EXCEPT ![r] = NoChild]
        /\ \/ issued < MaxIssued /\ NewVersion /\ op' = Disturbed(op)
           \/ UNCHANGED <<held, issued, op>>
        /\ UNCHANGED <<live, residue, broken, temp, kills>>
    BY DEF OrphanRuns
  <1>2. /\ op \in [Runner -> OpRec] /\ orphan \in [Runner -> OrphanRec]
        /\ held \in 0..MaxIssued /\ issued \in 0..MaxIssued /\ residue \in BOOLEAN
    BY DEF AcInv, AcTypeOK, OpRec, OrphanRec
  <1>3. NoChild \in OrphanRec
    BY DEF NoChild, OrphanRec
  <1>4. orphan' \in [Runner -> OrphanRec]
    BY <1>1, <1>2, <1>3
  <1>5. held' \in 0..MaxIssued /\ issued' \in 0..MaxIssued
    BY <1>1, <1>2, RunnerAssumption DEF NewVersion
  <1>6. /\ op' \in [Runner -> OpRec]
        /\ \/ \A q \in Runner : Marked(op[q], op'[q])
           \/ op' = op /\ held' = held
    BY <1>1, <1>2, DisturbedMarks
  <1>7. residue' = residue /\ residue' \in BOOLEAN
    BY <1>1, <1>2
  <1>8. ASSUME NEW q \in Runner
        PROVE  /\ OpOK(op[q])' /\ (Busy(op[q]) <=> Busy(op'[q]))
               /\ op'[q].at = op[q].at
    <2>1. OpOK(op[q])
      BY DEF AcInv, OpInv
    <2>2. CASE Marked(op[q], op'[q])
      BY <1>7, <2>1, <2>2 DEF OpOK, Busy, Marked
    <2>3. CASE op' = op
      BY <1>7, <2>1, <2>3 DEF OpOK
    <2> QED
      BY <1>6, <2>2, <2>3
  <1>9. \A q \in Locked : Marked(op[q], op'[q]) \/ (op'[q] = op[q] /\ held' = held)
    BY <1>6 DEF Runner
  <1>10. AcInv'
    BY <1>1, <1>4, <1>5, <1>6, <1>7, <1>8, <1>9, HomeChanges DEF OrphanRec
  <1> QED
    BY <1>8, <1>10 DEF SameIdle

(* A command without a parent copies a file. *)
LEMMA OrphanInstallsGood ==
  ASSUME AcInv, NEW r \in Runner, OrphanInstalls(r)
  PROVE  AcInv' /\ SameIdle
  <1>1. PICK f \in orphan[r].todo :
          LET left == orphan[r].todo \ {f}
          IN /\ orphan' = [orphan EXCEPT ![r] =
                             IF left = {} THEN NoChild ELSE [@ EXCEPT !.todo = left]]
             /\ live' = [live EXCEPT ![f] = held]
             /\ broken' = TRUE
    BY DEF OrphanInstalls
  <1>2. UNCHANGED <<held, issued, residue, op, temp, kills>>
    BY DEF OrphanInstalls
  <1>3. orphan \in [Runner -> OrphanRec] /\ live \in [File -> 0..MaxIssued] /\ held \in 0..MaxIssued
    BY DEF AcInv, AcTypeOK, OrphanRec
  <1> DEFINE c == [orphan[r] EXCEPT !.todo = orphan[r].todo \ {f}]
  <1>4. c \in OrphanRec /\ NoChild \in OrphanRec /\ f \in File
    BY <1>3 DEF NoChild, OrphanRec
  <1> HIDE DEF c
  <1>5. orphan' = [orphan EXCEPT ![r] = IF orphan[r].todo \ {f} = {} THEN NoChild ELSE c]
    BY <1>1 DEF c
  <1>6. orphan' \in [Runner -> OrphanRec]
    BY <1>3, <1>4, <1>5
  <1>7. /\ live' \in [File -> 0..MaxIssued] /\ live'[f] = held
        /\ \A g \in File : g # f => live'[g] = live[g]
    BY <1>1, <1>3, <1>4
  <1>8. broken' = TRUE
    BY <1>1
  <1>9. AcTypeOK'
    BY <1>2, <1>6, <1>7, <1>8 DEF AcInv, AcTypeOK, OrphanRec
  <1>10. OpInv'
    BY <1>2 DEF AcInv, OpInv, OpOK, Busy
  <1>11. LivePairMatches'
    BY <1>8 DEF LivePairMatches
  <1>12. ASSUME NEW q \in Locked, Installing(q)' PROVE LiveOK(op[q])'
    <2>1. LiveOK(op[q]) /\ op'[q] = op[q] /\ held' = held
      BY <1>2, <1>12 DEF AcInv, LiveInv, Installing
    <2> QED
      BY <1>7, <1>8, <2>1 DEF LiveOK
  <1>13. SameIdle
    BY <1>2 DEF SameIdle
  <1> QED
    BY <1>9, <1>10, <1>11, <1>12, <1>13 DEF AcInv, LiveInv

-----------------------------------------------------------------------------
(* Nothing happens to acme.sh, or only the number of kills changes. *)
LEMMA AcIdle ==
  ASSUME AcInv, UNCHANGED <<held, issued, live, residue, broken, op, temp, orphan>>,
         kills' \in 0..MaxKills
  PROVE  AcInv'
  <1>1. AcTypeOK'
    BY DEF AcInv, AcTypeOK
  <1>2. OpInv'
    BY DEF AcInv, OpInv, OpOK, Busy
  <1>3. LiveInv'
    BY DEF AcInv, LiveInv, LivePairMatches, Installing, LiveOK, PairMatches
  <1> QED
    BY <1>1, <1>2, <1>3 DEF AcInv

(* Nothing happens to the client. *)
LEMMA ClientIdle ==
  ASSUME ClientInv, UNCHANGED <<cdir, cbak, cl>>
  PROVE  ClientInv'
  <1>1. ClientType'
    BY DEF ClientInv, ClientType
  <1>2. ClientOK(cl)' /\ ClientIsWholeOrOld'
    BY DEF ClientInv, ClientOK, ClientIsWholeOrOld, Kept, AsFound
  <1> QED
    BY <1>1, <1>2 DEF ClientInv

(* The client asks. *)
LEMMA ClientAsks ==
  ASSUME ClientInv, cl.runs < MaxRuns, UNCHANGED <<cdir, cbak>>,
         cl' = [NoRun EXCEPT !.at = "awaits", !.before = cdir, !.runs = cl.runs + 1]
  PROVE  ClientInv'
  <1>1. NoFiles \in [File -> 0..MaxIssued]
    BY RunnerAssumption DEF NoFiles
  <1>2. cl.runs + 1 \in 0..MaxRuns /\ cdir \in [File -> 0..Torn]
    BY LegacyAssumption DEF ClientInv, ClientType, ClientRec
  <1>3. PICK n : n = cl.runs + 1 /\ n \in 0..MaxRuns
    BY <1>2
  <1> DEFINE c == [at |-> "awaits", list |-> NoFiles, i |-> 1, baks |-> {}, before |-> cdir,
                   out |-> "none", runs |-> n]
  <1>4. c \in ClientRec /\ c.at = "awaits" /\ c.before = cdir /\ c.i = 1 /\ c.baks = {}
    BY <1>1, <1>2, <1>3 DEF ClientRec
  <1> HIDE DEF c
  <1>5. cl' = c
    BY <1>3 DEF NoRun, c
  <1>6. ClientType'
    BY <1>4, <1>5 DEF ClientInv, ClientType
  <1>7. ClientOK(cl)' /\ ClientIsWholeOrOld'
    BY <1>4, <1>5 DEF ClientOK, ClientIsWholeOrOld
  <1> QED
    BY <1>6, <1>7 DEF ClientInv

(* It is refused, or gives up: it has not touched a file. *)
LEMMA ClientRefused ==
  ASSUME ClientInv, cl.at = "awaits", cl' = Refusal, UNCHANGED <<cdir, cbak>>
  PROVE  ClientInv'
  <1>1. cl \in ClientRec /\ cdir = cl.before
    BY DEF ClientInv, ClientType, ClientOK
  <1>2. cl' \in ClientRec /\ cl'.at = "idle" /\ cl'.out = "refused" /\ cl'.before = cdir
    BY <1>1 DEF Refusal, ClientRec
  <1>3. ClientType'
    BY <1>2 DEF ClientInv, ClientType
  <1>4. ClientOK(cl)' /\ ClientIsWholeOrOld'
    BY <1>2 DEF ClientOK, ClientIsWholeOrOld
  <1> QED
    BY <1>3, <1>4 DEF ClientInv

(* It gets the listing. *)
LEMMA ClientAnswered ==
  ASSUME ClientInv, cl.at = "awaits", NEW L \in [File -> 0..MaxIssued],
         cl' = [cl EXCEPT !.at = "fetches", !.list = L], UNCHANGED <<cdir, cbak>>
  PROVE  ClientInv'
  <1>1. cl \in ClientRec /\ cdir = cl.before /\ cl.i = 1 /\ cl.baks = {}
    BY DEF ClientInv, ClientType, ClientOK
  <1>2. /\ cl' \in ClientRec /\ cl'.at = "fetches" /\ cl'.before = cdir
        /\ cl'.i = 1 /\ cl'.baks = {}
    BY <1>1 DEF ClientRec
  <1>3. ClientType'
    BY <1>2 DEF ClientInv, ClientType
  <1>4. ClientOK(cl)'
    <2>1. \A f \in File : Kept(cl, f)' /\ AsFound(cl, f)'
      BY <1>2 DEF Kept, AsFound
    <2>2. Past(1) = {}
      BY DEF Past
    <2> QED
      BY <1>2, <2>1, <2>2 DEF ClientOK
  <1>5. ClientIsWholeOrOld'
    BY <1>2 DEF ClientIsWholeOrOld
  <1> QED
    BY <1>3, <1>4, <1>5 DEF ClientInv

-----------------------------------------------------------------------------
(* A v1 application moves; it takes the lock when it is free, or drops it. *)
LEMMA AppMoves ==
  ASSUME LaInv, NEW h \in Locked, NEW a \in AppRec, app' = [app EXCEPT ![h] = a],
         AcInv', ClientInv', preset' \in BOOLEAN, calls' \in 0..MaxCalls,
         \A q \in Runner : q # h => op'[q] = op[q],
         op'[h].at = "idle" <=> a.at # "issues",
         a.at = "issues" => lock' = h,
         \/ lock' = lock
         \/ lock = Nobody /\ lock' = h
         \/ lock = h /\ lock' = Nobody
  PROVE  LaInv'
  <1>1. app \in [Locked -> AppRec] /\ Nobody \notin Locked
    BY LegacyAssumption DEF LaInv, AppType
  <1>2. app'[h] = a /\ \A q \in Locked : q # h => app'[q] = app[q] /\ op'[q] = op[q]
    BY <1>1 DEF Runner
  <1>3. AppType'
    BY <1>1 DEF LaInv, AppType
  <1>4. LockInv'
    <2>1. ASSUME NEW q \in Locked
          PROVE  /\ op'[q].at = "idle" <=> app'[q].at # "issues"
                 /\ app'[q].at = "issues" => lock' = q
      <3>1. CASE q = h
        BY <1>2, <3>1
      <3>2. CASE q # h
        BY <1>1, <1>2, <3>2 DEF LaInv, LockInv
      <3> QED
        BY <3>1, <3>2
    <2> QED
      BY <2>1 DEF LockInv
  <1> QED
    BY <1>3, <1>4 DEF LaInv

(* What an application that has ended leaves. *)
LEMMA NotAskedFields ==
  /\ NotAsked \in AppRec /\ NotAsked.at = "idle" /\ NotAsked.i = 1
  <1>1. NoFiles \in [File -> 0..MaxIssued]
    BY RunnerAssumption DEF NoFiles
  <1> QED
    BY <1>1 DEF NotAsked, AppRec

(* service.Apply decides. *)
LEMMA ApplyGood ==
  ASSUME LaInv, NEW h \in Locked, NEW forClient \in BOOLEAN, Apply(h, forClient)
  PROVE  LaInv'
  <1>1. PICK pushed \in BOOLEAN, due \in BOOLEAN :
          app' = [app EXCEPT ![h] = [NotAsked EXCEPT !.at = IF due THEN "waits" ELSE "lists",
                                                     !.save = pushed /\ ~preset,
                                                     !.forClient = forClient]]
    BY DEF Apply
  <1> DEFINE a == [NotAsked EXCEPT !.at = IF due THEN "waits" ELSE "lists",
                                   !.save = pushed /\ ~preset, !.forClient = forClient]
  <1>2. (pushed /\ ~preset) \in BOOLEAN
    OBVIOUS
  <1>3. a \in AppRec /\ a.at \in {"waits", "lists"}
    BY <1>2, NotAskedFields DEF AppRec
  <1> HIDE DEF a
  <1>4. app' = [app EXCEPT ![h] = a]
    BY <1>1 DEF a
  <1>5. /\ app[h].at = "idle" /\ calls < MaxCalls /\ calls' = calls + 1
        /\ UNCHANGED <<held, issued, live, residue, broken, op, temp, orphan, kills>>
        /\ UNCHANGED <<lock, preset, cdir, cbak>>
    BY DEF Apply, Called, acVars, homeVars
  <1>6. AcInv'
    BY <1>5, AcIdle DEF LaInv, AcInv, AcTypeOK
  <1>7. ClientInv'
    <2>1. CASE forClient
      BY <1>5, <2>1, ClientAsks DEF Apply, LaInv
    <2>2. CASE ~forClient
      BY <1>5, <2>2, ClientIdle DEF Apply, LaInv
    <2> QED
      BY <2>1, <2>2
  <1>8. preset' \in BOOLEAN /\ calls' \in 0..MaxCalls
    BY <1>5, LegacyAssumption DEF LaInv, AppType
  <1>9. op'[h].at = "idle" <=> a.at # "issues"
    BY <1>3, <1>5 DEF LaInv, LockInv
  <1> QED
    BY <1>3, <1>4, <1>5, <1>6, <1>7, <1>8, <1>9, AppMoves

(* The lock is taken and acme.sh started. *)
LEMMA LocksGood ==
  ASSUME LaInv, NEW h \in Locked, Locks(h)
  PROVE  LaInv'
  <1>1. /\ app[h].at = "waits" /\ lock = Nobody /\ lock' = h
        /\ app' = [app EXCEPT ![h].at = "issues"] /\ Begin(h, "issue")
        /\ UNCHANGED <<held, issued, live, residue, broken, orphan, kills>>
        /\ UNCHANGED <<preset, calls, cdir, cbak, cl>>
    BY DEF Locks, homeVars, clVars
  <1>2. app[h] \in AppRec /\ h \in Runner /\ op[h].at = "idle" /\ "issue" \in Kind
    BY <1>1 DEF LaInv, AppType, LockInv, Runner, Kind
  <1>3. AcInv' /\ op'[h].at # "idle" /\ \A q \in Runner : q # h => op'[q] = op[q]
    BY <1>1, <1>2, BeginGood DEF LaInv
  <1> DEFINE a == [app[h] EXCEPT !.at = "issues"]
  <1>4. a \in AppRec /\ a.at = "issues" /\ app' = [app EXCEPT ![h] = a]
    BY <1>1, <1>2 DEF AppRec
  <1> HIDE DEF a
  <1>5. ClientInv'
    BY <1>1, ClientIdle DEF LaInv
  <1>6. preset' \in BOOLEAN /\ calls' \in 0..MaxCalls
    BY <1>1 DEF LaInv, AppType
  <1> QED
    BY <1>1, <1>3, <1>4, <1>5, <1>6, AppMoves

(* The client, if it still waits, is refused. *)
LEMMA RefusalGood ==
  ASSUME ClientInv, NEW h, cl' = Answers(h, Refusal), UNCHANGED <<cdir, cbak>>
  PROVE  ClientInv'
  BY ClientIdle, ClientRefused DEF Answers

(* The application ends with an error. *)
LEMMA FailsGood ==
  ASSUME LaInv, NEW h \in Locked, Fails(h)
  PROVE  LaInv'
  <1>1. /\ app' = [app EXCEPT ![h] = NotAsked] /\ lock' = Unlocks(h)
        /\ cl' = Answers(h, Refusal)
        /\ UNCHANGED <<held, issued, live, residue, broken, temp, orphan, kills>>
        /\ UNCHANGED <<preset, calls, cdir, cbak>>
    BY DEF Fails, homeVars
  <1>2. h \in Runner
    BY DEF Runner
  <1>3. AcInv' /\ op'[h].at = "idle" /\ \A q \in Runner : q # h => op'[q] = op[q]
    <2>1. CASE app[h].at = "waits" /\ op' = op
      <3>1. op[h].at = "idle"
        BY <2>1 DEF LaInv, LockInv
      <3>2. kills' \in 0..MaxKills
        BY <1>1 DEF LaInv, AcInv, AcTypeOK
      <3>3. AcInv'
        BY <1>1, <2>1, <3>2, AcIdle DEF LaInv
      <3> QED
        BY <2>1, <3>1, <3>3
    <2>2. CASE op[h].at = "done" /\ op' = [op EXCEPT ![h] = Idle]
      BY <1>1, <1>2, <2>2, CollectGood DEF LaInv
    <2> QED
      BY <2>1, <2>2 DEF Fails
  <1>4. ClientInv'
    BY <1>1, RefusalGood DEF LaInv
  <1>5. preset' \in BOOLEAN /\ calls' \in 0..MaxCalls
    BY <1>1 DEF LaInv, AppType
  <1>6. lock' = lock \/ (lock = h /\ lock' = Nobody)
    BY <1>1 DEF Unlocks
  <1> QED
    BY <1>1, <1>3, <1>4, <1>5, <1>6, NotAskedFields, AppMoves

(* acme.sh has ended without an error. *)
LEMMA IssuedGood ==
  ASSUME LaInv, NEW h \in Locked, Issued(h)
  PROVE  LaInv'
  <1>1. /\ app[h].at = "issues" /\ op[h].at = "done" /\ op' = [op EXCEPT ![h] = Idle]
        /\ UNCHANGED <<held, issued, live, residue, broken, temp, orphan, kills>>
        /\ UNCHANGED <<calls, cdir, cbak>>
    BY DEF Issued, homeVars
  <1>2. AcInv' /\ op'[h].at = "idle" /\ \A q \in Runner : q # h => op'[q] = op[q]
    BY <1>1, CollectGood DEF LaInv, Runner
  <1>3. app[h] \in AppRec /\ calls' \in 0..MaxCalls
    BY <1>1 DEF LaInv, AppType
  <1>4. CASE /\ app' = [app EXCEPT ![h].at = "lists"]
             /\ preset' = (preset \/ app[h].save)
             /\ UNCHANGED <<lock, cl>>
    <2> DEFINE a == [app[h] EXCEPT !.at = "lists"]
    <2>1. a \in AppRec /\ a.at = "lists" /\ app' = [app EXCEPT ![h] = a]
      BY <1>3, <1>4 DEF AppRec
    <2> HIDE DEF a
    <2>2. preset' \in BOOLEAN
      BY <1>4
    <2>3. ClientInv'
      BY <1>1, <1>4, ClientIdle DEF LaInv
    <2> QED
      BY <1>2, <1>3, <1>4, <2>1, <2>2, <2>3, AppMoves
  <1>5. CASE /\ app' = [app EXCEPT ![h] = NotAsked]
             /\ lock' = Unlocks(h)
             /\ cl' = Answers(h, Refusal)
             /\ UNCHANGED preset
    <2>1. ClientInv' /\ preset' \in BOOLEAN
      BY <1>1, <1>5, RefusalGood DEF LaInv, AppType
    <2>2. lock' = lock \/ (lock = h /\ lock' = Nobody)
      BY <1>5 DEF Unlocks
    <2> QED
      BY <1>2, <1>3, <1>5, <2>1, <2>2, NotAskedFields, AppMoves
  <1> QED
    BY <1>4, <1>5 DEF Issued

(* scanCertFiles. *)
LEMMA ListsGood ==
  ASSUME LaInv, NEW h \in Locked, Lists(h)
  PROVE  LaInv'
  <1>1. /\ app[h].at = "lists"
        /\ UNCHANGED <<held, issued, live, residue, broken, op, temp, orphan, kills>>
        /\ UNCHANGED <<preset, calls, cdir, cbak>>
    BY DEF Lists, acVars, homeVars
  <1>2. /\ app[h] \in AppRec /\ preset' \in BOOLEAN /\ calls' \in 0..MaxCalls
        /\ live \in [File -> 0..MaxIssued] /\ kills' \in 0..MaxKills /\ op[h].at = "idle"
    BY <1>1 DEF LaInv, AppType, AcInv, AcTypeOK, LockInv
  <1>3. Len(Listed) = 2 /\ Listed[app[h].i] \in File /\ app[h].i \in 1..2
    BY <1>2 DEF Listed, File, AppRec
  <1>4. PICK f \in File : f = Listed[app[h].i]
    BY <1>3
  <1>5. PICK a : a = [app[h] EXCEPT !.list[f] = live[f], !.i = @ + 1]
    OBVIOUS
  <1>6. /\ a.list \in [File -> 0..MaxIssued] /\ a.at = "lists" /\ a.i = app[h].i + 1
        /\ app[h].i < 2 => a \in AppRec
    <2>1. PICK L, n : L = [app[h].list EXCEPT ![f] = live[f]] /\ n = app[h].i + 1
      OBVIOUS
    <2>2. L \in [File -> 0..MaxIssued] /\ (app[h].i < 2 => n \in 1..2)
      BY <1>2, <2>1 DEF AppRec
    <2>3. a = [app[h] EXCEPT !.list = L, !.i = n]
      BY <1>5, <2>1, Zenon
    <2> QED
      BY <1>1, <1>2, <2>1, <2>2, <2>3 DEF AppRec
  <1>7. AcInv'
    BY <1>1, <1>2, AcIdle DEF LaInv
  <1>8. CASE app[h].i < 2
    <2>1. app' = [app EXCEPT ![h] = a] /\ lock' = lock /\ cl' = cl
      BY <1>3, <1>4, <1>5, <1>8 DEF Lists
    <2>2. ClientInv'
      BY <1>1, <2>1, ClientIdle DEF LaInv
    <2> QED
      BY <1>1, <1>2, <1>6, <1>7, <1>8, <2>1, <2>2, AppMoves
  <1>9. CASE ~(app[h].i < 2)
    <2>1. /\ app' = [app EXCEPT ![h] = NotAsked] /\ lock' = Unlocks(h)
          /\ cl' = Answers(h, [cl EXCEPT !.at = "fetches", !.list = a.list])
      BY <1>3, <1>4, <1>5, <1>9 DEF Lists
    <2>2. PICK L \in [File -> 0..MaxIssued] : L = a.list
      BY <1>6
    <2>3. \/ cl' = cl
          \/ cl.at = "awaits" /\ cl' = [cl EXCEPT !.at = "fetches", !.list = L]
      BY <2>1, <2>2 DEF Answers
    <2>4. ClientInv'
      BY <1>1, <2>3, ClientIdle, ClientAnswered DEF LaInv
    <2>5. lock' = lock \/ (lock = h /\ lock' = Nobody)
      BY <2>1 DEF Unlocks
    <2> QED
      BY <1>1, <1>2, <1>7, <2>1, <2>4, <2>5, NotAskedFields, AppMoves
  <1> QED
    BY <1>8, <1>9

-----------------------------------------------------------------------------
(* A step that concerns no v1 application. *)
LEMMA AppsIdle ==
  ASSUME LaInv, AcInv', ClientInv', UNCHANGED <<lock, app>>,
         preset' \in BOOLEAN, calls' \in 0..MaxCalls,
         \A h \in Locked : op'[h].at = "idle" <=> op[h].at = "idle"
  PROVE  LaInv'
  BY DEF LaInv, AppType, LockInv

(* SaveCertConfig, Delete. *)
LEMMA ConfigGood ==
  ASSUME LaInv, SaveCertConfig \/ Delete
  PROVE  LaInv'
  <1>1. /\ UNCHANGED <<held, issued, live, residue, broken, op, temp, orphan, kills>>
        /\ UNCHANGED <<lock, app, cdir, cbak, cl>>
        /\ calls < MaxCalls /\ calls' = calls + 1
    BY DEF SaveCertConfig, Delete, Called, acVars, homeVars, clVars
  <1>2. preset' \in BOOLEAN
    BY DEF SaveCertConfig, Delete
  <1>3. calls' \in 0..MaxCalls
    BY <1>1, LegacyAssumption DEF LaInv, AppType
  <1>4. AcInv'
    BY <1>1, AcIdle DEF LaInv, AcInv, AcTypeOK
  <1>5. ClientInv'
    BY <1>1, ClientIdle DEF LaInv
  <1> QED
    BY <1>1, <1>2, <1>3, <1>4, <1>5, AppsIdle

(* The v2 issuer and the lifecycle commands start acme.sh, or take its result. *)
LEMMA FreeGood ==
  ASSUME LaInv,
         \/ WorkerIssues
         \/ \E k \in {"revoke", "remove"} : Lifecycle(k)
         \/ \E r \in Free : Collects(r)
  PROVE  LaInv'
  <1>1. /\ UNCHANGED <<held, issued, live, residue, broken, orphan, kills>>
        /\ UNCHANGED <<lock, app, preset, cdir, cbak, cl>>
    BY DEF WorkerIssues, Lifecycle, Collects, homeVars, clVars, appVars
  <1>2. calls' \in 0..MaxCalls /\ preset' \in BOOLEAN
    <2>1. calls' = calls \/ (calls < MaxCalls /\ calls' = calls + 1)
      BY DEF WorkerIssues, Lifecycle, Collects, Called, appVars
    <2> QED
      BY <1>1, <2>1, LegacyAssumption DEF LaInv, AppType
  <1>3. PICK r \in Free : AcInv' /\ \A q \in Runner : q # r => op'[q] = op[q]
    <2>1. CASE WorkerIssues
      <3>1. Worker \in Free /\ Worker \in Runner /\ IssueOrRenew \in Kind
        BY LegacyAssumption DEF Runner, IssueOrRenew, Kind
      <3> QED
        BY <1>1, <2>1, <3>1, BeginGood DEF WorkerIssues, LaInv
    <2>2. CASE \E k \in {"revoke", "remove"} : Lifecycle(k)
      <3>1. PICK k \in Kind : Lifecycle(k)
        BY <2>2 DEF Kind
      <3>2. Admin \in Free /\ Admin \in Runner
        BY LegacyAssumption DEF Runner
      <3> QED
        BY <1>1, <3>1, <3>2, BeginGood DEF Lifecycle, LaInv
    <2>3. CASE \E r \in Free : Collects(r)
      <3>1. PICK r \in Free : Collects(r)
        BY <2>3
      <3>2. r \in Runner
        BY DEF Runner
      <3> QED
        BY <1>1, <3>1, <3>2, CollectGood DEF Collects, LaInv
    <2> QED
      BY <2>1, <2>2, <2>3
  <1>4. \A h \in Locked : op'[h].at = "idle" <=> op[h].at = "idle"
    BY <1>3, RunnerAssumption DEF Runner
  <1>5. ClientInv'
    BY <1>1, ClientIdle DEF LaInv
  <1> QED
    BY <1>1, <1>2, <1>3, <1>4, <1>5, AppsIdle

(* The lock keeps the v1 applications apart. *)
LEMMA LockedAlone ==
  ASSUME LaInv, NEW r \in Runner, op[r].at # "idle"
  PROVE  Alone(r)
  BY DEF LaInv, LockInv, Alone, Installing

(* acme.sh works, with or without a parent. *)
LEMMA AcmeGood ==
  ASSUME LaInv, Acme
  PROVE  LaInv'
  <1>1. UNCHANGED <<lock, app, preset, calls, cdir, cbak, cl>>
    BY DEF Acme, appVars, clVars
  <1>2. AcInv' /\ SameIdle
    <2>1. ASSUME NEW r \in Runner, Operates(r) PROVE AcInv' /\ SameIdle
      <3>1. op[r].at # "idle"
        BY <2>1 DEF Operates, Run, InstallFile, InstallStops, StageFiles, ScanAfter
      <3>2. Alone(r) /\ AcInv
        BY <3>1, LockedAlone DEF LaInv
      <3> QED
        BY <2>1, <3>2, RunGood, InstallFileGood, InstallStopsGood, ScanAfterGood DEF Operates
    <2>2. CASE Elsewhere
      BY <2>2, CleanResidueGood, OrphanRunsGood, OrphanInstallsGood DEF Elsewhere, LaInv
    <2> QED
      BY <2>1, <2>2 DEF Acme
  <1>3. ClientInv' /\ preset' \in BOOLEAN /\ calls' \in 0..MaxCalls
    BY <1>1, ClientIdle DEF LaInv, AppType
  <1> QED
    BY <1>1, <1>2, <1>3, AppsIdle DEF SameIdle, Runner

(* A process is killed, and with it its applications and their locks. *)
LEMMA KillGood ==
  ASSUME LaInv, NEW P \in Process, Kill(P)
  PROVE  LaInv'
  <1>1. /\ Killed(P)
        /\ app' = [h \in Locked |-> IF h \in P THEN NotAsked ELSE app[h]]
        /\ lock' = IF lock \in P THEN Nobody ELSE lock
        /\ cl' = IF Server \in P /\ cl.at = "awaits" THEN Refusal ELSE cl
        /\ UNCHANGED <<preset, calls, cdir, cbak>>
    BY DEF Kill
  <1>2. AcInv' /\ \A q \in Runner : op'[q] = IF q \in P THEN Idle ELSE op[q]
    BY <1>1, KilledGood DEF LaInv
  <1>3. ClientInv'
    BY <1>1, ClientIdle, ClientRefused DEF LaInv
  <1>4. AppType'
    BY <1>1, NotAskedFields DEF LaInv, AppType
  <1>5. LockInv'
    <2>1. ASSUME NEW h \in Locked
          PROVE  /\ op'[h].at = "idle" <=> app'[h].at # "issues"
                 /\ app'[h].at = "issues" => lock' = h
      <3>1. h \in Runner /\ Idle.at = "idle"
        BY DEF Runner, Idle
      <3> QED
        BY <1>1, <1>2, <3>1, NotAskedFields DEF LaInv, LockInv
    <2> QED
      BY <2>1 DEF LockInv
  <1> QED
    BY <1>2, <1>3, <1>4, <1>5 DEF LaInv

-----------------------------------------------------------------------------
(* The files before a position of the listing. *)
LEMMA PastNext ==
  ASSUME NEW i \in 1..2
  PROVE  /\ Past(i + 1) = Past(i) \cup {Listed[i]} /\ Listed[i] \in File
         /\ Listed[i] \notin Past(i) /\ Past(i + 1) \subseteq File
         /\ Len(Listed) = 2 /\ Past(3) = File
  <1>1. Past(1) = {} /\ Past(2) = {"key"} /\ Past(3) = File /\ File = {"key", "fullchain"}
    BY DEF Past, File
  <1>2. Listed[1] = "key" /\ Listed[2] = "fullchain" /\ Len(Listed) = 2
    BY DEF Listed
  <1>3. CASE i = 1
    BY <1>1, <1>2, <1>3
  <1>4. CASE i = 2
    BY <1>1, <1>2, <1>4
  <1> QED
    BY <1>3, <1>4

(* restoreBackups: what was moved aside comes back, the rest is as found. *)
LEMMA RestoresGood ==
  ASSUME ClientInv, cl.at \in {"downloads", "verifies"}, NEW files \in [File -> 0..Torn],
         \A f \in File \ cl.baks : cl.before[f] # 0 => files[f] = cl.before[f],
         RestoreBackups(files)
  PROVE  ClientInv'
  <1>1. /\ cl \in ClientRec /\ cbak \in [File -> 0..Torn] /\ 0 \in 0..Torn
        /\ \A f \in File : Kept(cl, f)
    BY RunnerAssumption DEF ClientInv, ClientType, ClientOK, Torn
  <1>2. /\ cdir' = [f \in File |-> IF f \in cl.baks THEN cbak[f] ELSE files[f]]
        /\ cbak' = [f \in File |-> IF f \in cl.baks THEN 0 ELSE cbak[f]]
        /\ cl' = [cl EXCEPT !.at = "idle", !.out = "rolledBack"]
    BY DEF RestoreBackups
  <1>3. cl' \in ClientRec /\ cl'.at = "idle" /\ cl'.out = "rolledBack" /\ cl'.before = cl.before
    BY <1>1, <1>2 DEF ClientRec
  <1>4. ClientType'
    BY <1>1, <1>2, <1>3 DEF ClientType
  <1>5. ASSUME NEW f \in File, cl.before[f] # 0 PROVE cdir'[f] = cl.before[f]
    BY <1>1, <1>2, <1>5 DEF Kept
  <1>6. ClientOK(cl)' /\ ClientIsWholeOrOld'
    BY <1>3, <1>5 DEF ClientOK, ClientIsWholeOrOld
  <1> QED
    BY <1>4, <1>6 DEF ClientInv

(* The client is done with a file. *)
LEMMA NextFileGood ==
  ASSUME ClientInv, cl.at \in {"fetches", "downloads"}, cl' = NextFile, UNCHANGED cbak,
         cdir' \in [File -> 0..Torn], \A f \in File : f # Current => cdir'[f] = cdir[f],
         cl.list[Current] # 0 => cdir'[Current] = cl.list[Current],
         Current \in cl.baks \/ cl.before[Current] = 0 \/ cdir'[Current] = cl.before[Current]
  PROVE  ClientInv'
  <1>1. cl \in ClientRec /\ cl.i \in 1..2 /\ \A f \in File : Kept(cl, f)
    BY DEF ClientInv, ClientType, ClientOK
  <1>2. PICK i \in 1..2 : i = cl.i /\ Current = Listed[i]
    BY <1>1 DEF Current
  <1>3. /\ Past(i + 1) = Past(i) \cup {Listed[i]} /\ Listed[i] \in File
        /\ Listed[i] \notin Past(i) /\ Past(i + 1) \subseteq File
        /\ Len(Listed) = 2
    BY PastNext
  <1>4. /\ cl' \in ClientRec /\ cl'.i = i + 1 /\ cl'.baks = cl.baks /\ cl'.before = cl.before
        /\ cl'.list = cl.list /\ cl'.at = (IF i = 2 THEN "verifies" ELSE "fetches")
    <2>1. PICK n, a : n = i + 1 /\ a = IF i = 2 THEN "verifies" ELSE "fetches"
      OBVIOUS
    <2>2. n \in 1..3 /\ a \in {"fetches", "verifies"}
      BY <2>1
    <2>3. cl' = [cl EXCEPT !.i = n, !.at = a]
      <3>1. cl.i + 1 = n /\ (IF cl.i = Len(Listed) THEN "verifies" ELSE "fetches") = a
        BY <1>2, <1>3, <2>1
      <3> QED
        BY <3>1, Zenon DEF NextFile
    <2> QED
      BY <1>1, <2>1, <2>2, <2>3 DEF ClientRec
  <1>5. ClientType'
    BY <1>4 DEF ClientInv, ClientType
  <1>6. ASSUME NEW f \in File PROVE Kept(cl, f)'
    <2>1. Kept(cl, f)
      BY <1>1
    <2>2. CASE f = Current
      BY <1>4, <2>1, <2>2 DEF Kept
    <2>3. CASE f # Current
      BY <1>4, <2>1, <2>3 DEF Kept
    <2> QED
      BY <2>2, <2>3
  <1>7. ASSUME NEW f \in Past(i + 1), cl.list[f] # 0 PROVE cdir'[f] = cl.list[f]
    <2>1. CASE f = Current
      BY <1>7, <2>1
    <2>2. CASE f # Current
      <3>1. f \in Past(cl.i) /\ f \in File
        BY <1>2, <1>3, <1>7, <2>2
      <3>2. cdir[f] = cl.list[f]
        BY <1>7, <3>1 DEF ClientInv, ClientOK
      <3> QED
        BY <2>2, <3>1, <3>2
    <2> QED
      BY <2>1, <2>2
  <1>8. ASSUME NEW f \in File \ Past(i + 1) PROVE AsFound(cl, f)'
    <2>1. f # Current /\ f \in File \ Past(cl.i) /\ f \in File \ Past(cl.i + 1)
      BY <1>2, <1>3
    <2>2. AsFound(cl, f)
      BY <2>1 DEF ClientInv, ClientOK
    <2> QED
      BY <1>4, <2>1, <2>2 DEF AsFound
  <1>9. ClientOK(cl)'
    <2>1. cl'.i = i + 1 /\ (i = 2 => cl'.i = 3) /\ (i # 2 => cl'.i \in 1..2)
      BY <1>4
    <2> QED
      BY <1>4, <1>6, <1>7, <1>8, <2>1 DEF ClientOK
  <1>10. ClientIsWholeOrOld'
    BY <1>4 DEF ClientIsWholeOrOld
  <1> QED
    BY <1>5, <1>9, <1>10 DEF ClientInv

(* A run that is cut or cannot go on: nothing is said of the files. *)
LEMMA RunIsOver ==
  ASSUME ClientInv, NEW out \in {"stuck", "killed"}, UNCHANGED <<cdir, cbak>>,
         cl' = [NoRun EXCEPT !.out = out, !.runs = cl.runs]
  PROVE  ClientInv'
  <1>1. NoFiles \in [File -> 0..MaxIssued] /\ NoFiles \in [File -> 0..Torn]
    BY RunnerAssumption DEF NoFiles, Torn
  <1>2. PICK n \in 0..MaxRuns : n = cl.runs
    BY DEF ClientInv, ClientType, ClientRec
  <1> DEFINE c == [at |-> "idle", list |-> NoFiles, i |-> 1, baks |-> {}, before |-> NoFiles,
                   out |-> out, runs |-> n]
  <1>3. c \in ClientRec /\ c.at = "idle" /\ c.out = out
    BY <1>1, <1>2 DEF ClientRec
  <1> HIDE DEF c
  <1>4. cl' = c
    BY <1>2 DEF NoRun, c
  <1>5. ClientType'
    BY <1>3, <1>4 DEF ClientInv, ClientType
  <1>6. ClientOK(cl)' /\ ClientIsWholeOrOld'
    BY <1>3, <1>4 DEF ClientOK, ClientIsWholeOrOld
  <1> QED
    BY <1>5, <1>6 DEF ClientInv

(* The file is not there, or moves aside, before its successor is downloaded. *)
LEMMA BackupFileGood ==
  ASSUME ClientInv, BackupFile
  PROVE  ClientInv'
  <1>1. /\ cl.at = "fetches" /\ cl \in ClientRec /\ cl.i \in 1..2
        /\ cdir \in [File -> 0..Torn] /\ cbak \in [File -> 0..Torn]
        /\ \A f \in File : Kept(cl, f)
        /\ \A f \in Past(cl.i) : cl.list[f] # 0 => cdir[f] = cl.list[f]
        /\ \A f \in File \ Past(cl.i) : AsFound(cl, f)
    BY DEF BackupFile, ClientInv, ClientType, ClientOK
  <1>2. PICK i \in 1..2, x \in File : i = cl.i /\ Current = x /\ Listed[i] = x
    BY <1>1, PastNext DEF Current
  <1>3. /\ Past(i + 1) = Past(i) \cup {x} /\ x \in File
        /\ x \notin Past(i) /\ Past(i + 1) \subseteq File
    BY <1>2, PastNext
  <1>4. AsFound(cl, x)
    BY <1>1, <1>2, <1>3
  <1>5. CASE cdir[x] = 0
    <2>1. cl' = [cl EXCEPT !.at = "downloads"] /\ UNCHANGED <<cdir, cbak>>
      BY <1>2, <1>5 DEF BackupFile
    <2>2. /\ cl' \in ClientRec /\ cl'.at = "downloads" /\ cl'.i = i /\ cl'.baks = cl.baks
          /\ cl'.before = cl.before /\ cl'.list = cl.list
      BY <1>1, <1>2, <2>1 DEF ClientRec
    <2>3. ClientType'
      BY <1>1, <2>1, <2>2 DEF ClientType
    <2>4. \A f \in File : Kept(cl, f)' /\ (f \notin Past(i) => AsFound(cl, f)')
      BY <1>1, <1>2, <2>1, <2>2 DEF Kept, AsFound
    <2>5. cl'.before[x] = 0
      BY <1>4, <1>5, <2>2 DEF AsFound
    <2>6. ClientOK(cl)'
      BY <1>1, <1>2, <1>3, <2>1, <2>2, <2>4, <2>5 DEF ClientOK
    <2>7. ClientIsWholeOrOld'
      BY <2>2 DEF ClientIsWholeOrOld
    <2> QED
      BY <2>3, <2>6, <2>7 DEF ClientInv
  <1>6. CASE /\ cbak' = [cbak EXCEPT ![x] = cdir[x]]
             /\ cdir' = [cdir EXCEPT ![x] = 0]
             /\ cl' = [cl EXCEPT !.at = "downloads", !.baks = @ \cup {x}]
    <2>1. /\ cl' \in ClientRec /\ cl'.at = "downloads" /\ cl'.i = i /\ cl'.baks = cl.baks \cup {x}
          /\ cl'.before = cl.before /\ cl'.list = cl.list
      BY <1>1, <1>2, <1>6 DEF ClientRec
    <2>2. 0 \in 0..Torn
      BY RunnerAssumption DEF Torn
    <2>3. /\ cdir' \in [File -> 0..Torn] /\ cbak' \in [File -> 0..Torn]
          /\ cbak'[x] = cdir[x]
          /\ \A f \in File : f # x => cdir'[f] = cdir[f] /\ cbak'[f] = cbak[f]
      BY <1>1, <1>6, <2>2
    <2>4. ASSUME NEW f \in File PROVE Kept(cl, f)'
      BY <1>1, <1>4, <2>1, <2>3 DEF Kept, AsFound
    <2>5. ASSUME NEW f \in File \ Past(i + 1) PROVE AsFound(cl, f)'
      BY <1>1, <1>2, <1>3, <2>1, <2>3 DEF AsFound
    <2>6. ASSUME NEW f \in Past(i), cl.list[f] # 0 PROVE cdir'[f] = cl.list[f]
      BY <1>1, <1>2, <1>3, <2>3, <2>6
    <2>7. ClientOK(cl)'
      BY <1>2, <2>1, <2>4, <2>5, <2>6 DEF ClientOK
    <2>8. ClientIsWholeOrOld'
      BY <2>1 DEF ClientIsWholeOrOld
    <2> QED
      BY <2>1, <2>3, <2>7, <2>8 DEF ClientInv, ClientType
  <1>7. CASE /\ cl' = [NoRun EXCEPT !.out = "stuck", !.runs = cl.runs]
             /\ UNCHANGED <<cdir, cbak>>
    BY <1>7, RunIsOver
  <1> QED
    BY <1>2, <1>5, <1>6, <1>7 DEF BackupFile

(* The file of the listing is written, or everything is put back. *)
LEMMA DownloadGood ==
  ASSUME LaInv, Download
  PROVE  ClientInv'
  <1>1. /\ ClientInv /\ cl.at = "downloads" /\ cl \in ClientRec /\ cl.i \in 1..2
        /\ cdir \in [File -> 0..Torn] /\ live \in [File -> 0..MaxIssued]
        /\ \A f \in File : Kept(cl, f)
        /\ cl.before[Listed[cl.i]] = 0 \/ Listed[cl.i] \in cl.baks
    BY DEF Download, LaInv, ClientInv, ClientType, ClientOK, AcInv, AcTypeOK
  <1>2. PICK x \in File : Current = x /\ Listed[cl.i] = x
    BY <1>1, PastNext DEF Current
  <1>3. \A f \in File \ cl.baks : cl.before[f] # 0 => cdir[f] = cl.before[f]
    BY <1>1 DEF Kept
  <1>4. live[x] \in 0..Torn /\ Torn \in 0..Torn
    BY <1>1, RunnerAssumption DEF Torn
  <1>5. CASE RestoreBackups(cdir)
    <2>1. PICK c \in [File -> 0..Torn] : c = cdir
      BY <1>1
    <2> QED
      BY <1>1, <1>3, <1>5, <2>1, RestoresGood
  <1>6. CASE RestoreBackups([cdir EXCEPT ![x] = Torn])
    <2>1. PICK c \in [File -> 0..Torn] : c = [cdir EXCEPT ![x] = Torn]
      BY <1>1, <1>4
    <2>2. \A f \in File \ cl.baks : cl.before[f] # 0 => c[f] = cl.before[f]
      BY <1>1, <1>2, <1>3, <2>1
    <2> QED
      BY <1>1, <1>6, <2>1, <2>2, RestoresGood
  <1>7. CASE /\ live[x] = cl.list[x] /\ cdir' = [cdir EXCEPT ![x] = live[x]]
             /\ cl' = NextFile /\ UNCHANGED cbak
    <2>1. /\ cdir' \in [File -> 0..Torn] /\ cdir'[x] = cl.list[x]
          /\ \A f \in File : f # x => cdir'[f] = cdir[f]
      BY <1>1, <1>4, <1>7
    <2> QED
      BY <1>1, <1>2, <1>7, <2>1, NextFileGood
  <1> QED
    BY <1>2, <1>5, <1>6, <1>7 DEF Download

(* The verify command, and the end of the run. *)
LEMMA VerifyGood ==
  ASSUME ClientInv, Verify
  PROVE  ClientInv'
  <1>1. /\ cl.at = "verifies" /\ cl \in ClientRec /\ cl.i = 3
        /\ cdir \in [File -> 0..Torn] /\ cbak \in [File -> 0..Torn]
        /\ \A f \in File : Kept(cl, f)
        /\ \A f \in Past(cl.i) : cl.list[f] # 0 => cdir[f] = cl.list[f]
    BY DEF Verify, ClientInv, ClientType, ClientOK
  <1>2. CASE RestoreBackups(cdir)
    <2>1. PICK c \in [File -> 0..Torn] : c = cdir
      BY <1>1
    <2>2. \A f \in File \ cl.baks : cl.before[f] # 0 => cdir[f] = cl.before[f]
      BY <1>1 DEF Kept
    <2> QED
      BY <1>1, <1>2, <2>1, <2>2, RestoresGood
  <1>3. CASE /\ cbak' = [f \in File |-> IF f \in cl.baks THEN 0 ELSE cbak[f]]
             /\ cl' = [cl EXCEPT !.at = "idle", !.out = "done"]
             /\ UNCHANGED cdir
    <2>1. /\ cl' \in ClientRec /\ cl'.at = "idle" /\ cl'.out = "done" /\ cl'.list = cl.list
      BY <1>1, <1>3 DEF ClientRec
    <2>2. 0 \in 0..Torn
      BY RunnerAssumption DEF Torn
    <2>3. ClientType'
      BY <1>1, <1>3, <2>1, <2>2 DEF ClientType
    <2>4. Past(cl.i) = File
      BY <1>1 DEF Past
    <2>5. ClientOK(cl)' /\ ClientIsWholeOrOld'
      BY <1>1, <1>3, <2>1, <2>4 DEF ClientOK, ClientIsWholeOrOld
    <2> QED
      BY <2>3, <2>5 DEF ClientInv
  <1> QED
    BY <1>2, <1>3 DEF Verify

(* Every step of the v1 client. *)
LEMMA ClientStepGood ==
  ASSUME LaInv, ClientStep
  PROVE  LaInv'
  <1>1. /\ UNCHANGED <<held, issued, live, residue, broken, op, temp, orphan>>
        /\ UNCHANGED <<lock, app, preset, calls>>
        /\ kills' = kills \/ (kills < MaxKills /\ kills' = kills + 1)
    BY DEF ClientStep, ClientGivesUp, SkipFile, BackupFile, Download, Verify, ClientKilled,
       acVars, homeVars, appVars
  <1>2. kills' \in 0..MaxKills
    BY <1>1, RunnerAssumption DEF LaInv, AcInv, AcTypeOK
  <1>3. AcInv'
    BY <1>1, <1>2, AcIdle DEF LaInv
  <1>4. CASE ClientGivesUp
    <2>1. ClientInv'
      BY <1>4, ClientRefused DEF ClientGivesUp, LaInv
    <2> QED
      BY <1>1, <1>3, <2>1, AppsIdle DEF LaInv, AppType
  <1>5. CASE SkipFile
    <2>1. cl.at = "fetches" /\ cl.list[Current] = 0 /\ cl' = NextFile /\ UNCHANGED <<cdir, cbak>>
      BY <1>5 DEF SkipFile
    <2>2. cl.i \in 1..2 /\ cdir \in [File -> 0..Torn]
      BY <2>1 DEF LaInv, ClientInv, ClientOK, ClientType
    <2>3. Current \in File \ Past(cl.i)
      BY <2>2, PastNext DEF Current
    <2>4. AsFound(cl, Current)
      BY <2>1, <2>3 DEF LaInv, ClientInv, ClientOK
    <2>5. ClientInv'
      BY <2>1, <2>2, <2>4, NextFileGood DEF LaInv, AsFound
    <2> QED
      BY <1>1, <1>3, <2>5, AppsIdle DEF LaInv, AppType
  <1>6. CASE BackupFile \/ Download \/ Verify
    <2>1. ClientInv'
      BY <1>6, BackupFileGood, DownloadGood, VerifyGood DEF LaInv
    <2> QED
      BY <1>1, <1>3, <2>1, AppsIdle DEF LaInv, AppType
  <1>7. CASE ClientKilled
    <2>1. ClientInv'
      BY <1>7, RunIsOver DEF ClientKilled, LaInv
    <2> QED
      BY <1>1, <1>3, <2>1, AppsIdle DEF LaInv, AppType
  <1> QED
    BY <1>4, <1>5, <1>6, <1>7 DEF ClientStep

-----------------------------------------------------------------------------
(* Nothing has been issued, installed or downloaded. *)
LEMMA InitLaInv == LaInit => LaInv
  <1> SUFFICES ASSUME LaInit PROVE LaInv
    OBVIOUS
  <1>1. /\ held = 0 /\ issued = 0 /\ kills = 0 /\ live = NoFiles
        /\ op = [r \in Runner |-> Idle] /\ temp = {} /\ residue = FALSE /\ broken = FALSE
        /\ orphan = [r \in Runner |-> NoChild]
        /\ lock = Nobody /\ calls = 0 /\ app = [h \in Locked |-> NotAsked]
        /\ cdir = NoFiles /\ cbak = NoFiles /\ cl = NoRun
    BY DEF LaInit, AcInit, NoFiles
  <1>2. NoFiles \in [File -> 0..MaxIssued] /\ NoFiles \in [File -> 0..Torn]
    BY RunnerAssumption DEF NoFiles, Torn
  <1>3. Idle \in OpRec /\ Idle.at = "idle" /\ Idle.wrote = FALSE /\ NoChild \in OrphanRec
    BY DEF Idle, OpRec, Kind, Err, NoChild, OrphanRec
  <1>4. 0 \in 0..MaxIssued /\ 0 \in 0..MaxKills /\ 0 \in 0..MaxCalls /\ 0 \in 0..MaxRuns
    BY RunnerAssumption, LegacyAssumption
  <1>5. AcTypeOK
    <2>1. op \in [Runner -> OpRec] /\ orphan \in [Runner -> OrphanRec]
      BY <1>1, <1>3
    <2> QED
      BY <1>1, <1>2, <1>4, <2>1 DEF AcTypeOK, OpRec, OrphanRec
  <1>6. \A r \in Runner : op[r] = Idle
    BY <1>1
  <1>7. OpInv
    BY <1>1, <1>3, <1>6 DEF OpInv, OpOK, Busy
  <1>8. LiveInv
    BY <1>1, <1>3, <1>6 DEF LiveInv, LivePairMatches, Installing, Runner, NoFiles, File
  <1>9. preset \in BOOLEAN
    BY DEF LaInit
  <1>10. AppType
    BY <1>1, <1>4, <1>9, NotAskedFields DEF AppType
  <1>11. LockInv
    BY <1>1, <1>3, <1>6, NotAskedFields DEF LockInv, Runner
  <1>12. NoRun \in ClientRec /\ NoRun.at = "idle" /\ NoRun.out = "none"
    BY <1>2, <1>4 DEF NoRun, ClientRec
  <1>13. ClientInv
    BY <1>1, <1>2, <1>12 DEF ClientInv, ClientType, ClientOK, ClientIsWholeOrOld
  <1> QED
    BY <1>5, <1>7, <1>8, <1>10, <1>11, <1>13 DEF LaInv, AcInv

(* Every step keeps the invariant. *)
LEMMA NextLaInv == LaInv /\ [LaNext]_laVars => LaInv'
  <1> SUFFICES ASSUME LaInv, [LaNext]_laVars PROVE LaInv'
    OBVIOUS
  <1>1. CASE Service
    BY <1>1, ApplyGood, LocksGood, FailsGood, IssuedGood, ListsGood, ConfigGood, FreeGood
       DEF Service
  <1>2. CASE Acme
    BY <1>2, AcmeGood
  <1>3. CASE ClientStep
    BY <1>3, ClientStepGood
  <1>4. ASSUME NEW P \in Process, Kill(P) PROVE LaInv'
    BY <1>4, KillGood
  <1>5. CASE UNCHANGED laVars
    <2>1. /\ UNCHANGED <<held, issued, live, residue, broken, op, temp, orphan>>
          /\ UNCHANGED <<lock, app, preset, calls, cdir, cbak, cl, kills>>
      BY <1>5 DEF laVars, acVars, homeVars, appVars, clVars
    <2>2. AcInv' /\ ClientInv'
      BY <2>1, AcIdle, ClientIdle DEF LaInv, AcInv, AcTypeOK
    <2> QED
      BY <2>1, <2>2, AppsIdle DEF LaInv, AppType
  <1> QED
    BY <1>1, <1>2, <1>3, <1>4, <1>5 DEF LaNext

(* The inductive invariant of the v1 path: who runs acme.sh under the lock,    *)
(* what each operation has installed and confessed, and what a run of the      *)
(* client has done to each file.                                               *)
THEOREM LegacyInvariance == LaSpec => []LaInv
  BY InitLaInv, NextLaInv, PTL DEF LaSpec

-----------------------------------------------------------------------------
(* Type correctness of the driver of acme.sh, of the v1 applications and of    *)
(* the v1 client.                                                              *)
THEOREM LegacyTypeCorrect == LaSpec => []LaTypeOK
  <1>1. LaInv => LaTypeOK
    BY DEF LaInv, AcInv, AppType, AppRec, ClientInv, ClientType, ClientRec, LaTypeOK
  <1> QED
    BY <1>1, LegacyInvariance, PTL

(* service.Apply under .certkeeper.issue.lock: key and chain of the live       *)
(* directory are of one version unless an installation was cut, or disturbed   *)
(* by a command that takes no lock.                                            *)
THEOREM LivePairStaysWhole == LaSpec => []LivePairMatches
  <1>1. LaInv => LivePairMatches
    BY DEF LaInv, AcInv, LiveInv
  <1> QED
    BY <1>1, LegacyInvariance, PTL

(* withIsolatedConfig: a credential directory exists exactly while its         *)
(* operation runs, and an operation that left a credential behind says so.     *)
THEOREM CredentialsAreContained == LaSpec => []CredentialsStayOut
  <1>1. LaInv => CredentialsStayOut
    BY DEF LaInv, AcInv, OpInv, OpOK, Busy, CredentialsStayOut, Running
  <1> QED
    BY <1>1, LegacyInvariance, PTL

(* client.Apply: success leaves the files of the listing, a refusal or a       *)
(* rollback every file that was there, whatever earlier runs left behind.      *)
THEOREM ClientEndsWholeOrOld == LaSpec => []ClientIsWholeOrOld
  <1>1. LaInv => ClientIsWholeOrOld
    BY DEF LaInv, ClientInv
  <1> QED
    BY <1>1, LegacyInvariance, PTL
====
