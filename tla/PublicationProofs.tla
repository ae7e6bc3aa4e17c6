-------------------------- MODULE PublicationProofs --------------------------
(***************************************************************************)
(* Proofs about Publication, for every number of rows, generations, gc     *)
(* runs and crashes, with and without failing statements.                  *)
(*                                                                         *)
(* The repository keeps the invariant of CertStoreProofs, since every step *)
(* is one of CertStore or leaves it alone.  On top of it: where a run      *)
(* stands determines the status of the row it works on (AtInv) and which   *)
(* release is the row's (ReleaseInv), and the current release is always    *)
(* accounted for by some row (RecordInv).                                  *)
(***************************************************************************)
EXTENDS Publication, CertStoreProofs

-----------------------------------------------------------------------------
RunType ==
    /\ rows \in Seq(GenerationRow) /\ Len(rows) <= MaxRows
    /\ run \in {"idle", "check", "recover", "finalise", "create", "issue",
                "intend", "publish", "publishing", "record", "artifact"}
    /\ force \in BOOLEAN
    /\ at \in 0..Len(rows)
    /\ run \in {"finalise", "issue", "intend", "publish", "publishing", "record",
               "artifact"} => at # 0
    /\ target \in Generations \cup {None}
    /\ due \subseteq Generations
    /\ verdict \in {"none", "succeeded", "failed"}

AtInv ==
    /\ run \in {"issue", "intend", "publish", "publishing", "record", "artifact"} =>
         at = Len(rows)
    /\ run \in {"issue", "intend"} => rows[at].status = "pending" /\ ~rows[at].current
    /\ run \in {"publish", "publishing", "record"} =>
         rows[at].status = "publishing" /\ ~rows[at].current
    /\ run \in {"finalise", "artifact"} => rows[at].status = "issued" /\ rows[at].ref = target
    /\ run \in {"create", "issue", "intend"} => Publishing = {}

ReleaseInv ==
    /\ run \in {"finalise", "record", "artifact"} => target = current /\ target # None
    /\ run \in {"issue", "intend", "publish"} => rows[at].own = None
    /\ run \in {"record", "artifact"} => rows[at].own = target
    /\ pub # "idle" => run = "publishing" /\ rows[at].own = made
    /\ run = "publishing" /\ out = "ok" => rows[at].own = made
    /\ verdict = "succeeded" /\ ~restored => current # None

(* Some row says what became of the current release. *)
Accounts(r) == \/ r.status = "failed" /\ r.own = current
               \/ r.current /\ r.ref = current

Accounted == \E i \in Rows : Accounts(rows[i])

RecordInv ==
    ~restored /\ ~overtaken /\ current # None =>
      /\ Publishing # {} \/ Accounted
      /\ run \in {"publish", "publishing"} => Accounted \/ rows[at].own = current

PuInv ==
    /\ RunType /\ OneCurrentRow /\ OnlyNewestPublishing /\ AtInv /\ ReleaseInv
    /\ KeepRecent # 0 => RecordInv

PuIInv == CsIInv /\ PuInv

(* What every step has to show; the rest follows from CertStoreProofs. *)
PuGood == [CsNext]_csVars /\ PuInv'

-----------------------------------------------------------------------------
(* A row that loses the current flag keeps everything else. *)
LEMMA RowWithoutFlag ==
  ASSUME NEW r \in GenerationRow
  PROVE  LET x == [r EXCEPT !.current = FALSE]
         IN  /\ x \in GenerationRow
             /\ x.status = r.status /\ x.ref = r.ref /\ ~x.current /\ x.own = r.own
  BY DEF GenerationRow

(* UpdateCertificateGenerationStatus: the row, the others, the table. *)
LEMMA StatusRows ==
  ASSUME RunType, NEW i \in Rows, NEW s \in {"pending", "publishing", "issued", "failed"},
         NEW g \in Generations \cup {None},
         rows' = WithGenerationStatus(i, s, g)
  PROVE  /\ rows' \in Seq(GenerationRow) /\ Len(rows') = Len(rows) /\ Rows' = Rows
         /\ rows'[i].status = s /\ rows'[i].ref = g /\ rows'[i].own = rows[i].own
         /\ rows'[i].current <=> (s = "issued" /\ g # None)
         /\ \A k \in Rows : k # i =>
              /\ rows'[k] \in {rows[k], [rows[k] EXCEPT !.current = FALSE]}
              /\ rows'[k].status = rows[k].status
              /\ rows'[k].ref = rows[k].ref /\ rows'[k].own = rows[k].own
              /\ rows'[k].current <=> rows[k].current /\ ~(s = "issued" /\ g # None)
  <1>1. /\ rows \in Seq(GenerationRow) /\ Rows = 1..Len(rows) /\ Len(rows) \in Nat
        /\ \A k \in Rows : rows[k] \in GenerationRow
    BY DEF RunType, Rows
  <1> DEFINE b == s = "issued" /\ g # None
  <1>2. b \in BOOLEAN
    OBVIOUS
  <1>3. rows' = [k \in Rows |->
                   IF k = i THEN [rows[k] EXCEPT !.status = s, !.ref = g, !.current = b]
                   ELSE IF b THEN [rows[k] EXCEPT !.current = FALSE] ELSE rows[k]]
    BY DEF WithGenerationStatus
  <1> HIDE DEF b
  <1>4. rows'[i] = [rows[i] EXCEPT !.status = s, !.ref = g, !.current = b]
    BY <1>3
  <1>5. /\ rows'[i] \in GenerationRow
        /\ rows'[i].status = s /\ rows'[i].ref = g /\ rows'[i].current = b
        /\ rows'[i].own = rows[i].own
    BY <1>1, <1>2, <1>4 DEF GenerationRow
  <1>6. ASSUME NEW k \in Rows, k # i
        PROVE  /\ rows'[k] \in GenerationRow
               /\ rows'[k] \in {rows[k], [rows[k] EXCEPT !.current = FALSE]}
               /\ rows'[k].status = rows[k].status
               /\ rows'[k].ref = rows[k].ref /\ rows'[k].own = rows[k].own
               /\ rows'[k].current <=> rows[k].current /\ ~b
    <2>1. rows'[k] = IF b THEN [rows[k] EXCEPT !.current = FALSE] ELSE rows[k]
      BY <1>3, <1>6
    <2>2. CASE b
      BY <1>1, <2>1, <2>2, RowWithoutFlag
    <2>3. CASE ~b
      BY <1>1, <2>1, <2>3
    <2> QED
      BY <2>2, <2>3
  <1>7. DOMAIN rows' = 1..Len(rows)
    BY <1>1, <1>3
  <1>8. rows' = [k \in 1..Len(rows) |-> rows'[k]]
    BY <1>1, <1>3
  <1>9. \A k \in 1..Len(rows) : rows'[k] \in GenerationRow
    BY <1>1, <1>5, <1>6
  <1>10. rows' \in Seq(GenerationRow) /\ Len(rows') = Len(rows)
    BY <1>1, <1>7, <1>8, <1>9
  <1>11. Rows' = Rows
    BY <1>1, <1>7 DEF Rows
  <1> QED
    BY <1>5, <1>6, <1>10, <1>11 DEF b

(* UpdateCertificateGenerationArtifact with Current. *)
LEMMA ArtifactRows ==
  ASSUME RunType, NEW i \in Rows, NEW n \in Nat, rows' = WithArtifact(i, n)
  PROVE  /\ rows' \in Seq(GenerationRow) /\ Len(rows') = Len(rows) /\ Rows' = Rows
         /\ rows'[i].status = rows[i].status /\ rows'[i].ref = rows[i].ref
         /\ rows'[i].own = rows[i].own /\ rows'[i].current
         /\ \A k \in Rows : k # i =>
              /\ rows'[k] = [rows[k] EXCEPT !.current = FALSE]
              /\ rows'[k].status = rows[k].status
              /\ rows'[k].ref = rows[k].ref /\ rows'[k].own = rows[k].own
              /\ ~rows'[k].current
  <1>1. /\ rows \in Seq(GenerationRow) /\ Rows = 1..Len(rows) /\ Len(rows) \in Nat
        /\ \A k \in Rows : rows[k] \in GenerationRow
    BY DEF RunType, Rows
  <1>2. rows' = [k \in Rows |->
                   IF k = i THEN [rows[k] EXCEPT !.revision = n, !.current = TRUE]
                            ELSE [rows[k] EXCEPT !.current = FALSE]]
    BY DEF WithArtifact
  <1>3. rows'[i] = [rows[i] EXCEPT !.revision = n, !.current = TRUE]
    BY <1>2
  <1>4. /\ rows'[i] \in GenerationRow
        /\ rows'[i].status = rows[i].status /\ rows'[i].ref = rows[i].ref
        /\ rows'[i].current /\ rows'[i].own = rows[i].own
    BY <1>1, <1>3 DEF GenerationRow
  <1>5. ASSUME NEW k \in Rows, k # i
        PROVE  /\ rows'[k] \in GenerationRow
               /\ rows'[k] = [rows[k] EXCEPT !.current = FALSE]
               /\ rows'[k].status = rows[k].status
               /\ rows'[k].ref = rows[k].ref /\ rows'[k].own = rows[k].own
               /\ ~rows'[k].current
    <2>1. rows'[k] = [rows[k] EXCEPT !.current = FALSE]
      BY <1>2, <1>5
    <2> QED
      BY <1>1, <2>1, RowWithoutFlag
  <1>6. DOMAIN rows' = 1..Len(rows)
    BY <1>1, <1>2
  <1>7. rows' = [k \in 1..Len(rows) |-> rows'[k]]
    BY <1>1, <1>2
  <1>8. \A k \in 1..Len(rows) : rows'[k] \in GenerationRow
    BY <1>1, <1>4, <1>5
  <1>9. rows' \in Seq(GenerationRow) /\ Len(rows') = Len(rows)
    BY <1>1, <1>6, <1>7, <1>8
  <1>10. Rows' = Rows
    BY <1>1, <1>6 DEF Rows
  <1> QED
    BY <1>4, <1>5, <1>9, <1>10

(* Whatever status is written, at most one row is current afterwards. *)
LEMMA StatusOneCurrent ==
  ASSUME RunType, OneCurrentRow, NEW i \in Rows,
         NEW s \in {"pending", "publishing", "issued", "failed"},
         NEW g \in Generations \cup {None},
         rows' = WithGenerationStatus(i, s, g)
  PROVE  OneCurrentRow'
  <1>1. Rows' = Rows
    BY StatusRows
  <1>2. ASSUME NEW k \in Rows, rows'[k].current
        PROVE  rows'[k].status = "issued" /\ rows'[k].ref # None
    BY <1>2, StatusRows DEF OneCurrentRow
  <1>3. ASSUME NEW k \in Rows, NEW l \in Rows, rows'[k].current, rows'[l].current PROVE k = l
    BY <1>3, StatusRows DEF OneCurrentRow
  <1> QED
    BY <1>1, <1>2, <1>3 DEF OneCurrentRow

(* The row a run works on is a row of the table. *)
LEMMA AtRow ==
  ASSUME RunType, at # 0
  PROVE  at \in Rows
  BY DEF RunType, Rows

-----------------------------------------------------------------------------
(* finishV2GenerationFailure.  An attempt that fails after it published leaves  *)
(* its release in "own", so the release stays accounted for.                    *)
LEMMA FailsRowGood ==
  ASSUME PuIInv, FailsRow, UNCHANGED csVars, UNCHANGED due,
         run \in {"issue", "intend", "publishing", "record", "artifact"},
         run = "publishing" => pub = "idle"
  PROVE  PuGood
  <1> USE DEF PuIInv, PuInv
  <1>1. /\ rows' = WithGenerationStatus(at, "failed", None) /\ run' = "idle"
        /\ verdict' = "failed" /\ at' = 0 /\ target' = None /\ force' = FALSE
    BY DEF FailsRow, Ends
  <1>2. /\ current' = current /\ pub' = pub /\ restored' = restored /\ overtaken' = overtaken
        /\ out' = out /\ made' = made
    BY DEF csVars
  <1>3. at \in Rows /\ None \in Generations \cup {None}
    BY AtRow DEF RunType
  <1>4. /\ rows' \in Seq(GenerationRow) /\ Len(rows') = Len(rows) /\ Rows' = Rows
        /\ rows'[at].status = "failed" /\ rows'[at].own = rows[at].own
        /\ \A k \in Rows : k # at =>
              /\ rows'[k].status = rows[k].status
              /\ rows'[k].ref = rows[k].ref /\ rows'[k].own = rows[k].own
              /\ rows'[k].current <=> rows[k].current
    BY <1>1, <1>3, StatusRows
  <1>5. RunType'
    <2>1. force' \in BOOLEAN
      BY <1>1
    <2>2. at' \in 0..Len(rows') /\ target' \in Generations \cup {None}
      BY <1>1, <1>4 DEF RunType
    <2> QED
      BY <1>1, <1>4, <2>1, <2>2 DEF RunType
  <1>6. OneCurrentRow'
    BY <1>1, <1>3, StatusOneCurrent
  <1>7. OnlyNewestPublishing'
    BY <1>3, <1>4 DEF OnlyNewestPublishing, Publishing
  <1>8. AtInv' /\ ReleaseInv'
    BY <1>1, <1>2 DEF AtInv, ReleaseInv
  <1>9. ASSUME KeepRecent # 0, ~restored, ~overtaken, current # None PROVE Accounted'
    <2>1. CASE rows[at].own = current
      BY <1>2, <1>3, <1>4, <2>1 DEF Accounted, Accounts
    <2>2. CASE Accounted /\ run \in {"issue", "intend", "publishing"}
      <3>1. PICK k \in Rows : Accounts(rows[k])
        BY <2>2 DEF Accounted
      <3>2. k # at
        BY <2>2, <3>1 DEF Accounts, AtInv
      <3> QED
        BY <1>2, <1>4, <3>1, <3>2 DEF Accounted, Accounts
    <2> QED
      BY <1>9, <2>1, <2>2 DEF RecordInv, AtInv, ReleaseInv
  <1>10. KeepRecent # 0 => RecordInv'
    BY <1>1, <1>2, <1>9 DEF RecordInv
  <1> QED
    BY <1>5, <1>6, <1>7, <1>8, <1>10 DEF PuGood

(* The run ends without touching the table. *)
LEMMA EndsGood ==
  ASSUME PuIInv, CheckFails \/ CheckFresh \/ RecoverFails \/ CreateFails
  PROVE  PuGood
  <1> USE DEF PuIInv, PuInv
  <1>1. /\ UNCHANGED csVars /\ rows' = rows /\ due' = due /\ run' = "idle"
        /\ at' = 0 /\ target' = None /\ force' = FALSE
        /\ verdict' = "failed" \/ (verdict' = "succeeded" /\ current # None)
        /\ run # "publishing"
    BY DEF CheckFails, CheckFresh, RecoverFails, CreateFails, Ends, CurrentOk
  <1>2. /\ current' = current /\ pub' = pub /\ restored' = restored /\ overtaken' = overtaken
        /\ out' = out /\ made' = made
    BY <1>1 DEF csVars
  <1>3. RunType'
    <2>1. force' \in BOOLEAN
      BY <1>1
    <2>2. at' \in 0..Len(rows') /\ target' \in Generations \cup {None}
      BY <1>1 DEF RunType
    <2> QED
      BY <1>1, <2>1, <2>2 DEF RunType
  <1>4. OneCurrentRow' /\ OnlyNewestPublishing' /\ Publishing' = Publishing /\ Rows' = Rows
    BY <1>1 DEF OneCurrentRow, OnlyNewestPublishing, Publishing, Rows
  <1>5. AtInv' /\ ReleaseInv'
    BY <1>1, <1>2 DEF AtInv, ReleaseInv
  <1>6. KeepRecent # 0 => RecordInv'
    BY <1>1, <1>2, <1>4 DEF RecordInv, Accounted, Accounts
  <1> QED
    BY <1>1, <1>3, <1>4, <1>5, <1>6 DEF PuGood

(* The run goes on, or time passes, without touching the table. *)
LEMMA GoesOnGood ==
  ASSUME PuIInv,
         \/ \E f \in BOOLEAN : Begin(f)
         \/ CheckDue \/ RecoverNothing \/ IssueDone \/ Expire \/ UNCHANGED pVars
  PROVE  PuGood
  <1> USE DEF PuIInv, PuInv
  <1>1. /\ UNCHANGED csVars /\ rows' = rows /\ at' = at /\ target' = target
        /\ verdict' = verdict /\ due' \in {due, due \cup {current}}
    BY DEF Begin, CheckDue, RecoverNothing, IssueDone, Expire, Keeps, pVars, dbVars
  <1>2. /\ current' = current /\ pub' = pub /\ restored' = restored /\ overtaken' = overtaken
        /\ out' = out /\ made' = made
    BY <1>1 DEF csVars
  <1>3. /\ run' = run \/ (run = "idle" /\ run' = "check") \/ (run = "check" /\ run' = "recover")
           \/ (run = "recover" /\ run' = "create" /\ Publishing = {})
           \/ (run = "issue" /\ run' = "intend")
    BY DEF Begin, CheckDue, RecoverNothing, IssueDone, Expire, Goto, pVars, dbVars
  <1>4. force' \in BOOLEAN
    BY DEF Begin, CheckDue, RecoverNothing, IssueDone, Expire, Keeps, pVars, dbVars, RunType
  <1>5. due' \subseteq Generations
    BY <1>1 DEF Expire, CurrentOk, RunType, CsIInv, CsTypeOK, Begin, CheckDue, RecoverNothing,
            IssueDone, Keeps, pVars, dbVars
  <1>6. RunType'
    BY <1>1, <1>3, <1>4, <1>5 DEF RunType
  <1>7. OneCurrentRow' /\ OnlyNewestPublishing' /\ Publishing' = Publishing /\ Rows' = Rows
    BY <1>1 DEF OneCurrentRow, OnlyNewestPublishing, Publishing, Rows
  <1>8. AtInv' /\ ReleaseInv'
    BY <1>1, <1>2, <1>3, <1>7 DEF AtInv, ReleaseInv
  <1>9. KeepRecent # 0 => RecordInv'
    BY <1>1, <1>2, <1>3, <1>7 DEF RecordInv, Accounted, Accounts
  <1> QED
    BY <1>1, <1>6, <1>7, <1>8, <1>9 DEF PuGood

(* publish returned the new release: it is the current one. *)
LEMMA PublishReturnsGood ==
  ASSUME PuIInv, PublishReturns
  PROVE  PuGood
  <1> USE DEF PuIInv, PuInv
  <1>1. /\ UNCHANGED csVars /\ rows' = rows /\ at' = at /\ target' = made /\ force' = force
        /\ verdict' = verdict /\ due' = due /\ run = "publishing" /\ run' = "record"
        /\ pub = "idle" /\ out = "ok"
    BY DEF PublishReturns, Goto
  <1>2. /\ current' = current /\ pub' = pub /\ restored' = restored /\ overtaken' = overtaken
        /\ out' = out /\ made' = made
    BY <1>1 DEF csVars
  <1>3. current = made /\ made # None /\ made \in Generations
    BY <1>1, MaxGenerationsAssumption DEF CsIInv, CsTypeOK, LinkInv, IdsOK, None, Generations
  <1>4. RunType'
    BY <1>1, <1>3 DEF RunType
  <1>5. OneCurrentRow' /\ OnlyNewestPublishing' /\ Publishing' = Publishing /\ Rows' = Rows
    BY <1>1 DEF OneCurrentRow, OnlyNewestPublishing, Publishing, Rows
  <1>6. AtInv' /\ ReleaseInv'
    BY <1>1, <1>2, <1>3 DEF AtInv, ReleaseInv
  <1>7. KeepRecent # 0 => RecordInv'
    BY <1>1, <1>2, <1>5 DEF RecordInv, Accounted, Accounts
  <1> QED
    BY <1>1, <1>4, <1>5, <1>6, <1>7 DEF PuGood

-----------------------------------------------------------------------------
(* recoverPublishingGeneration without a release to show for it. *)
LEMMA RecoverDropsGood ==
  ASSUME PuIInv, NEW i \in Rows, RecoverDrops(i)
  PROVE  PuGood
  <1> USE DEF PuIInv, PuInv
  <1>1. /\ UNCHANGED csVars /\ rows' = WithGenerationStatus(i, "failed", None) /\ at' = at
        /\ target' = target /\ force' = force
        /\ verdict' = verdict /\ due' = due /\ run = "recover" /\ run' = "recover"
        /\ ~CurrentOk
    BY DEF RecoverDrops, Keeps
  <1>2. /\ current' = current /\ pub' = pub /\ restored' = restored /\ overtaken' = overtaken
        /\ out' = out /\ made' = made
    BY <1>1 DEF csVars
  <1>3. /\ rows' \in Seq(GenerationRow) /\ Len(rows') = Len(rows) /\ Rows' = Rows
        /\ rows'[i].status = "failed"
        /\ \A k \in Rows : k # i => rows'[k].status = rows[k].status
    BY <1>1, StatusRows
  <1>4. RunType'
    BY <1>1, <1>3 DEF RunType
  <1>5. OneCurrentRow'
    BY <1>1, StatusOneCurrent
  <1>6. OnlyNewestPublishing'
    BY <1>3 DEF OnlyNewestPublishing, Publishing
  <1>7. AtInv' /\ ReleaseInv'
    BY <1>1, <1>2 DEF AtInv, ReleaseInv
  <1>8. KeepRecent # 0 => RecordInv'
    BY <1>1, <1>2 DEF RecordInv, CsIInv, KeptInv, CurrentOk
  <1> QED
    BY <1>1, <1>4, <1>5, <1>6, <1>7, <1>8 DEF PuGood

(* A row becomes issued with the current release: by recovery, or by the run    *)
(* that published it.                                                           *)
LEMMA IssuedGood ==
  ASSUME PuIInv, (\E i \in Rows : RecoverIssues(i)) \/ RecordIssued
  PROVE  PuGood
  <1> USE DEF PuIInv, PuInv
  <1>1. PICK i \in Rows :
          /\ UNCHANGED csVars /\ rows' = WithGenerationStatus(i, "issued", current) /\ at' = i
          /\ target' = current /\ force' = force /\ current # None
          /\ verdict' = verdict /\ due' = due
          /\ \/ run = "recover" /\ run' = "finalise"
             \/ run = "record" /\ run' = "artifact" /\ i = Len(rows) /\ rows[i].own = current
    <2>1. CASE \E i \in Rows : RecoverIssues(i)
      BY <2>1 DEF RecoverIssues, Goto, CurrentOk
    <2>2. CASE RecordIssued
      <3>1. at \in Rows
        BY <2>2, AtRow DEF RecordIssued, RunType
      <3> QED
        BY <2>2, <3>1 DEF RecordIssued, Goto, Keeps, AtInv, ReleaseInv
    <2> QED
      BY <2>1, <2>2
  <1>2. /\ current' = current /\ pub' = pub /\ restored' = restored /\ overtaken' = overtaken
        /\ out' = out /\ made' = made
    BY <1>1 DEF csVars
  <1>3. current \in Generations
    BY <1>1 DEF CsIInv, CsTypeOK
  <1>4. /\ rows' \in Seq(GenerationRow) /\ Len(rows') = Len(rows) /\ Rows' = Rows
        /\ rows'[i].status = "issued" /\ rows'[i].ref = current /\ rows'[i].current
        /\ rows'[i].own = rows[i].own
        /\ \A k \in Rows : k # i => rows'[k].status = rows[k].status
    BY <1>1, <1>3, StatusRows
  <1>5. RunType'
    BY <1>1, <1>3, <1>4 DEF RunType, Rows
  <1>6. OneCurrentRow'
    BY <1>1, <1>3, StatusOneCurrent
  <1>7. OnlyNewestPublishing'
    BY <1>4 DEF OnlyNewestPublishing, Publishing
  <1>8. AtInv' /\ ReleaseInv'
    BY <1>1, <1>2, <1>4 DEF AtInv, ReleaseInv
  <1>9. KeepRecent # 0 => RecordInv'
    BY <1>1, <1>2, <1>4 DEF RecordInv, Accounted, Accounts
  <1> QED
    BY <1>1, <1>5, <1>6, <1>7, <1>8, <1>9 DEF PuGood

(* The artifact of the issued row is recorded and the run succeeds. *)
LEMMA ArtifactGood ==
  ASSUME PuIInv, RecoverFinalises \/ RecordArtifact
  PROVE  PuGood
  <1> USE DEF PuIInv, PuInv
  <1>1. /\ UNCHANGED csVars /\ rows' = WithArtifact(at, rev[target]) /\ run' = "idle"
        /\ at' = 0 /\ target' = None /\ force' = FALSE /\ verdict' = "succeeded" /\ due' = due
        /\ run \in {"finalise", "artifact"}
    BY DEF RecoverFinalises, RecordArtifact, Ends
  <1>2. /\ current' = current /\ pub' = pub /\ restored' = restored /\ overtaken' = overtaken
        /\ out' = out /\ made' = made
    BY <1>1 DEF csVars
  <1>3. /\ at \in Rows /\ rows[at].status = "issued" /\ rows[at].ref = current
        /\ target = current /\ current # None
    BY <1>1, AtRow DEF RunType, AtInv, ReleaseInv
  <1>4. rev[target] \in Nat
    BY <1>3, MaxGenerationsAssumption DEF CsIInv, CsTypeOK
  <1>5. /\ rows' \in Seq(GenerationRow) /\ Len(rows') = Len(rows) /\ Rows' = Rows
        /\ rows'[at].status = "issued" /\ rows'[at].ref = current /\ rows'[at].current
        /\ \A k \in Rows : k # at => ~rows'[k].current /\ rows'[k].status = rows[k].status
    BY <1>1, <1>3, <1>4, ArtifactRows
  <1>6. RunType'
    <2>1. force' \in BOOLEAN
      BY <1>1
    <2>2. at' \in 0..Len(rows') /\ target' \in Generations \cup {None}
      BY <1>1, <1>5 DEF RunType
    <2> QED
      BY <1>1, <1>5, <2>1, <2>2 DEF RunType
  <1>7. OneCurrentRow'
    BY <1>3, <1>5 DEF OneCurrentRow
  <1>8. OnlyNewestPublishing'
    BY <1>3, <1>5 DEF OnlyNewestPublishing, Publishing
  <1>9. AtInv' /\ ReleaseInv'
    BY <1>1, <1>2, <1>3 DEF AtInv, ReleaseInv
  <1>10. KeepRecent # 0 => RecordInv'
    BY <1>1, <1>2, <1>3, <1>5 DEF RecordInv, Accounted, Accounts
  <1> QED
    BY <1>1, <1>6, <1>7, <1>8, <1>9, <1>10 DEF PuGood

-----------------------------------------------------------------------------
(* A new row comes after all others, and none of those is being published. *)
LEMMA CreateRowGood ==
  ASSUME PuIInv, CreateRow
  PROVE  PuGood
  <1> USE DEF PuIInv, PuInv
  <1> DEFINE new == [status |-> "pending", ref |-> None, revision |-> Len(rows) + 1,
                     current |-> FALSE, own |-> None]
  <1>1. /\ UNCHANGED csVars /\ rows' = Append(rows, new) /\ at' = Len(rows) + 1
        /\ target' = target /\ force' = force /\ verdict' = verdict /\ due' = due
        /\ run = "create" /\ run' = "issue" /\ Len(rows) < MaxRows
    BY DEF CreateRow, Goto
  <1>2. /\ current' = current /\ pub' = pub /\ restored' = restored /\ overtaken' = overtaken
        /\ out' = out /\ made' = made
    BY <1>1 DEF csVars
  <1>3. new \in GenerationRow /\ new.status = "pending" /\ ~new.current /\ new.own = None
    BY DEF GenerationRow, RunType
  <1> HIDE DEF new
  <1>4. /\ rows' \in Seq(GenerationRow) /\ Len(rows') = Len(rows) + 1 /\ Len(rows) \in Nat
        /\ Rows = 1..Len(rows) /\ Rows' = 1..(Len(rows) + 1)
        /\ rows'[Len(rows) + 1] = new /\ \A k \in Rows : rows'[k] = rows[k]
    BY <1>1, <1>3 DEF RunType, Rows
  <1>5. RunType'
    BY <1>1, <1>4, MaxRowsAssumption DEF RunType
  <1>6. \A k \in Rows' : k \in Rows \/ k = Len(rows) + 1
    BY <1>4
  <1>7. OneCurrentRow'
    BY <1>3, <1>4, <1>6 DEF OneCurrentRow
  <1>8. Publishing' = {}
    BY <1>1, <1>3, <1>4, <1>6 DEF Publishing, AtInv
  <1>9. OnlyNewestPublishing' /\ AtInv' /\ ReleaseInv'
    BY <1>1, <1>2, <1>3, <1>4, <1>8 DEF OnlyNewestPublishing, AtInv, ReleaseInv
  <1>10. ASSUME KeepRecent # 0, ~restored, ~overtaken, current # None PROVE Accounted'
    <2>1. PICK k \in Rows : Accounts(rows[k])
      BY <1>1, <1>10 DEF RecordInv, AtInv, Accounted
    <2>2. k \in Rows' /\ rows'[k] = rows[k]
      BY <1>4
    <2> QED
      BY <1>2, <2>1, <2>2 DEF Accounted, Accounts
  <1>11. KeepRecent # 0 => RecordInv'
    BY <1>1, <1>2, <1>10 DEF RecordInv
  <1> QED
    BY <1>1, <1>5, <1>7, <1>9, <1>11 DEF PuGood

(* The intent to publish is recorded before anything is published. *)
LEMMA RecordIntentGood ==
  ASSUME PuIInv, RecordIntent
  PROVE  PuGood
  <1> USE DEF PuIInv, PuInv
  <1>1. /\ UNCHANGED csVars /\ rows' = WithGenerationStatus(at, "publishing", None) /\ at' = at
        /\ target' = target /\ force' = force /\ verdict' = verdict /\ due' = due
        /\ run = "intend" /\ run' = "publish"
    BY DEF RecordIntent, Goto, Keeps
  <1>2. /\ current' = current /\ pub' = pub /\ restored' = restored /\ overtaken' = overtaken
        /\ out' = out /\ made' = made
    BY <1>1 DEF csVars
  <1>3. at \in Rows /\ at = Len(rows) /\ rows[at].status = "pending" /\ ~rows[at].current
    BY <1>1, AtRow DEF RunType, AtInv
  <1>4. None \in Generations \cup {None}
    OBVIOUS
  <1>5. /\ rows' \in Seq(GenerationRow) /\ Len(rows') = Len(rows) /\ Rows' = Rows
        /\ rows'[at].status = "publishing" /\ ~rows'[at].current /\ rows'[at].own = rows[at].own
        /\ \A k \in Rows : k # at =>
              /\ rows'[k].status = rows[k].status
              /\ rows'[k].ref = rows[k].ref /\ rows'[k].own = rows[k].own
              /\ rows'[k].current <=> rows[k].current
    BY <1>1, <1>3, <1>4, StatusRows
  <1>6. RunType'
    BY <1>1, <1>5 DEF RunType
  <1>7. OneCurrentRow'
    BY <1>1, <1>3, <1>4, StatusOneCurrent
  <1>8. OnlyNewestPublishing'
    BY <1>3, <1>5 DEF OnlyNewestPublishing, Publishing
  <1>9. AtInv' /\ ReleaseInv'
    BY <1>1, <1>2, <1>3, <1>5 DEF AtInv, ReleaseInv
  <1>10. at \in Publishing'
    BY <1>3, <1>5 DEF Publishing
  <1>11. ASSUME KeepRecent # 0, ~restored, ~overtaken, current # None PROVE Accounted'
    <2>1. PICK k \in Rows : Accounts(rows[k])
      BY <1>1, <1>11 DEF RecordInv, AtInv, Accounted
    <2>2. k # at
      BY <1>3, <2>1 DEF Accounts
    <2> QED
      BY <1>2, <1>5, <2>1, <2>2 DEF Accounted, Accounts
  <1>12. KeepRecent # 0 => RecordInv'
    BY <1>1, <1>2, <1>10, <1>11 DEF RecordInv
  <1> QED
    BY <1>1, <1>6, <1>7, <1>8, <1>9, <1>12 DEF PuGood

-----------------------------------------------------------------------------
(* publish begins: from now on the new release is the row's own. *)
LEMMA PublishesGood ==
  ASSUME PuIInv, Publishes
  PROVE  PuGood
  <1> USE DEF PuIInv, PuInv
  <1>1. /\ at' = at /\ target' = target /\ force' = force /\ verdict' = verdict /\ due' = due
        /\ run = "publish" /\ run' = "publishing"
    BY DEF Publishes, Goto, Keeps
  <1>2. /\ current' = current /\ restored' = restored /\ overtaken' = overtaken
    BY DEF Publishes, PublishStart, PublishRefused, files
  <1>3. at \in Rows /\ at = Len(rows) /\ rows[at].status = "publishing" /\ ~rows[at].current
    BY <1>1, AtRow DEF RunType, AtInv
  <1>4. [CsNext]_csVars
    BY DEF Publishes, CsNext, PublishStep
  <1>5. CASE PublishRefused /\ UNCHANGED rows
    <2>1. pub' = "idle" /\ out' = "error" /\ rows' = rows
      BY <1>5 DEF PublishRefused
    <2>2. RunType'
      BY <1>1, <2>1 DEF RunType
    <2>3. OneCurrentRow' /\ OnlyNewestPublishing' /\ Publishing' = Publishing /\ Rows' = Rows
      BY <2>1 DEF OneCurrentRow, OnlyNewestPublishing, Publishing, Rows
    <2>4. AtInv' /\ ReleaseInv'
      BY <1>1, <1>2, <2>1 DEF AtInv, ReleaseInv
    <2>5. KeepRecent # 0 => RecordInv'
      BY <1>1, <1>2, <2>1, <2>3 DEF RecordInv, Accounted, Accounts
    <2> QED
      BY <1>4, <2>2, <2>3, <2>4, <2>5 DEF PuGood
  <1>6. CASE PublishStart /\ rows' = [rows EXCEPT ![at].own = made']
    <2>1. pub' = "staged" /\ out' = "none" /\ made' = made + 1 /\ made' \in Generations
      BY <1>6, MaxGenerationsAssumption DEF PublishStart, CsIInv, CsTypeOK, Generations
    <2>2. PICK m \in Generations : m = made'
      BY <2>1
    <2> DEFINE x == [rows[at] EXCEPT !.own = m]
    <2>3. rows[at] \in GenerationRow
      BY <1>3 DEF RunType, Rows
    <2>4. /\ x \in GenerationRow /\ x.status = "publishing" /\ ~x.current /\ x.own = m
      BY <1>3, <2>3 DEF GenerationRow
    <2>5. rows' = [rows EXCEPT ![at] = x]
      BY <1>6, <2>2
    <2> HIDE DEF x
    <2>6. /\ rows' \in Seq(GenerationRow) /\ Len(rows') = Len(rows) /\ Rows' = Rows
          /\ rows'[at] = x /\ \A k \in Rows : k # at => rows'[k] = rows[k]
      BY <1>3, <2>4, <2>5 DEF RunType, Rows
    <2>7. RunType'
      BY <1>1, <2>6 DEF RunType
    <2>8. OneCurrentRow' /\ OnlyNewestPublishing'
      BY <1>3, <2>4, <2>6 DEF OneCurrentRow, OnlyNewestPublishing, Publishing
    <2>9. AtInv' /\ ReleaseInv'
      BY <1>1, <1>2, <1>3, <2>1, <2>2, <2>4, <2>6 DEF AtInv, ReleaseInv
    <2>10. at \in Publishing'
      BY <1>3, <2>4, <2>6 DEF Publishing
    <2>11. ASSUME KeepRecent # 0, ~restored, ~overtaken, current # None PROVE Accounted'
      <3>1. PICK k \in Rows : Accounts(rows[k])
        BY <1>1, <2>11 DEF RecordInv, ReleaseInv, Accounted
      <3>2. k # at
        BY <1>3, <3>1 DEF Accounts
      <3> QED
        BY <1>2, <2>6, <3>1, <3>2 DEF Accounted, Accounts
    <2>12. KeepRecent # 0 => RecordInv'
      BY <1>1, <1>2, <2>10, <2>11 DEF RecordInv
    <2> QED
      BY <1>4, <2>7, <2>8, <2>9, <2>12 DEF PuGood
  <1> QED
    BY <1>5, <1>6 DEF Publishes

(* publish goes on: when the link moves, it moves to the row's own release. *)
LEMMA PublishContinuesGood ==
  ASSUME PuIInv, PublishContinues
  PROVE  PuGood
  <1> USE DEF PuIInv, PuInv
  <1>1. /\ rows' = rows /\ at' = at /\ target' = target /\ force' = force
        /\ verdict' = verdict /\ due' = due /\ run' = run /\ run = "publishing" /\ pub # "idle"
    BY DEF PublishContinues, dbVars
  <1>2. PublishRefused \/ RenameRelease \/ SwitchCurrent \/ SwitchRefused \/ SwitchSynced
        \/ SwitchUndone \/ EraseStart \/ EraseEnd
    BY DEF PublishContinues, PublishStep, PublishStart
  <1>3. [CsNext]_csVars
    BY <1>2 DEF CsNext, PublishStep
  <1>4. /\ made' = made
        /\ restored' \/ current' = current \/ current' = made
        /\ restored => restored'
        /\ overtaken => overtaken'
    <2>1. CASE SwitchCurrent
      BY <2>1 DEF SwitchCurrent
    <2>2. CASE SwitchUndone
      BY <2>2 DEF SwitchUndone
    <2>3. CASE PublishRefused \/ RenameRelease \/ SwitchRefused \/ SwitchSynced
               \/ EraseStart \/ EraseEnd
      BY <2>3 DEF PublishRefused, RenameRelease, SwitchRefused, SwitchSynced, EraseStart,
              EraseEnd, files
    <2> QED
      BY <1>2, <2>1, <2>2, <2>3
  <1>5. RunType'
    BY <1>1 DEF RunType
  <1>6. OneCurrentRow' /\ OnlyNewestPublishing' /\ Publishing' = Publishing /\ Rows' = Rows
    BY <1>1 DEF OneCurrentRow, OnlyNewestPublishing, Publishing, Rows
  <1>7. at \in Publishing /\ rows[at].own = made /\ made # None
    BY <1>1, AtRow DEF RunType, AtInv, ReleaseInv, Publishing, CsIInv, IdsOK, None
  <1>8. AtInv' /\ ReleaseInv'
    BY <1>1, <1>4, <1>6, <1>7 DEF AtInv, ReleaseInv
  <1>9. ASSUME KeepRecent # 0, ~restored', ~overtaken', current' # None
        PROVE  Accounted' \/ rows'[at].own = current'
    <2>1. CASE current' = made
      BY <1>1, <1>7, <2>1
    <2>2. CASE current' = current
      BY <1>1, <1>4, <1>6, <1>9, <2>2 DEF RecordInv, Accounted, Accounts
    <2> QED
      BY <1>4, <1>9, <2>1, <2>2
  <1>10. KeepRecent # 0 => RecordInv'
    BY <1>1, <1>6, <1>7, <1>9 DEF RecordInv
  <1> QED
    BY <1>3, <1>5, <1>6, <1>8, <1>10 DEF PuGood

(* A crash forgets where the run was, gc works beside it; neither touches the   *)
(* table or the link.                                                           *)
LEMMA CrashOrCollectGood ==
  ASSUME PuIInv, Crash \/ Collect
  PROVE  PuGood
  <1> USE DEF PuIInv, PuInv
  <1>1. /\ current' = current /\ made' = made /\ restored' = restored /\ overtaken' = overtaken
    BY DEF Crash, ServerCrash, Collect, GcStep, GcStart, GcList, GcEraseStart, GcEraseEnd,
           GcEnd, GcKilled, files, pubVars
  <1>2. [CsNext]_csVars /\ rows' = rows /\ due' = due
    BY DEF Crash, Collect, CsNext, dbVars
  <1>3. \/ /\ run' = run /\ at' = at /\ target' = target /\ force' = force /\ verdict' = verdict
           /\ pub' = pub /\ out' = out
        \/ /\ run' = "idle" /\ at' = 0 /\ target' = None /\ force' = FALSE /\ verdict' = "none"
           /\ pub' = "idle" /\ out' = "none"
    BY DEF Crash, ServerCrash, Collect, dbVars, GcStep, GcStart, GcList, GcEraseStart, GcEraseEnd,
           GcEnd, GcKilled, pubVars
  <1>4. RunType'
    <2>1. force' \in BOOLEAN
      BY <1>3 DEF RunType
    <2>2. at' \in 0..Len(rows') /\ target' \in Generations \cup {None}
      BY <1>2, <1>3 DEF RunType
    <2>3. /\ verdict' \in {"none", "succeeded", "failed"} /\ run' \in {run, "idle"}
          /\ run' # "idle" => at' = at
      BY <1>3 DEF RunType
    <2> QED
      BY <1>2, <2>1, <2>2, <2>3 DEF RunType
  <1>5. OneCurrentRow' /\ OnlyNewestPublishing' /\ Publishing' = Publishing /\ Rows' = Rows
    BY <1>2 DEF OneCurrentRow, OnlyNewestPublishing, Publishing, Rows
  <1>6. AtInv'
    BY <1>2, <1>3, <1>5 DEF AtInv
  <1>7. ReleaseInv'
    BY <1>1, <1>2, <1>3 DEF ReleaseInv
  <1>8. KeepRecent # 0 => RecordInv'
    BY <1>1, <1>2, <1>3, <1>5 DEF RecordInv, Accounted, Accounts
  <1> QED
    BY <1>2, <1>4, <1>5, <1>6, <1>7, <1>8 DEF PuGood

-----------------------------------------------------------------------------
(* An empty table and an empty repository. *)
LEMMA InitPuIInv == Init => PuIInv
  <1> SUFFICES ASSUME Init PROVE PuIInv
    OBVIOUS
  <1>1. CsIInv
    BY InitCsIInv DEF Init
  <1>2. /\ rows = <<>> /\ run = "idle" /\ at = 0 /\ target = None /\ due = {} /\ verdict = "none"
        /\ pub = "idle" /\ current = None
    BY DEF Init, CsInit
  <1>3. RunType
    <2>1. force \in BOOLEAN
      BY DEF Init
    <2> QED
      BY <1>2, <2>1, MaxRowsAssumption DEF RunType
  <1>4. Rows = {}
    BY <1>2 DEF Rows
  <1> QED
    BY <1>1, <1>2, <1>3, <1>4 DEF PuIInv, PuInv, OneCurrentRow, OnlyNewestPublishing, Publishing,
       AtInv, ReleaseInv, RecordInv

(* Every step keeps the invariant and is a step of the repository, or leaves it *)
(* as it is.                                                                    *)
LEMMA NextPuIInv ==
  ASSUME PuIInv, [Next]_pVars
  PROVE  PuIInv' /\ [CsNext]_csVars
  <1>1. ASSUME IssueFails \/ PublishFails \/ ArtifactRefused \/ StatementFails PROVE PuGood
    BY <1>1, FailsRowGood DEF IssueFails, PublishFails, ArtifactRefused, StatementFails,
       PuIInv, PuInv, ReleaseInv
  <1>2. ASSUME RunStep PROVE PuGood
    BY <1>1, <1>2, EndsGood, GoesOnGood, RecoverDropsGood, IssuedGood, ArtifactGood, CreateRowGood,
       RecordIntentGood, PublishesGood, PublishContinuesGood, PublishReturnsGood DEF RunStep
  <1>3. PuGood
    BY <1>2, GoesOnGood, CrashOrCollectGood DEF Next
  <1>4. CsIInv'
    BY <1>3, NextCsIInv DEF PuIInv, PuGood
  <1> QED
    BY <1>3, <1>4 DEF PuIInv, PuGood

(* The invariant holds in every reachable state. *)
THEOREM PublicationInvariance == Spec => []PuIInv
  <1>1. PuIInv /\ [Next]_pVars => PuIInv'
    BY NextPuIInv
  <1> QED
    BY <1>1, InitPuIInv, PTL DEF Spec

(* Types of the table and of a run. *)
THEOREM PublicationTypeCorrect == Spec => []TypeOK
  <1>1. PuIInv => TypeOK
    BY DEF PuIInv, PuInv, RunType, CsIInv, TypeOK
  <1> QED
    BY <1>1, PublicationInvariance, PTL

(* The table never shows two current rows, or one that is not issued. *)
THEOREM OneRowIsCurrent == Spec => []OneCurrentRow
  <1>1. PuIInv => OneCurrentRow
    BY DEF PuIInv, PuInv
  <1> QED
    BY <1>1, PublicationInvariance, PTL

(* Recovery always deals with the last attempt. *)
THEOREM OnlyTheLastPublishes == Spec => []OnlyNewestPublishing
  <1>1. PuIInv => OnlyNewestPublishing
    BY DEF PuIInv, PuInv
  <1> QED
    BY <1>1, PublicationInvariance, PTL

(* A job that succeeded leaves a complete release, when gc keeps the newest. *)
THEOREM SuccessHasCertificate == Spec => [](KeepRecent # 0 => SucceededHasCertificate)
  <1>1. PuIInv => (KeepRecent # 0 => SucceededHasCertificate)
    BY DEF PuIInv, PuInv, ReleaseInv, CsIInv, KeptInv, SucceededHasCertificate, CurrentOk
  <1> QED
    BY <1>1, PublicationInvariance, PTL

(* After a job that succeeded the table agrees with the repository, up to the   *)
(* two traces CurrentIsRecorded names.                                          *)
THEOREM TableFollowsRepository == Spec => [](KeepRecent # 0 => CurrentIsRecorded)
  <1>1. PuIInv => (KeepRecent # 0 => CurrentIsRecorded)
    BY DEF PuIInv, PuInv, ReleaseInv, RecordInv, Accounted, Accounts, CurrentIsRecorded
  <1> QED
    BY <1>1, PublicationInvariance, PTL

(* The repository is used as CertStore says; so is what CertStoreProofs shows.  *)
THEOREM PublicationUsesRepository == Spec => CsSpec
  <1>1. Init => CsInit
    BY DEF Init
  <1>2. PuIInv /\ [Next]_pVars => [CsNext]_csVars
    BY NextPuIInv
  <1> QED
    BY <1>1, <1>2, PublicationInvariance, PTL DEF Spec, CsSpec

(* Finished attempts keep their record: a step writes the row it works on, or a *)
(* row left "publishing", and takes at most the current flag from the others.   *)
THEOREM SettledRowsStay == Spec => SettledRowsAreKept
  <1> DEFINE Kept(i) == /\ i \in DOMAIN rows'
                        /\ rows'[i] \in {rows[i], [rows[i] EXCEPT !.current = FALSE]}
             Keep == \A i \in Rows : rows[i].status \in {"issued", "failed"} /\ i # at => Kept(i)
  <1>1. ASSUME PuIInv, NEW i \in Rows, NEW s \in {"pending", "publishing", "issued", "failed"},
               NEW g \in Generations \cup {None}, rows' = WithGenerationStatus(i, s, g),
               i = at \/ rows[i].status = "publishing"
        PROVE  Keep
    BY <1>1, StatusRows DEF PuIInv, PuInv, Rows
  <1>2. ASSUME PuIInv, [Next]_pVars PROVE Keep
    <2>0. None \in Generations \cup {None}
      OBVIOUS
    <2>1. CASE rows' = rows
      BY <2>1 DEF Rows
    <2>2. CASE FailsRow /\ run \in {"issue", "intend", "publishing", "record", "artifact"}
      <3>1. at \in Rows
        BY <1>2, <2>2, AtRow DEF PuIInv, PuInv, RunType
      <3> QED
        BY <1>1, <1>2, <2>0, <2>2, <3>1 DEF FailsRow
    <2>3. CASE \E i \in Rows : RecoverDrops(i)
      BY <1>1, <1>2, <2>0, <2>3 DEF RecoverDrops, Newest, Publishing
    <2>4. CASE \E i \in Rows : RecoverIssues(i)
      BY <1>1, <1>2, <2>4 DEF RecoverIssues, Newest, Publishing, CurrentOk, PuIInv, CsIInv, CsTypeOK
    <2>5. CASE RecordIssued \/ RecordIntent
      <3>1. at \in Rows /\ target \in Generations \cup {None}
        BY <1>2, <2>5, AtRow DEF RecordIssued, RecordIntent, PuIInv, PuInv, RunType
      <3> QED
        BY <1>1, <1>2, <2>0, <2>5, <3>1 DEF RecordIssued, RecordIntent
    <2>6. CASE RecoverFinalises \/ RecordArtifact
      <3>1. at \in Rows /\ target = current /\ current # None
        BY <1>2, <2>6, AtRow
           DEF RecoverFinalises, RecordArtifact, PuIInv, PuInv, RunType, ReleaseInv
      <3>2. rev[target] \in Nat /\ rows' = WithArtifact(at, rev[target])
        BY <1>2, <2>6, <3>1, MaxGenerationsAssumption
           DEF RecoverFinalises, RecordArtifact, PuIInv, CsIInv, CsTypeOK
      <3> QED
        BY <1>2, <3>1, <3>2, ArtifactRows DEF PuIInv, PuInv, Rows
    <2>7. CASE CreateRow
      <3>1. \A i \in Rows : i \in DOMAIN rows' /\ rows'[i] = rows[i]
        BY <1>2, <2>7 DEF CreateRow, PuIInv, PuInv, RunType, Rows
      <3> QED
        BY <3>1
    <2>8. CASE Publishes
      <3>1. rows \in Seq(GenerationRow)
        BY <1>2 DEF PuIInv, PuInv, RunType
      <3>2. \A i \in Rows : i # at => i \in DOMAIN rows' /\ rows'[i] = rows[i]
        BY <2>8, <3>1 DEF Publishes, Rows
      <3> QED
        BY <3>2
    <2> QED
      BY <1>2, <2>1, <2>2, <2>3, <2>4, <2>5, <2>6, <2>7, <2>8
         DEF Next, RunStep, Begin, CheckFails, CheckFresh, CheckDue, RecoverNothing, RecoverFails,
             CreateFails, IssueDone, PublishContinues, PublishReturns, IssueFails, PublishFails,
             ArtifactRefused, StatementFails, Crash, Expire, Collect, dbVars, pVars
  <1>3. PuIInv /\ [Next]_pVars => [Keep]_pVars
    BY <1>2
  <1> QED
    BY <1>3, PublicationInvariance, PTL DEF Spec, SettledRowsAreKept
=============================================================================
