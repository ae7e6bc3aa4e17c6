--------------------------- MODULE CertStoreProofs ---------------------------
(***************************************************************************)
(* Proofs about CertStore, for every number of generations, gc runs and    *)
(* crashes, every set of protected generations and every KeepRecent.       *)
(*                                                                         *)
(* The invariant follows the generation "made" of the publication under    *)
(* way: nobody has published it before (IdsOK, LinkInv), its revision is   *)
(* the largest there is (NewestInv), and, when gc keeps at least one       *)
(* release, gc can therefore not have chosen it for removal (KeptInv).     *)
(***************************************************************************)
EXTENDS CertStore, FiniteSetTheorems, TLAPS

-----------------------------------------------------------------------------
(* The publication under way or the last one that succeeded. *)
Announced == pub \in {"staged", "renamed", "switched"} \/ out = "ok"

IdsOK ==
    /\ current <= made /\ snap <= made
    /\ \A g \in doomed : g <= made
    /\ \A g \in Generations : g > made => dir[g] = "none"
    /\ pub # "idle" \/ out = "ok" => made # 0
    /\ out = "ok" => pub = "idle"
    /\ erasing # None => erasing \in doomed

LinkInv ==
    /\ pub \in {"staged", "renamed"} => current # made
    /\ pub = "staged" => dir[made] = "none" /\ made \notin doomed
    /\ pub = "switched" \/ out = "ok" => current = made

NewestInv == Announced => \A g \in Whole : g # made => rev[g] < rev[made]

(* What a gc run that keeps the newest release leaves alone. *)
KeptInv ==
    /\ pub \in {"renamed", "switched"} \/ out = "ok" =>
         dir[made] = "whole" /\ made \notin doomed
    /\ ~restored /\ ~overtaken =>
         /\ current # None => dir[current] = "whole" /\ current \notin doomed
         /\ gc = "listing" => kept = current
         /\ pub \in {"erase", "erasing"} => current # made

CsIInv ==
    /\ CsTypeOK /\ IdsOK /\ LinkInv
    /\ NewestInv /\ RevisionsDiffer
    /\ KeepRecent # 0 => KeptInv

-----------------------------------------------------------------------------
(* The initial repository, empty, satisfies the invariant. *)
LEMMA InitCsIInv == CsInit => CsIInv
  <1> SUFFICES ASSUME CsInit PROVE CsIInv
    OBVIOUS
  <1> USE MaxGenerationsAssumption, MaxGcsAssumption, MaxCrashesAssumption
  <1>1. CsTypeOK
    <2>1. /\ dir \in [Generations -> {"none", "whole", "broken"}]
          /\ rev \in [Generations -> 0..MaxGenerations] /\ made \in 0..MaxGenerations
          /\ gcs \in 0..MaxGcs /\ crashes \in 0..MaxCrashes
      BY DEF CsInit
    <2>2. restored \in BOOLEAN /\ overtaken \in BOOLEAN
      BY DEF CsInit
    <2> QED
      BY <2>1, <2>2 DEF CsInit, CsTypeOK
  <1>2. IdsOK /\ LinkInv /\ KeptInv
    BY DEF CsInit, IdsOK, LinkInv, KeptInv, Generations, None
  <1>3. NewestInv /\ RevisionsDiffer
    BY DEF CsInit, NewestInv, Announced, RevisionsDiffer, Whole
  <1> QED
    BY <1>1, <1>2, <1>3 DEF CsIInv

(* The newest release is the first gc sees: when KeepRecent is not 0 it stays. *)
LEMMA NewestIsRetained ==
  ASSUME CsIInv, KeepRecent # 0, NEW g \in Whole, \A h \in Whole : h # g => rev[h] < rev[g]
  PROVE  Retained(g)
  <1>1. rev \in [Generations -> 0..MaxGenerations]
    BY DEF CsIInv, CsTypeOK
  <1>2. ASSUME NEW h \in Whole PROVE ~Newer(h, g)
    <2>1. /\ rev[h] \in Nat /\ rev[g] \in Nat /\ h \in Nat /\ g \in Nat
      BY <1>1, MaxGenerationsAssumption DEF Whole, Generations
    <2> QED
      BY <2>1 DEF Newer
  <1>3. {h \in Whole : Newer(h, g)} = {}
    BY <1>2
  <1>4. Position(g) = 0
    BY <1>3, FS_EmptySet DEF Position
  <1> QED
    BY <1>4, KeepRecentAssumption DEF Retained

-----------------------------------------------------------------------------
(* nextRevision gives the new release a revision above all that are there. *)
LEMMA PublishStartCs ==
  ASSUME CsIInv, PublishStart
  PROVE  CsIInv'
  <1> USE MaxGenerationsAssumption
  <1>1. PICK r \in Generations : IsNextRevision(r) /\ rev' = [rev EXCEPT ![made + 1] = r]
    BY DEF PublishStart
  <1>2. /\ made + 1 \in Generations /\ made' = made + 1
        /\ current # made' /\ dir[made'] = "none" /\ made' \notin doomed
    BY DEF CsIInv, CsTypeOK, IdsOK, PublishStart, Generations, None
  <1>3. CsTypeOK'
    BY <1>1, <1>2 DEF CsIInv, CsTypeOK, PublishStart, gcVars, Generations
  <1>4. IdsOK' /\ LinkInv'
    BY <1>2 DEF CsIInv, CsTypeOK, IdsOK, LinkInv, PublishStart, gcVars, Generations, None
  <1>5. Whole' = Whole /\ made' \notin Whole
    BY <1>2 DEF Whole, PublishStart
  <1>6. /\ rev'[made'] = r
        /\ \A g \in Whole : rev'[g] = rev[g]
    BY <1>1, <1>2, <1>5 DEF CsIInv, CsTypeOK, Whole
  <1>7. NewestInv' /\ RevisionsDiffer'
    BY <1>1, <1>5, <1>6 DEF CsIInv, NewestInv, RevisionsDiffer, IsNextRevision
  <1>8. KeepRecent # 0 => KeptInv'
    BY <1>2 DEF CsIInv, KeptInv, PublishStart, gcVars
  <1> QED
    BY <1>3, <1>4, <1>7, <1>8 DEF CsIInv

(* The complete directory takes its name. *)
LEMMA RenameReleaseCs ==
  ASSUME CsIInv, RenameRelease
  PROVE  CsIInv'
  <1> USE MaxGenerationsAssumption
  <1>1. made \in Generations /\ made' = made /\ current # made /\ made \notin doomed
    BY DEF CsIInv, CsTypeOK, IdsOK, LinkInv, RenameRelease, Generations, None
  <1>2. /\ dir'[made] = "whole" /\ Whole' = Whole \cup {made}
        /\ \A g \in Generations : g # made => dir'[g] = dir[g]
    BY <1>1 DEF CsIInv, CsTypeOK, Whole, RenameRelease
  <1>3. CsTypeOK'
    BY <1>1 DEF CsIInv, CsTypeOK, RenameRelease, gcVars
  <1>4. IdsOK' /\ LinkInv'
    BY <1>1, <1>2 DEF CsIInv, CsTypeOK, IdsOK, LinkInv, RenameRelease, gcVars, Generations, None
  <1>5. rev' = rev /\ \A g \in Whole : g # made => rev[g] < rev[made]
    BY DEF CsIInv, NewestInv, Announced, RenameRelease
  <1>6. \A g \in Whole' : rev[g] \in Nat
    BY DEF Whole, CsIInv, CsTypeOK
  <1>7. NewestInv' /\ RevisionsDiffer'
    BY <1>1, <1>2, <1>5, <1>6 DEF CsIInv, NewestInv, RevisionsDiffer
  <1>8. KeepRecent # 0 => KeptInv'
    BY <1>1, <1>2 DEF CsIInv, CsTypeOK, IdsOK, KeptInv, RenameRelease, gcVars
  <1> QED
    BY <1>3, <1>4, <1>7, <1>8 DEF CsIInv

(* The link is switched to the new release. *)
LEMMA SwitchCurrentCs ==
  ASSUME CsIInv, SwitchCurrent
  PROVE  CsIInv'
  <1> USE MaxGenerationsAssumption
  <1>1. made \in Generations /\ made' = made /\ current' = made
    BY DEF CsIInv, CsTypeOK, IdsOK, SwitchCurrent, Generations, None
  <1>2. CsTypeOK'
    BY <1>1 DEF CsIInv, CsTypeOK, SwitchCurrent, gcVars
  <1>3. IdsOK' /\ LinkInv'
    BY <1>1 DEF CsIInv, CsTypeOK, IdsOK, LinkInv, SwitchCurrent, gcVars, Generations, None
  <1>4. NewestInv' /\ RevisionsDiffer'
    BY <1>1 DEF CsIInv, NewestInv, Announced, RevisionsDiffer, SwitchCurrent, Whole
  <1>5. KeepRecent # 0 => KeptInv'
    BY <1>1 DEF CsIInv, CsTypeOK, IdsOK, KeptInv, SwitchCurrent, gcVars
  <1> QED
    BY <1>2, <1>3, <1>4, <1>5 DEF CsIInv

(* The steps that only move the publisher, and the link back. *)
LEMMA PublisherMovesCs ==
  ASSUME CsIInv,
         PublishRefused \/ SwitchRefused \/ SwitchSynced \/ SwitchUndone \/ ServerCrash
  PROVE  CsIInv'
  <1> USE MaxGenerationsAssumption
  <1>1. /\ UNCHANGED <<dir, rev, made>> /\ UNCHANGED gcVars
        /\ current' \in {current, snap} /\ (restored' \/ current' = current)
    BY DEF PublishRefused, SwitchRefused, SwitchSynced, SwitchUndone, ServerCrash, files
  <1>2. CsTypeOK'
    <2>1. /\ pub' \in {"idle", "erase"} /\ out' \in {out, "none", "ok", "error"}
          /\ snap' = snap
          /\ crashes' = crashes \/ (crashes < MaxCrashes /\ crashes' = crashes + 1)
      BY DEF PublishRefused, SwitchRefused, SwitchSynced, SwitchUndone, ServerCrash
    <2>2. overtaken' = overtaken /\ (restored' = restored \/ restored' = TRUE)
      BY DEF PublishRefused, SwitchRefused, SwitchSynced, SwitchUndone, ServerCrash
    <2>3. crashes' \in 0..MaxCrashes
      BY <2>1, MaxCrashesAssumption DEF CsIInv, CsTypeOK
    <2>4. restored' \in BOOLEAN
      BY <2>2 DEF CsIInv, CsTypeOK
    <2> QED
      BY <1>1, <2>1, <2>2, <2>3, <2>4 DEF CsIInv, CsTypeOK, gcVars
  <1>3. Whole' = Whole
    BY <1>1 DEF Whole
  <1>4. RevisionsDiffer' /\ NewestInv'
    BY <1>1, <1>3 DEF CsIInv, RevisionsDiffer, NewestInv, Announced, PublishRefused,
                SwitchRefused, SwitchSynced, SwitchUndone, ServerCrash
  <1>5. IdsOK'
    BY <1>1 DEF CsIInv, IdsOK, PublishRefused, SwitchRefused, SwitchSynced,
                SwitchUndone, ServerCrash, gcVars
  <1>5a. LinkInv'
    BY <1>1 DEF CsIInv, IdsOK, LinkInv, PublishRefused, SwitchRefused, SwitchSynced,
                SwitchUndone, ServerCrash, gcVars, files
  <1>6. KeepRecent # 0 => KeptInv'
    BY <1>1 DEF CsIInv, LinkInv, KeptInv, PublishRefused, SwitchRefused, SwitchSynced,
                SwitchUndone, ServerCrash, gcVars, files
  <1> QED
    BY <1>2, <1>4, <1>5, <1>5a, <1>6 DEF CsIInv

(* RemoveAll of a publication that failed: only its own directory changes. *)
LEMMA EraseCs ==
  ASSUME CsIInv, EraseStart \/ EraseEnd
  PROVE  CsIInv'
  <1> USE MaxGenerationsAssumption
  <1>1. /\ made \in Generations /\ UNCHANGED <<rev, current, made, snap, restored, overtaken, crashes>>
        /\ UNCHANGED gcVars /\ pub \in {"erase", "erasing"} /\ pub' \in {"erasing", "idle"}
        /\ out' \in {out, "error"}
    BY DEF CsIInv, CsTypeOK, IdsOK, EraseStart, EraseEnd, Generations, None
  <1>2. /\ dir' \in [Generations -> {"none", "whole", "broken"}]
        /\ \A g \in Generations : g # made => dir'[g] = dir[g]
        /\ dir'[made] = "whole" => dir[made] = "whole"
    BY <1>1 DEF CsIInv, CsTypeOK, EraseStart, EraseEnd
  <1>3. Whole' \subseteq Whole
    BY <1>1, <1>2 DEF Whole
  <1>4. CsTypeOK'
    BY <1>1, <1>2 DEF CsIInv, CsTypeOK, gcVars
  <1>5. IdsOK' /\ LinkInv'
    BY <1>1, <1>2 DEF CsIInv, CsTypeOK, IdsOK, LinkInv, gcVars, Generations
  <1>6. NewestInv' /\ RevisionsDiffer'
    BY <1>1, <1>3 DEF CsIInv, IdsOK, NewestInv, Announced, RevisionsDiffer
  <1>7. KeepRecent # 0 => KeptInv'
    BY <1>1, <1>2 DEF CsIInv, CsTypeOK, IdsOK, KeptInv, gcVars
  <1> QED
    BY <1>4, <1>5, <1>6, <1>7 DEF CsIInv

-----------------------------------------------------------------------------
(* gc remembers current, finds nothing left to remove, or is killed. *)
LEMMA GcMovesCs ==
  ASSUME CsIInv, GcStart \/ GcEnd \/ GcKilled
  PROVE  CsIInv'
  <1>1. /\ UNCHANGED <<dir, rev, current, made, pub, snap, out, restored, overtaken>>
        /\ doomed' \in {{}, doomed} /\ erasing' \in {None, erasing}
        /\ erasing' # None => doomed' = doomed
    BY DEF GcStart, GcEnd, GcKilled, files, pubVars
  <1>2. CsTypeOK'
    <2>1. /\ kept' \in Generations \cup {None} /\ doomed' \subseteq Generations
          /\ gcs' \in 0..MaxGcs /\ crashes' \in 0..MaxCrashes /\ gc' \in {"idle", "listing"}
          /\ doomed' = {} /\ erasing' = None
      BY MaxGcsAssumption, MaxCrashesAssumption
         DEF CsIInv, CsTypeOK, IdsOK, GcStart, GcEnd, GcKilled, CurrentOk
    <2> QED
      BY <1>1, <2>1 DEF CsIInv, CsTypeOK
  <1>3. IdsOK' /\ LinkInv'
    BY <1>1 DEF CsIInv, IdsOK, LinkInv
  <1>4. NewestInv' /\ RevisionsDiffer'
    BY <1>1 DEF CsIInv, NewestInv, Announced, RevisionsDiffer, Whole
  <1>5. ASSUME KeepRecent # 0, ~restored, ~overtaken, gc' = "listing" PROVE kept' = current
    BY <1>5 DEF CsIInv, KeptInv, GcStart, GcEnd, GcKilled, CurrentOk
  <1>6. KeepRecent # 0 => KeptInv'
    BY <1>1, <1>5 DEF CsIInv, KeptInv
  <1> QED
    BY <1>2, <1>3, <1>4, <1>6 DEF CsIInv

(* gc chooses what to remove: neither the newest release nor the one it read. *)
LEMMA GcListCs ==
  ASSUME CsIInv, GcList
  PROVE  CsIInv'
  <1> USE MaxGenerationsAssumption
  <1>1. /\ UNCHANGED files /\ UNCHANGED pubVars /\ UNCHANGED <<kept, erasing, gcs, crashes>>
        /\ gc' = "sweeping" /\ doomed' = {g \in Whole : ~Retained(g)}
    BY DEF GcList
  <1>2. CsTypeOK'
    BY <1>1 DEF CsIInv, CsTypeOK, files, pubVars, Whole
  <1>3. IdsOK'
    BY <1>1 DEF CsIInv, CsTypeOK, IdsOK, files, pubVars, Whole, GcList, Generations
  <1>4. LinkInv'
    BY <1>1 DEF CsIInv, LinkInv, files, pubVars, Whole
  <1>5. NewestInv' /\ RevisionsDiffer'
    BY <1>1 DEF CsIInv, NewestInv, Announced, RevisionsDiffer, Whole, files, pubVars
  <1>6. ASSUME KeepRecent # 0, pub \in {"renamed", "switched"} \/ out = "ok"
        PROVE  made \notin doomed'
    <2>1. made \in Generations /\ dir[made] = "whole"
      BY <1>6 DEF CsIInv, CsTypeOK, IdsOK, KeptInv, Generations
    <2>2. made \in Whole /\ \A h \in Whole : h # made => rev[h] < rev[made]
      BY <1>6, <2>1 DEF CsIInv, NewestInv, Announced, Whole
    <2> QED
      BY <1>1, <1>6, <2>2, NewestIsRetained
  <1>7. ASSUME KeepRecent # 0, ~restored, ~overtaken PROVE current \notin doomed'
    BY <1>1, <1>7 DEF CsIInv, KeptInv, GcList, Retained
  <1>8. KeepRecent # 0 => KeptInv'
    BY <1>1, <1>6, <1>7 DEF CsIInv, KeptInv, files, pubVars
  <1> QED
    BY <1>2, <1>3, <1>4, <1>5, <1>8 DEF CsIInv

(* RemoveAll of gc: only a directory it has chosen changes. *)
LEMMA GcErasesCs ==
  ASSUME CsIInv, (\E g \in Generations : GcEraseStart(g)) \/ GcEraseEnd
  PROVE  CsIInv'
  <1> USE MaxGenerationsAssumption
  <1>1. PICK d \in doomed :
          /\ UNCHANGED <<rev, current>> /\ UNCHANGED pubVars /\ UNCHANGED <<gc, kept, gcs, crashes>>
          /\ dir' \in [Generations -> {"none", "whole", "broken"}]
          /\ \A g \in Generations : g # d => dir'[g] = dir[g]
          /\ dir'[d] \in {"none", "broken", dir[d]}
          /\ dir[d] = "none" => dir'[d] = "none"
          /\ \/ doomed' = doomed /\ erasing' \in doomed /\ gc = "sweeping"
             \/ doomed' = doomed \ {d} /\ erasing' = None
    <2>1. CASE \E g \in Generations : GcEraseStart(g)
      <3>1. PICK g \in Generations : GcEraseStart(g)
        BY <2>1
      <3>2. g \in doomed
        BY <3>1 DEF GcEraseStart
      <3>3. /\ UNCHANGED <<rev, current>> /\ UNCHANGED pubVars /\ UNCHANGED <<gc, kept, gcs, crashes>>
            /\ doomed' = doomed /\ erasing' = g /\ gc = "sweeping"
        BY <3>1 DEF GcEraseStart
      <3>4. /\ dir' \in [Generations -> {"none", "whole", "broken"}]
            /\ \A h \in Generations : h # g => dir'[h] = dir[h]
            /\ dir'[g] \in {"none", "broken"}
            /\ dir[g] = "none" => dir'[g] = "none"
        BY <3>1 DEF GcEraseStart, CsIInv, CsTypeOK
      <3> QED
        BY <3>2, <3>3, <3>4
    <2>2. CASE GcEraseEnd
      <3>1. erasing \in doomed /\ erasing \in Generations
        BY <2>2 DEF GcEraseEnd, CsIInv, CsTypeOK, IdsOK
      <3>2. /\ UNCHANGED <<rev, current>> /\ UNCHANGED pubVars /\ UNCHANGED <<gc, kept, gcs, crashes>>
            /\ doomed' = doomed \ {erasing} /\ erasing' = None
        BY <2>2 DEF GcEraseEnd
      <3>3. /\ dir' \in [Generations -> {"none", "whole", "broken"}]
            /\ \A h \in Generations : h # erasing => dir'[h] = dir[h]
            /\ dir'[erasing] \in {"none", dir[erasing]}
        BY <2>2, <3>1 DEF GcEraseEnd, CsIInv, CsTypeOK
      <3> QED
        BY <3>1, <3>2, <3>3
    <2> QED
      BY <2>1, <2>2
  <1>2. d \in Generations /\ doomed' \subseteq doomed
    BY <1>1 DEF CsIInv, CsTypeOK
  <1>3. Whole' \subseteq Whole
    BY <1>1, <1>2 DEF Whole
  <1>4. CsTypeOK'
    BY <1>1, <1>2 DEF CsIInv, CsTypeOK, pubVars
  <1>5. IdsOK'
    BY <1>1, <1>2 DEF CsIInv, IdsOK, pubVars
  <1>5a. LinkInv'
    BY <1>1, <1>2 DEF CsIInv, CsTypeOK, IdsOK, LinkInv, pubVars, Generations
  <1>6. NewestInv' /\ RevisionsDiffer'
    BY <1>1, <1>3 DEF CsIInv, NewestInv, Announced, RevisionsDiffer, pubVars
  <1>7. KeepRecent # 0 => KeptInv'
    BY <1>1, <1>2 DEF CsIInv, CsTypeOK, IdsOK, KeptInv, pubVars, Generations, None
  <1> QED
    BY <1>4, <1>5, <1>5a, <1>6, <1>7 DEF CsIInv

-----------------------------------------------------------------------------
(* Every step of the publisher, of gc and of a crash keeps the invariant. *)
LEMMA NextCsIInv ==
  ASSUME CsIInv, [CsNext]_csVars
  PROVE  CsIInv'
  <1>1. CASE PublishStep \/ ServerCrash
    BY <1>1, PublishStartCs, RenameReleaseCs, SwitchCurrentCs, PublisherMovesCs, EraseCs
       DEF PublishStep
  <1>2. CASE GcStep
    BY <1>2, GcMovesCs, GcListCs, GcErasesCs DEF GcStep
  <1>3. CASE UNCHANGED csVars
    <2> USE <1>3 DEF csVars
    <2>1. CsTypeOK'
      BY DEF CsIInv, CsTypeOK
    <2>2. IdsOK' /\ LinkInv'
      BY DEF CsIInv, IdsOK, LinkInv
    <2>3. NewestInv' /\ RevisionsDiffer' /\ (KeepRecent # 0 => KeptInv')
      BY DEF CsIInv, NewestInv, Announced, RevisionsDiffer, Whole, KeptInv
    <2> QED
      BY <2>1, <2>2, <2>3 DEF CsIInv
  <1> QED
    BY <1>1, <1>2, <1>3 DEF CsNext

(* The invariant holds in every reachable state of the repository. *)
THEOREM StoreInvariance == CsSpec => []CsIInv
  <1>1. CsIInv /\ [CsNext]_csVars => CsIInv'
    BY NextCsIInv
  <1> QED
    BY <1>1, InitCsIInv, PTL DEF CsSpec

(* Types of the repository, the publisher and gc. *)
THEOREM StoreTypeCorrect == CsSpec => []CsTypeOK
  <1>1. CsIInv => CsTypeOK
    BY DEF CsIInv
  <1> QED
    BY <1>1, StoreInvariance, PTL

(* nextRevision never gives two complete releases the same revision, whatever   *)
(* gc, crashes and failed publications left on the disk it counts from.         *)
THEOREM RevisionsAreUnique == CsSpec => []RevisionsDiffer
  <1>1. CsIInv => RevisionsDiffer
    BY DEF CsIInv
  <1> QED
    BY <1>1, StoreInvariance, PTL

(* A gc that keeps at least the newest release never takes the current one from *)
(* its readers, however it interleaves with a publication (CurrentIsWhole names *)
(* the two exceptions).  With --keep-recent=0 this is not so.                   *)
THEOREM CurrentStaysWhole == CsSpec => [](KeepRecent # 0 => CurrentIsWhole)
  <1>1. CsIInv => (KeepRecent # 0 => CurrentIsWhole)
    BY DEF CsIInv, KeptInv, CurrentIsWhole
  <1> QED
    BY <1>1, StoreInvariance, PTL

(* Such a gc does not take a release whose publication has reported success     *)
(* either, also when the link moved between its two reads.                      *)
THEOREM SuccessStaysPublished == CsSpec => [](KeepRecent # 0 => SuccessIsPublished)
  <1>1. CsIInv => (KeepRecent # 0 => SuccessIsPublished)
    BY DEF CsIInv, LinkInv, KeptInv, SuccessIsPublished
  <1> QED
    BY <1>1, StoreInvariance, PTL

(* Readers never see the certificate go back to an older revision. *)
THEOREM CurrentOnlyAdvances == CsSpec => CurrentAdvances
  <1>1. ASSUME CsIInv, [CsNext]_csVars,
               current # None, dir[current] = "whole", current' # current, pub # "switched"
        PROVE  rev[current'] > rev[current]
    <2>1. SwitchCurrent
      BY <1>1 DEF CsNext, PublishStep, GcStep, PublishStart, PublishRefused, RenameRelease,
            SwitchRefused, SwitchSynced, SwitchUndone, EraseStart, EraseEnd, ServerCrash,
            GcStart, GcList, GcEraseStart, GcEraseEnd, GcEnd, GcKilled, files, csVars
    <2>2. current' = made /\ pub = "renamed" /\ current \in Whole /\ current # made
      <3>1. current' = made /\ pub = "renamed"
        BY <2>1 DEF SwitchCurrent
      <3>2. current \in Whole
        BY <1>1 DEF Whole, CsIInv, CsTypeOK
      <3> QED
        BY <1>1, <3>1, <3>2
    <2>3. rev[current] < rev[made] /\ rev[current] \in Nat /\ rev[made] \in Nat
      BY <1>1, <2>2, MaxGenerationsAssumption
         DEF CsIInv, NewestInv, Announced, CsTypeOK, Whole, Generations, IdsOK
    <2> QED
      BY <2>2, <2>3
  <1>2. CsIInv /\ [CsNext]_csVars =>
          [current # None /\ dir[current] = "whole" /\ current' # current /\ pub # "switched"
             => rev[current'] > rev[current]]_csVars
    BY <1>1
  <1> QED
    BY <1>2, StoreInvariance, PTL DEF CsSpec, CurrentAdvances
=============================================================================
