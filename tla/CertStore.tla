-------------------------------- MODULE CertStore --------------------------------
(***************************************************************************)
(* One domain of the certificate repository (internal/certstore): the      *)
(* directories releases/<generation>, the "current" link, the publisher of *)
(* the server process and "server-cli generation gc".                      *)
(*                                                                         *)
(* Store.mu orders the calls of one process.  The gc command opens its own *)
(* Store in a process of its own, so its steps interleave with those of a  *)
(* publication.  os.RemoveAll is not atomic: while it runs, and after it   *)
(* was cut short, the directory is there with files missing.               *)
(*                                                                         *)
(* Generation ids are random and fresh; here they are 1, 2, ... in the     *)
(* order they are handed out and 0 is none.                                *)
(***************************************************************************)
EXTENDS Naturals, FiniteSets

CONSTANTS MaxGenerations,  \* bound: generation ids handed out
          KeepRecent,      \* GCOptions.KeepRecent (--keep-recent)
          Protected,       \* GCOptions.ProtectedGenerations (--protect)
          MaxGcs,          \* bound: runs of the gc command
          MaxCrashes       \* bound: crashes of the server and kills of gc

ASSUME MaxGenerationsAssumption == MaxGenerations \in Nat
ASSUME KeepRecentAssumption == KeepRecent \in Nat
ASSUME MaxGcsAssumption == MaxGcs \in Nat
ASSUME MaxCrashesAssumption == MaxCrashes \in Nat

None == 0
Generations == 1..MaxGenerations

VARIABLES
    dir,      \* releases/<g>: not there, complete, or with files missing
    rev,      \* revision in the manifest of g
    current,  \* the generation the link names
    made,     \* the last id handed out, that of the publication under way
    pub,      \* where publish is
    snap,     \* captureCurrent
    out,      \* what the last publish returned
    restored, \* history: a failed fsync made writeCurrent go back
    overtaken,\* history: the link moved after gc read it and before gc listed
    gc,       \* where the gc command is
    kept,     \* the current generation gc read
    doomed,   \* candidates gc has decided to remove
    erasing,  \* the one whose RemoveAll is running
    gcs,      \* gc runs so far
    crashes   \* crashes and kills so far

files   == <<dir, rev, current>>
pubVars == <<made, pub, snap, out, restored, overtaken>>
gcVars  == <<gc, kept, doomed, erasing, gcs>>
csVars  == <<dir, rev, current, made, pub, snap, out, restored, overtaken,
             gc, kept, doomed, erasing, gcs, crashes>>

CsTypeOK ==
    /\ dir \in [Generations -> {"none", "whole", "broken"}]
    /\ rev \in [Generations -> 0..MaxGenerations]
    /\ current \in Generations \cup {None}
    /\ made \in 0..MaxGenerations
    /\ pub \in {"idle", "staged", "renamed", "switched", "erase", "erasing"}
    /\ snap \in Generations \cup {None}
    /\ out \in {"none", "ok", "error"}
    /\ restored \in BOOLEAN /\ overtaken \in BOOLEAN
    /\ gc \in {"idle", "listing", "sweeping"}
    /\ kept \in Generations \cup {None}
    /\ doomed \subseteq Generations
    /\ erasing \in Generations \cup {None}
    /\ gc # "sweeping" => doomed = {} /\ erasing = None
    /\ gcs \in 0..MaxGcs
    /\ crashes \in 0..MaxCrashes

CsInit ==
    /\ dir = [g \in Generations |-> "none"]
    /\ rev = [g \in Generations |-> 0]
    /\ current = None
    /\ made = 0
    /\ pub = "idle" /\ snap = None /\ out = "none"
    /\ restored = FALSE /\ overtaken = FALSE
    /\ gc = "idle" /\ kept = None /\ doomed = {} /\ erasing = None
    /\ gcs = 0
    /\ crashes = 0

Whole == {g \in Generations : dir[g] = "whole"}

-----------------------------------------------------------------------------
(* currentState without migration.  A link to a missing directory is reported *)
(* as ErrNotFound, like no link at all; an incomplete one is another error.   *)
CurrentOk == current # None /\ dir[current] = "whole"

CurrentBroken == current # None /\ dir[current] = "broken"

(* nextRevision: one more than the largest revision on disk; a release that   *)
(* cannot be loaded makes it fail.                                            *)
Loadable == \A g \in Generations : dir[g] # "broken"

(* Mutants: the revision follows that of current, or the number of releases. *)
FollowsCurrent(r) == r = IF CurrentOk THEN rev[current] + 1 ELSE 1

FollowsCount(r) == r = Cardinality(Whole) + 1

IsNextRevision(r) ==
    /\ \A g \in Whole : rev[g] < r
    /\ r = 1 \/ \E g \in Whole : rev[g] = r - 1

(* publish up to the complete temporary directory. *)
PublishStart ==
    /\ pub = "idle" /\ made < MaxGenerations
    /\ ~CurrentBroken /\ Loadable
    /\ made' = made + 1
    /\ \E r \in Generations :
          IsNextRevision(r) /\ rev' = [rev EXCEPT ![made + 1] = r]
    /\ pub' = "staged"
    /\ out' = "none"
    /\ UNCHANGED <<dir, current, snap, restored, overtaken, gcVars, crashes>>

(* The staging files, the current release or another release are not valid, or *)
(* a write fails: the temporary directory is removed, nothing else changed.    *)
PublishRefused ==
    /\ pub \in {"idle", "staged"}
    /\ pub' = "idle"
    /\ out' = "error"
    /\ UNCHANGED <<files, made, snap, restored, overtaken, gcVars, crashes>>

RenameRelease ==
    /\ pub = "staged"
    /\ dir' = [dir EXCEPT ![made] = "whole"]
    /\ pub' = "renamed"
    /\ UNCHANGED <<rev, current, made, snap, out, restored, overtaken, gcVars, crashes>>

(* writeCurrent: the target only has to be a directory. *)
SwitchCurrent ==
    /\ pub = "renamed" /\ dir[made] # "none"
    /\ snap' = current
    /\ current' = made
    /\ pub' = "switched"
    /\ overtaken' = (overtaken \/ gc = "listing")
    /\ UNCHANGED <<dir, rev, made, out, restored, gcVars, crashes>>

(* releases/ cannot be synced, the target is gone, or the link not written. *)
SwitchRefused ==
    /\ pub = "renamed"
    /\ pub' = "erase"
    /\ UNCHANGED <<files, made, snap, out, restored, overtaken, gcVars, crashes>>

SwitchSynced ==
    /\ pub = "switched"
    /\ pub' = "idle"
    /\ out' = "ok"
    /\ UNCHANGED <<files, made, snap, restored, overtaken, gcVars, crashes>>

(* The domain directory cannot be synced: restoreCurrent, which may fail too. *)
SwitchUndone ==
    /\ pub = "switched"
    /\ current' \in {snap, current}
    /\ restored' = TRUE
    /\ pub' = "erase"
    /\ UNCHANGED <<dir, rev, made, snap, out, overtaken, gcVars, crashes>>

(* RemoveAll(generationDir) after a failure; its own error is ignored. *)
EraseStart ==
    /\ pub = "erase"
    /\ dir' = [dir EXCEPT ![made] = IF @ = "none" THEN "none" ELSE "broken"]
    /\ pub' = "erasing"
    /\ UNCHANGED <<rev, current, made, snap, out, restored, overtaken, gcVars, crashes>>

EraseEnd ==
    /\ pub = "erasing"
    /\ \E d \in {"none", dir[made]} : dir' = [dir EXCEPT ![made] = d]
    /\ pub' = "idle"
    /\ out' = "error"
    /\ UNCHANGED <<rev, current, made, snap, restored, overtaken, gcVars, crashes>>

PublishStep ==
    \/ PublishStart \/ PublishRefused \/ RenameRelease \/ SwitchCurrent
    \/ SwitchRefused \/ SwitchSynced \/ SwitchUndone \/ EraseStart \/ EraseEnd

(* The server process dies; the files stay, with whatever RemoveAll left. *)
ServerCrash ==
    /\ crashes < MaxCrashes
    /\ crashes' = crashes + 1
    /\ pub' = "idle"
    /\ out' = "none"
    /\ UNCHANGED <<files, made, snap, restored, overtaken, gcVars>>

-----------------------------------------------------------------------------
(* GarbageCollect in the process of the gc command. *)

GcStart ==
    /\ gc = "idle" /\ gcs < MaxGcs /\ ~CurrentBroken
    /\ kept' = IF CurrentOk THEN current ELSE None
    /\ gc' = "listing"
    /\ gcs' = gcs + 1
    /\ UNCHANGED <<files, pubVars, doomed, erasing, crashes>>

(* Newest first: by revision, then by id. *)
Newer(h, g) == rev[h] > rev[g] \/ (rev[h] = rev[g] /\ h > g)

(* Mutant: oldest first. *)
PositionFromOldest(g) == Cardinality({h \in Whole : Newer(g, h)})

Position(g) == Cardinality({h \in Whole : Newer(h, g)})

(* Mutant: current is forgotten. *)
RetainedRecent(g) == Position(g) < KeepRecent \/ g \in Protected

Retained(g) == g = kept \/ Position(g) < KeepRecent \/ g \in Protected

GcList ==
    /\ gc = "listing"
    /\ doomed' = {g \in Whole : ~Retained(g)}
    /\ gc' = "sweeping"
    /\ UNCHANGED <<files, pubVars, kept, erasing, gcs, crashes>>

GcEraseStart(g) ==
    /\ gc = "sweeping" /\ erasing = None /\ g \in doomed
    /\ dir' = [dir EXCEPT ![g] = IF @ = "none" THEN "none" ELSE "broken"]
    /\ erasing' = g
    /\ UNCHANGED <<rev, current, pubVars, gc, kept, doomed, gcs, crashes>>

(* Removed, or reported in Failed and left as it is. *)
GcEraseEnd ==
    /\ erasing # None
    /\ \E d \in {"none", dir[erasing]} : dir' = [dir EXCEPT ![erasing] = d]
    /\ doomed' = doomed \ {erasing}
    /\ erasing' = None
    /\ UNCHANGED <<rev, current, pubVars, gc, kept, gcs, crashes>>

(* Mutant: the loop ends at the first failure. *)
GcEndEarly ==
    /\ gc = "sweeping" /\ erasing = None
    /\ gc' = "idle"
    /\ kept' = None
    /\ UNCHANGED <<files, pubVars, doomed, erasing, gcs, crashes>>

GcEnd ==
    /\ gc = "sweeping" /\ doomed = {}
    /\ gc' = "idle"
    /\ kept' = None
    /\ UNCHANGED <<files, pubVars, doomed, erasing, gcs, crashes>>

GcKilled ==
    /\ gc # "idle" /\ crashes < MaxCrashes
    /\ crashes' = crashes + 1
    /\ gc' = "idle" /\ kept' = None /\ doomed' = {} /\ erasing' = None
    /\ UNCHANGED <<files, pubVars, gcs>>

GcStep ==
    \/ GcStart \/ GcList \/ (\E g \in Generations : GcEraseStart(g))
    \/ GcEraseEnd \/ GcEnd \/ GcKilled

-----------------------------------------------------------------------------
CsNext == PublishStep \/ ServerCrash \/ GcStep

CsSpec == CsInit /\ [][CsNext]_csVars

-----------------------------------------------------------------------------
(* What a reader of "current" finds is always a complete release: no crash of   *)
(* the publisher and no interleaving with gc leaves the link on a missing or    *)
(* half-removed directory, as long as gc keeps the newest release, no           *)
(* publication moved the link between the two reads of a gc run, and no fsync   *)
(* failure made writeCurrent take the link back.                                *)
CurrentIsWhole ==
    ~restored /\ ~overtaken /\ current # None => dir[current] = "whole"

(* A publish that reported success stays published until the next one starts:   *)
(* the link names it and gc, however it overlapped, has not removed it.         *)
SuccessIsPublished == out = "ok" => current = made /\ dir[made] = "whole"

(* Revisions tell generations apart: no two complete releases share one, though *)
(* nextRevision looks only at what gc and failed publications left on disk.     *)
RevisionsDiffer == \A g, h \in Whole : g # h => rev[g] # rev[h]

(* Readers never see the certificate go back: when the link leaves a complete   *)
(* release, it goes to one with a larger revision (nextRevision, writeCurrent), *)
(* except when writeCurrent takes its own switch back.                          *)
CurrentAdvances ==
    [][/\ current # None /\ dir[current] = "whole"
       /\ current' # current /\ pub # "switched"
       => rev[current'] > rev[current]]_csVars

=============================================================================
