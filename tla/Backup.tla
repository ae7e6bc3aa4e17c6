------------------------------- MODULE Backup -------------------------------
(***************************************************************************)
(* Backup and restore (internal/store/backup.go, "server-cli backup") of   *)
(* the database with its key file (KeyStore), the certificate directory    *)
(* and the ACME directory, beside processes that write to all of them.     *)
(*                                                                         *)
(* A file is its version, 0 when it is not there: "cert" and "key" stand   *)
(* for the files of a v1 certificate, "acme" for the account state.  link  *)
(* says that the certificate directory has a domain with a "current" link, *)
(* which the first v2 publication makes.                                   *)
(***************************************************************************)
EXTENDS KeyStore

CONSTANT MaxIssues   \* bound: certificates issued

ASSUME IssuesAssumption == MaxIssues \in Nat

VARIABLES disk,    \* disk[f]: version of file f
          link,    \* a "current" link is in the certificate directory
          issue,   \* the next file an issue under way writes, or "idle"
          bk,      \* the backup under way
          saved,   \* the finished backup, or NoBackup
          refused, \* history: a backup failed though no operation on it did
          rst,     \* where the restore command is, or how it ended
          half,    \* history: a restore was begun and none has ended well since
          walLeft, \* the last process was killed: <db>-wal is still there
          torn     \* history: the database was replaced under a left-over <db>-wal

backupVars == <<bk, saved, refused>>
hostVars   == <<disk, link, issue>>
rstVars    == <<rst, half, torn>>
bkVars     == <<ksVars, hostVars, backupVars, rstVars, walLeft>>

File    == {"cert", "key", "acme"}
Trees   == [certs |-> {"cert", "key"}, acme |-> {"acme"}]
NoFiles == [f \in File |-> 0]

NoBackup == [at |-> "idle", by |-> "nobody", rows |-> {}, kek |-> "none",
             files |-> NoFiles, overlap |-> FALSE]

AllDown == \A p \in Process : IsDown(p)

-----------------------------------------------------------------------------
(***************************************************************************)
(* What else changes the files: a v1 issue, whose files acme.sh writes one *)
(* after the other, and the first v2 publication.                          *)
(***************************************************************************)
NextFile(f) == CASE f = "acme" -> "cert" [] f = "cert" -> "key" [] f = "key" -> "idle"

IssueBegins ==
    /\ issue = "idle" /\ disk["acme"] < MaxIssues
    /\ \E p \in Process : proc[p].at = "open"
    /\ issue' = "acme"
    /\ bk' = [bk EXCEPT !.overlap = bk.at # "idle"]
    /\ UNCHANGED <<disk, link, saved, refused>>

IssueWrites ==
    /\ issue # "idle"
    /\ disk' = [disk EXCEPT ![issue] = IF issue = "acme" THEN @ + 1 ELSE disk["acme"]]
    /\ issue' = NextFile(issue)
    /\ UNCHANGED <<link, backupVars>>

PublishesV2 ==
    /\ ~link /\ \E p \in Process : proc[p].at = "open"
    /\ link' = TRUE
    /\ UNCHANGED <<disk, issue, backupVars>>

HostStep ==
    /\ IssueBegins \/ IssueWrites \/ PublishesV2
    /\ UNCHANGED <<ksVars, rstVars, walLeft>>

(***************************************************************************)
(* CreateBackup in process bk.by.                                          *)
(***************************************************************************)
\* VACUUM INTO: a consistent copy of the database.  The destination must not
\* exist yet.
BackupDatabase(p) ==
    /\ proc[p].at = "open" /\ bk.at = "idle" /\ saved = NoBackup
    /\ bk' = [NoBackup EXCEPT !.at = "kek", !.by = p, !.rows = rows, !.overlap = issue # "idle"]
    /\ UNCHANGED <<saved, refused>>

\* Mutant: the key file is copied only when it is the key in use.
BackupKeyInUse ==
    /\ bk.at = "kek"
    /\ bk' = [bk EXCEPT !.at = "cert",
                        !.kek = IF kekFile = proc[bk.by].active THEN kekFile ELSE "none"]
    /\ UNCHANGED <<saved, refused>>

BackupKey ==
    /\ bk.at = "kek"
    /\ bk' = [bk EXCEPT !.at = "cert", !.kek = kekFile]
    /\ UNCHANGED <<saved, refused>>

\* copyTree, file by file, the certificate directory first.
BackupFile(f, next) ==
    /\ bk.at = f
    /\ bk' = [bk EXCEPT !.at = next, !.files[f] = disk[f]]
    /\ UNCHANGED <<saved, refused>>

\* copyTree meets the link: "not a regular file" ends the backup.
BackupLink ==
    /\ bk.at = "link"
    /\ bk' = IF link THEN NoBackup ELSE [bk EXCEPT !.at = "acme"]
    /\ refused' = (refused \/ link)
    /\ UNCHANGED saved

\* The ACME directory is copied last; digests, manifest, rename to the destination.
BackupRename ==
    /\ bk.at = "acme"
    /\ saved' = [bk EXCEPT !.at = "saved", !.by = "nobody", !.files["acme"] = disk["acme"]]
    /\ bk' = NoBackup
    /\ UNCHANGED refused

\* An I/O error, or a file that disappears during the walk.
BackupFails ==
    /\ bk.at # "idle"
    /\ bk' = NoBackup
    /\ UNCHANGED <<saved, refused>>

BackupStep ==
    /\ \/ \E p \in Process : BackupDatabase(p)
       \/ BackupKey
       \/ BackupFile("cert", "key") \/ BackupFile("key", "link")
       \/ BackupLink
       \/ BackupRename \/ BackupFails
    /\ UNCHANGED <<ksVars, hostVars, rstVars, walLeft>>

(***************************************************************************)
(* RestoreBackup, once every other process is stopped as the operations    *)
(* guide demands: the command itself only looks at its own connection.     *)
(***************************************************************************)
Restoring == rst \notin {"none", "ok", "error"}

RestoreBegins ==
    /\ saved # NoBackup /\ AllDown /\ issue = "idle" /\ ~Restoring
    /\ rst' = "db"
    /\ UNCHANGED <<ksVars, hostVars, half, torn>>

\* The database file is replaced; -wal and -shm of the old one are not removed.
RestoreDatabase ==
    /\ rst = "db"
    /\ rows' = saved.rows /\ schema' = TRUE
    /\ newest' = [s \in Secret |-> saved.rows[s].val] /\ raced' = {}
    /\ rst' = "kek" /\ half' = TRUE /\ torn' = walLeft
    /\ UNCHANGED <<kekFile, proc, drawn, writes, starts, exposed, hostVars>>

\* Mutant: a key file that is there is kept.
RestoreKeyIfMissing ==
    /\ rst = "kek"
    /\ kekFile' = IF kekFile = "none" THEN saved.kek ELSE kekFile
    /\ rst' = "certs"
    /\ UNCHANGED <<rows, schema, proc, drawn, writes, starts, ksHistory, hostVars, half, torn>>

RestoreKey ==
    /\ rst = "kek"
    /\ kekFile' = IF saved.kek = "none" THEN kekFile ELSE saved.kek
    /\ rst' = "certs"
    /\ UNCHANGED <<rows, schema, proc, drawn, writes, starts, ksHistory, hostVars, half, torn>>

\* stageAndReplaceTree after staging: the old tree steps aside ...
RestoreMoves(tree, moved) ==
    /\ rst = tree
    /\ disk' = [f \in File |-> IF f \in Trees[tree] THEN 0 ELSE disk[f]]
    /\ link' = (link /\ tree # "certs")
    /\ rst' = moved
    /\ UNCHANGED <<ksVars, issue, half, torn>>

\* ... and the staged one takes its place.
RestorePlaces(tree, moved, next) ==
    /\ rst = moved
    /\ disk' = [f \in File |-> IF f \in Trees[tree] THEN saved.files[f] ELSE disk[f]]
    /\ rst' = next
    /\ half' = (half /\ next # "ok")
    /\ UNCHANGED <<ksVars, link, issue, torn>>

\* An error, or the command is killed: what was replaced stays replaced.  A tree
\* that cannot be placed is renamed back, which equals failing before it moved;
\* when that fails too, or the command is killed here, the tree is missing.
RestoreFails ==
    /\ Restoring
    /\ rst' = "error"
    /\ UNCHANGED <<ksVars, hostVars, half, torn>>

RestoreStep ==
    /\ \/ RestoreBegins \/ RestoreDatabase \/ RestoreKey
       \/ RestoreMoves("certs", "certsMoved") \/ RestorePlaces("certs", "certsMoved", "acme")
       \/ RestoreMoves("acme", "acmeMoved") \/ RestorePlaces("acme", "acmeMoved", "ok")
       \/ RestoreFails
    /\ UNCHANGED <<backupVars, walLeft>>

\* The machine is replaced; the backup was kept elsewhere.
NewHost ==
    /\ AllDown /\ issue = "idle" /\ ~Restoring /\ saved # NoBackup
    /\ rows' = [s \in Secret |-> NoRow] /\ schema' = FALSE /\ kekFile' = "none"
    /\ newest' = [s \in Secret |-> 0] /\ raced' = {}
    /\ disk' = NoFiles /\ link' = FALSE
    /\ rst' = "none" /\ half' = FALSE /\ walLeft' = FALSE /\ torn' = FALSE
    /\ UNCHANGED <<proc, drawn, writes, starts, exposed, issue, backupVars>>

(***************************************************************************)
(* The processes of KeyStore.  The first one to open the database recovers *)
(* its -wal; the last one removes it unless it is killed.                  *)
(***************************************************************************)
Works(p) ==
    /\ ~Restoring /\ ~torn
    /\ Opens(p) \/ Uses(p)
    /\ walLeft' = (walLeft /\ proc[p].at \in {"down", "creating"})
    /\ rst' = "none"
    /\ UNCHANGED <<hostVars, backupVars, half, torn>>

Repairs ==
    /\ ~Restoring /\ RemoveEmptyFile
    /\ rst' = "none"
    /\ UNCHANGED <<hostVars, backupVars, half, torn, walLeft>>

Ends(p) ==
    /\ Stop(p)
    /\ walLeft' \in IF \E q \in Process \ {p} : ~IsDown(q) THEN {FALSE} ELSE BOOLEAN
    /\ bk' = IF bk.by = p THEN NoBackup ELSE bk
    /\ UNCHANGED <<hostVars, saved, refused, rstVars>>

Init ==
    /\ KsInit
    /\ disk = NoFiles /\ link = FALSE /\ issue = "idle"
    /\ bk = NoBackup /\ saved = NoBackup /\ refused = FALSE
    /\ rst = "none" /\ half = FALSE
    /\ walLeft = FALSE /\ torn = FALSE

Next ==
    \/ \E p \in Process : Works(p) \/ Ends(p)
    \/ Repairs \/ HostStep \/ BackupStep \/ RestoreStep \/ NewHost

Spec == Init /\ [][Next]_bkVars

-----------------------------------------------------------------------------
BkTypeOK ==
    /\ KsTypeOK
    /\ disk \in [File -> 0..MaxIssues] /\ link \in BOOLEAN
    /\ issue \in {"idle"} \union File
    /\ rst \in {"none", "db", "kek", "certs", "certsMoved", "acme", "acmeMoved", "ok", "error"}
    /\ bk.at \in {"idle", "kek", "link"} \union File
    /\ bk.by \in Process \union {"nobody"}
    /\ bk.at # "idle" => bk.rows \in [Secret -> RowSet] /\ proc[bk.by].at = "open"
    /\ saved.at \in {"idle", "saved"}

\* The secrets survive kills at any point of a start, of a re-encryption, of a
\* backup and of a restore: the injected key and the key file open them all,
\* except between the two file replacements of an unfinished restore.
SecretsSurvive == half \/ NoSecretIsLost

\* A finished backup is a set: with the injected key its own key file opens its
\* database, and its certificate belongs to its private key unless an issue was
\* writing them at the time.
BackupIsRestorable ==
    saved # NoBackup =>
        /\ \A s \in Secret : saved.rows[s].key \in {"none", "plain", EnvKey, saved.kek}
        /\ saved.overlap \/ saved.files["cert"] = saved.files["key"]

\* A restore that reports success has replaced everything by what the backup
\* holds, whatever earlier restores left half-way - if no killed process left a
\* -wal file beside the database.
RestoredIsTheBackup ==
    rst = "ok" /\ ~torn =>
        /\ rows = saved.rows /\ disk = saved.files /\ ~link
        /\ saved.kek \in {"none", kekFile}

-----------------------------------------------------------------------------
(* What the repository says and the code does not do. *)

\* operations.md: backup create copies the generation repository online.  A
\* backup none of whose operations failed is not refused.
BackupIsPossible == ~refused
=============================================================================
