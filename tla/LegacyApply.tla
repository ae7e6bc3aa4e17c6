---------------------------- MODULE LegacyApply ----------------------------
(***************************************************************************)
(* The v1 path for one domain: service.Apply on the server, which decides  *)
(* from the live directory whether to issue, takes the file lock, runs     *)
(* acme.sh and lists the files; and the v1 client, which downloads the     *)
(* listed files one by one into its directory and rolls back on an error.  *)
(* Beside it the v2 issuer and the lifecycle commands drive acme.sh        *)
(* without that lock.                                                      *)
(***************************************************************************)
EXTENDS AcmeRunner, Sequences

CONSTANTS Nobody,  \* the value of a free lock
          Server,  \* the application that serves the client's requests
          Worker,  \* the v2 issuer
          Admin,   \* the lifecycle commands
          MaxRuns, \* bound: runs of the client
          MaxCalls \* bound: applications, v2 issues and lifecycle commands

ASSUME LegacyAssumption ==
    /\ Server \in Locked /\ {Worker, Admin} \subseteq Free
    /\ Nobody \notin Locked /\ MaxRuns \in Nat /\ MaxCalls \in Nat

VARIABLES lock,   \* who holds .certkeeper.issue.lock
          app,    \* the v1 applications
          preset, \* the domain has a row in certs
          calls,  \* calls so far
          cdir,   \* the client's files
          cbak,   \* its .bak files
          cl      \* the client's run

appVars == <<lock, app, preset, calls>>
clVars  == <<cdir, cbak, cl>>
laVars  == <<acVars, appVars, clVars>>

Listed   == <<"key", "fullchain">>  \* the order of scanCertFiles
NoFiles  == [f \in File |-> 0]
Torn     == MaxIssued + 1           \* a file os.WriteFile did not finish
NotAsked == [at |-> "idle", save |-> FALSE, forClient |-> FALSE, list |-> NoFiles, i |-> 1]
Called   == calls < MaxCalls /\ calls' = calls + 1
NoRun    == [at |-> "idle", list |-> NoFiles, i |-> 1, baks |-> {}, before |-> NoFiles,
             out |-> "none", runs |-> 0]

-----------------------------------------------------------------------------
(***************************************************************************)
(* service.Apply.  The expiry is read, and the need to renew decided,      *)
(* before the lock is awaited; it is not decided again afterwards.         *)
(***************************************************************************)
\* buildIssueParams: the request or the saved row must name a challenge.
Configured(pushed) == pushed \/ preset

\* readCertExpiry and ShouldRenew: a missing chain is always due; force is, too.
NeedRenew(due) == live["fullchain"] = 0 => due

Apply(h, forClient) ==
    /\ app[h].at = "idle" /\ Called
    /\ forClient => h = Server /\ cl.at = "idle" /\ cl.runs < MaxRuns
    /\ \E pushed \in BOOLEAN, due \in BOOLEAN :
         /\ Configured(pushed) /\ NeedRenew(due)
         /\ app' = [app EXCEPT ![h] =
                      [NotAsked EXCEPT !.at = IF due THEN "waits" ELSE "lists",
                                       !.save = pushed /\ ~preset,
                                       !.forClient = forClient]]
    /\ cl' = IF forClient
             THEN [NoRun EXCEPT !.at = "awaits", !.before = cdir, !.runs = cl.runs + 1]
             ELSE cl
    /\ UNCHANGED <<acVars, lock, preset, cdir, cbak>>

LocksAnyway(h) ==
    /\ app[h].at = "waits"
    /\ lock' = h
    /\ app' = [app EXCEPT ![h].at = "issues"]
    /\ Begin(h, "issue")
    /\ UNCHANGED <<homeVars, orphan, kills, preset, calls, clVars>>

Locks(h) ==
    /\ app[h].at = "waits" /\ lock = Nobody
    /\ lock' = h
    /\ app' = [app EXCEPT ![h].at = "issues"]
    /\ Begin(h, "issue")
    /\ UNCHANGED <<homeVars, orphan, kills, preset, calls, clVars>>

Unlocks(h) == IF lock = h THEN Nobody ELSE lock

\* The answer of an application that ends; nobody may be waiting for it.
Answers(h, answer) ==
    IF app[h].forClient /\ cl.at = "awaits" THEN answer ELSE cl

Refusal == [cl EXCEPT !.at = "idle", !.out = "refused"]

Fails(h) ==
    /\ \/ app[h].at = "waits"   \* no lock file, or no DNS secret
          /\ UNCHANGED op
       \/ app[h].at = "issues" /\ op[h].at = "done" /\ op[h].err # "none"
          /\ op' = [op EXCEPT ![h] = Idle]
    /\ app' = [app EXCEPT ![h] = NotAsked]
    /\ lock' = Unlocks(h)
    /\ cl' = Answers(h, Refusal)
    /\ UNCHANGED <<homeVars, temp, orphan, kills, preset, calls, cdir, cbak>>

\* An operation that acme.sh skipped or that waits for a manual step returned
\* without an error, too; a pushed configuration is saved, if that succeeds.
Issued(h) ==
    /\ app[h].at = "issues" /\ op[h].at = "done" /\ op[h].err = "none"
    /\ op' = [op EXCEPT ![h] = Idle]
    /\ \/ /\ app' = [app EXCEPT ![h].at = "lists"]
          /\ preset' = (preset \/ app[h].save)
          /\ UNCHANGED <<lock, cl>>
       \/ /\ app[h].save
          /\ app' = [app EXCEPT ![h] = NotAsked]
          /\ lock' = Unlocks(h)
          /\ cl' = Answers(h, Refusal)
          /\ UNCHANGED preset
    /\ UNCHANGED <<homeVars, temp, orphan, kills, calls, cdir, cbak>>

\* scanCertFiles, one file after the other; the lock, if held, is released with
\* the return.
Lists(h) ==
    /\ app[h].at = "lists"
    /\ LET f == Listed[app[h].i]
           a == [app[h] EXCEPT !.list[f] = live[f], !.i = @ + 1]
       IN IF app[h].i < Len(Listed)
          THEN app' = [app EXCEPT ![h] = a] /\ UNCHANGED <<lock, cl>>
          ELSE /\ app' = [app EXCEPT ![h] = NotAsked]
               /\ lock' = Unlocks(h)
               /\ cl' = Answers(h, [cl EXCEPT !.at = "fetches", !.list = a.list])
    /\ UNCHANGED <<acVars, preset, calls, cdir, cbak>>

\* SaveCertConfig, from the administration API or the command line.
SaveCertConfig ==
    /\ ~preset /\ preset' = TRUE /\ Called
    /\ UNCHANGED <<acVars, lock, app, clVars>>

\* service.Delete (no current generation).
Delete ==
    /\ preset /\ preset' = FALSE /\ Called
    /\ UNCHANGED <<acVars, lock, app, clVars>>

HasDomainState == held # 0   \* the home of acme.sh knows the domain

IssueOrRenew == IF HasDomainState THEN "renew" ELSE "issue"

\* acmeV2Issuer.Issue.
WorkerIssues ==
    /\ op[Worker].at = "idle" /\ Called
    /\ Begin(Worker, IssueOrRenew)
    /\ UNCHANGED <<homeVars, orphan, kills, lock, app, preset, clVars>>

\* runLifecycle: revoke and remove need the row of the domain.
Lifecycle(k) ==
    /\ op[Admin].at = "idle" /\ preset /\ Called
    /\ Begin(Admin, k)
    /\ UNCHANGED <<homeVars, orphan, kills, lock, app, preset, clVars>>

\* The worker or the command takes the result.
Collects(r) ==
    /\ op[r].at = "done"
    /\ op' = [op EXCEPT ![r] = Idle]
    /\ UNCHANGED <<homeVars, temp, orphan, kills, appVars, clVars>>

-----------------------------------------------------------------------------
(***************************************************************************)
(* client.Apply: each listed file is moved to .bak, downloaded, compared   *)
(* with the listed checksum and written.                                   *)
(***************************************************************************)
ClientGivesUp ==
    /\ cl.at = "awaits"
    /\ cl' = Refusal
    /\ UNCHANGED <<acVars, appVars, cdir, cbak>>

Current == Listed[cl.i]
NextFile == [cl EXCEPT !.i = @ + 1,
                       !.at = IF cl.i = Len(Listed) THEN "verifies" ELSE "fetches"]

\* A file the server does not have is not listed.
SkipFile ==
    /\ cl.at = "fetches" /\ cl.list[Current] = 0
    /\ cl' = NextFile
    /\ UNCHANGED <<acVars, appVars, cdir, cbak>>

BackupFile ==
    /\ cl.at = "fetches" /\ cl.list[Current] # 0
    /\ IF cdir[Current] = 0
       THEN cl' = [cl EXCEPT !.at = "downloads"] /\ UNCHANGED <<cdir, cbak>>
       ELSE \/ /\ cbak' = [cbak EXCEPT ![Current] = cdir[Current]]
               /\ cdir' = [cdir EXCEPT ![Current] = 0]
               /\ cl' = [cl EXCEPT !.at = "downloads", !.baks = @ \cup {Current}]
            \/ \* the rename fails: the client returns at once
               /\ cl' = [NoRun EXCEPT !.out = "stuck", !.runs = cl.runs]
               /\ UNCHANGED <<cdir, cbak>>
    /\ UNCHANGED <<acVars, appVars>>

RestoreBackups(files) ==
    /\ cdir' = [f \in File |-> IF f \in cl.baks THEN cbak[f] ELSE files[f]]
    /\ cbak' = [f \in File |-> IF f \in cl.baks THEN 0 ELSE cbak[f]]
    /\ cl' = [cl EXCEPT !.at = "idle", !.out = "rolledBack"]

\* The checksum is that of the listing, not of the moment of the download.
DownloadUnchecked ==
    /\ cl.at = "downloads"
    /\ \/ RestoreBackups(cdir)
       \/ /\ live[Current] # 0
          /\ \/ /\ cdir' = [cdir EXCEPT ![Current] = live[Current]]
                /\ cl' = NextFile /\ UNCHANGED cbak
             \/ RestoreBackups([cdir EXCEPT ![Current] = Torn])
    /\ UNCHANGED <<acVars, appVars>>

Download ==
    /\ cl.at = "downloads"
    /\ \/ RestoreBackups(cdir)
       \/ /\ live[Current] = cl.list[Current]
          /\ \/ /\ cdir' = [cdir EXCEPT ![Current] = live[Current]]
                /\ cl' = NextFile /\ UNCHANGED cbak
             \/ RestoreBackups([cdir EXCEPT ![Current] = Torn])
    /\ UNCHANGED <<acVars, appVars>>

\* The verify command, the removal of the backups, and the reload command, whose
\* failure changes nothing any more.
Verify ==
    /\ cl.at = "verifies"
    /\ \/ RestoreBackups(cdir)
       \/ /\ cbak' = [f \in File |-> IF f \in cl.baks THEN 0 ELSE cbak[f]]
          /\ cl' = [cl EXCEPT !.at = "idle", !.out = "done"]
          /\ UNCHANGED cdir
    /\ UNCHANGED <<acVars, appVars>>

ClientKilled ==
    /\ cl.at # "idle" /\ kills < MaxKills /\ kills' = kills + 1
    /\ cl' = [NoRun EXCEPT !.out = "killed", !.runs = cl.runs]
    /\ UNCHANGED <<homeVars, op, temp, orphan, appVars, cdir, cbak>>

-----------------------------------------------------------------------------
\* A killed process closes its descriptors: the lock is free.
Kill(P) ==
    /\ \E r \in P : op[r].at # "idle" \/ (r \in Locked /\ app[r].at # "idle")
    /\ Killed(P)
    /\ app' = [h \in Locked |-> IF h \in P THEN NotAsked ELSE app[h]]
    /\ lock' = IF lock \in P THEN Nobody ELSE lock
    /\ cl' = IF Server \in P /\ cl.at = "awaits"
             THEN Refusal ELSE cl
    /\ UNCHANGED <<preset, calls, cdir, cbak>>

LaInit ==
    /\ AcInit
    /\ lock = Nobody /\ calls = 0 /\ app = [h \in Locked |-> NotAsked]
    /\ preset \in BOOLEAN
    /\ cdir = NoFiles /\ cbak = NoFiles /\ cl = NoRun

Service ==
    \/ \E h \in Locked :
         \/ \E c \in BOOLEAN : Apply(h, c)
         \/ Locks(h) \/ Fails(h) \/ Issued(h) \/ Lists(h)
    \/ SaveCertConfig \/ Delete \/ WorkerIssues
    \/ \E k \in {"revoke", "remove"} : Lifecycle(k)
    \/ \E r \in Free : Collects(r)

Acme == /\ Elsewhere \/ \E r \in Runner : Operates(r)
        /\ UNCHANGED <<appVars, clVars>>

ClientStep ==
    \/ ClientGivesUp \/ SkipFile \/ BackupFile
    \/ Download \/ Verify \/ ClientKilled

LaNext == Service \/ Acme \/ ClientStep \/ \E P \in Process : Kill(P)

LaSpec == LaInit /\ [][LaNext]_laVars

-----------------------------------------------------------------------------
(***************************************************************************)
(* Properties                                                              *)
(***************************************************************************)
\* Types.
LaTypeOK ==
    /\ AcTypeOK
    /\ lock \in Locked \cup {Nobody} /\ preset \in BOOLEAN /\ calls \in 0..MaxCalls
    /\ app \in [Locked -> [at : {"idle", "waits", "issues", "lists"}, save : BOOLEAN,
                           forClient : BOOLEAN, list : [File -> 0..MaxIssued], i : 1..2]]
    /\ cdir \in [File -> 0..Torn] /\ cbak \in [File -> 0..Torn]
    /\ cl \in [at : {"idle", "awaits", "fetches", "downloads", "verifies"},
               list : [File -> 0..MaxIssued], i : 1..3, baks : SUBSET File,
               before : [File -> 0..Torn], runs : 0..MaxRuns,
               out : {"none", "refused", "stuck", "rolledBack", "killed", "done"}]

\* A run of the v1 client that reports success leaves exactly the files of the
\* listing, whatever was installed on the server meanwhile; one that the server
\* refused or that rolled back leaves every file it found as it was, also when
\* an earlier run was killed or could not make a backup (client.Apply).
ClientIsWholeOrOld ==
    cl.at = "idle" =>
      /\ cl.out = "done" => \A f \in File : cl.list[f] # 0 => cdir[f] = cl.list[f]
      /\ cl.out \in {"refused", "rolledBack"} =>
           \A f \in File : cl.before[f] # 0 => cdir[f] = cl.before[f]
=============================================================================
