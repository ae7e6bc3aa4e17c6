# TLA+ models of cert-keeper

cert-keeper issues certificates through ACME on a server, publishes them as immutable
*generations* and lets clients download, verify and deploy them. This directory holds TLA+
models of the parts whose correctness depends on the order of steps of several processes,
the TLC runs that check them on small instances, and TLAPS proofs for every instance.

## 1. Inventory

| Part | State | Operations | Hard behaviour | What makes it correct |
|---|---|---|---|---|
| Job queue (`internal/store/workflows.go`) | rows of `certificate_jobs`: status, attempts, lease owner and end, next attempt | create, claim with sweep, renew, retry, status update | two processes on one table; statements with and without a fence | one execution per lease, attempts never exceeded, rows always interpretable |
| Persistent worker (`internal/scheduler/persistent.go`, adapter in `cmd/server/main.go`) | claimed job, renewal goroutine, context | claim loop, renew, settle, release at SIGTERM | renewal racing the end of a job, takeover after expiry, crash | every job settles; a finished job stays finished |
| Operator commands (`cmd/server-cli`) | none | `job retry`, `job cancel`, `generation gc` | check-then-write, a second process on the same files | must not break what the server relies on |
| Certificate repository (`internal/certstore`) | `releases/<id>`, `current` link | publish, switch, roll back, garbage collect | crash between any two file operations; gc in another process | `current` names a complete release and never goes back |
| Issuing (`internal/service/v2.go`) | rows of `certificate_generations` | check, recover, issue, publish, record | two stores (SQLite, files) without a common transaction | rows and files agree, recovery finds the last attempt |
| Client deployment (`internal/client/deploy.go`) | `releases/`, `current`, `.deploy.lock` | stage, switch, verify, restore, reload | concurrent runs, kills, failing commands | isolation, rollback, the lock is given back |
| Client apply (`internal/client/v2.go`, `state.go`) | `.client-state.json` | reconcile, poll, deploy, report, resend | kills, lost requests, racing runs | one key per renewal, reports not lost |
| Authentication (`internal/api/server.go`, `store/logs.go`) | nonces | verify, consume, clean | expiry against the accepted time window; concurrent copies of one request | a request is performed at most once, and only it spends its nonce |
| Tokens and grants (`store/tokens.go`, `server-cli token`, `grant`) | tokens, grants, requesters of jobs | create, update, rotate, delete, grant, revoke | commands of several statements beside requests under way | no row names a token that is gone |
| v1 service (`internal/service/service.go`, `internal/lock`) | live certificate directory, issue lock | apply, reissue, delete, revoke, remove | decision before the lock, processes that take no lock | key and chain of one certificate |
| ACME runner (`internal/acme`) | home of acme.sh, credential directories | issue, renew, install, revoke, remove | deadlines, kills, orphaned commands | credentials do not stay behind unreported |
| v1 client (`internal/client/client.go`) | its files and `.bak` files | list, back up, download, verify, roll back | the server installs during the download | the listed files or the old ones |
| Secrets and keys (`store/crypto.go`, `store.go`) | ciphertexts, key file, injected key | load or create key, migrate, re-encrypt, check, read, write | several processes, kills at any step | no secret lost, none put back |
| Backup and restore (`store/backup.go`) | a copy of database, key, trees | create, verify, restore | writers beside the copy, a failure between two replacements | what is restored is what was saved |
| DNS profiles, presets, admin API, metrics, configuration, in-memory scheduler | rows and counters | single statements, reads | none of their own | see section 5 |

Interaction: a client's `apply` posts a reconcile request with an idempotency key; the server
turns it into a job row; the worker claims the row and calls `executeClaimedV2Job`, which
issues, publishes to the repository and records the result; the client polls the job, fetches
the generation's files, deploys them and reports. `server-cli` works on the same database and
the same repository from a process of its own.

`PROJECT.json` lists every component, the hazards at their lines, and which definition models
which lines.

## 2. Modules

| Module | Models | Extends |
|---|---|---|
| `CertificateJobs` | one row of the job table and what each SQL statement does to it | |
| `JobWorker` | server processes on that table, the operator, SIGTERM, crashes | `CertificateJobs` |
| `CertStore` | one domain of the repository, the publisher and the gc command | |
| `Publication` | an issuing run over the generation rows and the repository | `CertStore` |
| `Deployment` | `DeployGeneration` of several clients on one output directory | |
| `ClientApply` | `ApplyV2`, its state file and the server's answers | `Deployment` |
| `JobQueue` | what the job queue promises, without rows and leases | |
| `OnceOnly` | what signed requests promise | |
| `TokenTable` | tokens, grants, the CLI commands on them, the start-up token | |
| `RequestAuth` | signed requests, concurrent handlers, nonces, the operations behind them | `TokenTable` |
| `KeyStore` | secrets, keys and the start of every process that opens the store | |
| `Backup` | backup and restore beside those processes, on the same files | `KeyStore` |
| `AcmeRunner` | operations of acme.sh with isolation, installation, kills and orphans | |
| `LegacyApply` | v1 applications, v2 issuer and lifecycle commands on one home, and the v1 client | `AcmeRunner` |
| `MC*` | the constants of the TLC runs | the module of that name |
| `JobWorkerProofs` | proofs about `CertificateJobs` and `JobWorker`, refinement of `JobQueue` | `JobWorker` |
| `CertStoreProofs` | proofs about `CertStore` | `CertStore` |
| `PublicationProofs` | proofs about `Publication`, refinement of `CertStore` | `Publication`, `CertStoreProofs` |
| `DeploymentProofs` | proofs about `Deployment` | `Deployment` |
| `ClientApplyProofs` | proofs about `ClientApply`, refinement of `Deployment` | `ClientApply`, `DeploymentProofs` |
| `RequestAuthProofs` | proofs about `TokenTable` and `RequestAuth`, refinement of `OnceOnly` | `RequestAuth` |
| `BackupProofs` | proofs about `KeyStore` and `Backup` | `Backup` |
| `LegacyApplyProofs` | proofs about `AcmeRunner` and `LegacyApply` | `LegacyApply` |

### CertificateJobs and JobWorker

Times are relative to the clock (`lease_until - now`, cut off at 0), so that the clock may run
for ever. A NULL time and a past one are the same number because every statement treats them
alike. `Claim` is two statements without a transaction: `StartClaim` (the sweep) and `ClaimJob`.
The renewal goroutine is the pair `RenewLease` / `RenewFails`, enabled until the job is settled.
`ReconcileJob` is atomic here - its inside is `Publication` - and ends in one of the four ways
the job table can tell apart. `Settle` is the second half of `executeJob`. The adapter ignores
owner and lease version of an update, so `StatusWrite` is unconditional; `robbed` remembers
whose lease was overwritten that way, and `held` the lease each worker believes in.

### CertStore and Publication

A release is absent, whole or broken (a `RemoveAll` under way or cut short). Every file
operation another process or a crash can observe is a step. `Publication` runs the publisher
inside an issuing run: `Publishes`, `PublishContinues` and `PublishReturns` drive `CertStore`'s
own actions, the others are the statements before and after. `own` is history: the release
published for a row by its own run.

### Deployment and ClientApply

`DeployGeneration` holds a flock from before reading `current` until it returns; the kernel
gives it back when a client dies. `live` and `checked` are history: what a reload command has
loaded and a verify command accepted. `ClientApply` keeps of the server what a client acts on
(the job of a key, the current generation) and calls `Deployment`'s actions; its run checks that
every step of it is a step of `Deployment`, so the properties of that module hold for it.

### TokenTable and RequestAuth

`verifyTokenBody` is three steps: `CheckTime` (one reading of the clock), `VerifySignature` (one
read of the token row, whose `is_admin` is kept for the rest of the request) and `ConsumeNonce`
(the transaction). `Deliver` hands any number of copies of a request, good or damaged, to any
handler at any time. Ages are relative to the clock. `CheckPermission` is one query per
permission, `Perform` and `AdminRequest` the operation. A CLI command reads (`CliRead`), counts
the admins (`ProtectLastAdmin`) and writes (`CliWrite`, `CliGrant`) in separate steps.
`accepted` is history; with it as `performed`, the module is shown to implement `OnceOnly`.
`MaxAge` and `MaxNonceAge` are the ages from which on a request stays refused and a nonce is
purged by whoever comes next; both exceed every age a fresh request or nonce can have, also when
skew or latency are larger than the configured times.

### KeyStore and Backup

A process that opens the store goes through `loadEncryptionKey`, `migrate`,
`migrateLegacyCiphertexts` (tokens, then DNS secrets: read at once, written back row by row) and
`CheckEncryptionReadiness`; it may be killed between any two. A ciphertext is the key and the
value inside. `newest`, `raced` and `exposed` are history: the value last set, the values set
between the read and the write of a re-encryption, and the processes beside which another key
wrote. `Backup` adds the files, the `current` link, the backup under way (`bk`), the finished one
(`saved`) and the restore command (`rst`), and lets the operator lose the machine (`NewHost`).
Restoring is allowed when the other processes are stopped, as the operations guide demands.

### AcmeRunner and LegacyApply

The certificate in the home of acme.sh is a version number; two files stand for the installed
ones, `key` and `fullchain`, and each is copied as the home holds it at that moment. Every new
version is taken to have a new key, which is the careful reading: acme.sh may also keep the key.
An operation goes `run`, `install`, `rescan`, `done`; `Outcome` is what an exit code or the
deadline makes of a command. `Locked` runners are v1 applications under
`.certkeeper.issue.lock`, `Free` ones are the v2 issuer and the lifecycle commands. A killed
process leaves its command running (`orphan`) because `Execute` gives it a process group of its
own. `LegacyApply` adds `service.Apply`, whose decision to issue precedes the lock, and the v1
client. The renames of `restoreBackups` are one step.

### Abstract specifications

| Detailed | Abstract | Mapping |
|---|---|---|
| `JobWorker` | `JobQueue` | known jobs: rows that exist; starts: `attempts`; doing: `task` |
| `RequestAuth` | `OnceOnly` | performed: `accepted` |
| `ClientApply` | `Deployment` | the variables of that name |
| `Publication` | `CertStore` | the variables of that name |

## 3. Runs

| Run | Expectation | Question |
|---|---|---|
| `JobWorker_safety` | pass | Do leases exclude each other, do rows keep their shape, is the table a `JobQueue`? |
| `JobWorker_live` | pass | Does every job settle? |
| `JobWorker_retry` | violation | Is a re-queued job left in the queue? |
| `CertStore_safety` | pass | Does `current` always name a complete, newer release? |
| `Publication_safety` | pass | Do the rows stay consistent, and agree with the repository, through crashes and recovery? |
| `Deployment_safety` | pass | Are deployments isolated, verified, truthfully reported, and the lock given back? |
| `ClientApply_safety` | pass | Do retries reuse the key; are only published generations deployed? |
| `ClientApply_renewal` | violation | Does a run get a renewal when one is due? |
| `RequestAuth_safety` | pass | Is a signed request performed at most once, and are its nonce and its token in order? |
| `Backup_safety` | pass | Do secrets survive starts, kills, backups and restores; is what is restored what was saved? |
| `Backup_link` | violation | Is a backup possible once a v2 certificate is published? |
| `LegacyApply_safety` | pass | Do key and chain match, are credentials gone, is the v1 client whole? |

The three violation runs each show a place where the code does not do what a comment or a
document says; `findings` in `PROJECT.json` quotes the line:

- a retryable failure is re-queued and then marked failed by the same execution;
- a client keeps its key for ever, and a finished job answers it with the old generation;
- the walk of `backup create` refuses the `current` link that every v2 publication makes.

Other behaviours that the models contain and a reader should know, without a run of their own:

- a publication after a failed first attempt ends with a failed row and current files, because
  attempts and releases are numbered differently under one unique index (`service/v2.go:162`);
- recovery attributes whatever release is current to the interrupted attempt (`service/v2.go:776`);
- after a failed reload the next run reports "reloaded" without reloading (`client/deploy.go:103`);
- a run that resent an old report saves its own, unsent one as sent (`client/v2.go:79`);
- two token commands, or a command and the administration API, can together remove the last
  admin; `bootstrapAdminToken` leaves an existing row as it is;
- a rotation that falls between the read and the write of a start-up re-encryption is undone,
  because the UPDATE is by id only (`store/crypto.go:249`);
- a kill inside `loadOrCreateKEK` leaves an empty key file, which stops every later start;
- `RestoreBackup` leaves a `-wal` file of the replaced database where it is;
- exit codes 2 and 3 of acme.sh are no error for `service.Apply`, which then answers "renewed";
- a listing made without the issue lock can mix two versions; the client then downloads what the
  listing names or rolls back;
- a v1 client killed between backup and download leaves a file missing until its next run.

Some passing properties name their exceptions, which are behaviours of the code a reader should
know. `LeaseHonoured` and `ExclusiveExecution` except workers in `robbed`. `CurrentIsWhole`
excepts a gc run whose two reads a switch of the link falls between (`overtaken`) and a failed
directory sync (`restored`). `CurrentWasVerified` excepts a client killed between switch and
verification and a link that cannot be restored (`upset`). `EveryJobSettles` counts a job queued
with its attempts used up as settled: it stays so until an operator acts. `CurrentIsRecorded`
admits a row that waits for recovery and an attempt failed after it had published; `ReportIsTrue`
a run that found its generation current. `SecretsSurvive` excepts an unfinished restore,
`OpenStoreReads` a process beside which another key wrote, `NewestSecretStays` the window named
above, `BackupIsRestorable` an issue that wrote during the copy, and `RestoredIsTheBackup` a
left-over `-wal`. `LivePairMatches` excepts installations that were cut short, continued by an
orphan, or disturbed by a command that takes no lock.

### Bounds

- `JobWorker_safety`: two processes (a rolling restart), one job, three attempts, leases and
  delays of two ticks, two stops. One job is enough for the safety properties because each
  speaks of a single row and no statement except the sweep touches two; two ticks let a lease be
  whole, part used and expired. `JobWorker_live`: one process and two jobs, so that one job could
  starve the other.
- `CertStore_safety`: four generations, `--keep-recent 1`, two gc runs, two crashes: enough for a
  collection under way while two publications follow each other.
- `Publication_safety`: three rows, two releases, two crashes, one gc run, any statement failing.
- `Deployment_safety`: two clients, three generations, two faults. `ClientApply_safety`: two
  clients, three keys, one generation, one fault; a third key is needed for a run to break
  `KeysAreReused`.
- `RequestAuth_safety`: one request, two handlers that may both hold a copy, two tokens, one CLI
  command, two secrets; `Window = Skew = Latency = 1` and `Ttl = 3`, the smallest values at which
  a copy can be early, late, and delayed between the two readings of the clock. One request is
  enough because requests meet only in the purge, which `CleanOldNonces(Ttl)` also performs.
  `Ttl >= Window + Skew + Latency` (`NonceOutlivesCopies`) is what `AtMostOnce` needs; the defaults
  in `internal/config/config.go` set window and ttl to 300 s, which leaves skew and latency no room.
- `Backup_safety`: two processes, two starts (both at once, or one after a kill), a token and a
  DNS secret, two keys for the file, one written value, one v1 issue. Longer histories of starts are
  covered by `BackupProofs`.
- `LegacyApply_safety`: two versions (an installation overtaken by the next), one kill, two client
  runs, three calls (an application, another one, and an issue or command without the lock).
- Process, handler, worker and client symmetry is used only in runs without liveness properties.

Deadlock is checked, except in the `Backup` and `LegacyApply` runs: there every call, start and
issue is bounded, and a host on which nothing is left to do is a proper end.

### Fairness

`JobWorker`: the Go scheduler runs the claim loop and the reconciler ends (every ACME call has a
timeout), so claim, reconcile and settle are weakly fair; time passes; the service manager
restarts a crashed server (`deploy/docker-compose.yml`, `Restart=on-failure` in
`deploy/systemd/certkeeper-server.service`), and one that was stopped on purpose is taken to be
started again. Renewal, crashes and the operator are not fair, except that a `job
retry` that has read the row writes it. `Deployment`: a client that holds the lock goes on; a
download has the HTTP client's timeout (`cmd/client/main.go`), but the verify and reload commands
have none, and that they end is an assumption. Liveness is checked by TLC only.

## 4. Proofs

Eight modules prove every invariant, action property and refinement the passing runs check, for
every value of the constants: any number of processes, clients, jobs, rows, releases, tokens,
requests, crashes and kills. `PROJECT.json` lists the theorems with the property each one states.
In each module an inductive invariant is shown to hold initially and to be kept by every action,
one lemma per action; the theorems follow from it.

**Assumptions.** Bounds are natural numbers; an attempt limit and a lease are at least 1; null
values lie outside the sets they stand beside; `ClientApply` needs finitely many clients to count
keys. Nothing is assumed of the order of events or of configured times. Two properties depend on
a configured value, which the theorem then names:

- `CurrentIsWhole`, `SuccessIsPublished`, `SucceededHasCertificate` and `CurrentIsRecorded` are
  proved for `KeepRecent # 0`. The default is 1; `generation gc --keep-recent=0` is accepted, and
  there a collection may remove a release between its rename and the switch of the link.
- `AtMostOnce` is proved for `NonceOutlivesCopies`. The other theorems of `RequestAuthProofs` hold
  for all times.

**`JobWorkerProofs`**: `IInv` is `TypeOK /\ RowShape /\ TaskInv /\ LeaseHonoured`. `TaskInv` (a
worker has a job exactly while it executes, and a lease only then) is needed because
`LeaseHonoured` speaks of `task[w]`; `RowShape` because a claim must find either no lease or an
expired one: a terminal row has none, and a queued row with a delay has none. Row lemmas
(`SweptShaped`, `ClaimedShaped`, ...) say what each statement does to one row; one lemma per
action lifts them to the table. `ExclusiveExecution` follows from `LeaseHonoured`: two live leases
on one row would give it two owners. `QueueIsImplemented` adds `QueueInv`: a task belongs to a row
that exists. A claim is a start in `JobQueue`, the end of a task a stop, an insertion an
acceptance; everything else leaves the three mapped values alone, above all the unfenced writes.

**`CertStoreProofs`**: `CsIInv` follows the release of the publication under way: nobody has
published its number before (`IdsOK`, `LinkInv`), its revision is the largest on disk
(`NewestInv`), hence gc, which keeps the newest, cannot have chosen it (`KeptInv`). The last part
is the one that needs `KeepRecent # 0`. `CurrentOnlyAdvances` needs no such condition.

**`PublicationProofs`**: every step is a step of `CertStore` or leaves it alone
(`PublicationUsesRepository`), so `CsIInv` carries over. `AtInv` says what the place of a run
implies for the status of its row, `ReleaseInv` which release is the row's, and `RecordInv` that
some row accounts for the current release, or will.

**`DeploymentProofs`** and **`ClientApplyProofs`**: `SectionInv` says what the holder of the lock
knows of link, releases and verification at each step; the lock makes the steps of others
irrelevant to it. `ClientApply` needs that the server answers with published generations
(`AnswerInv`), that `DeployGeneration` is called from one place only (`CallInv`) and that a key is
saved before it is used (`KeyInv`). `KeysAreReused` counts keys: it is strengthened to the keys
anybody holds (`FewKeys`), since a key in memory can still reach the server. Through the
refinement, `ApplyRunsDeploySafely` gives apply runs the theorems of `DeploymentProofs`.

**`RequestAuthProofs`**: the core is arithmetic on ages (`NonceAges`, `LagAges`): the row of a
request that can still pass the time check, or has a copy behind it, is at most
`Window + Skew + wait` old, so a purge by `Ttl` leaves it (`NonceKept`). `NoDanglingToken` is
kept by the statements themselves, which check the token in the transaction that refers to it.

**`BackupProofs`**: `KeyInv` says that the creator of the key file is alone and that every process
works with the injected key or the one in the file; `CopyInv` that what a start has read and will
write back is not older than the row, or the secret is in `raced`. A backup under way was taken
while its process was open, so no restore came between its parts (`TakenInv`); a restore under way
has the host to itself (`RestoreInv`).

**`LegacyApplyProofs`**: the lock makes v1 applications take turns (`LockInv`), so a home that
changes between the two files of an installation was changed by somebody without the lock, and the
installation is marked (`LiveOK`). A run of the client is described file by file (`ClientOK`):
those before its position are as listed, those after it as found, and what it moved aside is in
the backups.

**Model-checked only.** `EveryJobSettles` (`JobWorker_live`) and `LockIsReleased`
(`Deployment_safety`) are liveness properties under weak fairness; they need `ENABLED`, which the
proof system cannot treat. The three violation runs state what does not hold.

## 5. What is left out

- Statements issued with `context.Background()` are taken to succeed; a failing database is
  modelled where the code uses a context that SIGTERM cancels.
- `--force` of the client, `StatusV2`, `DownloadV2`, heartbeats and input checks.
- PEM, chain and manifest validation, which is the choice between a step and its refusal; digests,
  signatures and ciphers are ideal.
- The migration of a legacy `current` directory in `currentState`.
- The rows of `deployment_reports`, the issue log and the audit log: nothing reads them back to
  decide. Registered clients and profile names: data without protocol.
- One domain at a time. `validateCertificateDomain` is left out; its comment admits wildcard
  names, its body refuses every name with an asterisk (`store/tokens.go:310`).
- The in-memory scheduler (`RunOnce` and `Run` have no caller outside tests), `Runner.Renew`,
  `Reissue` and `InstallCert`, `ReleaseLease` and the delete functions of `workflows.go`: nothing in
  the program calls them. In `cmd/server-cli/main.go` the older `cert`, `token`, `secret`, `job` and
  `generation` commands are not reached: the dispatcher calls the variants in `v2_commands.go`.
- Metrics, configuration, command-line parsing, the dashboard page: no state another part decides
  from.
- On a machine whose operator restores beside running processes, which the guide forbids, nothing
  is claimed.

## 6. Plan

Models and proofs cover what section 5 does not exclude. Worth adding:

1. The exact shape of the exceptions as action properties: that `robbed`, `overtaken`, `restored`,
   `raced` and `exposed` change only in the steps their comments name.
2. A refinement of a common abstract specification by `Deployment` and the v1 client (the directory
   holds the old or the new set whenever nobody is at work).
3. A sharper `KeysAreReused` that counts only runs which raced for the first state file.

## 7. Running

    tlc -workers 2 -config JobWorker_safety.cfg MCJobWorker

and likewise for the other runs of section 3: the part of a run's name before the underscore names
its MC module. The proofs:

    for m in JobWorker CertStore Publication Deployment ClientApply RequestAuth Backup LegacyApply
    do tlapm ${m}Proofs.tla; done
