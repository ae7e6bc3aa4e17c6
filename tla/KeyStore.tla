------------------------------ MODULE KeyStore ------------------------------
(***************************************************************************)
(* The secrets of the database and the keys they are encrypted with        *)
(* (internal/store/crypto.go, store.go, dns_profiles.go).                  *)
(*                                                                         *)
(* Every process that opens the store - the server, each server-cli        *)
(* command - loads its key, applies schema migrations, re-encrypts rows    *)
(* that are under the key file or in plain text, checks that it can read   *)
(* everything, and only then works.  The processes do not exclude each     *)
(* other; a statement or a transaction is one step.  Ciphers are ideal: a  *)
(* ciphertext is the key it was made with and the value inside.            *)
(***************************************************************************)
EXTENDS Naturals, FiniteSets, Sequences

CONSTANTS TokenSecret,  \* secrets of tokens (v1 rows are plain text)
          DnsSecret,    \* secrets of DNS profiles
          EnvKey,       \* the value of CK_ENCRYPTION_KEY
          FileKey,      \* keys ever generated for the file <db>.kek
          Process,      \* processes that open the store
          MaxWrites,    \* bound: secrets written by users
          MaxStarts     \* bound: starts of a process

ASSUME KeyAssumption ==
    /\ EnvKey \notin FileKey
    /\ {"none", "plain", "empty"} \cap (FileKey \union {EnvKey}) = {}
ASSUME WritesAssumption == MaxWrites \in Nat /\ MaxStarts \in Nat

Secret == TokenSecret \union DnsSecret

VARIABLES rows,     \* rows[s]: key and value of the row
          schema,   \* the v2 migrations are applied
          kekFile,  \* <db>.kek: "none", "empty" (created, not yet written) or a key
          proc,     \* proc[p]: where process p is and the keys it has loaded
          drawn,    \* keys generated so far
          writes,   \* values written so far
          starts,   \* starts so far
          newest,   \* history: newest[s] is the value last given to s
          raced,    \* history: secrets written while a start was to re-encrypt them
          exposed   \* history: open processes beside which another key was used

ksHistory == <<newest, raced, exposed>>
ksVars    == <<rows, schema, kekFile, proc, drawn, writes, starts, ksHistory>>

NoRow  == [key |-> "none", val |-> 0]
RowSet == [key : {"plain", EnvKey} \union FileKey, val : 0..MaxWrites] \union {NoRow}

(***************************************************************************)
(* loadEncryptionKey.                                                      *)
(***************************************************************************)
At(p, at) == proc' = [proc EXCEPT ![p].at = at]

IsDown(p) == proc[p].at = "down"

Starts(p) == IsDown(p) /\ starts < MaxStarts /\ starts' = starts + 1

Loads(p, active, legacy) ==
    /\ proc' = [proc EXCEPT ![p] = [at |-> "schema", active |-> active, legacy |-> legacy,
                                    copy |-> {}, todo |-> {}]]
    /\ exposed' = exposed \ {p}
    /\ UNCHANGED <<rows, schema, drawn, writes, newest, raced>>

\* Mutant: the length of the key file is not checked.
StartInjectedUnchecked(p) ==
    /\ Starts(p)
    /\ Loads(p, EnvKey, kekFile)
    /\ UNCHANGED kekFile

\* CK_ENCRYPTION_KEY is set: the key file, if any, is the fallback.  A key file
\* of the wrong length is an error.
StartInjected(p) ==
    /\ Starts(p) /\ kekFile # "empty"
    /\ Loads(p, EnvKey, kekFile)
    /\ UNCHANGED kekFile

\* It is not set: the key file is the key.
StartFromFile(p) ==
    /\ Starts(p) /\ kekFile \in FileKey
    /\ Loads(p, kekFile, "none")
    /\ UNCHANGED kekFile

\* Mutant: the key file is opened without O_EXCL.
CreateFileAnyway(p) ==
    /\ Starts(p) /\ kekFile \in {"none", "empty"}
    /\ kekFile' = "empty"
    /\ At(p, "creating")
    /\ UNCHANGED <<rows, schema, drawn, writes, ksHistory>>

\* loadOrCreateKEK: created exclusively, written afterwards.
CreateFile(p) ==
    /\ Starts(p) /\ kekFile = "none"
    /\ kekFile' = "empty"
    /\ At(p, "creating")
    /\ UNCHANGED <<rows, schema, drawn, writes, ksHistory>>

WriteFile(p) ==
    /\ proc[p].at = "creating"
    /\ \E k \in FileKey \ drawn :
         /\ kekFile' = k
         /\ drawn' = drawn \union {k}
         /\ proc' = [proc EXCEPT ![p] = [at |-> "schema", active |-> k, legacy |-> "none",
                                         copy |-> {}, todo |-> {}]]
    /\ exposed' = exposed \ {p}
    /\ UNCHANGED <<starts, rows, schema, writes, newest, raced>>

\* The operator: a key file of the wrong length stops every start until it is gone.
RemoveEmptyFile ==
    /\ kekFile = "empty" /\ \A p \in Process : proc[p].at # "creating"
    /\ kekFile' = "none"
    /\ UNCHANGED <<starts, rows, schema, proc, drawn, writes, ksHistory>>

Start(p) == StartInjected(p) \/ StartFromFile(p) \/ CreateFile(p) \/ WriteFile(p)

(***************************************************************************)
(* migrate: whether a migration is applied is read first; the transaction  *)
(* that applies it also inserts its name, which fails when another process *)
(* was faster.                                                             *)
(***************************************************************************)
ReadSchema(p) ==
    /\ proc[p].at = "schema"
    /\ At(p, IF schema THEN "tokens" ELSE "apply")
    /\ UNCHANGED <<starts, rows, schema, kekFile, drawn, writes, ksHistory>>

ApplySchema(p) ==
    /\ proc[p].at = "apply"
    /\ schema' = TRUE
    /\ At(p, IF schema THEN "down" ELSE "tokens")
    /\ UNCHANGED <<starts, rows, kekFile, drawn, writes, ksHistory>>

(***************************************************************************)
(* migrateLegacyCiphertexts: first all tokens, then all DNS secrets.  The  *)
(* rows of a table are read at once and written back one by one, by id     *)
(* only.                                                                   *)
(***************************************************************************)
\* Mutant: rows that the active key opens are written back as well.
NeedsRewrapAlways(p, r) ==
    r.key \in {"plain", proc[p].active} \/ (r.key # "none" /\ r.key = proc[p].legacy)

\* Rows that neither key opens are skipped; readiness will refuse them.
NeedsRewrap(p, r) ==
    r.key = "plain" \/ (r.key # "none" /\ r.key = proc[p].legacy /\ r.key # proc[p].active)

\* The table is done when no row of it is left to write.
Rewraps(p, at, copy, todo) ==
    proc' = [proc EXCEPT
        ![p].at   = CASE todo # {} -> at
                      [] todo = {} /\ at = "rewrap tokens" -> "dns"
                      [] todo = {} /\ at = "rewrap dns" -> "check",
        ![p].copy = IF todo = {} THEN {} ELSE copy,
        ![p].todo = todo]

ReadTable(p, at, table, next) ==
    /\ proc[p].at = at
    /\ Rewraps(p, next, [s \in table |-> rows[s]], {s \in table : NeedsRewrap(p, rows[s])})
    /\ UNCHANGED <<rows, schema, kekFile, drawn, writes, starts, ksHistory>>

\* Open processes that do not use the key p writes with.
Strangers(p) ==
    {q \in Process : proc[q].at = "open" /\ proc[q].active # proc[p].active}

RewrapRow(p, s) ==
    /\ proc[p].at \in {"rewrap tokens", "rewrap dns"}
    /\ s \in proc[p].todo
    /\ rows' = IF rows[s] = NoRow THEN rows
               ELSE [rows EXCEPT ![s] = [key |-> proc[p].active, val |-> proc[p].copy[s].val]]
    /\ Rewraps(p, proc[p].at, proc[p].copy, proc[p].todo \ {s})
    /\ exposed' = exposed \union Strangers(p)
    /\ UNCHANGED <<starts, schema, kekFile, drawn, writes, newest, raced>>

Rewrap(p) ==
    \/ ReadTable(p, "tokens", TokenSecret, "rewrap tokens")
    \/ ReadTable(p, "dns", DnsSecret, "rewrap dns")
    \/ \E s \in Secret : RewrapRow(p, s)

(***************************************************************************)
(* CheckEncryptionReadiness looks at ciphertexts and the active key only;  *)
(* reads (decryptStoredSecret) also try the fallback key.                  *)
(***************************************************************************)
\* Mutant: unreadable records are counted and not refused.
ReadyAnyway(p) == TRUE

Ready(p) == \A s \in Secret : rows[s].key \in {"none", "plain", proc[p].active}

CheckReadiness(p) ==
    /\ proc[p].at = "check"
    /\ At(p, IF Ready(p) THEN "open" ELSE "down")
    /\ UNCHANGED <<starts, rows, schema, kekFile, drawn, writes, ksHistory>>

Readable(p, s) == rows[s].key \in {"none", "plain", proc[p].active, proc[p].legacy}

(***************************************************************************)
(* An open store.                                                          *)
(***************************************************************************)
\* Some start has read s under another key than its own and will write the old
\* value back.
WillOverwrite(q, s) ==
    /\ proc[q].at \in {"rewrap tokens", "rewrap dns"}
    /\ s \in proc[q].todo /\ proc[q].copy[s].key # proc[q].active

\* CreateToken, RotateTokenSecret, UpsertDNSProfileSecret: encrypted with the
\* active key, whatever is there.
WriteSecret(p, s) ==
    /\ proc[p].at = "open" /\ writes < MaxWrites
    /\ writes' = writes + 1
    /\ rows' = [rows EXCEPT ![s] = [key |-> proc[p].active, val |-> writes + 1]]
    /\ newest' = [newest EXCEPT ![s] = writes + 1]
    /\ raced' = IF \E q \in Process : WillOverwrite(q, s)
                THEN raced \union {s} ELSE raced \ {s}
    /\ exposed' = exposed \union Strangers(p)
    /\ UNCHANGED <<starts, schema, kekFile, proc, drawn>>

\* DeleteToken, DeleteDNSProfileSecret, DeleteDNSProfile.
DeleteSecret(p, s) ==
    /\ proc[p].at = "open"
    /\ rows' = [rows EXCEPT ![s] = NoRow]
    /\ UNCHANGED <<starts, schema, kekFile, proc, drawn, writes, ksHistory>>

Stopped == [at |-> "down", active |-> "none", legacy |-> "none", copy |-> {}, todo |-> {}]

\* The process ends: Close, an error of a statement, or killed at any point.
Stop(p) ==
    /\ ~IsDown(p)
    /\ proc' = [proc EXCEPT ![p] = Stopped]
    /\ UNCHANGED <<starts, rows, schema, kekFile, drawn, writes, ksHistory>>

Uses(p) == \E s \in Secret : WriteSecret(p, s) \/ DeleteSecret(p, s)

Opens(p) == Start(p) \/ ReadSchema(p) \/ ApplySchema(p) \/ Rewrap(p) \/ CheckReadiness(p)

\* A v1 database (plain tokens) or one of an earlier v2 release with a key file.
KsInit ==
    /\ schema \in BOOLEAN
    /\ kekFile \in {"none"} \union {k \in FileKey : schema}
    /\ rows \in [Secret -> {[key |-> k, val |-> 0] : k \in {"none", "plain", kekFile}}]
    /\ \A s \in DnsSecret : rows[s].key # "plain"
    /\ proc = [p \in Process |-> Stopped]
    /\ drawn = {kekFile} \ {"none"}
    /\ writes = 0 /\ starts = 0
    /\ newest = [s \in Secret |-> 0]
    /\ raced = {} /\ exposed = {}

-----------------------------------------------------------------------------
KsTypeOK ==
    /\ rows \in [Secret -> RowSet]
    /\ schema \in BOOLEAN
    /\ kekFile \in {"none", "empty"} \union FileKey
    /\ drawn \subseteq FileKey
    /\ writes \in 0..MaxWrites /\ starts \in 0..MaxStarts
    /\ newest \in [Secret -> 0..MaxWrites]
    /\ raced \subseteq Secret /\ exposed \subseteq Process
    /\ \A p \in Process :
         /\ proc[p].at \in {"down", "creating", "schema", "apply", "tokens", "rewrap tokens",
                            "dns", "rewrap dns", "check", "open"}
         /\ proc[p].active \in {"none", EnvKey} \union FileKey
         /\ proc[p].legacy \in {"none"} \union FileKey
         /\ proc[p].todo \subseteq Secret

\* Wherever a process died, a start with the injected key and the key file that
\* is there can still decrypt every secret: no key a row depends on is lost.
\* (After a death inside loadOrCreateKEK the empty file must be removed first.)
NoSecretIsLost ==
    \A s \in Secret : rows[s].key \in {"none", "plain", EnvKey, kekFile}

\* A process whose start passed the readiness check can use every secret for as
\* long as no process with another key writes to the database beside it.
OpenStoreReads ==
    \A p \in Process :
        proc[p].at = "open" /\ p \notin exposed => \A s \in Secret : Readable(p, s)

\* A value a user has set stays: start-up re-encryption never puts an older one
\* back, unless the value was set while a start had read the old row for
\* re-encryption and not yet written it.
NewestSecretStays ==
    \A s \in Secret \ raced : rows[s] # NoRow => rows[s].val = newest[s]
=============================================================================
