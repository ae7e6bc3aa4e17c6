----------------------------- MODULE TokenTable -----------------------------
(***************************************************************************)
(* The tokens table, the domain grants that refer to it, and the server    *)
(* CLI commands that change them (internal/store/tokens.go and             *)
(* cmd/server-cli/v2_commands.go).                                         *)
(*                                                                         *)
(* Every statement is atomic: the store has one connection and SQLite one  *)
(* writer.  A CLI command is several statements of a process of its own:   *)
(* it reads the row, it may count the admins, it writes.  Another process  *)
(* may write in between.  One certificate domain is modelled, so a grant   *)
(* is a token and a permission.  Notes, audit rows and last_used_at are    *)
(* left out: nothing is decided from them.                                 *)
(***************************************************************************)
EXTENDS Naturals, FiniteSets, Sequences

CONSTANTS Token,        \* token identifiers
          AdminTokenId, \* auth.admin_token_id, created at start-up when missing
          Permission,   \* the certificate permissions in use
          Cli,          \* server-cli processes
          MaxSecret,    \* bound: secrets ever generated
          MaxCommands   \* bound: CLI commands

ASSUME AdminAssumption == AdminTokenId \in Token
ASSUME BoundsAssumption == MaxSecret \in Nat \ {0} /\ MaxCommands \in Nat

VARIABLES tokens,    \* tokens[t]: the row of t, or NoRow
          grants,    \* token_certificate_grants
          jobs,      \* certificate_jobs created here: who asked for which request
          lastSecret,\* number of secrets generated so far
          cli,       \* cli[c]: the command process c is executing
          commands   \* commands started so far

tableVars == <<tokens, grants, jobs, lastSecret>>
cliVars   == <<cli, commands>>

NoRow   == [enabled |-> FALSE, admin |-> FALSE, secret |-> 0]
Rows    == [enabled : BOOLEAN, admin : BOOLEAN, secret : 1..MaxSecret]
Exists(t)  == tokens[t].secret # 0
Admins     == {t \in Token : Exists(t) /\ tokens[t].admin}

Nobody  == "nobody"          \* requested_by IS NULL

(***************************************************************************)
(* The statements of the store.                                            *)
(***************************************************************************)
\* CreateToken: INSERT, refused by the primary key when the row exists.
CreateToken(t, enabled, admin) ==
    /\ ~Exists(t)
    /\ lastSecret < MaxSecret
    /\ lastSecret' = lastSecret + 1
    /\ tokens' = [tokens EXCEPT ![t] =
            [enabled |-> enabled, admin |-> admin, secret |-> lastSecret + 1]]
    /\ UNCHANGED <<grants, jobs>>

\* UpdateToken: UPDATE ... WHERE id; no error when the row is gone.
UpdateToken(t, enabled, admin) ==
    /\ tokens' = IF Exists(t)
                 THEN [tokens EXCEPT ![t].enabled = enabled, ![t].admin = admin]
                 ELSE tokens
    /\ UNCHANGED <<grants, jobs, lastSecret>>

\* RotateTokenSecret: no row, no change (sql.ErrNoRows).
RotateTokenSecret(t) ==
    /\ lastSecret < MaxSecret
    /\ lastSecret' = lastSecret + 1
    /\ tokens' = IF Exists(t) THEN [tokens EXCEPT ![t].secret = lastSecret + 1]
                 ELSE tokens
    /\ UNCHANGED <<grants, jobs>>

\* DeleteToken with the foreign keys of the schema: grants go with the token
\* (ON DELETE CASCADE), its jobs lose their requester (ON DELETE SET NULL).
DeleteToken(t) ==
    /\ tokens' = [tokens EXCEPT ![t] = NoRow]
    /\ grants' = {g \in grants : g[1] # t}
    /\ jobs'   = {IF j.by = t THEN [j EXCEPT !.by = Nobody] ELSE j : j \in jobs}
    /\ UNCHANGED lastSecret

\* Mutant: the permission is stored without validCertificatePermissions.
GrantUnvalidated(t, p) ==
    /\ grants' = IF Exists(t) THEN grants \union {<<t, "any">>} ELSE grants
    /\ UNCHANGED <<tokens, jobs, lastSecret>>

\* Grant: a known permission; the foreign key refuses a token that does not exist.
Grant(t, p) ==
    /\ grants' = IF Exists(t) THEN grants \union {<<t, p>>} ELSE grants
    /\ UNCHANGED <<tokens, jobs, lastSecret>>

Revoke(t, p) ==
    /\ grants' = grants \ {<<t, p>>}
    /\ UNCHANGED <<tokens, jobs, lastSecret>>

HasCertificatePermission(t, p) == <<t, p>> \in grants

-----------------------------------------------------------------------------
(***************************************************************************)
(* The CLI.  cli[c] holds the step the process is at, the command, the row *)
(* it has read and what it will write.                                     *)
(***************************************************************************)
Flag == {"keep", "on", "off"}   \* "keep": not given on the command line
Idle == [at |-> "idle", cmd |-> "none", tok |-> Nobody, enabled |-> FALSE, admin |-> FALSE]

Choose(flag, old) == IF flag = "keep" THEN old ELSE flag = "on"

\* token create: service.CreateToken makes the secret and inserts the row.
CliCreate(c, t, enabled, admin) ==
    /\ cli[c] = Idle
    /\ commands < MaxCommands
    /\ commands' = commands + 1
    /\ CreateToken(t, enabled, admin)
    /\ UNCHANGED cli

\* token update/delete/rotate and grant add/remove start by reading the row
\* and refuse a token that does not exist.  update applies its flags to the
\* copy before the guard looks at it.
CliRead(c, cmd, t, enabled, admin) ==
    /\ cli[c] = Idle
    /\ commands < MaxCommands
    /\ Exists(t)
    /\ commands' = commands + 1
    /\ LET old == tokens[t]
           guarded == \/ cmd = "delete"
                      \/ cmd = "update" /\ old.admin /\ "off" \in {enabled, admin}
       IN  cli' = [cli EXCEPT ![c] =
                [at |-> IF guarded THEN "guard" ELSE "write", cmd |-> cmd,
                 tok |-> t, enabled |-> Choose(enabled, old.enabled),
                 admin |-> Choose(admin, old.admin)]]
    /\ UNCHANGED tableVars

\* protectLastAdmin with adminCount: refuses when the target is an admin and
\* the only one.  The target is the changed copy.
ProtectLastAdmin(c) ==
    /\ cli[c].at = "guard"
    /\ cli' = [cli EXCEPT ![c] =
            IF cli[c].admin /\ Cardinality(Admins) <= 1
            THEN Idle ELSE [cli[c] EXCEPT !.at = "write"]]
    /\ UNCHANGED <<tableVars, commands>>

\* The write that ends a token command.
CliWrite(c) ==
    /\ cli[c].at = "write"
    /\ LET t == cli[c].tok IN
         \/ cli[c].cmd = "update" /\ UpdateToken(t, cli[c].enabled, cli[c].admin)
         \/ cli[c].cmd = "delete" /\ DeleteToken(t)
         \/ cli[c].cmd = "rotate" /\ RotateTokenSecret(t)
    /\ cli' = [cli EXCEPT ![c] = Idle]
    /\ UNCHANGED commands

\* The write that ends grant add or grant remove.
CliGrant(c) ==
    /\ cli[c].at = "write"
    /\ \E p \in Permission :
         \/ cli[c].cmd = "grant"  /\ Grant(cli[c].tok, p)
         \/ cli[c].cmd = "revoke" /\ Revoke(cli[c].tok, p)
    /\ cli' = [cli EXCEPT ![c] = Idle]
    /\ UNCHANGED commands

CliNext ==
    \E c \in Cli :
      \/ \E t \in Token, enabled, admin \in BOOLEAN : CliCreate(c, t, enabled, admin)
      \/ \E t \in Token, enabled, admin \in Flag : CliRead(c, "update", t, enabled, admin)
      \/ \E t \in Token, cmd \in {"delete", "rotate", "grant", "revoke"} :
             CliRead(c, cmd, t, "keep", "keep")
      \/ ProtectLastAdmin(c)
      \/ CliWrite(c)
      \/ CliGrant(c)

\* bootstrapAdminToken: at start-up the configured admin token is created when
\* there is no row with its id, and left alone when there is one.
BootstrapAdminToken ==
    IF Exists(AdminTokenId)
    THEN UNCHANGED tableVars
    ELSE CreateToken(AdminTokenId, TRUE, TRUE)

\* A running server: the admin token of the first start, other tokens as earlier
\* commands left them, each with every permission or with none.
TableInit ==
    /\ tokens \in [Token -> {[enabled |-> TRUE, admin |-> a, secret |-> 1] : a \in BOOLEAN}
                              \union {NoRow}]
    /\ tokens[AdminTokenId].admin
    /\ \E S \in SUBSET {t \in Token : Exists(t)} : grants = S \X Permission
    /\ jobs = {}
    /\ lastSecret = 1
    /\ cli = [c \in Cli |-> Idle]
    /\ commands = 0

TableTypeOK ==
    /\ tokens \in [Token -> Rows \union {NoRow}]
    /\ grants \subseteq Token \X Permission
    /\ lastSecret \in 1..MaxSecret
    /\ commands \in 0..MaxCommands
    /\ cli \in [Cli -> [at : {"idle", "guard", "write"},
                        cmd : {"none", "update", "delete", "rotate", "grant", "revoke"},
                        tok : Token \union {Nobody},
                        enabled : BOOLEAN, admin : BOOLEAN]]
=============================================================================
