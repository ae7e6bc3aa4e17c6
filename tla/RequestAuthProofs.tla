---------------------------- MODULE RequestAuthProofs ----------------------------
(***************************************************************************)
(* Proofs about TokenTable and RequestAuth, for every set of tokens,       *)
(* requests, handlers and CLI processes and for every time window, clock   *)
(* skew, latency and time to live; that a request is performed at most     *)
(* once, for those that satisfy NonceOutlivesCopies.                       *)
(***************************************************************************)
EXTENDS RequestAuth, TLAPS

-----------------------------------------------------------------------------
(* The inductive invariant.                                                    *)

(* A CLI command that is under way names a token. *)
CliInv == \A c \in Cli : cli[c].at # "idle" => cli[c].tok \in Token

JobRow == [req : Request, by : Token \union {Nobody}]

(* The tables. *)
TablesOK ==
    /\ tokens \in [Token -> Rows \union {NoRow}]
    /\ grants \subseteq Token \X Permission
    /\ jobs \subseteq JobRow
    /\ lastSecret \in 1..MaxSecret
    /\ NoDanglingToken

(* The CLI processes. *)
Commands == [at : {"idle", "guard", "write"},
             cmd : {"none", "update", "delete", "rotate", "grant", "revoke"},
             tok : Token \union {Nobody},
             enabled : BOOLEAN, admin : BOOLEAN]

CliOK == commands \in 0..MaxCommands /\ cli \in [Cli -> Commands] /\ CliInv

Sent == [token : Token, secret : 1..MaxSecret, op : Op, age : (-Skew)..MaxAge]

Needed == {"apply", "force"} \union Op   \* what CheckPermission may look for

HandlerRow == [at : Steps \union {"free"}, req : Request \union {Nobody},
               good : BOOLEAN, admin : BOOLEAN, todo : Seq(Needed),
               wait : 0..Latency, lag : 0..Latency]

AuthType ==
    /\ sent \in [Request -> Sent \union {NotSent}]
    /\ nonces \in [Request -> -1..MaxNonceAge]
    /\ handler \in [Handler -> HandlerRow]
    /\ accepted \in [Request -> Nat]

(* A handler that is not free handles a request that was sent; its clocks start *)
(* with the time check and with ConsumeNonce.                                   *)
HandlerInv ==
    \A h \in Handler :
        /\ handler[h].at = "free" => handler[h] = Free
        /\ handler[h].at # "free" =>
               handler[h].req \in Request /\ sent[handler[h].req] # NotSent
        /\ handler[h].at = "received" => handler[h].wait = 0
        /\ handler[h].at \in {"received", "timed"} => handler[h].lag = 0
        /\ handler[h].lag <= handler[h].wait

(* A copy of r that has passed the time check and not yet its nonce check. *)
InFlight(h, r) == handler[h].at \in {"timed", "verified"} /\ handler[h].req = r

(* The nonce row of a request counts from the moment its handler read the clock, *)
(* which is after the request was sent: while the request is within the window   *)
(* its nonce is at most Skew older than its timestamp, and while a copy is in    *)
(* flight at most Window + Skew older than that copy's time check.               *)
NonceAges ==
    \A r \in Request :
        /\ sent[r] = NotSent => nonces[r] = Absent /\ accepted[r] = 0
        /\ nonces[r] # Absent /\ sent[r].age <= Window => nonces[r] <= sent[r].age + Skew
        /\ \A h \in Handler : InFlight(h, r) /\ nonces[r] # Absent =>
               nonces[r] <= Window + Skew + handler[h].wait

(* The same of the clock readings that will become nonce rows. *)
LagAges ==
    \A r \in Request, h \in Handler : InFlight(h, r) =>
        /\ sent[r].age <= Window => handler[h].lag <= sent[r].age + Skew
        /\ \A k \in Handler : InFlight(k, r) =>
               handler[h].lag <= Window + Skew + handler[k].wait

(* An accepted request has its nonce row as long as a copy of it can still pass *)
(* the time check or has passed it, if rows are kept for long enough.           *)
NonceKept == NonceOutlivesCopies =>
    \A r \in Request : accepted[r] > 0 =>
        \/ nonces[r] # Absent
        \/ sent[r].age > Window /\ \A h \in Handler : ~InFlight(h, r)

NonceInv == NonceAges /\ LagAges /\ NonceKept /\ NonceSpentByItsRequest

AuthInv == AuthType /\ HandlerInv /\ NonceInv

IInv == TablesOK /\ CliOK /\ AuthInv

USE AdminAssumption, BoundsAssumption, TimingAssumption

-----------------------------------------------------------------------------
(* The statements of the store keep the tables well typed and leave no row that *)
(* refers to a token that is gone.                                              *)

(* A row of the tokens table and what Exists says of it. *)
LEMMA RowExists ==
  ASSUME NEW e \in BOOLEAN, NEW a \in BOOLEAN, NEW s \in 1..MaxSecret
  PROVE  /\ [enabled |-> e, admin |-> a, secret |-> s] \in Rows
         /\ [enabled |-> e, admin |-> a, secret |-> s].secret # 0
  BY DEF Rows

(* A statement that changes token rows and keeps every token that exists keeps *)
(* the references.                                                             *)
LEMMA ReferencesKept ==
  ASSUME TablesOK, UNCHANGED <<grants, jobs>>,
         \A t \in Token : Exists(t) => Exists(t)'
  PROVE  NoDanglingToken'
  BY DEF TablesOK, NoDanglingToken, JobRow

(* CreateToken, from the CLI, the admin API and the start-up. *)
LEMMA CreateTokenOK ==
  ASSUME TablesOK, NEW t \in Token, NEW e \in BOOLEAN, NEW a \in BOOLEAN, CreateToken(t, e, a)
  PROVE  TablesOK'
  <1> DEFINE row == [enabled |-> e, admin |-> a, secret |-> lastSecret + 1]
  <1>1. row \in Rows /\ row.secret # 0 /\ lastSecret' \in 1..MaxSecret
    BY RowExists DEF TablesOK, CreateToken
  <1>2. tokens' = [tokens EXCEPT ![t] = row] /\ UNCHANGED <<grants, jobs>>
    BY DEF CreateToken
  <1> HIDE DEF row
  <1>3. tokens' \in [Token -> Rows \union {NoRow}]
    BY <1>1, <1>2 DEF TablesOK
  <1>4. NoDanglingToken'
    BY <1>1, <1>2, ReferencesKept DEF TablesOK, Exists
  <1> QED
    BY <1>1, <1>2, <1>3, <1>4 DEF TablesOK

(* UpdateToken, also of a token that is gone. *)
LEMMA UpdateTokenOK ==
  ASSUME TablesOK, NEW t \in Token, NEW e \in BOOLEAN, NEW a \in BOOLEAN, UpdateToken(t, e, a)
  PROVE  TablesOK'
  <1>1. CASE Exists(t)
    <2>1. tokens[t] \in Rows
      BY <1>1 DEF TablesOK, Exists, NoRow
    <2>2. tokens' = [tokens EXCEPT ![t] = [@ EXCEPT !.enabled = e, !.admin = a]]
      <3>1. tokens' = [tokens EXCEPT ![t].enabled = e, ![t].admin = a]
        BY <1>1 DEF UpdateToken
      <3> QED
        BY <3>1, Zenon
    <2>3. /\ [tokens[t] EXCEPT !.enabled = e, !.admin = a] \in Rows
          /\ [tokens[t] EXCEPT !.enabled = e, !.admin = a].secret = tokens[t].secret
      BY <2>1 DEF Rows
    <2>4. tokens' \in [Token -> Rows \union {NoRow}]
      BY <2>2, <2>3 DEF TablesOK
    <2>5. NoDanglingToken'
      BY <1>1, <2>2, <2>3, ReferencesKept DEF TablesOK, Exists, UpdateToken
    <2> QED
      BY <2>4, <2>5 DEF TablesOK, UpdateToken
  <1>2. CASE ~Exists(t)
    BY <1>2, ReferencesKept DEF TablesOK, UpdateToken, Exists
  <1> QED
    BY <1>1, <1>2

(* RotateTokenSecret, also of a token that is gone. *)
LEMMA RotateTokenOK ==
  ASSUME TablesOK, NEW t \in Token, RotateTokenSecret(t)
  PROVE  TablesOK'
  <1>0. lastSecret' \in 1..MaxSecret /\ lastSecret' = lastSecret + 1 /\ UNCHANGED <<grants, jobs>>
    BY DEF TablesOK, RotateTokenSecret
  <1>1. CASE Exists(t)
    <2>1. tokens[t] \in Rows
      BY <1>1 DEF TablesOK, Exists, NoRow
    <2>2. tokens' = [tokens EXCEPT ![t] = [enabled |-> tokens[t].enabled, admin |-> tokens[t].admin,
                                           secret |-> lastSecret']]
      <3>1. tokens' = [tokens EXCEPT ![t] = [@ EXCEPT !.secret = lastSecret']]
        BY <1>0, <1>1 DEF RotateTokenSecret
      <3>2. [tokens[t] EXCEPT !.secret = lastSecret']
              = [enabled |-> tokens[t].enabled, admin |-> tokens[t].admin, secret |-> lastSecret']
        BY <2>1 DEF Rows
      <3> QED
        BY <3>1, <3>2
    <2>3. [enabled |-> tokens[t].enabled, admin |-> tokens[t].admin, secret |-> lastSecret'] \in Rows
      BY <1>0, <2>1 DEF Rows
    <2>4. tokens' \in [Token -> Rows \union {NoRow}]
      BY <2>2, <2>3 DEF TablesOK
    <2>5. NoDanglingToken'
      BY <1>0, <2>2, ReferencesKept DEF TablesOK, Exists
    <2> QED
      BY <1>0, <2>4, <2>5 DEF TablesOK
  <1>2. CASE ~Exists(t)
    BY <1>0, <1>2, ReferencesKept DEF TablesOK, RotateTokenSecret, Exists
  <1> QED
    BY <1>1, <1>2

(* DeleteToken with its cascades. *)
LEMMA DeleteTokenOK ==
  ASSUME TablesOK, NEW t \in Token, DeleteToken(t)
  PROVE  TablesOK'
  <1>1. tokens' \in [Token -> Rows \union {NoRow}] /\ lastSecret' \in 1..MaxSecret
    BY DEF TablesOK, DeleteToken
  <1>2. grants' \subseteq Token \X Permission
    BY DEF TablesOK, DeleteToken
  <1>3. ASSUME NEW j \in jobs' PROVE j \in JobRow /\ (j.by # Nobody => Exists(j.by)')
    <2>1. PICK i \in jobs : j = IF i.by = t THEN [i EXCEPT !.by = Nobody] ELSE i
      BY <1>3 DEF DeleteToken
    <2>2. i \in JobRow
      BY DEF TablesOK
    <2>3. j \in JobRow
      BY <2>1, <2>2 DEF JobRow
    <2>4. j.by # Nobody => j = i /\ i.by # t
      BY <2>1, <2>2 DEF JobRow
    <2>5. j.by # Nobody => i.by \in Token /\ Exists(i.by)
      BY <2>2, <2>4 DEF TablesOK, NoDanglingToken, JobRow
    <2> QED
      BY <2>3, <2>4, <2>5 DEF DeleteToken, TablesOK, Exists
  <1>4. ASSUME NEW g \in grants' PROVE Exists(g[1])'
    BY <1>4 DEF TablesOK, NoDanglingToken, DeleteToken, Exists
  <1> QED
    BY <1>1, <1>2, <1>3, <1>4 DEF TablesOK, NoDanglingToken

(* Grant and Revoke. *)
LEMMA GrantOK ==
  ASSUME TablesOK, NEW t \in Token, NEW p \in Permission, Grant(t, p) \/ Revoke(t, p)
  PROVE  TablesOK'
  <1>1. CASE Grant(t, p)
    <2>1. grants' \subseteq Token \X Permission /\ UNCHANGED <<tokens, jobs, lastSecret>>
      BY <1>1 DEF TablesOK, Grant
    <2>2. \A g \in grants' : g \in grants \/ (g = <<t, p>> /\ Exists(t))
      BY <1>1 DEF Grant
    <2> QED
      BY <2>1, <2>2 DEF TablesOK, NoDanglingToken, Exists
  <1>2. CASE Revoke(t, p)
    BY <1>2 DEF TablesOK, NoDanglingToken, Exists, Revoke
  <1> QED
    BY <1>1, <1>2

(* bootstrapAdminToken. *)
LEMMA BootstrapOK ==
  ASSUME TablesOK, BootstrapAdminToken
  PROVE  TablesOK'
  <1>1. CASE Exists(AdminTokenId)
    BY <1>1 DEF BootstrapAdminToken, tableVars, TablesOK, NoDanglingToken, Exists
  <1>2. CASE ~Exists(AdminTokenId)
    BY <1>2, CreateTokenOK DEF BootstrapAdminToken
  <1> QED
    BY <1>1, <1>2

(* Every statement of the CLI, whatever another process wrote since the command *)
(* read the row.                                                                *)
LEMMA CliOKStep ==
  ASSUME TablesOK, CliOK, CliNext
  PROVE  TablesOK' /\ CliOK'
  <1>0. Idle \in Commands /\ Idle.at = "idle"
    BY DEF Idle, Commands
  <1>u. UNCHANGED tableVars => TablesOK'
    BY DEF tableVars, TablesOK, NoDanglingToken, Exists
  <1>i. ASSUME NEW c \in Cli, cli' = [cli EXCEPT ![c] = Idle], UNCHANGED commands
        PROVE  CliOK'
    BY <1>0, <1>i DEF CliOK, CliInv
  <1>1. ASSUME NEW c \in Cli, NEW t \in Token, NEW e \in BOOLEAN, NEW a \in BOOLEAN,
               CliCreate(c, t, e, a)
        PROVE  TablesOK' /\ CliOK'
    <2>1. CliOK'
      BY <1>1 DEF CliCreate, CliOK, CliInv
    <2> QED
      BY <1>1, <2>1, CreateTokenOK DEF CliCreate
  <1>2. ASSUME NEW c \in Cli, NEW t \in Token, NEW e \in Flag, NEW a \in Flag,
               NEW cmd \in {"update", "delete", "rotate", "grant", "revoke"},
               CliRead(c, cmd, t, e, a)
        PROVE  TablesOK' /\ CliOK'
    <2>1. PICK s \in {"guard", "write"} :
            cli' = [cli EXCEPT ![c] =
                      [at |-> s, cmd |-> cmd, tok |-> t, enabled |-> Choose(e, tokens[t].enabled),
                       admin |-> Choose(a, tokens[t].admin)]]
      BY <1>2 DEF CliRead
    <2>2. tokens[t].enabled \in BOOLEAN /\ tokens[t].admin \in BOOLEAN
      <3>1. tokens[t] \in Rows
        BY <1>2 DEF CliRead, TablesOK, Exists, NoRow
      <3> QED
        BY <3>1 DEF Rows
    <2>3. Choose(e, tokens[t].enabled) \in BOOLEAN /\ Choose(a, tokens[t].admin) \in BOOLEAN
      BY <2>2, Zenon DEF Choose
    <2> DEFINE r == [at |-> s, cmd |-> cmd, tok |-> t, enabled |-> Choose(e, tokens[t].enabled),
                     admin |-> Choose(a, tokens[t].admin)]
    <2>4. r \in Commands /\ r.tok = t
      BY <2>3 DEF Commands
    <2>5. cli' = [cli EXCEPT ![c] = r]
      BY <2>1
    <2> HIDE DEF r
    <2>6. commands' \in 0..MaxCommands /\ UNCHANGED tableVars
      BY <1>2 DEF CliRead, CliOK
    <2>7. CliOK'
      BY <2>4, <2>5, <2>6 DEF CliOK, CliInv
    <2> QED
      BY <1>u, <2>6, <2>7
  <1>3. ASSUME NEW c \in Cli, ProtectLastAdmin(c) PROVE TablesOK' /\ CliOK'
    <2>1. cli' = [cli EXCEPT ![c] = Idle] \/ cli' = [cli EXCEPT ![c] = [cli[c] EXCEPT !.at = "write"]]
      BY <1>3 DEF ProtectLastAdmin
    <2>2. /\ [cli[c] EXCEPT !.at = "write"] \in Commands
          /\ [cli[c] EXCEPT !.at = "write"].tok = cli[c].tok
          /\ cli[c].tok \in Token
      BY <1>3 DEF CliOK, CliInv, Commands, ProtectLastAdmin
    <2>3. CliOK'
      BY <1>3, <1>i, <2>1, <2>2 DEF ProtectLastAdmin, CliOK, CliInv
    <2> QED
      BY <1>3, <1>u, <2>3 DEF ProtectLastAdmin
  <1>4. ASSUME NEW c \in Cli, CliWrite(c) PROVE TablesOK' /\ CliOK'
    <2>1. cli[c].tok \in Token /\ cli[c].enabled \in BOOLEAN /\ cli[c].admin \in BOOLEAN
      BY <1>4 DEF CliWrite, CliOK, CliInv, Commands
    <2>2. TablesOK'
      BY <1>4, <2>1, UpdateTokenOK, DeleteTokenOK, RotateTokenOK DEF CliWrite
    <2> QED
      BY <1>4, <1>i, <2>2 DEF CliWrite
  <1>5. ASSUME NEW c \in Cli, CliGrant(c) PROVE TablesOK' /\ CliOK'
    <2>1. cli[c].tok \in Token
      BY <1>5 DEF CliGrant, CliOK, CliInv
    <2>2. TablesOK'
      BY <1>5, <2>1, GrantOK DEF CliGrant
    <2> QED
      BY <1>5, <1>i, <2>2 DEF CliGrant
  <1> QED
    BY <1>1, <1>2, <1>3, <1>4, <1>5 DEF CliNext, Flag

-----------------------------------------------------------------------------
(* Requests, handlers and nonces.                                              *)

(* A free handler is a well-typed one. *)
LEMMA FreeTyped == Free \in HandlerRow /\ Free.at = "free" /\ Free.wait = 0 /\ Free.lag = 0
  BY DEF Free, HandlerRow

(* A step of one handler that does not enter the time check keeps the ages. *)
LEMMA QuietStep ==
  ASSUME AuthInv, NEW h \in Handler, UNCHANGED <<sent, nonces, accepted>>,
         handler' \in [Handler -> HandlerRow],
         \A k \in Handler : k # h => handler'[k] = handler[k],
         handler'[h].at \in {"free", "received", "accepted"}
  PROVE  AuthType' /\ NonceInv'
  <1>1. AuthType'
    BY DEF AuthInv, AuthType
  <1>2. \A k \in Handler, r \in Request : InFlight(k, r)' =>
            InFlight(k, r) /\ handler'[k].wait = handler[k].wait /\ handler'[k].lag = handler[k].lag
    BY DEF InFlight
  <1>3. NonceAges'
    BY <1>2 DEF AuthInv, NonceInv, NonceAges
  <1>4. LagAges'
    BY <1>2 DEF AuthInv, NonceInv, LagAges
  <1>5. NonceKept'
    BY <1>2 DEF AuthInv, NonceInv, NonceKept
  <1>6. NonceSpentByItsRequest'
    BY DEF AuthInv, NonceInv, NonceSpentByItsRequest
  <1> QED
    BY <1>1, <1>3, <1>4, <1>5, <1>6 DEF NonceInv

(* Ending a request, in whatever step. *)
LEMMA ReleaseOK ==
  ASSUME AuthInv, NEW h \in Handler, Release(h), UNCHANGED <<sent, nonces, accepted>>
  PROVE  AuthInv'
  <1>1. handler' = [handler EXCEPT ![h] = Free] /\ handler \in [Handler -> HandlerRow]
    BY DEF Release, AuthInv, AuthType
  <1>2. AuthType' /\ NonceInv'
    BY <1>1, FreeTyped, QuietStep
  <1>3. HandlerInv'
    BY <1>1, FreeTyped DEF AuthInv, HandlerInv
  <1> QED
    BY <1>2, <1>3 DEF AuthInv

(* The client signs a request: no copy of it was handled before. *)
LEMMA SendOK ==
  ASSUME TablesOK, AuthInv, NEW r \in Request, NEW t \in Token, NEW op \in Op,
         NEW lead \in (-Skew)..Skew, Send(r, t, op, lead)
  PROVE  AuthInv'
  <1> DEFINE s == [token |-> t, secret |-> tokens[t].secret, op |-> op, age |-> lead]
  <1>1. sent' = [sent EXCEPT ![r] = s] /\ UNCHANGED <<nonces, handler, accepted>> /\ sent[r] = NotSent
    BY DEF Send
  <1>2. s \in Sent /\ s # NotSent
    <2>1. tokens[t].secret \in 1..MaxSecret
      BY DEF Send, Exists, TablesOK, Rows, NoRow
    <2>2. lead \in (-Skew)..MaxAge
      BY DEF MaxAge
    <2>3. s.secret # NotSent.secret
      BY <2>1 DEF NotSent
    <2> QED
      BY <2>1, <2>2, <2>3 DEF Sent
  <1> HIDE DEF s
  <1>3. AuthType'
    BY <1>1, <1>2 DEF AuthInv, AuthType
  <1>4. HandlerInv'
    BY <1>1, <1>2 DEF AuthInv, AuthType, HandlerInv
  <1>5. \A h \in Handler : ~InFlight(h, r)
    BY <1>1 DEF AuthInv, HandlerInv, InFlight
  <1>6. nonces[r] = Absent /\ accepted[r] = 0
    BY <1>1 DEF AuthInv, NonceInv, NonceAges
  <1>7. \A q \in Request : q # r => sent'[q] = sent[q]
    BY <1>1 DEF AuthInv, AuthType
  <1>8. \A h \in Handler, q \in Request : InFlight(h, q)' <=> InFlight(h, q)
    BY <1>1 DEF InFlight
  <1>9. NonceInv'
    <2>1. NonceAges'
      BY <1>1, <1>2, <1>5, <1>6, <1>7, <1>8 DEF AuthInv, AuthType, NonceInv, NonceAges
    <2>2. LagAges'
      BY <1>1, <1>5, <1>7, <1>8 DEF AuthInv, NonceInv, LagAges
    <2>3. NonceKept'
      BY <1>1, <1>6, <1>7, <1>8 DEF AuthInv, NonceInv, NonceKept
    <2>4. NonceSpentByItsRequest'
      BY <1>1 DEF AuthInv, NonceInv, NonceSpentByItsRequest
    <2> QED
      BY <2>1, <2>2, <2>3, <2>4 DEF NonceInv
  <1> QED
    BY <1>3, <1>4, <1>9 DEF AuthInv

(* The network hands a copy to a handler. *)
LEMMA DeliverOK ==
  ASSUME AuthInv, NEW h \in Handler, NEW r \in Request, NEW good \in BOOLEAN, Deliver(h, r, good)
  PROVE  AuthInv'
  <1> DEFINE x == [Free EXCEPT !.at = "received", !.req = r, !.good = good]
  <1>1. handler' = [handler EXCEPT ![h] = x] /\ UNCHANGED <<sent, nonces, accepted>> /\ sent[r] # NotSent
    BY DEF Deliver
  <1>2. /\ x \in HandlerRow /\ x.at = "received" /\ x.req = r
        /\ x.wait = 0 /\ x.lag = 0
    BY FreeTyped DEF HandlerRow, Steps
  <1> HIDE DEF x
  <1>3. handler \in [Handler -> HandlerRow]
    BY DEF AuthInv, AuthType
  <1>4. AuthType' /\ NonceInv'
    BY <1>1, <1>2, <1>3, QuietStep
  <1>5. HandlerInv'
    BY <1>1, <1>2, <1>3 DEF AuthInv, HandlerInv
  <1> QED
    BY <1>4, <1>5 DEF AuthInv

(* The time check: a copy that passes it is within the window, so the nonce of  *)
(* its request, if there is one, is young.                                      *)
LEMMA CheckTimeOK ==
  ASSUME AuthInv, NEW h \in Handler, CheckTime(h)
  PROVE  AuthInv'
  <1> DEFINE r == handler[h].req
             x == [handler[h] EXCEPT !.at = "timed"]
  <1>0. handler[h] \in HandlerRow /\ handler \in [Handler -> HandlerRow]
    BY DEF AuthInv, AuthType
  <1>1. CASE ~WithinWindow(sent[r].age)
    BY <1>1, ReleaseOK DEF CheckTime
  <1>2. CASE WithinWindow(sent[r].age)
    <2>1. handler' = [handler EXCEPT ![h] = x] /\ UNCHANGED <<sent, nonces, accepted>>
      BY <1>2 DEF CheckTime
    <2>2. /\ x \in HandlerRow /\ x.at = "timed" /\ x.req = r
          /\ x.wait = 0 /\ x.lag = 0 /\ r \in Request /\ sent[r] # NotSent
          /\ handler[h].at = "received"
      BY <1>0 DEF CheckTime, AuthInv, HandlerInv, HandlerRow, Steps
    <2> HIDE DEF x
    <2>3. sent[r] \in Sent /\ sent[r].age \in Int /\ -Skew <= sent[r].age /\ sent[r].age <= Window
      BY <1>2, <2>2 DEF AuthInv, AuthType, Sent, WithinWindow, MaxAge
    <2> HIDE DEF r
    <2>4. AuthType'
      BY <1>0, <2>1, <2>2 DEF AuthInv, AuthType
    <2>5. HandlerInv'
      BY <1>0, <2>1, <2>2 DEF AuthInv, HandlerInv
    <2>6. \A k \in Handler, q \in Request : k # h => /\ InFlight(k, q)' <=> InFlight(k, q)
                                                   /\ handler'[k] = handler[k]
      BY <1>0, <2>1 DEF InFlight
    <2>7. \A q \in Request : InFlight(h, q)' => q = r
      BY <1>0, <2>1, <2>2 DEF InFlight
    <2>8. handler'[h] = x
      BY <1>0, <2>1
    <2>9. NonceAges'
      BY <2>1, <2>2, <2>3, <2>6, <2>7, <2>8 DEF AuthInv, AuthType, NonceInv, NonceAges
    <2>10. LagAges'
      <3> SUFFICES ASSUME NEW q \in Request, NEW a \in Handler, InFlight(a, q)'
                   PROVE  /\ sent[q].age <= Window => handler'[a].lag <= sent[q].age + Skew
                          /\ \A b \in Handler : InFlight(b, q)' =>
                                 handler'[a].lag <= Window + Skew + handler'[b].wait
        BY <2>1 DEF LagAges
      <3>1. CASE a = h
        <4>1. q = r /\ handler'[a].lag = 0
          BY <2>2, <2>7, <2>8, <3>1
        <4>2. \A b \in Handler : handler'[b].wait \in Nat
          BY <2>4 DEF AuthType, HandlerRow
        <4> QED
          BY <2>3, <4>1, <4>2
      <3>2. CASE a # h
        <4>1. InFlight(a, q) /\ handler'[a] = handler[a] /\ handler[a].lag \in Nat
          BY <1>0, <2>6, <3>2 DEF HandlerRow
        <4>2. sent[q].age <= Window => handler[a].lag <= sent[q].age + Skew
          BY <4>1 DEF AuthInv, NonceInv, LagAges
        <4>3. ASSUME NEW b \in Handler, InFlight(b, q)', b # h
              PROVE  handler[a].lag <= Window + Skew + handler'[b].wait
          BY <2>6, <4>1, <4>3 DEF AuthInv, NonceInv, LagAges
        <4>4. ASSUME InFlight(h, q)'
              PROVE  handler[a].lag <= Window + Skew + handler'[h].wait
          BY <2>2, <2>3, <2>7, <2>8, <4>1, <4>2, <4>4
        <4> QED
          BY <4>1, <4>2, <4>3, <4>4
      <3> QED
        BY <3>1, <3>2
    <2>11. NonceKept'
      BY <2>1, <2>2, <2>3, <2>6, <2>7, <2>8 DEF AuthInv, NonceInv, NonceKept
    <2>12. NonceSpentByItsRequest'
      BY <2>1 DEF AuthInv, NonceInv, NonceSpentByItsRequest
    <2> QED
      BY <2>4, <2>5, <2>9, <2>10, <2>11, <2>12 DEF AuthInv, NonceInv
  <1> QED
    BY <1>1, <1>2

(* The signature check keeps the ages: ConsumeNonce reads the clock now. *)
LEMMA VerifySignatureOK ==
  ASSUME TablesOK, AuthInv, NEW h \in Handler, VerifySignature(h)
  PROVE  AuthInv'
  <1>0. handler[h] \in HandlerRow /\ handler \in [Handler -> HandlerRow]
    BY DEF AuthInv, AuthType
  <1>1. CASE ~SignatureMatches(h)
    BY <1>1, ReleaseOK DEF VerifySignature
  <1>2. CASE SignatureMatches(h)
    <2>1. PICK a \in BOOLEAN :
            handler' = [handler EXCEPT ![h].at = "verified", ![h].good = FALSE, ![h].admin = a]
      <3>1. sent[handler[h].req].token \in Token
        BY <1>0 DEF AuthInv, HandlerInv, AuthType, Sent, VerifySignature
      <3>2. tokens[TokenOf(h)].admin \in BOOLEAN
        <4>1. tokens[TokenOf(h)] \in Rows
          BY <1>2, <3>1 DEF SignatureMatches, TablesOK, Exists, NoRow, TokenOf
        <4> QED
          BY <4>1 DEF Rows
      <3> QED
        BY <1>2, <3>2 DEF VerifySignature
    <2> DEFINE x == [handler[h] EXCEPT !.at = "verified", !.good = FALSE, !.admin = a]
    <2>2. handler' = [handler EXCEPT ![h] = x]
      BY <2>1, Zenon
    <2>3. /\ x \in HandlerRow /\ x.at = "verified" /\ x.req = handler[h].req
          /\ x.wait = handler[h].wait /\ x.lag = handler[h].lag
      BY <1>0 DEF HandlerRow, Steps
    <2>4. handler[h].at = "timed" /\ UNCHANGED <<sent, nonces, accepted>>
      BY <1>2 DEF VerifySignature
    <2> HIDE DEF x
    <2>5. AuthType'
      BY <1>0, <2>2, <2>3, <2>4 DEF AuthInv, AuthType
    <2>6. HandlerInv'
      BY <1>0, <2>2, <2>3, <2>4 DEF AuthInv, HandlerInv
    <2>7. \A k \in Handler : /\ \A q \in Request : InFlight(k, q)' <=> InFlight(k, q)
                             /\ handler'[k].wait = handler[k].wait
                             /\ handler'[k].lag = handler[k].lag
      BY <1>0, <2>2, <2>3, <2>4 DEF InFlight
    <2>8. NonceInv'
      BY <2>4, <2>7 DEF AuthInv, NonceInv, NonceAges, LagAges, NonceKept, NonceSpentByItsRequest
    <2> QED
      BY <2>5, <2>6, <2>8 DEF AuthInv
  <1> QED
    BY <1>1, <1>2

(* A DELETE of nonce rows older than Ttl removes only rows that no copy in       *)
(* flight or within the window still needs, if NonceOutlivesCopies.              *)
LEMMA PurgeKeeps ==
  ASSUME AuthInv, NEW limit \in {Ttl, 2 * Ttl}, NEW lag \in Nat
  PROVE  /\ Purged(limit, lag) \in [Request -> -1..MaxNonceAge]
         /\ \A r \in Request : Purged(limit, lag)[r] \in {nonces[r], Absent}
         /\ NonceOutlivesCopies => \A r \in Request :
               sent[r].age <= Window \/ (\E h \in Handler : InFlight(h, r)) =>
                   Purged(limit, lag)[r] = nonces[r]
  <1>1. limit \in Nat /\ (NonceOutlivesCopies => limit >= Window + Skew + Latency)
    BY DEF NonceOutlivesCopies
  <1>2. Purged(limit, lag) \in [Request -> -1..MaxNonceAge]
    BY DEF AuthInv, AuthType, Purged, Absent, MaxNonceAge
  <1>3. \A r \in Request : Purged(limit, lag)[r] \in {nonces[r], Absent}
    BY DEF Purged
  <1>4. ASSUME NEW r \in Request,
               sent[r].age <= Window \/ (\E h \in Handler : InFlight(h, r)),
               nonces[r] # Absent
        PROVE  nonces[r] <= Window + Skew + Latency
    <2>1. nonces[r] \in Int /\ sent[r].age \in Int
      BY DEF AuthInv, AuthType, Sent, NotSent, MaxNonceAge, MaxAge
    <2>2. CASE sent[r].age <= Window
      BY <1>4, <2>1, <2>2 DEF AuthInv, NonceInv, NonceAges
    <2>3. CASE \E h \in Handler : InFlight(h, r)
      <3>1. PICK h \in Handler : InFlight(h, r)
        BY <2>3
      <3>2. handler[h].wait \in 0..Latency
        BY DEF AuthInv, AuthType, HandlerRow
      <3>3. nonces[r] <= Window + Skew + handler[h].wait
        BY <1>4, <3>1 DEF AuthInv, NonceInv, NonceAges
      <3> QED
        BY <2>1, <3>2, <3>3
    <2> QED
      BY <1>4, <2>2, <2>3
  <1>5. ASSUME NonceOutlivesCopies, NEW r \in Request,
               sent[r].age <= Window \/ (\E h \in Handler : InFlight(h, r))
        PROVE  Purged(limit, lag)[r] = nonces[r]
    <2>1. nonces[r] \in Int
      BY DEF AuthInv, AuthType, MaxNonceAge
    <2> QED
      BY <1>1, <1>4, <1>5, <2>1 DEF Purged, Absent
  <1> QED
    BY <1>2, <1>3, <1>5

(* Purging nonce rows, by whatever transaction, while no copy passes the time   *)
(* check.                                                                       *)
LEMMA PurgeOK ==
  ASSUME AuthInv, NEW limit \in {Ttl, 2 * Ttl}, NEW lag \in Nat,
         nonces' = Purged(limit, lag), UNCHANGED <<sent, accepted>>,
         \A h \in Handler, r \in Request : InFlight(h, r)' =>
             InFlight(h, r) /\ handler'[h] = handler[h]
  PROVE  NonceInv'
  <1>1. /\ \A r \in Request : nonces'[r] \in {nonces[r], Absent}
        /\ NonceOutlivesCopies => \A r \in Request :
              sent[r].age <= Window \/ (\E h \in Handler : InFlight(h, r)) => nonces'[r] = nonces[r]
    BY PurgeKeeps
  <1>2. NonceAges'
    BY <1>1 DEF AuthInv, NonceInv, NonceAges
  <1>3. LagAges'
    BY DEF AuthInv, NonceInv, LagAges
  <1>4. NonceKept'
    <2> SUFFICES ASSUME NonceOutlivesCopies, NEW r \in Request, accepted[r] > 0, nonces'[r] = Absent
                 PROVE  sent[r].age > Window /\ \A h \in Handler : ~InFlight(h, r)
      BY DEF NonceKept
    <2>1. sent[r].age \in Int
      BY DEF AuthInv, AuthType, Sent, NotSent, MaxAge
    <2> QED
      BY <1>1, <2>1 DEF AuthInv, NonceInv, NonceKept
  <1>5. NonceSpentByItsRequest'
    BY <1>1 DEF AuthInv, NonceInv, NonceSpentByItsRequest
  <1> QED
    BY <1>2, <1>3, <1>4, <1>5 DEF NonceInv

(* startNonceCleaner, and the purges of other requests. *)
LEMMA CleanOK ==
  ASSUME AuthInv, NEW limit \in {Ttl, 2 * Ttl}, CleanOldNonces(limit)
  PROVE  AuthInv'
  <1>1. nonces' = Purged(limit, 0) /\ UNCHANGED <<sent, handler, accepted>>
    BY DEF CleanOldNonces
  <1>2. NonceInv'
    BY <1>1, PurgeOK DEF InFlight
  <1>3. AuthType'
    BY <1>1, PurgeKeeps DEF AuthInv, AuthType
  <1>4. HandlerInv'
    BY <1>1 DEF AuthInv, HandlerInv
  <1> QED
    BY <1>2, <1>3, <1>4 DEF AuthInv

(* The permissions an operation asks for are a sequence of names. *)
LEMMA TodoTyped ==
  ASSUME NEW op \in Op
  PROVE  Todo(op) \in Seq(Needed)
  <1>1. "apply" \in Needed /\ "force" \in Needed /\ op \in Needed
    BY DEF Needed
  <1>2. Todo(op) \in {<<"apply", "force">>, <<"apply">>, <<>>, <<op>>}
    BY Zenon DEF Todo
  <1>3. /\ <<"apply", "force">> \in Seq(Needed) /\ <<"apply">> \in Seq(Needed)
        /\ <<>> \in Seq(Needed) /\ <<op>> \in Seq(Needed)
    BY <1>1
  <1> QED
    BY <1>2, <1>3

(* ConsumeNonce: a request is accepted only when it never was (if rows are kept  *)
(* for long enough), and its new nonce row is as young as the copies still in    *)
(* flight need it to be.                                                         *)
LEMMA ConsumeNonceOK ==
  ASSUME AuthInv, NEW h \in Handler, ConsumeNonce(h)
  PROVE  AuthInv' /\ (NonceOutlivesCopies => [Once!Next]_accepted)
  <1>r. PICK r \in Request : r = handler[h].req /\ sent[r] # NotSent
    BY DEF ConsumeNonce, AuthInv, HandlerInv
  <1> DEFINE left == Purged(Ttl, handler[h].lag)
  <1>0. /\ handler[h] \in HandlerRow /\ handler \in [Handler -> HandlerRow]
        /\ handler[h].lag \in 0..Latency /\ handler[h].at = "verified"
        /\ r = handler[h].req /\ sent[r] # NotSent /\ UNCHANGED sent
    BY <1>r DEF ConsumeNonce, AuthInv, AuthType, HandlerInv, HandlerRow
  <1>1. /\ left \in [Request -> -1..MaxNonceAge]
        /\ \A q \in Request : left[q] \in {nonces[q], Absent}
        /\ NonceOutlivesCopies => \A q \in Request :
              sent[q].age <= Window \/ (\E k \in Handler : InFlight(k, q)) => left[q] = nonces[q]
    BY <1>0, PurgeKeeps
  <1>2. CASE Release(h) /\ UNCHANGED <<nonces, accepted>>
    BY <1>0, <1>2, ReleaseOK
  <1>3. CASE nonces' = left /\ Release(h) /\ UNCHANGED accepted
    <2>1. NonceInv'
      BY <1>0, <1>3, FreeTyped, PurgeOK DEF Release, InFlight
    <2>2. AuthType'
      BY <1>0, <1>1, <1>3, FreeTyped DEF Release, AuthInv, AuthType
    <2>3. HandlerInv'
      BY <1>0, <1>3, FreeTyped DEF Release, AuthInv, HandlerInv
    <2> QED
      BY <1>3, <2>1, <2>2, <2>3 DEF AuthInv
  <1>4. CASE /\ left[r] = Absent
             /\ nonces' = [left EXCEPT ![r] = handler[h].lag]
             /\ accepted' = [accepted EXCEPT ![r] = @ + 1]
             /\ handler' = [handler EXCEPT ![h].at = "accepted", ![h].todo = Todo(sent[r].op),
                                          ![h].wait = 0, ![h].lag = 0]
    <2> DEFINE x == [handler[h] EXCEPT !.at = "accepted", !.todo = Todo(sent[r].op),
                                       !.wait = 0, !.lag = 0]
    <2>1. handler' = [handler EXCEPT ![h] = x]
      BY <1>4, Zenon
    <2>2. sent[r] \in Sent /\ sent[r].op \in Op
      BY <1>0 DEF AuthInv, AuthType, Sent
    <2>3. x \in HandlerRow /\ x.at = "accepted" /\ x.req = r /\ x.wait = 0 /\ x.lag = 0
      <3>1. Todo(sent[r].op) \in Seq(Needed) /\ 0 \in 0..Latency
        BY <2>2, TodoTyped
      <3> QED
        BY <1>0, <3>1 DEF HandlerRow, Steps
    <2> HIDE DEF x
    <2>4. InFlight(h, r)
      BY <1>0 DEF InFlight
    <2>5. ASSUME NonceOutlivesCopies
          PROVE  nonces[r] = Absent /\ accepted[r] = 0
      <3>1. nonces[r] = Absent
        BY <1>0, <1>1, <1>4, <2>4, <2>5
      <3>2. ~(accepted[r] > 0)
        BY <1>0, <2>4, <2>5, <3>1 DEF AuthInv, NonceInv, NonceKept
      <3> QED
        BY <1>0, <3>1, <3>2 DEF AuthInv, AuthType
    <2>l. left \in [Request -> Int]
      BY <1>1 DEF MaxNonceAge
    <2> HIDE DEF left
    <2>6. /\ accepted' = [accepted EXCEPT ![r] = @ + 1]
          /\ accepted \in [Request -> Nat] /\ accepted[r] \in Nat
      BY <1>4 DEF AuthInv, AuthType
    <2>7. AuthType'
      <3>1. handler[h].lag \in -1..MaxNonceAge
        BY <1>0 DEF MaxNonceAge
      <3>2. nonces' \in [Request -> -1..MaxNonceAge]
        BY <1>1, <1>4, <3>1
      <3>3. handler' \in [Handler -> HandlerRow]
        BY <1>0, <2>1, <2>3
      <3>4. accepted' \in [Request -> Nat] /\ sent' \in [Request -> Sent \union {NotSent}]
        BY <1>0, <2>6 DEF AuthInv, AuthType
      <3> QED
        BY <3>2, <3>3, <3>4 DEF AuthType
    <2>8. HandlerInv'
      BY <1>0, <2>1, <2>3 DEF AuthInv, HandlerInv
    <2>9. \A k \in Handler, q \in Request : InFlight(k, q)' =>
              InFlight(k, q) /\ handler'[k] = handler[k] /\ k # h
      BY <1>0, <2>1, <2>3 DEF InFlight
    <2>10. \A q \in Request : q # r => nonces'[q] = left[q] /\ accepted'[q] = accepted[q]
      BY <1>0, <1>4, <2>6, <2>l DEF AuthInv, AuthType
    <2>11. nonces'[r] = handler[h].lag /\ accepted'[r] > 0
      BY <1>0, <1>1, <1>4, <2>6 DEF AuthInv, AuthType
    <2>12. NonceAges'
      <3>1. ASSUME NEW q \in Request, q # r
            PROVE  /\ sent[q] = NotSent => nonces'[q] = Absent /\ accepted'[q] = 0
                   /\ nonces'[q] # Absent /\ sent[q].age <= Window => nonces'[q] <= sent[q].age + Skew
                   /\ \A k \in Handler : InFlight(k, q)' /\ nonces'[q] # Absent =>
                          nonces'[q] <= Window + Skew + handler'[k].wait
        BY <1>1, <2>9, <2>10, <3>1 DEF AuthInv, NonceInv, NonceAges
      <3>2. sent[r].age <= Window => nonces'[r] <= sent[r].age + Skew
        BY <1>0, <2>4, <2>11 DEF AuthInv, NonceInv, LagAges
      <3>3. \A k \in Handler : InFlight(k, r)' => nonces'[r] <= Window + Skew + handler'[k].wait
        BY <1>0, <2>4, <2>9, <2>11 DEF AuthInv, NonceInv, LagAges
      <3> QED
        BY <1>0, <3>1, <3>2, <3>3 DEF NonceAges
    <2>13. LagAges'
      BY <1>0, <2>9 DEF AuthInv, NonceInv, LagAges
    <2>14. NonceKept'
      <3> SUFFICES ASSUME NonceOutlivesCopies, NEW q \in Request, accepted'[q] > 0, nonces'[q] = Absent
                   PROVE  sent[q].age > Window /\ \A k \in Handler : ~InFlight(k, q)'
        BY <1>0 DEF NonceKept
      <3>1. q # r
        BY <1>0, <2>11 DEF Absent
      <3>2. sent[q].age \in Int
        BY DEF AuthInv, AuthType, Sent, NotSent, MaxAge
      <3> QED
        BY <1>1, <2>9, <2>10, <3>1, <3>2 DEF AuthInv, NonceInv, NonceKept
    <2>15. NonceSpentByItsRequest'
      BY <1>1, <2>10, <2>11 DEF AuthInv, NonceInv, NonceSpentByItsRequest
    <2>16. NonceOutlivesCopies => Once!Perform(r)
      <3>1. SUFFICES ASSUME NonceOutlivesCopies PROVE Once!Perform(r)
        OBVIOUS
      <3>2. accepted[r] = 0 /\ accepted' = [accepted EXCEPT ![r] = 1]
        BY <2>5, <2>6, <3>1
      <3> QED
        BY <3>2 DEF Once!Perform
    <2> QED
      BY <1>0, <2>7, <2>8, <2>12, <2>13, <2>14, <2>15, <2>16 DEF AuthInv, NonceInv, Once!Next
  <1> QED
    BY <1>r, <1>2, <1>3, <1>4 DEF ConsumeNonce

(* A permission check ends the request or goes on to the next permission. *)
LEMMA CheckPermissionOK ==
  ASSUME AuthInv, NEW h \in Handler, CheckPermission(h)
  PROVE  AuthInv'
  <1>0. /\ handler[h] \in HandlerRow /\ handler \in [Handler -> HandlerRow]
        /\ UNCHANGED <<sent, nonces, accepted>> /\ handler[h].at = "accepted"
        /\ handler[h].todo # <<>>
    BY DEF CheckPermission, AuthInv, AuthType
  <1>1. CASE Release(h)
    BY <1>0, <1>1, ReleaseOK
  <1>2. CASE handler' = [handler EXCEPT ![h].todo = Tail(@)]
    <2> DEFINE x == [handler[h] EXCEPT !.todo = Tail(@)]
    <2>1. handler' = [handler EXCEPT ![h] = x]
      BY <1>2
    <2>2. Tail(handler[h].todo) \in Seq(Needed)
      <3>1. handler[h].todo \in Seq(Needed)
        BY <1>0 DEF HandlerRow
      <3> QED
        BY <1>0, <3>1
    <2>3. /\ x \in HandlerRow /\ x.at = "accepted" /\ x.req = handler[h].req
          /\ x.wait = handler[h].wait /\ x.lag = handler[h].lag
      BY <1>0, <2>2 DEF HandlerRow
    <2> HIDE DEF x
    <2>4. AuthType' /\ NonceInv'
      BY <1>0, <2>1, <2>3, QuietStep
    <2>5. HandlerInv'
      BY <1>0, <2>1, <2>3 DEF AuthInv, HandlerInv
    <2> QED
      BY <2>4, <2>5 DEF AuthInv
  <1> QED
    BY <1>1, <1>2 DEF CheckPermission

(* reconcile creates its job only for a token that still exists. *)
LEMMA PerformOK ==
  ASSUME IInv, NEW h \in Handler, Perform(h)
  PROVE  IInv'
  <1>1. AuthInv'
    BY ReleaseOK DEF IInv, Perform
  <1>2. CliOK'
    BY DEF IInv, Perform, cliVars, CliOK, CliInv
  <1>3. TablesOK'
    <2>1. CASE UNCHANGED tableVars
      BY <2>1 DEF IInv, tableVars, TablesOK, NoDanglingToken, Exists
    <2>2. CASE CreateJob(h) /\ UNCHANGED <<tokens, grants, lastSecret>>
      <3>1. handler[h].req \in Request /\ TokenOf(h) \in Token
        BY DEF Perform, IInv, AuthInv, AuthType, HandlerInv, Sent, TokenOf
      <3> DEFINE row == [req |-> handler[h].req, by |-> TokenOf(h)]
      <3>2. row \in JobRow /\ row.by = TokenOf(h)
        BY <3>1 DEF JobRow
      <3>3. jobs' = IF Exists(TokenOf(h)) THEN jobs \union {row} ELSE jobs
        BY <2>2 DEF CreateJob
      <3> HIDE DEF row
      <3> QED
        BY <2>2, <3>1, <3>2, <3>3 DEF IInv, TablesOK, NoDanglingToken, Exists
    <2> QED
      BY <2>1, <2>2 DEF Perform
  <1> QED
    BY <1>1, <1>2, <1>3 DEF IInv

(* tokensHandler. *)
LEMMA AdminRequestOK ==
  ASSUME IInv, NEW h \in Handler, AdminRequest(h)
  PROVE  IInv'
  <1>1. AuthInv'
    BY ReleaseOK DEF IInv, AdminRequest
  <1>2. CliOK'
    BY DEF IInv, AdminRequest, cliVars, CliOK, CliInv
  <1>3. TablesOK'
    <2>1. CASE UNCHANGED tableVars
      BY <2>1 DEF IInv, tableVars, TablesOK, NoDanglingToken, Exists
    <2>2. ASSUME NEW t \in Token, NEW e \in BOOLEAN, NEW a \in BOOLEAN,
                 CreateToken(t, e, a) \/ UpdateToken(t, e, a)
          PROVE  TablesOK'
      BY <2>2, CreateTokenOK, UpdateTokenOK DEF IInv
    <2>3. ASSUME NEW t \in Token, DeleteToken(t)
          PROVE  TablesOK'
      BY <2>3, DeleteTokenOK DEF IInv
    <2> QED
      BY <2>1, <2>2, <2>3 DEF AdminRequest
  <1> QED
    BY <1>1, <1>2, <1>3 DEF IInv

(* A restart loses the handlers and keeps the database. *)
LEMMA RestartOK ==
  ASSUME IInv, Restart
  PROVE  IInv'
  <1>1. /\ handler' = [h \in Handler |-> Free] /\ UNCHANGED <<cli, commands, sent, nonces, accepted>>
        /\ BootstrapAdminToken
    BY DEF Restart, cliVars
  <1>2. AuthType' /\ HandlerInv'
    BY <1>1, FreeTyped DEF IInv, AuthInv, AuthType, HandlerInv
  <1>3. \A h \in Handler, r \in Request : ~InFlight(h, r)'
    BY <1>1, FreeTyped DEF InFlight
  <1>4. NonceInv'
    BY <1>1, <1>3 DEF IInv, AuthInv, NonceInv, NonceAges, LagAges, NonceKept, NonceSpentByItsRequest
  <1>5. TablesOK' /\ CliOK'
    BY <1>1, BootstrapOK DEF IInv, CliOK, CliInv
  <1> QED
    BY <1>2, <1>4, <1>5 DEF IInv, AuthInv

(* One unit of time: requests, nonces and the clocks of handlers age together. *)
LEMMA TickOK ==
  ASSUME AuthInv, Tick
  PROVE  AuthInv'
  <1>0. /\ sent \in [Request -> Sent \union {NotSent}] /\ nonces \in [Request -> -1..MaxNonceAge]
        /\ handler \in [Handler -> HandlerRow] /\ accepted' = accepted
    BY DEF AuthInv, AuthType, Tick
  <1>m. MaxNonceAge \in Nat /\ MaxAge \in Nat /\ MaxAge > Window
    BY DEF MaxNonceAge, MaxAge
  <1>1. ASSUME NEW r \in Request
        PROVE  /\ sent[r] = NotSent => sent'[r] = NotSent
               /\ sent[r] # NotSent => /\ sent'[r] \in Sent /\ sent'[r] # NotSent
                                       /\ sent'[r].age = Older(sent[r].age, MaxAge)
    <2>1. sent[r] = NotSent => sent'[r] = NotSent
      BY DEF Tick
    <2>2. ASSUME sent[r] # NotSent
          PROVE  /\ sent'[r] \in Sent /\ sent'[r] # NotSent
                 /\ sent'[r].age = Older(sent[r].age, MaxAge)
      <3>1. sent'[r] = [sent[r] EXCEPT !.age = Older(@, MaxAge)] /\ sent[r] \in Sent
        BY <1>0, <2>2 DEF Tick
      <3>2. Older(sent[r].age, MaxAge) \in (-Skew)..MaxAge
        <4>1. sent[r].age \in (-Skew)..MaxAge
          BY <3>1 DEF Sent
        <4> QED
          BY <1>m, <4>1 DEF Older
      <3>3. /\ sent'[r] \in Sent /\ sent'[r].age = Older(sent[r].age, MaxAge)
            /\ sent'[r].secret = sent[r].secret
        BY <3>1, <3>2 DEF Sent
      <3>4. sent'[r].secret # NotSent.secret
        BY <3>1, <3>3 DEF Sent, NotSent
      <3> QED
        BY <3>3, <3>4
    <2> QED
      BY <2>1, <2>2
  <1>2. ASSUME NEW r \in Request
        PROVE  /\ nonces[r] = Absent => nonces'[r] = Absent
               /\ nonces[r] # Absent => /\ nonces'[r] \in 0..MaxNonceAge
                                        /\ nonces'[r] <= nonces[r] + 1
    <2>1. nonces[r] \in -1..MaxNonceAge
      BY <1>0
    <2>2. nonces'[r] = IF nonces[r] = Absent THEN Absent ELSE Older(nonces[r], MaxNonceAge)
      BY DEF Tick
    <2> QED
      BY <1>m, <2>1, <2>2 DEF Older, Absent
  <1>3. ASSUME NEW h \in Handler
        PROVE  /\ handler'[h].at = handler[h].at /\ handler'[h].req = handler[h].req
               /\ handler'[h].good = handler[h].good /\ handler'[h].admin = handler[h].admin
               /\ handler'[h].todo = handler[h].todo
               /\ handler'[h].wait = IF handler[h].at \in {"timed", "verified"}
                                     THEN handler[h].wait + 1 ELSE handler[h].wait
               /\ handler'[h].lag = IF handler[h].at = "verified"
                                    THEN handler[h].lag + 1 ELSE handler[h].lag
    <2>1. handler'[h] = [handler[h] EXCEPT
               !.wait = IF handler[h].at \in {"timed", "verified"} THEN @ + 1 ELSE @,
               !.lag  = IF handler[h].at = "verified" THEN @ + 1 ELSE @]
      BY DEF Tick
    <2> QED
      BY <1>0, <2>1 DEF HandlerRow
  <1>4. ASSUME NEW h \in Handler PROVE handler'[h] \in HandlerRow
    <2>1. handler[h].wait \in 0..Latency /\ handler[h].lag \in 0..Latency
      BY <1>0 DEF HandlerRow
    <2>2. handler[h].lag <= handler[h].wait
      BY DEF AuthInv, HandlerInv
    <2>3. handler[h].at \in {"timed", "verified"} => handler[h].wait < Latency
      BY DEF Tick
    <2>4. handler'[h].wait \in 0..Latency /\ handler'[h].lag \in 0..Latency
      BY <1>3, <2>1, <2>2, <2>3
    <2>5. handler'[h] = [handler[h] EXCEPT !.wait = handler'[h].wait, !.lag = handler'[h].lag]
      BY <1>0 DEF Tick, HandlerRow
    <2> QED
      BY <1>0, <2>4, <2>5 DEF HandlerRow
  <1>5. AuthType'
    <2>1. sent' \in [Request -> Sent \union {NotSent}]
      BY <1>1 DEF Tick
    <2>2. nonces' \in [Request -> -1..MaxNonceAge]
      <3>1. \A r \in Request : nonces'[r] \in -1..MaxNonceAge
        BY <1>2, <1>m DEF Absent
      <3>2. nonces' = [r \in Request |-> nonces'[r]]
        BY DEF Tick
      <3> QED
        BY <3>1, <3>2
    <2>3. handler' \in [Handler -> HandlerRow]
      BY <1>4 DEF Tick
    <2> QED
      BY <1>0, <2>1, <2>2, <2>3 DEF AuthInv, AuthType
  <1>6. HandlerInv'
    <2> SUFFICES ASSUME NEW h \in Handler
                 PROVE  /\ handler'[h].at = "free" => handler'[h] = Free
                        /\ handler'[h].at # "free" =>
                               handler'[h].req \in Request /\ sent'[handler'[h].req] # NotSent
                        /\ handler'[h].at = "received" => handler'[h].wait = 0
                        /\ handler'[h].at \in {"received", "timed"} => handler'[h].lag = 0
                        /\ handler'[h].lag <= handler'[h].wait
      BY DEF HandlerInv
    <2>1. handler[h].wait \in 0..Latency /\ handler[h].lag \in 0..Latency
      BY <1>0 DEF HandlerRow
    <2>2. handler'[h].at = "free" => handler'[h] = Free
      <3>1. handler[h].at = "free" => handler'[h] = handler[h]
        BY <1>0 DEF Tick, HandlerRow
      <3> QED
        BY <1>3, <3>1 DEF AuthInv, HandlerInv
    <2>3. handler'[h].at # "free" =>
              handler'[h].req \in Request /\ sent'[handler'[h].req] # NotSent
      BY <1>1, <1>3 DEF AuthInv, HandlerInv
    <2> QED
      BY <1>3, <2>1, <2>2, <2>3 DEF AuthInv, HandlerInv
  <1>7. \A h \in Handler, r \in Request :
          /\ InFlight(h, r)' <=> InFlight(h, r)
          /\ InFlight(h, r) => /\ handler[h].wait \in Nat /\ handler[h].lag \in Nat
                              /\ handler'[h].wait = handler[h].wait + 1
                              /\ handler'[h].lag \in Nat /\ handler'[h].lag <= handler[h].lag + 1
    <2> SUFFICES ASSUME NEW h \in Handler, NEW r \in Request
                 PROVE  /\ InFlight(h, r)' <=> InFlight(h, r)
                        /\ InFlight(h, r) =>
                              /\ handler[h].wait \in Nat /\ handler[h].lag \in Nat
                              /\ handler'[h].wait = handler[h].wait + 1
                              /\ handler'[h].lag \in Nat /\ handler'[h].lag <= handler[h].lag + 1
      OBVIOUS
    <2>1. handler[h].wait \in Nat /\ handler[h].lag \in Nat
      BY <1>0 DEF HandlerRow
    <2> QED
      BY <1>3, <2>1 DEF InFlight
  <1>8. \A r \in Request : sent[r].age \in Int /\ sent'[r].age \in Int /\
            (sent[r] # NotSent /\ sent'[r].age <= Window =>
                 sent[r].age <= Window /\ sent'[r].age = sent[r].age + 1)
    <2> SUFFICES ASSUME NEW r \in Request
                 PROVE  /\ sent[r].age \in Int /\ sent'[r].age \in Int
                        /\ sent[r] # NotSent /\ sent'[r].age <= Window =>
                               sent[r].age <= Window /\ sent'[r].age = sent[r].age + 1
      OBVIOUS
    <2>1. sent[r].age \in Int /\ sent'[r].age \in Int
      BY <1>0, <1>1, <1>m DEF Sent, NotSent
    <2> QED
      BY <1>1, <1>m, <2>1 DEF Older
  <1>9. \A r \in Request : nonces[r] \in Int /\ nonces'[r] \in Int
    BY <1>0, <1>2, <1>m DEF Absent
  <1>10. \A r \in Request :
            /\ sent[r] = NotSent => nonces[r] = Absent /\ \A h \in Handler : ~InFlight(h, r)
    BY DEF AuthInv, HandlerInv, NonceInv, NonceAges, InFlight
  <1>11. NonceAges'
    <2> SUFFICES ASSUME NEW r \in Request
                 PROVE  /\ sent'[r] = NotSent => nonces'[r] = Absent /\ accepted'[r] = 0
                        /\ nonces'[r] # Absent /\ sent'[r].age <= Window =>
                               nonces'[r] <= sent'[r].age + Skew
                        /\ \A h \in Handler : InFlight(h, r)' /\ nonces'[r] # Absent =>
                               nonces'[r] <= Window + Skew + handler'[h].wait
      BY DEF NonceAges
    <2>1. sent'[r] = NotSent => nonces'[r] = Absent /\ accepted'[r] = 0
      BY <1>0, <1>1, <1>2 DEF AuthInv, NonceInv, NonceAges
    <2>2. nonces'[r] # Absent => nonces[r] # Absent /\ nonces'[r] <= nonces[r] + 1 /\ sent[r] # NotSent
      BY <1>2, <1>10
    <2>3. nonces'[r] # Absent /\ sent'[r].age <= Window => nonces'[r] <= sent'[r].age + Skew
      <3>1. nonces[r] # Absent /\ sent[r].age <= Window => nonces[r] <= sent[r].age + Skew
        BY DEF AuthInv, NonceInv, NonceAges
      <3> QED
        BY <1>8, <1>9, <2>2, <3>1
    <2>4. ASSUME NEW h \in Handler, InFlight(h, r)', nonces'[r] # Absent
          PROVE  nonces'[r] <= Window + Skew + handler'[h].wait
      <3>1. InFlight(h, r) /\ handler'[h].wait = handler[h].wait + 1 /\ handler[h].wait \in Nat
        BY <1>7, <2>4
      <3>2. nonces[r] <= Window + Skew + handler[h].wait
        BY <2>2, <2>4, <3>1 DEF AuthInv, NonceInv, NonceAges
      <3> QED
        BY <1>9, <2>2, <2>4, <3>1, <3>2
    <2> QED
      BY <2>1, <2>3, <2>4
  <1>12. LagAges'
    <2> SUFFICES ASSUME NEW r \in Request, NEW h \in Handler, InFlight(h, r)'
                 PROVE  /\ sent'[r].age <= Window => handler'[h].lag <= sent'[r].age + Skew
                        /\ \A k \in Handler : InFlight(k, r)' =>
                               handler'[h].lag <= Window + Skew + handler'[k].wait
      BY DEF LagAges
    <2>1. InFlight(h, r) /\ sent[r] # NotSent
      BY <1>7, <1>10
    <2>2. /\ handler[h].lag \in Nat /\ handler'[h].lag \in Nat
          /\ handler'[h].lag <= handler[h].lag + 1
      BY <1>7, <2>1
    <2>3. sent[r].age <= Window => handler[h].lag <= sent[r].age + Skew
      BY <2>1 DEF AuthInv, NonceInv, LagAges
    <2>4. ASSUME NEW k \in Handler, InFlight(k, r)'
          PROVE  handler'[h].lag <= Window + Skew + handler'[k].wait
      <3>1. InFlight(k, r) /\ handler'[k].wait = handler[k].wait + 1 /\ handler[k].wait \in Nat
        BY <1>7, <2>4
      <3>2. handler[h].lag <= Window + Skew + handler[k].wait
        BY <2>1, <3>1 DEF AuthInv, NonceInv, LagAges
      <3> QED
        BY <2>2, <3>1, <3>2
    <2> QED
      BY <1>8, <2>1, <2>2, <2>3, <2>4
  <1>13. NonceKept'
    <2> SUFFICES ASSUME NonceOutlivesCopies, NEW r \in Request, accepted'[r] > 0, nonces'[r] = Absent
                 PROVE  sent'[r].age > Window /\ \A h \in Handler : ~InFlight(h, r)'
      BY DEF NonceKept
    <2>1. nonces[r] = Absent
      BY <1>2, <1>m DEF Absent
    <2>2. sent[r].age > Window /\ \A h \in Handler : ~InFlight(h, r)
      BY <1>0, <2>1 DEF AuthInv, NonceInv, NonceKept
    <2>3. sent[r] # NotSent
      BY <2>2 DEF NotSent
    <2> QED
      BY <1>7, <1>8, <2>2, <2>3
  <1>14. NonceSpentByItsRequest'
    BY <1>0, <1>2 DEF AuthInv, NonceInv, NonceSpentByItsRequest
  <1> QED
    BY <1>5, <1>6, <1>11, <1>12, <1>13, <1>14 DEF AuthInv, NonceInv

-----------------------------------------------------------------------------
(* A running server without requests satisfies the invariant. *)
LEMMA InitIInv == Init => IInv
  <1> SUFFICES ASSUME Init PROVE IInv
    OBVIOUS
  <1>1. TablesOK
    <2>1. \A a \in BOOLEAN : [enabled |-> TRUE, admin |-> a, secret |-> 1] \in Rows
      BY DEF Rows
    <2>2. tokens \in [Token -> Rows \union {NoRow}]
      BY <2>1 DEF Init, TableInit
    <2>3. grants \subseteq Token \X Permission /\ \A g \in grants : Exists(g[1])
      BY DEF Init, TableInit
    <2> QED
      BY <2>2, <2>3 DEF Init, TableInit, TablesOK, NoDanglingToken
  <1>2. CliOK
    BY DEF Init, TableInit, CliOK, CliInv, Commands, Idle
  <1>3. AuthType /\ HandlerInv
    <2>1. Absent \in -1..MaxNonceAge
      BY DEF Absent, MaxNonceAge
    <2> QED
      BY <2>1, FreeTyped DEF Init, AuthType, HandlerInv
  <1>4. NonceInv
    <2>1. \A h \in Handler, r \in Request : ~InFlight(h, r)
      BY FreeTyped DEF Init, InFlight
    <2> QED
      BY <2>1 DEF Init, NonceInv, NonceAges, LagAges, NonceKept, NonceSpentByItsRequest
  <1> QED
    BY <1>1, <1>2, <1>3, <1>4 DEF IInv, AuthInv

(* Every step preserves the invariant and performs no request a second time. *)
LEMMA NextIInv ==
  ASSUME IInv, [Next]_vars
  PROVE  IInv' /\ (NonceOutlivesCopies => [Once!Next]_accepted)
  <1>t. UNCHANGED <<tableVars, cliVars>> => TablesOK' /\ CliOK'
    BY DEF IInv, tableVars, cliVars, TablesOK, CliOK, CliInv, NoDanglingToken, Exists
  <1>a. UNCHANGED authVars => AuthInv'
    BY DEF IInv, authVars, AuthInv, AuthType, HandlerInv, NonceInv, NonceAges, LagAges,
           NonceKept, NonceSpentByItsRequest, InFlight
  <1>1. ASSUME NEW r \in Request, NEW t \in Token, NEW op \in Op, NEW lead \in (-Skew)..Skew,
               Send(r, t, op, lead)
        PROVE  IInv' /\ UNCHANGED accepted
    <2>1. AuthInv'
      BY <1>1, SendOK DEF IInv
    <2> QED
      BY <1>1, <1>t, <2>1 DEF IInv, Send
  <1>2. ASSUME NEW h \in Handler, HandlerNext(h)
        PROVE  IInv' /\ (NonceOutlivesCopies => [Once!Next]_accepted)
    <2>1. ASSUME NEW r \in Request, NEW good \in BOOLEAN, Deliver(h, r, good)
          PROVE  IInv' /\ UNCHANGED accepted
      <3>1. AuthInv'
        BY <2>1, DeliverOK DEF IInv
      <3> QED
        BY <2>1, <1>t, <3>1 DEF IInv, Deliver
    <2>2. CASE CheckTime(h)
      <3>1. AuthInv'
        BY <2>2, CheckTimeOK DEF IInv
      <3> QED
        BY <2>2, <1>t, <3>1 DEF IInv, CheckTime
    <2>3. CASE VerifySignature(h)
      <3>1. AuthInv'
        BY <2>3, VerifySignatureOK DEF IInv
      <3> QED
        BY <2>3, <1>t, <3>1 DEF IInv, VerifySignature
    <2>4. CASE ConsumeNonce(h)
      <3>1. AuthInv' /\ (NonceOutlivesCopies => [Once!Next]_accepted)
        BY <2>4, ConsumeNonceOK DEF IInv
      <3>2. UNCHANGED <<tableVars, cliVars>>
        BY <2>4 DEF ConsumeNonce
      <3> QED
        BY <1>t, <3>1, <3>2 DEF IInv
    <2>5. CASE CheckPermission(h)
      <3>1. AuthInv'
        BY <2>5, CheckPermissionOK DEF IInv
      <3> QED
        BY <2>5, <1>t, <3>1 DEF IInv, CheckPermission
    <2>6. CASE Perform(h)
      BY <2>6, PerformOK DEF Perform
    <2>7. CASE AdminRequest(h)
      BY <2>7, AdminRequestOK DEF AdminRequest
    <2> QED
      BY <1>2, <2>1, <2>2, <2>3, <2>4, <2>5, <2>6, <2>7 DEF HandlerNext
  <1>3. CASE CliNext /\ UNCHANGED authVars
    <2>1. TablesOK' /\ CliOK'
      BY <1>3, CliOKStep DEF IInv
    <2> QED
      BY <1>3, <1>a, <2>1 DEF IInv, authVars
  <1>4. ASSUME NEW limit \in {Ttl, 2 * Ttl}, CleanOldNonces(limit)
        PROVE  IInv' /\ UNCHANGED accepted
    <2>1. AuthInv'
      BY <1>4, CleanOK DEF IInv
    <2> QED
      BY <1>4, <1>t, <2>1 DEF IInv, CleanOldNonces
  <1>5. CASE Tick
    <2>1. AuthInv'
      BY <1>5, TickOK DEF IInv
    <2> QED
      BY <1>5, <1>t, <2>1 DEF IInv, Tick
  <1>6. CASE Restart
    BY <1>6, RestartOK DEF Restart
  <1>7. CASE UNCHANGED vars
    <2>1. UNCHANGED <<tableVars, cliVars>> /\ UNCHANGED authVars
      BY <1>7 DEF vars, tableVars, cliVars, authVars
    <2> QED
      BY <1>a, <1>t, <2>1 DEF IInv, authVars
  <1> QED
    BY <1>1, <1>2, <1>3, <1>4, <1>5, <1>6, <1>7 DEF Next

(* The invariant holds in every reachable state. *)
THEOREM Invariance == Spec => []IInv
  <1>1. IInv /\ [Next]_vars => IInv'
    BY NextIInv
  <1> QED
    BY <1>1, InitIInv, PTL DEF Spec

(* The tables, the requests, the nonces and the handlers keep their types. *)
THEOREM TypeCorrect == Spec => []AuTypeOK
  <1>1. IInv => AuTypeOK
    <2> SUFFICES ASSUME IInv PROVE AuTypeOK
      OBVIOUS
    <2>1. TableTypeOK
      BY DEF IInv, TablesOK, CliOK, Commands, TableTypeOK
    <2>2. /\ jobs \subseteq [req : Request, by : Token \union {Nobody}]
          /\ sent \in [Request -> [token : Token, secret : 1..MaxSecret, op : Op,
                                   age : (-Skew)..MaxAge] \union {NotSent}]
          /\ nonces \in [Request -> -1..MaxNonceAge]
      BY DEF IInv, TablesOK, JobRow, AuthInv, AuthType, Sent
    <2>3. ASSUME NEW h \in Handler
          PROVE  \/ handler[h] = Free
                 \/ /\ handler[h].at \in Steps /\ handler[h].req \in Request
                    /\ handler[h].wait \in 0..Latency /\ handler[h].lag \in 0..Latency
      BY DEF IInv, AuthInv, AuthType, HandlerInv, HandlerRow
    <2> QED
      BY <2>1, <2>2, <2>3 DEF AuTypeOK
  <1> QED
    BY <1>1, Invariance, PTL

(* Authentication and the nonce table implement OnceOnly: whatever copies the    *)
(* network delivers, whichever handlers run at once, whoever purges the nonces   *)
(* and however often the server restarts, a request is performed at most once,   *)
(* provided nonce_ttl_sec covers the window, the skew and the latency.           *)
THEOREM PerformedOnce ==
  ASSUME NonceOutlivesCopies
  PROVE  Spec => AtMostOnce
  <1>1. Init => Once!Init
    BY DEF Init, Once!Init
  <1>2. IInv /\ [Next]_vars => [Once!Next]_accepted
    BY NextIInv
  <1> QED
    BY <1>1, <1>2, Invariance, PTL DEF Spec, AtMostOnce, Once!Spec

(* No copy that fails authentication spends the nonce of its request. *)
THEOREM NoncesAreSpentByTheirRequest == Spec => []NonceSpentByItsRequest
  <1>1. IInv => NonceSpentByItsRequest
    BY DEF IInv, AuthInv, NonceInv
  <1> QED
    BY <1>1, Invariance, PTL

(* No grant and no job refers to a token that is gone, for any number of CLI     *)
(* processes and handlers that hold a token they read earlier.                   *)
THEOREM ReferencesAreSound == Spec => []NoDanglingToken
  <1>1. IInv => NoDanglingToken
    BY DEF IInv, TablesOK
  <1> QED
    BY <1>1, Invariance, PTL
=============================================================================
