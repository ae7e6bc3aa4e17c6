---------------------------- MODULE RequestAuth -----------------------------
(***************************************************************************)
(* Signed requests: how the server authenticates one, spends its nonce and *)
(* performs it (internal/api/server.go, admin.go, v2.go, cert.go,          *)
(* internal/store/logs.go).                                                *)
(*                                                                         *)
(* A client signs a request once; the network may deliver any number of    *)
(* copies of it, late, out of order or damaged.  Handlers run concurrently *)
(* and every database statement of a handler is a step of its own.         *)
(*                                                                         *)
(* Time is relative, so the clock itself is unbounded: sent[r].age is the  *)
(* server's clock minus the timestamp of r, nonces[r] the age of the nonce *)
(* row.  Ages stop growing where nothing tells them apart any more.        *)
(***************************************************************************)
EXTENDS TokenTable, Integers

CONSTANTS Request,   \* signed requests, each with a nonce of its own
          Handler,   \* concurrent request handlers
          Op,        \* the operations in use
          Window,    \* auth.timestamp_window_sec
          Ttl,       \* auth.nonce_ttl_sec
          Skew,      \* how far a client's clock is off
          Latency    \* time between reading the clock and the nonce's commit

ASSUME TimingAssumption ==
    Window \in Nat /\ Skew \in Nat /\ Latency \in Nat /\ Ttl \in Nat

\* A nonce outlives every copy of its request: the copy may carry a timestamp
\* that leads the server by Skew, stays acceptable for Window after it, and may
\* have passed the time check Latency before its nonce is looked up.  Nothing
\* in the configuration enforces this; AtMostOnce needs it.
NonceOutlivesCopies == Ttl >= Window + Skew + Latency

VARIABLES sent,     \* sent[r]: the request as signed, or NotSent
          nonces,   \* nonces[r]: age of the nonce row of r, or Absent
          handler,  \* handler[h]: what handler h is doing
          accepted  \* accepted[r]: how often r passed authentication (history)

vars == <<tokens, grants, jobs, lastSecret, cli, commands, sent, nonces, handler, accepted>>
authVars == <<sent, nonces, handler, accepted>>

NotSent == [token |-> Nobody, secret |-> 0, op |-> "none", age |-> 0]
Absent  == -1
Free    == [at |-> "free", req |-> Nobody, good |-> FALSE, admin |-> FALSE,
            todo |-> <<>>, wait |-> 0, lag |-> 0]

\* A request older than the window stays refused; a fresh one is at most Skew old.
MaxAge      == IF Skew > Window THEN Skew + 1 ELSE Window + 1
\* An older nonce is removed by the next run of the cleaner.
MaxNonceAge == IF Latency > 2 * Ttl THEN Latency + 1 ELSE 2 * Ttl + 1

Steps == {"received", "timed", "verified", "accepted"}
TokenOf(h) == sent[handler[h].req].token
OpOf(h)    == sent[handler[h].req].op
Release(h) == handler' = [handler EXCEPT ![h] = Free]

(***************************************************************************)
(* The client (internal/client/client.go, doRequestCtx): timestamp, fresh  *)
(* nonce and signature with the secret it was configured with.  A retry is *)
(* a new request.                                                          *)
(***************************************************************************)
Send(r, t, op, lead) ==
    /\ sent[r] = NotSent
    /\ Exists(t)
    /\ sent' = [sent EXCEPT ![r] =
            [token |-> t, secret |-> tokens[t].secret, op |-> op, age |-> lead]]
    /\ UNCHANGED <<tableVars, cliVars, nonces, handler, accepted>>

\* The network hands a copy to a free handler; a damaged copy has another body,
\* path, header or content type.
Deliver(h, r, good) ==
    /\ handler[h] = Free
    /\ sent[r] # NotSent
    /\ handler' = [handler EXCEPT ![h] = [Free EXCEPT !.at = "received", !.req = r, !.good = good]]
    /\ UNCHANGED <<tableVars, cliVars, sent, nonces, accepted>>

(***************************************************************************)
(* verifyTokenBody, in the order of the code.                              *)
(***************************************************************************)
WithinWindow(age) == -Window <= age /\ age <= Window

\* Header syntax, then the timestamp against the clock read here.
CheckTime(h) ==
    /\ handler[h].at = "received"
    /\ IF WithinWindow(sent[handler[h].req].age)
       THEN handler' = [handler EXCEPT ![h].at = "timed"]
       ELSE Release(h)
    /\ UNCHANGED <<tableVars, cliVars, sent, nonces, accepted>>

\* The body hash and the signature are recomputed from what arrived, with the
\* secret of the row.
SignatureMatches(h) ==
    /\ handler[h].good
    /\ Exists(TokenOf(h)) /\ tokens[TokenOf(h)].enabled
    /\ tokens[TokenOf(h)].secret = sent[handler[h].req].secret

\* Mutant: the nonce is recorded before the signature is known to be good.
VerifySignatureSpending(h) ==
    /\ handler[h].at = "timed"
    /\ IF SignatureMatches(h)
       THEN /\ handler' = [handler EXCEPT ![h].at = "verified", ![h].good = FALSE]
            /\ UNCHANGED nonces
       ELSE /\ Release(h)
            /\ nonces' = [nonces EXCEPT ![handler[h].req] = 0]
    /\ UNCHANGED <<tableVars, cliVars, sent, accepted>>

\* GetToken and the signature; is_admin of the row read here is kept for the rest
\* of the request.
\* ConsumeNonce starts by reading the clock again, before it waits for its
\* transaction: lag counts the time since then.
VerifySignature(h) ==
    /\ handler[h].at = "timed"
    /\ IF SignatureMatches(h)
       THEN handler' = [handler EXCEPT ![h].at = "verified", ![h].good = FALSE,
                                     ![h].admin = tokens[TokenOf(h)].admin]
       ELSE Release(h)
    /\ UNCHANGED <<tableVars, cliVars, sent, nonces, accepted>>

\* Mutant: created_at <= now - limit.
PurgedEarly(limit, lag) ==
    [r \in Request |-> IF nonces[r] - lag >= limit THEN Absent ELSE nonces[r]]

\* DELETE FROM nonces WHERE created_at < now - limit
Purged(limit, lag) ==
    [r \in Request |-> IF nonces[r] - lag > limit THEN Absent ELSE nonces[r]]

\* The permissions an operation asks for, in the order of the code.
Todo(op) == CASE op = "force" -> <<"apply", "force">>
              [] op \in {"reconcile", "report"} -> <<"apply">>
              [] op \in {"admin", "ping"} -> <<>>
              [] OTHER -> <<op>>

\* ConsumeNonce: one transaction purges old rows and inserts the nonce unless it
\* is there.  A database error refuses the request and rolls back.
ConsumeNonce(h) ==
    /\ handler[h].at = "verified"
    /\ LET r == handler[h].req
           left == Purged(Ttl, handler[h].lag)
       IN  \/ /\ left[r] = Absent
              /\ nonces' = [left EXCEPT ![r] = handler[h].lag]
              /\ accepted' = [accepted EXCEPT ![r] = @ + 1]
              /\ handler' = [handler EXCEPT ![h].at = "accepted", ![h].todo = Todo(sent[r].op),
                                            ![h].wait = 0, ![h].lag = 0]
           \/ /\ left[r] # Absent
              /\ nonces' = left
              /\ Release(h)
              /\ UNCHANGED accepted
           \/ /\ Release(h)
              /\ UNCHANGED <<nonces, accepted>>
    /\ UNCHANGED <<tableVars, cliVars, sent>>

(***************************************************************************)
(* The operation.  Whether the token is an admin is what authentication    *)
(* read; the grants are read now, one query per permission.                *)
(***************************************************************************)
CheckPermission(h) ==
    /\ handler[h].at = "accepted"
    /\ handler[h].todo # <<>>
    /\ LET p == Head(handler[h].todo) IN
         IF /\ p = "force" => handler[h].admin
            /\ HasCertificatePermission(TokenOf(h), p)
         THEN handler' = [handler EXCEPT ![h].todo = Tail(@)]
         ELSE Release(h)
    /\ UNCHANGED <<tableVars, cliVars, sent, nonces, accepted>>

\* Mutant: requested_by without its foreign key.
CreateJobUnchecked(h) ==
    jobs' = jobs \union {[req |-> handler[h].req, by |-> TokenOf(h)]}

\* CreateCertificateJob: the foreign key on requested_by refuses the row of a
\* token deleted meanwhile, and the request ends in an error.
CreateJob(h) ==
    jobs' = IF Exists(TokenOf(h))
            THEN jobs \union {[req |-> handler[h].req, by |-> TokenOf(h)]}
            ELSE jobs

\* Every permission is there: reconcile creates its job, the others answer
\* without changing the tables modelled here.
Perform(h) ==
    /\ handler[h].at = "accepted"
    /\ handler[h].todo = <<>>
    /\ OpOf(h) # "admin"
    /\ Release(h)
    /\ IF OpOf(h) \in {"reconcile", "force"}
       THEN CreateJob(h) /\ UNCHANGED <<tokens, grants, lastSecret>>
       ELSE UNCHANGED tableVars
    /\ UNCHANGED <<cliVars, sent, nonces, accepted>>

\* admin: a token without the flag is refused; tokensHandler creates, updates or
\* deletes a token without looking at the number of admins.
AdminRequest(h) ==
    /\ handler[h].at = "accepted"
    /\ OpOf(h) = "admin"
    /\ Release(h)
    /\ \/ ~handler[h].admin /\ UNCHANGED tableVars
       \/ /\ handler[h].admin
          /\ \E t \in Token :
               \/ \E enabled, admin \in BOOLEAN :
                    \/ CreateToken(t, enabled, admin)
                    \/ UpdateToken(t, enabled, admin)
               \/ DeleteToken(t)
    /\ UNCHANGED <<cliVars, sent, nonces, accepted>>

-----------------------------------------------------------------------------
\* startNonceCleaner removes rows twice as old as the time to live; the
\* transactions of requests outside Request remove them as ConsumeNonce does.
CleanOldNonces(limit) ==
    /\ nonces' = Purged(limit, 0)
    /\ UNCHANGED <<tableVars, cliVars, sent, handler, accepted>>

Older(age, max) == IF age = max THEN age ELSE age + 1

\* One unit of time.  A handler between its time check and the end of its
\* nonce transaction is never left waiting longer than Latency.
Tick ==
    /\ \A h \in Handler : handler[h].at \in {"timed", "verified"} => handler[h].wait < Latency
    /\ sent' = [r \in Request |-> IF sent[r] = NotSent THEN NotSent
                                  ELSE [sent[r] EXCEPT !.age = Older(@, MaxAge)]]
    /\ nonces' = [r \in Request |-> IF nonces[r] = Absent THEN Absent
                                    ELSE Older(nonces[r], MaxNonceAge)]
    /\ handler' = [h \in Handler |->
            [handler[h] EXCEPT
               !.wait = IF handler[h].at \in {"timed", "verified"} THEN @ + 1 ELSE @,
               !.lag  = IF handler[h].at = "verified" THEN @ + 1 ELSE @]]
    /\ UNCHANGED <<tableVars, cliVars, accepted>>

\* The server process ends and starts again: requests in progress are lost, the
\* database is not, and the admin token is created if it is missing.
Restart ==
    /\ handler' = [h \in Handler |-> Free]
    /\ BootstrapAdminToken
    /\ UNCHANGED <<cliVars, sent, nonces, accepted>>

Init ==
    /\ TableInit
    /\ sent = [r \in Request |-> NotSent]
    /\ nonces = [r \in Request |-> Absent]
    /\ handler = [h \in Handler |-> Free]
    /\ accepted = [r \in Request |-> 0]

HandlerNext(h) ==
    \/ \E r \in Request, good \in BOOLEAN : Deliver(h, r, good)
    \/ CheckTime(h)
    \/ VerifySignature(h)
    \/ ConsumeNonce(h)
    \/ CheckPermission(h)
    \/ Perform(h)
    \/ AdminRequest(h)

Next ==
    \/ \E r \in Request, t \in Token, op \in Op, lead \in (-Skew)..Skew : Send(r, t, op, lead)
    \/ \E h \in Handler : HandlerNext(h)
    \/ CliNext /\ UNCHANGED authVars
    \/ \E limit \in {Ttl, 2 * Ttl} : CleanOldNonces(limit)
    \/ Tick
    \/ Restart

Spec == Init /\ [][Next]_vars

-----------------------------------------------------------------------------
\* Type invariant of the tables, the requests and the handlers.
AuTypeOK ==
    /\ TableTypeOK
    /\ jobs \subseteq [req : Request, by : Token \union {Nobody}]
    /\ sent \in [Request -> [token : Token, secret : 1..MaxSecret, op : Op,
                             age : (-Skew)..MaxAge] \union {NotSent}]
    /\ nonces \in [Request -> -1..MaxNonceAge]
    /\ \A h \in Handler :
         \/ handler[h] = Free
         \/ /\ handler[h].at \in Steps
            /\ handler[h].req \in Request
            /\ handler[h].wait \in 0..Latency /\ handler[h].lag \in 0..Latency

\* A request is performed at most once: the nonce of an accepted request is
\* still recorded whenever another copy of it passes the time check, across
\* purges by other requests, the cleaner and restarts (verifyTokenBody and
\* ConsumeNonce implement OnceOnly, given NonceOutlivesCopies).
Once == INSTANCE OnceOnly WITH performed <- accepted
AtMostOnce == Once!Spec

\* Only the request itself spends its nonce: a copy that is damaged, late or
\* signed with a secret that is no longer valid leaves no row behind, so it
\* never makes the server refuse the good copy.
NonceSpentByItsRequest ==
    \A r \in Request : nonces[r] # Absent => accepted[r] > 0

\* No row refers to a token that is gone, although a token may be deleted while
\* a command or a request that names it is half-way.
NoDanglingToken ==
    /\ \A g \in grants : Exists(g[1])
    /\ \A j \in jobs : j.by # Nobody => Exists(j.by)
=============================================================================
