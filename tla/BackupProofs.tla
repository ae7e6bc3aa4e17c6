---------------------------- MODULE BackupProofs ----------------------------
(***************************************************************************)
(* Proofs about KeyStore and Backup, for any secrets, keys, processes and  *)
(* bounds.                                                                 *)
(*                                                                         *)
(* The keys rest on loadOrCreateKEK: only the creator of the key file      *)
(* writes it, and a process works with the injected key or with the key    *)
(* that is in the file (KeyInv).  The values rest on what a start that     *)
(* re-encrypts has read (CopyInv).  A backup under way was taken while its *)
(* process was open, so no restore came between its parts (TakenInv), and  *)
(* a restore under way has the host to itself (RestoreInv).                *)
(***************************************************************************)
EXTENDS Backup, TLAPS

-----------------------------------------------------------------------------
Places == {"down", "creating", "schema", "apply", "tokens", "rewrap tokens",
           "dns", "rewrap dns", "check", "open"}
Copies == {{}} \union [TokenSecret -> RowSet] \union [DnsSecret -> RowSet]

ProcRec == [at : Places, active : {"none", EnvKey} \union FileKey,
            legacy : {"none"} \union FileKey, copy : Copies, todo : SUBSET Secret]

KsType ==
    /\ rows \in [Secret -> RowSet]
    /\ schema \in BOOLEAN
    /\ kekFile \in {"none", "empty"} \union FileKey
    /\ drawn \subseteq FileKey
    /\ writes \in 0..MaxWrites /\ starts \in 0..MaxStarts
    /\ newest \in [Secret -> 0..MaxWrites]
    /\ raced \subseteq Secret /\ exposed \subseteq Process
    /\ proc \in [Process -> ProcRec]

Creating(x) == x.at = "creating"

(* The injected key and the key file, once written, open this. *)
Opened(k) == k = EnvKey \/ (kekFile \in FileKey /\ k = kekFile)

KeyOK(x) == x.at \notin {"down", "creating"} => Opened(x.active)

KeyInv ==
    \A p \in Process :
      /\ Creating(proc[p]) => kekFile = "empty"
      /\ \A q \in Process : Creating(proc[p]) /\ Creating(proc[q]) => p = q
      /\ KeyOK(proc[p])

(* What a start has read and will write back is not older than the row. *)
CopyOK(x) ==
    /\ x.at = "rewrap tokens" => x.copy \in [TokenSecret -> RowSet] /\ x.todo \subseteq TokenSecret
    /\ x.at = "rewrap dns" => x.copy \in [DnsSecret -> RowSet] /\ x.todo \subseteq DnsSecret
    /\ x.at \in {"rewrap tokens", "rewrap dns"} =>
         \A s \in x.todo : /\ x.copy[s].key \notin {"none", x.active}
                           /\ s \in raced \/ x.copy[s].val = newest[s]

(* CheckEncryptionReadiness, for the keys in x. *)
Reads(x) == \A s \in Secret : rows[s].key \in {"none", "plain", x.active}

CopyInv == \A p \in Process : CopyOK(proc[p])

KsInv == KsType /\ KeyInv /\ CopyInv /\ OpenStoreReads /\ NewestSecretStays

(* Rows that the injected key and the key file open. *)
KeysOf(R) == \A s \in Secret : R[s].key \in {"none", "plain"} \/ Opened(R[s].key)

(* A key file, once written, stays. *)
KekStays == kekFile' = kekFile \/ kekFile \notin FileKey

(* What a step of a process has to show. *)
KsGood == KsInv' /\ KekStays /\ (KeysOf(rows) => KeysOf(rows)')

-----------------------------------------------------------------------------
(* A key that is injected or in the file stays usable while the file is kept. *)
LEMMA OpenedStays ==
  ASSUME KekStays, NEW k, Opened(k)
  PROVE  Opened(k)'
  BY DEF KekStays, Opened

(* A step that changes one process, the key file perhaps, and no row. *)
LEMMA OneProcess ==
  ASSUME KsInv, NEW p \in Process, UNCHANGED <<rows, newest, raced, writes>>,
         proc' \in [Process -> ProcRec], \A q \in Process : q # p => proc'[q] = proc[q],
         schema' \in BOOLEAN, kekFile' \in {"none", "empty"} \union FileKey,
         drawn' \subseteq FileKey, starts' \in 0..MaxStarts,
         exposed' = exposed \/ (exposed' = exposed \ {p} /\ proc'[p].at # "open"),
         KekStays,
         kekFile' # kekFile \/ Creating(proc'[p]) =>
            \A q \in Process : q # p => ~Creating(proc[q]),
         Creating(proc'[p]) => kekFile' = "empty",
         KeyOK(proc[p])', CopyOK(proc[p])',
         proc'[p].at = "open" => Reads(proc'[p])
  PROVE  KsGood
  <1>1. KsType'
    BY DEF KsInv, KsType
  <1>2. KeyInv'
    <2>1. ASSUME NEW q \in Process, Creating(proc'[q]) PROVE kekFile' = "empty"
      BY <2>1 DEF KsInv, KeyInv, Creating
    <2>2. ASSUME NEW q \in Process, NEW r \in Process, Creating(proc'[q]), Creating(proc'[r])
          PROVE  q = r
      <3>1. CASE q # p /\ r # p
        BY <2>2, <3>1 DEF KsInv, KeyInv, Creating
      <3>2. CASE q = p /\ r # p
        BY <2>2, <3>2 DEF Creating
      <3>3. CASE q # p /\ r = p
        BY <2>2, <3>3 DEF Creating
      <3> QED
        BY <3>1, <3>2, <3>3
    <2>3. ASSUME NEW q \in Process PROVE KeyOK(proc[q])'
      <3>1. CASE q # p
        <4>1. proc'[q] = proc[q] /\ KeyOK(proc[q])
          BY <3>1 DEF KsInv, KeyInv
        <4>2. Opened(proc[q].active) => Opened(proc[q].active)'
          BY <3>1, <4>1 DEF KekStays, Opened
        <4> QED
          BY <4>1, <4>2 DEF KeyOK
      <3> QED
        BY <3>1
    <2> QED
      BY <2>1, <2>2, <2>3 DEF KeyInv, Creating, KeyOK, Opened
  <1>3. CopyInv'
    <2>1. ASSUME NEW q \in Process, q # p PROVE CopyOK(proc[q])'
      <3>1. proc'[q] = proc[q] /\ CopyOK(proc[q])
        BY <2>1 DEF KsInv, CopyInv
      <3>2. raced' = raced /\ newest' = newest
        OBVIOUS
      <3> QED
        BY <3>1, <3>2 DEF CopyOK
    <2> QED
      BY <2>1 DEF CopyInv
  <1>4. OpenStoreReads'
    <2>1. ASSUME NEW q \in Process, q # p, proc'[q].at = "open", q \notin exposed'
          PROVE  \A s \in Secret : Readable(q, s)'
      BY <2>1 DEF KsInv, OpenStoreReads, Readable
    <2>2. ASSUME proc'[p].at = "open", p \notin exposed'
          PROVE  \A s \in Secret : Readable(p, s)'
      BY <2>2 DEF Readable, Reads
    <2> QED
      BY <2>1, <2>2 DEF OpenStoreReads
  <1>5. NewestSecretStays'
    BY DEF KsInv, NewestSecretStays
  <1>6. KeysOf(rows) => KeysOf(rows)'
    BY OpenedStays DEF KeysOf
  <1> QED
    BY <1>1, <1>2, <1>3, <1>4, <1>5, <1>6 DEF KsGood, KsInv

(* A process moves and keeps what it knows. *)
LEMMA AtMoves ==
  ASSUME KsType, NEW p \in Process, NEW a \in Places, At(p, a)
  PROVE  /\ proc' \in [Process -> ProcRec] /\ \A q \in Process : q # p => proc'[q] = proc[q]
         /\ proc'[p].at = a /\ proc'[p].active = proc[p].active
         /\ proc'[p].legacy = proc[p].legacy
  <1> DEFINE x == [proc[p] EXCEPT !.at = a]
  <1>1. x \in ProcRec /\ x.at = a /\ x.active = proc[p].active /\ x.legacy = proc[p].legacy
    BY DEF KsType, ProcRec
  <1>2. proc' = [proc EXCEPT ![p] = x]
    BY DEF At
  <1> HIDE DEF x
  <1> QED
    BY <1>1, <1>2 DEF KsType

-----------------------------------------------------------------------------
(* loadEncryptionKey finds its key, or creates the file exclusively. *)
LEMMA LoadsGood ==
  ASSUME KsInv, NEW p \in Process, StartInjected(p) \/ StartFromFile(p)
  PROVE  KsGood
  <1>1. PICK a \in {EnvKey, kekFile}, l \in {"none", kekFile} :
          /\ Loads(p, a, l) /\ kekFile' = kekFile /\ l # "empty"
          /\ starts < MaxStarts /\ starts' = starts + 1
          /\ a = EnvKey \/ kekFile \in FileKey
    <2>1. CASE StartInjected(p)
      BY <2>1 DEF StartInjected, Starts
    <2>2. CASE StartFromFile(p)
      BY <2>2 DEF StartFromFile, Starts
    <2> QED
      BY <2>1, <2>2
  <1> DEFINE x == [at |-> "schema", active |-> a, legacy |-> l, copy |-> {}, todo |-> {}]
  <1>2. x \in ProcRec /\ x.at = "schema" /\ x.active = a
    BY <1>1, KeyAssumption DEF ProcRec, Places, Copies, KsInv, KsType
  <1>3. proc' = [proc EXCEPT ![p] = x]
    BY <1>1 DEF Loads
  <1> HIDE DEF x
  <1>4. /\ proc' \in [Process -> ProcRec] /\ proc'[p] = x
        /\ \A q \in Process : q # p => proc'[q] = proc[q]
    BY <1>2, <1>3 DEF KsInv, KsType
  <1>5. /\ UNCHANGED <<rows, newest, raced, writes>> /\ schema' = schema /\ drawn' = drawn
        /\ exposed' = exposed \ {p} /\ starts' \in 0..MaxStarts
    BY <1>1, WritesAssumption DEF Loads, KsInv, KsType
  <1>6. KekStays /\ kekFile' = kekFile
    BY <1>1 DEF KekStays
  <1>7. KeyOK(proc[p])'
    BY <1>1, <1>2, <1>4, <1>6 DEF KeyOK, Opened
  <1>8. CopyOK(proc[p])'
    BY <1>2, <1>4 DEF CopyOK
  <1> QED
    BY <1>2, <1>4, <1>5, <1>6, <1>7, <1>8, OneProcess DEF KsInv, KsType, Creating

(* loadOrCreateKEK, O_EXCL: the file is created, and still empty. *)
LEMMA CreateFileGood ==
  ASSUME KsInv, NEW p \in Process, CreateFile(p)
  PROVE  KsGood
  <1>1. /\ kekFile = "none" /\ kekFile' = "empty" /\ At(p, "creating")
        /\ UNCHANGED <<rows, schema, drawn, writes, newest, raced, exposed>>
        /\ starts < MaxStarts /\ starts' = starts + 1
    BY DEF CreateFile, Starts, ksHistory
  <1>2. /\ proc' \in [Process -> ProcRec] /\ \A q \in Process : q # p => proc'[q] = proc[q]
        /\ proc'[p].at = "creating"
    BY <1>1, AtMoves DEF KsInv, Places
  <1>3. KekStays /\ \A q \in Process : ~Creating(proc[q])
    BY <1>1, KeyAssumption DEF KekStays, KsInv, KeyInv
  <1>4. starts' \in 0..MaxStarts
    BY <1>1, WritesAssumption DEF KsInv, KsType
  <1>5. KeyOK(proc[p])' /\ CopyOK(proc[p])'
    BY <1>2 DEF KeyOK, CopyOK
  <1> QED
    BY <1>1, <1>2, <1>3, <1>4, <1>5, OneProcess DEF KsInv, KsType

(* loadOrCreateKEK: the creator of the file fills it with a new key. *)
LEMMA WriteFileGood ==
  ASSUME KsInv, NEW p \in Process, WriteFile(p)
  PROVE  KsGood
  <1>1. PICK k \in FileKey \ drawn :
          /\ kekFile' = k /\ drawn' = drawn \union {k}
          /\ proc' = [proc EXCEPT ![p] = [at |-> "schema", active |-> k, legacy |-> "none",
                                          copy |-> {}, todo |-> {}]]
    BY DEF WriteFile
  <1> DEFINE x == [at |-> "schema", active |-> k, legacy |-> "none", copy |-> {}, todo |-> {}]
  <1>2. x \in ProcRec /\ x.at = "schema" /\ x.active = k
    BY DEF ProcRec, Places, Copies
  <1>3. proc' = [proc EXCEPT ![p] = x]
    BY <1>1
  <1> HIDE DEF x
  <1>4. /\ proc' \in [Process -> ProcRec] /\ proc'[p] = x
        /\ \A q \in Process : q # p => proc'[q] = proc[q]
    BY <1>2, <1>3 DEF KsInv, KsType
  <1>5. /\ UNCHANGED <<rows, newest, raced, writes>> /\ schema' = schema /\ starts' = starts
        /\ exposed' = exposed \ {p} /\ Creating(proc[p])
    BY DEF WriteFile, Creating
  <1>6. kekFile = "empty" /\ \A q \in Process : q # p => ~Creating(proc[q])
    BY <1>5 DEF KsInv, KeyInv
  <1>7. KekStays
    BY <1>6, KeyAssumption DEF KekStays
  <1>8. KeyOK(proc[p])'
    BY <1>1, <1>2, <1>4 DEF KeyOK, Opened
  <1>9. CopyOK(proc[p])'
    BY <1>2, <1>4 DEF CopyOK
  <1>10. drawn' \subseteq FileKey /\ kekFile' \in FileKey
    BY <1>1 DEF KsInv, KsType
  <1> QED
    BY <1>2, <1>4, <1>5, <1>6, <1>7, <1>8, <1>9, <1>10, OneProcess DEF KsInv, KsType, Creating

(* migrate and CheckEncryptionReadiness. *)
LEMMA SchemaGood ==
  ASSUME KsInv, NEW p \in Process, ReadSchema(p) \/ ApplySchema(p)
  PROVE  KsGood
  <1>1. PICK a \in {"tokens", "apply", "down"} :
          /\ At(p, a) /\ proc[p].at \in {"schema", "apply"}
          /\ UNCHANGED <<starts, rows, kekFile, drawn, writes, newest, raced, exposed>>
    BY DEF ReadSchema, ApplySchema, ksHistory
  <1>2. schema' \in BOOLEAN
    BY DEF ReadSchema, ApplySchema, KsInv, KsType
  <1>3. /\ proc' \in [Process -> ProcRec] /\ \A q \in Process : q # p => proc'[q] = proc[q]
        /\ proc'[p].at = a /\ proc'[p].active = proc[p].active
    BY <1>1, AtMoves DEF KsInv, Places
  <1>4. KeyOK(proc[p])'
    BY <1>1, <1>3 DEF KeyOK, Opened, KsInv, KeyInv
  <1>5. CopyOK(proc[p])' /\ KekStays
    BY <1>1, <1>3 DEF CopyOK, KekStays
  <1> QED
    BY <1>1, <1>2, <1>3, <1>4, <1>5, OneProcess DEF KsInv, KsType, Creating

(* CheckEncryptionReadiness: only a process that reads every secret opens. *)
LEMMA CheckReadinessGood ==
  ASSUME KsInv, NEW p \in Process, CheckReadiness(p)
  PROVE  KsGood
  <1>1. PICK a \in {"open", "down"} :
          /\ At(p, a) /\ proc[p].at = "check" /\ (a = "open" => Ready(p))
          /\ UNCHANGED <<starts, rows, kekFile, drawn, writes, newest, raced, exposed, schema>>
    BY DEF CheckReadiness, ksHistory
  <1>2. /\ proc' \in [Process -> ProcRec] /\ \A q \in Process : q # p => proc'[q] = proc[q]
        /\ proc'[p].at = a /\ proc'[p].active = proc[p].active
    BY <1>1, AtMoves DEF KsInv, Places
  <1>3. KeyOK(proc[p])'
    BY <1>1, <1>2 DEF KeyOK, Opened, KsInv, KeyInv
  <1>4. CopyOK(proc[p])' /\ KekStays
    BY <1>1, <1>2 DEF CopyOK, KekStays
  <1>5. proc'[p].at = "open" => Reads(proc'[p])
    BY <1>1, <1>2 DEF Ready, Reads
  <1>6. /\ schema' \in BOOLEAN /\ kekFile' \in {"none", "empty"} \union FileKey
        /\ drawn' \subseteq FileKey /\ starts' \in 0..MaxStarts
    BY <1>1 DEF KsInv, KsType
  <1>7. kekFile' = kekFile /\ ~Creating(proc'[p]) /\ exposed' = exposed
    BY <1>1, <1>2 DEF Creating
  <1>8. UNCHANGED <<rows, newest, raced, writes>>
    BY <1>1
  <1> QED
    BY <1>2, <1>3, <1>4, <1>5, <1>6, <1>7, <1>8, OneProcess

-----------------------------------------------------------------------------
Rewrapping == {"rewrap tokens", "rewrap dns"}

(* migrateLegacyCiphertexts: what a process knows after it read or wrote. *)
LEMMA RewrapsMoves ==
  ASSUME KsType, NEW p \in Process, NEW a \in Rewrapping,
         NEW c \in Copies, NEW t \in SUBSET Secret, Rewraps(p, a, c, t)
  PROVE  /\ proc' \in [Process -> ProcRec] /\ \A q \in Process : q # p => proc'[q] = proc[q]
         /\ proc'[p].active = proc[p].active /\ proc'[p].todo = t
         /\ t # {} => proc'[p].at = a /\ proc'[p].copy = c
         /\ t = {} => proc'[p].at \in {"dns", "check"}
  <1> DEFINE A == CASE t # {} -> a
                    [] t = {} /\ a = "rewrap tokens" -> "dns"
                    [] t = {} /\ a = "rewrap dns" -> "check"
             C == IF t = {} THEN {} ELSE c
             x == [proc[p] EXCEPT !.at = A, !.copy = C, !.todo = t]
  <1>1. /\ t # {} => A = a /\ C = c
        /\ t = {} => A \in {"dns", "check"} /\ C = {}
    BY DEF Rewrapping
  <1>2. A \in Places /\ C \in Copies
    BY <1>1 DEF Places, Copies, Rewrapping
  <1>3. proc' = [proc EXCEPT ![p].at = A, ![p].copy = C, ![p].todo = t]
    BY DEF Rewraps
  <1> HIDE DEF A, C
  <1>4. proc' = [proc EXCEPT ![p] = x]
    BY <1>3, Zenon
  <1>5. x \in ProcRec /\ x.at = A /\ x.copy = C /\ x.todo = t /\ x.active = proc[p].active
    BY <1>2 DEF KsType, ProcRec
  <1> HIDE DEF x
  <1>6. /\ proc' \in [Process -> ProcRec] /\ proc'[p] = x
        /\ \A q \in Process : q # p => proc'[q] = proc[q]
    BY <1>4, <1>5 DEF KsType
  <1> QED
    BY <1>1, <1>5, <1>6

(* A process that works has a real key, which is neither "plain" nor "none". *)
LEMMA ActiveIsAKey ==
  ASSUME KsInv, NEW p \in Process, proc[p].at \notin {"down", "creating"}
  PROVE  /\ proc[p].active \in {EnvKey} \union FileKey /\ Opened(proc[p].active)
         /\ proc[p].active \notin {"none", "plain", "empty"}
  BY KeyAssumption DEF KsInv, KeyInv, KeyOK, Opened

TableOf(n) == IF n = "rewrap tokens" THEN TokenSecret ELSE DnsSecret

(* migrateLegacyCiphertexts reads a whole table: what it holds is what is there. *)
LEMMA ReadTableGood ==
  ASSUME KsInv, NEW p \in Process,
         NEW a \in {"tokens", "dns"}, NEW n \in Rewrapping,
         NEW T, T = TableOf(n), ReadTable(p, a, T, n)
  PROVE  KsGood
  <1> DEFINE c == [s \in T |-> rows[s]]
             t == {s \in T : NeedsRewrap(p, rows[s])}
  <1>1. T \subseteq Secret /\ rows \in [Secret -> RowSet]
    BY DEF Secret, KsInv, KsType, TableOf
  <1>2. c \in [T -> RowSet] /\ c \in Copies /\ t \in SUBSET Secret /\ t \subseteq T
    BY <1>1 DEF Copies, TableOf
  <1>3. /\ Rewraps(p, n, c, t) /\ proc[p].at = a
        /\ UNCHANGED <<rows, schema, kekFile, drawn, writes, starts, newest, raced, exposed>>
    BY DEF ReadTable, ksHistory
  <1>4. ASSUME NEW s \in t
        PROVE  /\ c[s].key \notin {"none", proc[p].active}
               /\ s \in raced \/ c[s].val = newest[s]
    <2>1. s \in T /\ s \in Secret /\ c[s] = rows[s] /\ NeedsRewrap(p, rows[s])
      BY <1>1, <1>4
    <2>2. rows[s].key \notin {"none", proc[p].active}
      BY <1>3, <2>1, ActiveIsAKey DEF NeedsRewrap
    <2>3. NoRow.key = "none"
      BY DEF NoRow
    <2>4. rows[s] # NoRow
      BY <2>2, <2>3
    <2> QED
      BY <2>1, <2>2, <2>4 DEF KsInv, NewestSecretStays
  <1> HIDE DEF c, t
  <1>5. /\ proc' \in [Process -> ProcRec] /\ \A q \in Process : q # p => proc'[q] = proc[q]
        /\ proc'[p].active = proc[p].active /\ proc'[p].todo = t
        /\ t # {} => proc'[p].at = n /\ proc'[p].copy = c
        /\ t = {} => proc'[p].at \in {"dns", "check"}
    <2>1. PICK m \in Rewrapping, c0 \in Copies, t0 \in SUBSET Secret :
            m = n /\ c0 = c /\ t0 = t
      BY <1>2
    <2>2. KsType /\ Rewraps(p, m, c0, t0)
      BY <1>3, <2>1 DEF KsInv
    <2>3. /\ proc' \in [Process -> ProcRec] /\ \A q \in Process : q # p => proc'[q] = proc[q]
          /\ proc'[p].active = proc[p].active /\ proc'[p].todo = t0
          /\ t0 # {} => proc'[p].at = m /\ proc'[p].copy = c0
          /\ t0 = {} => proc'[p].at \in {"dns", "check"}
      BY <2>2, RewrapsMoves
    <2> QED
      BY <2>1, <2>3
  <1>6. CopyOK(proc[p])'
    <2>1. CASE t = {}
      BY <1>5, <2>1 DEF CopyOK
    <2>2. CASE t # {}
      BY <1>2, <1>3, <1>4, <1>5, <2>2 DEF CopyOK, TableOf, Rewrapping
    <2> QED
      BY <2>1, <2>2
  <1>7. Opened(proc[p].active)
    BY <1>3, ActiveIsAKey
  <1>8. KeyOK(proc[p])' /\ KekStays
    BY <1>3, <1>5, <1>7 DEF KeyOK, Opened, KekStays
  <1>9. ~Creating(proc'[p]) /\ proc'[p].at # "open" /\ kekFile' = kekFile /\ exposed' = exposed
    BY <1>3, <1>5 DEF Creating, Rewrapping
  <1>10. /\ schema' \in BOOLEAN /\ kekFile' \in {"none", "empty"} \union FileKey
         /\ drawn' \subseteq FileKey /\ starts' \in 0..MaxStarts
         /\ UNCHANGED <<rows, newest, raced, writes>>
    BY <1>3 DEF KsInv, KsType
  <1> QED
    BY <1>5, <1>6, <1>8, <1>9, <1>10, OneProcess

(* A row is written back with the active key. *)
LEMMA RewrapRowGood ==
  ASSUME KsInv, NEW p \in Process, NEW s \in Secret, RewrapRow(p, s)
  PROVE  KsGood
  <1> DEFINE x == proc[p]
             t == x.todo \ {s}
  <1>1. /\ x.at \in {"rewrap tokens", "rewrap dns"} /\ s \in x.todo
        /\ Rewraps(p, x.at, x.copy, t)
        /\ exposed' = exposed \union Strangers(p)
        /\ UNCHANGED <<starts, schema, kekFile, drawn, writes, newest, raced>>
    BY DEF RewrapRow
  <1>2. x \in ProcRec /\ rows \in [Secret -> RowSet] /\ CopyOK(x)
    BY DEF KsInv, KsType, CopyInv
  <1>3. /\ x.copy \in Copies /\ t \in SUBSET Secret
        /\ x.active \in {EnvKey} \union FileKey /\ Opened(x.active)
    BY <1>1, <1>2, ActiveIsAKey DEF ProcRec
  <1>4. PICK T \in {TokenSecret, DnsSecret} :
          /\ x.copy \in [T -> RowSet] /\ x.todo \subseteq T
          /\ x.at = "rewrap tokens" => T = TokenSecret
          /\ x.at = "rewrap dns" => T = DnsSecret
    BY <1>1, <1>2 DEF CopyOK
  <1>5. x.copy[s].val \in 0..MaxWrites /\ (s \in raced \/ x.copy[s].val = newest[s])
    <2>1. x.copy[s] \in RowSet
      BY <1>1, <1>4
    <2>2. x.copy[s].val \in 0..MaxWrites
      BY <2>1, WritesAssumption DEF RowSet, NoRow
    <2> QED
      BY <1>1, <1>2, <2>2 DEF CopyOK
  <1> DEFINE r == [key |-> x.active, val |-> x.copy[s].val]
  <1>6. r \in RowSet /\ r.key = x.active /\ r.val = x.copy[s].val
    BY <1>3, <1>5 DEF RowSet
  <1>7. rows' = rows \/ rows' = [rows EXCEPT ![s] = r]
    BY DEF RewrapRow
  <1>8. /\ proc' \in [Process -> ProcRec] /\ \A q \in Process : q # p => proc'[q] = proc[q]
        /\ proc'[p].active = x.active /\ proc'[p].todo = t
        /\ t # {} => proc'[p].at = x.at /\ proc'[p].copy = x.copy
        /\ t = {} => proc'[p].at \in {"dns", "check"}
    <2>1. PICK n \in Rewrapping, c0 \in Copies, t0 \in SUBSET Secret :
            n = x.at /\ c0 = x.copy /\ t0 = t
      BY <1>1, <1>3 DEF Rewrapping
    <2>2. KsType /\ Rewraps(p, n, c0, t0)
      BY <1>1, <2>1 DEF KsInv
    <2>3. /\ proc' \in [Process -> ProcRec] /\ \A q \in Process : q # p => proc'[q] = proc[q]
          /\ proc'[p].active = proc[p].active /\ proc'[p].todo = t0
          /\ t0 # {} => proc'[p].at = n /\ proc'[p].copy = c0
          /\ t0 = {} => proc'[p].at \in {"dns", "check"}
      BY <2>2, RewrapsMoves
    <2> QED
      BY <2>1, <2>3
  <1> HIDE DEF r
  <1>9. /\ rows' \in [Secret -> RowSet]
        /\ \A u \in Secret : rows'[u] = rows[u] \/ (u = s /\ rows'[u] = r)
    BY <1>2, <1>6, <1>7
  <1>10. KsType'
    <2>1. exposed' \subseteq Process
      BY <1>1 DEF Strangers, KsInv, KsType
    <2> QED
      BY <1>1, <1>8, <1>9, <2>1 DEF KsInv, KsType
  <1>11. KeyInv'
    <2>1. ~Creating(proc'[p]) /\ kekFile' = kekFile
      BY <1>1, <1>8 DEF Creating
    <2>2. ASSUME NEW q \in Process PROVE KeyOK(proc[q])'
      BY <1>3, <1>8, <2>1 DEF KsInv, KeyInv, KeyOK, Opened
    <2>3. ASSUME NEW q \in Process, Creating(proc'[q]) PROVE q # p /\ Creating(proc[q])
      BY <1>8, <2>1, <2>3
    <2> QED
      BY <2>1, <2>2, <2>3 DEF KsInv, KeyInv
  <1>12. CopyInv'
    <2>1. ASSUME NEW q \in Process, q # p PROVE CopyOK(proc[q])'
      <3>1. proc'[q] = proc[q] /\ CopyOK(proc[q])
        BY <1>8, <2>1 DEF KsInv, CopyInv
      <3> QED
        BY <1>1, <3>1 DEF CopyOK
    <2>2. CopyOK(proc[p])'
      <3>1. CASE t = {}
        BY <1>8, <3>1 DEF CopyOK
      <3>2. CASE t # {}
        BY <1>1, <1>2, <1>8, <3>2 DEF CopyOK
      <3> QED
        BY <3>1, <3>2
    <2> QED
      BY <2>1, <2>2 DEF CopyInv
  <1>13. OpenStoreReads'
    <2>1. ASSUME NEW q \in Process, proc'[q].at = "open", q \notin exposed', NEW u \in Secret
          PROVE  Readable(q, u)'
      <3>1. q # p /\ proc'[q] = proc[q]
        BY <1>1, <1>8, <2>1
      <3>2. q \notin exposed /\ proc[q].active = x.active
        BY <1>1, <2>1, <3>1 DEF Strangers
      <3>3. Readable(q, u)
        BY <2>1, <3>1, <3>2 DEF KsInv, OpenStoreReads
      <3> QED
        BY <1>6, <1>9, <3>1, <3>2, <3>3 DEF Readable
    <2> QED
      BY <2>1 DEF OpenStoreReads
  <1>14. NewestSecretStays'
    BY <1>1, <1>5, <1>6, <1>9 DEF KsInv, NewestSecretStays
  <1>15. KeysOf(rows) => KeysOf(rows)'
    BY <1>1, <1>3, <1>6, <1>9 DEF KeysOf, Opened
  <1> QED
    BY <1>1, <1>10, <1>11, <1>12, <1>13, <1>14, <1>15 DEF KsGood, KsInv, KekStays

-----------------------------------------------------------------------------
(* A value is set: whoever was about to write an older one back is noted. *)
LEMMA WriteSecretGood ==
  ASSUME KsInv, NEW p \in Process, NEW s \in Secret, WriteSecret(p, s)
  PROVE  KsGood
  <1> DEFINE r == [key |-> proc[p].active, val |-> writes + 1]
  <1>1. /\ proc[p].at = "open" /\ writes < MaxWrites /\ writes' = writes + 1
        /\ rows' = [rows EXCEPT ![s] = r]
        /\ newest' = [newest EXCEPT ![s] = writes + 1]
        /\ raced' = IF \E q \in Process : WillOverwrite(q, s)
                    THEN raced \union {s} ELSE raced \ {s}
        /\ exposed' = exposed \union Strangers(p)
        /\ UNCHANGED <<starts, schema, kekFile, proc, drawn>>
    BY DEF WriteSecret
  <1>2. proc[p].active \in {EnvKey} \union FileKey /\ Opened(proc[p].active)
    BY <1>1, ActiveIsAKey
  <1>3. writes + 1 \in 0..MaxWrites
    BY <1>1, WritesAssumption DEF KsInv, KsType
  <1>4. r \in RowSet /\ r.key = proc[p].active /\ r.val = writes + 1
    BY <1>2, <1>3 DEF RowSet
  <1> HIDE DEF r
  <1>5. /\ rows' \in [Secret -> RowSet] /\ rows'[s] = r
        /\ \A u \in Secret : u # s => rows'[u] = rows[u]
        /\ newest' \in [Secret -> 0..MaxWrites] /\ newest'[s] = writes + 1
        /\ \A u \in Secret : u # s => newest'[u] = newest[u]
    BY <1>1, <1>3, <1>4 DEF KsInv, KsType
  <1>6. /\ raced' \subseteq Secret /\ \A u \in Secret : u # s => (u \in raced' <=> u \in raced)
    BY <1>1 DEF KsInv, KsType
  <1>7. KsType'
    <2>1. exposed' \subseteq Process
      BY <1>1 DEF Strangers, KsInv, KsType
    <2> QED
      BY <1>1, <1>3, <1>5, <1>6, <2>1 DEF KsInv, KsType
  <1>8. KeyInv'
    BY <1>1 DEF KsInv, KeyInv, KeyOK, Opened
  <1>9. CopyInv'
    <2>1. ASSUME NEW q \in Process PROVE CopyOK(proc[q])'
      <3>1. proc'[q] = proc[q] /\ CopyOK(proc[q]) /\ proc[q].todo \subseteq Secret
        BY <1>1 DEF KsInv, KsType, CopyInv, ProcRec
      <3>2. ASSUME proc[q].at \in {"rewrap tokens", "rewrap dns"}, s \in proc[q].todo
            PROVE  s \in raced'
        <4>1. WillOverwrite(q, s)
          BY <3>1, <3>2 DEF CopyOK, WillOverwrite
        <4> QED
          BY <1>1, <4>1
      <3>3. ASSUME proc[q].at \in {"rewrap tokens", "rewrap dns"}, NEW u \in proc[q].todo
            PROVE  u \in raced' \/ proc[q].copy[u].val = newest'[u]
        BY <1>5, <1>6, <3>1, <3>2, <3>3 DEF CopyOK
      <3> QED
        BY <3>1, <3>3 DEF CopyOK
    <2> QED
      BY <2>1 DEF CopyInv
  <1>10. OpenStoreReads'
    <2>1. ASSUME NEW q \in Process, proc'[q].at = "open", q \notin exposed', NEW u \in Secret
          PROVE  Readable(q, u)'
      <3>1. proc'[q] = proc[q] /\ q \notin exposed /\ proc[q].active = proc[p].active
        BY <1>1, <2>1 DEF Strangers
      <3>2. Readable(q, u)
        BY <2>1, <3>1 DEF KsInv, OpenStoreReads
      <3> QED
        BY <1>4, <1>5, <3>1, <3>2 DEF Readable
    <2> QED
      BY <2>1 DEF OpenStoreReads
  <1>11. NewestSecretStays'
    BY <1>4, <1>5, <1>6 DEF KsInv, NewestSecretStays
  <1>12. KeysOf(rows) => KeysOf(rows)'
    BY <1>1, <1>2, <1>4, <1>5 DEF KeysOf, Opened
  <1> QED
    BY <1>1, <1>7, <1>8, <1>9, <1>10, <1>11, <1>12 DEF KsGood, KsInv, KekStays

(* A token or DNS profile is deleted: no value is left to lose. *)
LEMMA DeleteSecretGood ==
  ASSUME KsInv, NEW p \in Process, NEW s \in Secret, DeleteSecret(p, s)
  PROVE  KsGood
  <1>1. /\ rows' = [rows EXCEPT ![s] = NoRow]
        /\ UNCHANGED <<starts, schema, kekFile, proc, drawn, writes, newest, raced, exposed>>
    BY DEF DeleteSecret, ksHistory
  <1>2. NoRow \in RowSet /\ NoRow.key = "none"
    BY DEF RowSet, NoRow
  <1>3. /\ rows' \in [Secret -> RowSet] /\ rows'[s] = NoRow
        /\ \A u \in Secret : u # s => rows'[u] = rows[u]
    BY <1>1, <1>2 DEF KsInv, KsType
  <1>4. KsType'
    BY <1>1, <1>3 DEF KsInv, KsType
  <1>5. KeyInv'
    BY <1>1 DEF KsInv, KeyInv, KeyOK, Opened
  <1>6. CopyInv'
    BY <1>1 DEF KsInv, CopyInv, CopyOK
  <1>7. OpenStoreReads'
    BY <1>1, <1>2, <1>3 DEF KsInv, OpenStoreReads, Readable
  <1>8. NewestSecretStays'
    BY <1>1, <1>3 DEF KsInv, NewestSecretStays
  <1>9. KeysOf(rows) => KeysOf(rows)'
    BY <1>1, <1>2, <1>3 DEF KeysOf, Opened
  <1> QED
    BY <1>1, <1>4, <1>5, <1>6, <1>7, <1>8, <1>9 DEF KsGood, KsInv, KekStays

(* A process ends or is killed, at any step: it forgets what it has read. *)
LEMMA StopGood ==
  ASSUME KsInv, NEW p \in Process, Stop(p)
  PROVE  /\ KsGood /\ proc'[p].at = "down" /\ \A q \in Process : q # p => proc'[q] = proc[q]
         /\ rows' = rows /\ kekFile' = kekFile
  <1>1. /\ proc' = [proc EXCEPT ![p] = Stopped]
        /\ UNCHANGED <<starts, rows, schema, kekFile, drawn, writes, newest, raced, exposed>>
    BY DEF Stop, ksHistory
  <1>2. Stopped \in ProcRec /\ Stopped.at = "down"
    BY DEF Stopped, ProcRec, Places, Copies
  <1>3. /\ proc' \in [Process -> ProcRec] /\ proc'[p] = Stopped
        /\ \A q \in Process : q # p => proc'[q] = proc[q]
    BY <1>1, <1>2 DEF KsInv, KsType
  <1>4. KeyOK(proc[p])' /\ CopyOK(proc[p])' /\ KekStays
    BY <1>1, <1>2, <1>3 DEF KeyOK, CopyOK, KekStays
  <1>5. ~Creating(proc'[p]) /\ proc'[p].at # "open" /\ kekFile' = kekFile /\ exposed' = exposed
    BY <1>1, <1>2, <1>3 DEF Creating
  <1>6. /\ schema' \in BOOLEAN /\ kekFile' \in {"none", "empty"} \union FileKey
        /\ drawn' \subseteq FileKey /\ starts' \in 0..MaxStarts
        /\ UNCHANGED <<rows, newest, raced, writes>>
    BY <1>1 DEF KsInv, KsType
  <1>7. KsGood
    BY <1>3, <1>4, <1>5, <1>6, OneProcess
  <1> QED
    BY <1>1, <1>2, <1>3, <1>7

(* The operator removes the empty key file while nobody is about to fill it. *)
LEMMA RemoveEmptyFileGood ==
  ASSUME KsInv, RemoveEmptyFile
  PROVE  KsGood
  <1>1. /\ kekFile = "empty" /\ kekFile' = "none" /\ \A p \in Process : ~Creating(proc[p])
        /\ UNCHANGED <<starts, rows, schema, proc, drawn, writes, newest, raced, exposed>>
    BY DEF RemoveEmptyFile, ksHistory, Creating
  <1>2. KekStays
    BY <1>1, KeyAssumption DEF KekStays
  <1>3. KsType'
    BY <1>1 DEF KsInv, KsType
  <1>4. KeyInv'
    <2>1. ASSUME NEW p \in Process PROVE KeyOK(proc[p])'
      BY <1>1, KeyAssumption DEF KsInv, KeyInv, KeyOK, Opened
    <2> QED
      BY <1>1, <2>1 DEF KeyInv
  <1>5. CopyInv'
    BY <1>1 DEF KsInv, CopyInv, CopyOK
  <1>6. OpenStoreReads' /\ NewestSecretStays'
    BY <1>1 DEF KsInv, OpenStoreReads, Readable, NewestSecretStays
  <1>7. KeysOf(rows) => KeysOf(rows)'
    BY <1>1, <1>2, OpenedStays DEF KeysOf
  <1> QED
    BY <1>2, <1>3, <1>4, <1>5, <1>6, <1>7 DEF KsGood, KsInv

(* Whatever a process does, keys and values stay in order, and a process that   *)
(* is open stays open.                                                          *)
LEMMA ProcessGood ==
  ASSUME KsInv, NEW p \in Process, Opens(p) \/ Uses(p)
  PROVE  KsGood /\ \A q \in Process : proc[q].at = "open" => proc'[q].at = "open"
  <1>1. ASSUME ReadTable(p, "tokens", TokenSecret, "rewrap tokens") PROVE KsGood
    <2>1. "rewrap tokens" \in Rewrapping /\ TokenSecret = TableOf("rewrap tokens")
      BY DEF Rewrapping, TableOf
    <2> QED
      BY <1>1, <2>1, ReadTableGood
  <1>2. ASSUME ReadTable(p, "dns", DnsSecret, "rewrap dns") PROVE KsGood
    <2>1. "rewrap dns" \in Rewrapping /\ DnsSecret = TableOf("rewrap dns")
      BY DEF Rewrapping, TableOf
    <2> QED
      BY <1>2, <2>1, ReadTableGood
  <1>3. KsGood
    BY <1>1, <1>2, LoadsGood, CreateFileGood, WriteFileGood, SchemaGood, CheckReadinessGood,
       RewrapRowGood, WriteSecretGood, DeleteSecretGood DEF Opens, Uses, Start, Rewrap
  <1>4. ASSUME NEW q \in Process, proc[q].at = "open" PROVE proc'[q].at = "open"
    <2>1. CASE Uses(p)
      BY <1>4, <2>1 DEF Uses, WriteSecret, DeleteSecret
    <2>2. CASE Opens(p)
      <3>1. proc[p].at # "open" /\ \E x : proc' = [proc EXCEPT ![p] = x]
        BY <2>2, Zenon DEF Opens, Start, StartInjected, StartFromFile, CreateFile, WriteFile, Starts, IsDown,
           Loads, ReadSchema, ApplySchema, CheckReadiness, Rewrap, ReadTable, RewrapRow, Rewraps, At
      <3> QED
        BY <1>4, <3>1 DEF KsInv, KsType
    <2> QED
      BY <2>1, <2>2
  <1> QED
    BY <1>3, <1>4

-----------------------------------------------------------------------------
(***************************************************************************)
(* Backup and restore.                                                     *)
(***************************************************************************)
BackupRec(at, by) ==
    [at : at, by : by, rows : [Secret -> RowSet], kek : {"none", "empty"} \union FileKey,
     files : [File -> 0..MaxIssues], overlap : BOOLEAN]

Stages == {"kek", "cert", "key", "link", "acme"}

(* The key file of a backup opens its rows. *)
OwnKeys(b) == \A s \in Secret : b.rows[s].key \in {"none", "plain", EnvKey, b.kek}

HostType ==
    /\ disk \in [File -> 0..MaxIssues] /\ link \in BOOLEAN
    /\ issue \in {"idle"} \union File

(* Until a backup is there to be restored, the certificate is that of its key,  *)
(* but for an issue that has written one of the two.                            *)
HostInv ==
    /\ issue = "acme" => disk["acme"] < MaxIssues
    /\ saved = NoBackup => IF issue = "key" THEN disk["cert"] = disk["acme"]
                                            ELSE disk["cert"] = disk["key"]

TakenOK ==
    /\ bk \in BackupRec(Stages, Process)
    /\ saved = NoBackup /\ proc[bk.by].at = "open"
    /\ bk.overlap \/ issue = "idle"
    /\ IF bk.at = "kek" THEN KeysOf(bk.rows) ELSE OwnKeys(bk)
    /\ bk.at = "key" => bk.overlap \/ bk.files["cert"] = disk["cert"]
    /\ bk.at \in {"link", "acme"} => bk.overlap \/ bk.files["cert"] = bk.files["key"]

TakenInv == bk = NoBackup \/ TakenOK

SavedInv ==
    \/ saved = NoBackup
    \/ /\ saved \in BackupRec({"saved"}, {"nobody"}) /\ saved # NoBackup
       /\ OwnKeys(saved)
       /\ saved.overlap \/ saved.files["cert"] = saved.files["key"]

(* How far a restore has come. *)
AfterDatabase == {"kek", "certs", "certsMoved", "acme", "acmeMoved", "ok"}
AfterKey      == AfterDatabase \ {"kek"}
AfterMove     == AfterKey \ {"certs"}
AfterCerts    == AfterMove \ {"certsMoved"}

RestoreInv ==
    /\ rst \in {"none", "db", "error"} \union AfterDatabase
    /\ half \in BOOLEAN /\ (half => saved # NoBackup)
    /\ rst # "none" => AllDown /\ issue = "idle" /\ saved # NoBackup
    /\ rst \in AfterDatabase => rows = saved.rows
    /\ rst \in AfterKey => saved.kek \in {"none", kekFile}
    /\ rst \in AfterMove => ~link
    /\ rst \in AfterCerts => disk["cert"] = saved.files["cert"] /\ disk["key"] = saved.files["key"]
    /\ rst = "ok" => disk["acme"] = saved.files["acme"]
    /\ rst \in AfterDatabase \ {"ok"} => half

SecretsInv == half \/ KeysOf(rows)

BkInv == KsInv /\ HostType /\ HostInv /\ TakenInv /\ SavedInv /\ RestoreInv /\ SecretsInv

-----------------------------------------------------------------------------
(* What NoBackup is. *)
LEMMA NoBackupFields ==
  /\ NoBackup.at = "idle" /\ NoBackup.by = "nobody" /\ NoBackup.overlap = FALSE
  /\ NoBackup.kek = "none" /\ NoBackup.files \in [File -> 0..MaxIssues]
  <1>1. NoFiles \in [File -> 0..MaxIssues]
    BY IssuesAssumption DEF NoFiles
  <1> QED
    BY <1>1 DEF NoBackup

(* While a backup is under way there is no finished one, and no restore. *)
LEMMA TakingAlone ==
  ASSUME BkInv, bk.at # "idle"
  PROVE  TakenOK /\ rst = "none" /\ half = FALSE /\ KeysOf(rows)
  <1>1. TakenOK
    BY NoBackupFields DEF BkInv, TakenInv
  <1>2. bk.by \in Process /\ saved = NoBackup
    BY <1>1 DEF TakenOK, BackupRec
  <1> QED
    BY <1>1, <1>2 DEF BkInv, RestoreInv, SecretsInv

(* A step of the key store, no restore being under way. *)
LEMMA KeyStoreStep ==
  ASSUME BkInv, KsGood, rst' = "none", half' = half,
         \A q \in Process : proc[q].at = "open" => proc'[q].at = "open",
         UNCHANGED <<disk, link, issue, bk, saved>>
  PROVE  BkInv'
  <1>1. HostType' /\ HostInv' /\ SavedInv'
    BY DEF BkInv, HostType, HostInv, SavedInv, OwnKeys
  <1>2. RestoreInv'
    BY DEF BkInv, RestoreInv, AfterDatabase, AfterKey, AfterMove, AfterCerts
  <1>3. SecretsInv'
    BY DEF BkInv, SecretsInv, KsGood
  <1>4. TakenInv'
    <2>1. CASE bk = NoBackup
      BY <2>1 DEF TakenInv
    <2>2. CASE TakenOK
      <3>1. bk' = bk /\ bk.by \in Process
        BY <2>2 DEF TakenOK, BackupRec
      <3>2. bk.at = "kek" => KeysOf(bk.rows)'
        <4>1. SUFFICES ASSUME bk.at = "kek" PROVE KeysOf(bk.rows)'
          OBVIOUS
        <4>2. KeysOf(bk.rows) /\ KekStays
          BY <2>2, <4>1 DEF TakenOK, KsGood
        <4> QED
          BY <3>1, <4>2, OpenedStays DEF KeysOf
      <3>3. bk.at # "kek" => OwnKeys(bk)'
        BY <2>2, <3>1 DEF TakenOK, OwnKeys
      <3> QED
        BY <2>2, <3>1, <3>2, <3>3 DEF TakenInv, TakenOK
    <2> QED
      BY <2>1, <2>2 DEF BkInv, TakenInv
  <1> QED
    BY <1>1, <1>2, <1>3, <1>4 DEF BkInv, KsGood

(* The processes work, the operator removes an empty key file. *)
LEMMA WorksGood ==
  ASSUME BkInv, (\E p \in Process : Works(p)) \/ Repairs
  PROVE  BkInv'
  <1>1. CASE \E p \in Process : Works(p)
    <2>1. PICK p \in Process : Works(p)
      BY <1>1
    <2>2. KsGood /\ \A q \in Process : proc[q].at = "open" => proc'[q].at = "open"
      BY <2>1, ProcessGood DEF Works, BkInv
    <2> QED
      BY <2>1, <2>2, KeyStoreStep DEF Works, hostVars, backupVars
  <1>2. CASE Repairs
    <2>1. KsGood /\ proc' = proc
      BY <1>2, RemoveEmptyFileGood DEF Repairs, BkInv, RemoveEmptyFile
    <2> QED
      BY <1>2, <2>1, KeyStoreStep DEF Repairs, hostVars, backupVars
  <1> QED
    BY <1>1, <1>2

(* A process ends, and with it its backup. *)
LEMMA EndsGood ==
  ASSUME BkInv, NEW p \in Process, Ends(p)
  PROVE  BkInv'
  <1>1. /\ KsGood /\ proc'[p].at = "down" /\ \A q \in Process : q # p => proc'[q] = proc[q]
        /\ rows' = rows /\ kekFile' = kekFile
    BY StopGood DEF Ends, BkInv
  <1>2. /\ bk' = IF bk.by = p THEN NoBackup ELSE bk
        /\ UNCHANGED <<disk, link, issue, saved, rst, half>>
    BY DEF Ends, hostVars, rstVars
  <1>3. HostType' /\ HostInv' /\ SavedInv'
    BY <1>2 DEF BkInv, HostType, HostInv, SavedInv, OwnKeys
  <1>4. AllDown => AllDown'
    BY <1>1 DEF AllDown, IsDown
  <1>5. RestoreInv'
    BY <1>1, <1>2, <1>4 DEF BkInv, RestoreInv
  <1>6. SecretsInv'
    BY <1>1, <1>2 DEF BkInv, SecretsInv, KeysOf, Opened
  <1>7. TakenInv'
    BY <1>1, <1>2 DEF BkInv, TakenInv, TakenOK, BackupRec, OwnKeys, KeysOf, Opened
  <1> QED
    BY <1>1, <1>3, <1>5, <1>6, <1>7 DEF BkInv, KsGood

-----------------------------------------------------------------------------
(* Steps that leave the key store alone. *)
LEMMA KeyStoreIdle ==
  ASSUME KsInv, UNCHANGED ksVars
  PROVE  /\ KsInv' /\ rows' = rows /\ kekFile' = kekFile /\ proc' = proc
         /\ \A R : KeysOf(R) => \A s \in Secret : R[s].key \in {"none", "plain"} \/ Opened(R[s].key)'
  <1>1. UNCHANGED <<rows, schema, kekFile, proc, drawn, writes, starts, newest, raced, exposed>>
    BY DEF ksVars, ksHistory
  <1>2. KsType' /\ KeyInv'
    BY <1>1 DEF KsInv, KsType, KeyInv, Creating, KeyOK, Opened
  <1>3. OpenStoreReads' /\ NewestSecretStays'
    BY <1>1 DEF KsInv, OpenStoreReads, Readable, NewestSecretStays
  <1>4. CopyInv'
    BY <1>1 DEF KsInv, CopyInv, CopyOK
  <1>5. \A R : KeysOf(R) => \A s \in Secret : R[s].key \in {"none", "plain"} \/ Opened(R[s].key)'
    BY <1>1 DEF KeysOf, Opened
  <1> QED
    BY <1>1, <1>2, <1>3, <1>4, <1>5 DEF KsInv

(* An issue begins: a backup under way takes note. *)
LEMMA IssueBeginsGood ==
  ASSUME BkInv, IssueBegins, UNCHANGED <<ksVars, rstVars, walLeft>>
  PROVE  BkInv'
  <1>1. /\ issue = "idle" /\ disk["acme"] < MaxIssues /\ issue' = "acme"
        /\ bk' = [bk EXCEPT !.overlap = bk.at # "idle"]
        /\ UNCHANGED <<disk, link, saved, rst, half>> /\ ~AllDown
    BY DEF IssueBegins, rstVars, AllDown, IsDown
  <1>2. KsInv' /\ rows' = rows /\ kekFile' = kekFile /\ proc' = proc
    BY KeyStoreIdle DEF BkInv
  <1>3. HostType' /\ HostInv'
    BY <1>1 DEF BkInv, HostType, HostInv, File
  <1>4. SavedInv' /\ SecretsInv'
    BY <1>1, <1>2 DEF BkInv, SavedInv, OwnKeys, SecretsInv, KeysOf, Opened
  <1>5. rst = "none"
    BY <1>1 DEF BkInv, RestoreInv
  <1>6. RestoreInv'
    BY <1>1, <1>5 DEF BkInv, RestoreInv, AfterDatabase, AfterKey, AfterMove, AfterCerts
  <1>7. TakenInv'
    <2>1. CASE bk = NoBackup
      <3>1. bk.at = "idle"
        BY <2>1, NoBackupFields
      <3>2. bk' = NoBackup
        BY <1>1, <2>1, <3>1 DEF NoBackup
      <3> QED
        BY <3>2 DEF TakenInv
    <2>2. CASE TakenOK
      <3>1. bk \in BackupRec(Stages, Process) /\ bk.at # "idle"
        BY <2>2 DEF TakenOK, BackupRec, Stages
      <3>2. bk' = [bk EXCEPT !.overlap = TRUE]
        BY <1>1, <3>1
      <3>3. /\ bk' \in BackupRec(Stages, Process) /\ bk'.overlap = TRUE /\ bk'.by = bk.by
            /\ bk'.at = bk.at /\ bk'.rows = bk.rows /\ bk'.kek = bk.kek /\ bk'.files = bk.files
        BY <3>1, <3>2 DEF BackupRec
      <3>4. IF bk'.at = "kek" THEN KeysOf(bk.rows)' ELSE OwnKeys(bk)'
        BY <1>2, <2>2, <3>3 DEF TakenOK, KeysOf, OwnKeys, Opened
      <3> QED
        BY <1>1, <1>2, <2>2, <3>3, <3>4 DEF TakenInv, TakenOK
    <2> QED
      BY <2>1, <2>2 DEF BkInv, TakenInv
  <1> QED
    BY <1>2, <1>3, <1>4, <1>6, <1>7 DEF BkInv

(* acme.sh writes the next file. *)
LEMMA IssueWritesGood ==
  ASSUME BkInv, IssueWrites, UNCHANGED <<ksVars, rstVars, walLeft>>
  PROVE  BkInv'
  <1>1. /\ issue # "idle" /\ issue' = NextFile(issue)
        /\ disk' = [disk EXCEPT ![issue] = IF issue = "acme" THEN @ + 1 ELSE disk["acme"]]
        /\ UNCHANGED <<link, bk, saved, rst, half>>
    BY DEF IssueWrites, rstVars, backupVars
  <1>2. KsInv' /\ rows' = rows /\ kekFile' = kekFile /\ proc' = proc
    BY KeyStoreIdle DEF BkInv
  <1>3. issue \in File /\ disk \in [File -> 0..MaxIssues]
    BY <1>1 DEF BkInv, HostType
  <1>4. issue' \in {"idle", "cert", "key"} /\ (issue = "cert" <=> issue' = "key")
        /\ (issue = "key" <=> issue' = "idle")
    BY <1>1, <1>3 DEF NextFile, File
  <1>5. (IF issue = "acme" THEN disk[issue] + 1 ELSE disk["acme"]) \in 0..MaxIssues
    BY <1>3, IssuesAssumption DEF BkInv, HostInv, File
  <1>6. HostType'
    BY <1>1, <1>3, <1>4, <1>5 DEF BkInv, HostType, File
  <1>7. HostInv'
    BY <1>1, <1>3, <1>4 DEF BkInv, HostInv, File
  <1>8. SavedInv' /\ SecretsInv'
    BY <1>1, <1>2 DEF BkInv, SavedInv, OwnKeys, SecretsInv, KeysOf, Opened
  <1>9. rst = "none"
    BY <1>1 DEF BkInv, RestoreInv
  <1>10. RestoreInv'
    BY <1>1, <1>9 DEF BkInv, RestoreInv, AfterDatabase, AfterKey, AfterMove, AfterCerts
  <1>11. TakenInv'
    BY <1>1, <1>2 DEF BkInv, TakenInv, TakenOK, KeysOf, OwnKeys, Opened
  <1> QED
    BY <1>2, <1>6, <1>7, <1>8, <1>10, <1>11 DEF BkInv

(* The first v2 publication makes the link. *)
LEMMA PublishesV2Good ==
  ASSUME BkInv, PublishesV2, UNCHANGED <<ksVars, rstVars, walLeft>>
  PROVE  BkInv'
  <1>1. /\ link' = TRUE /\ UNCHANGED <<disk, issue, bk, saved, rst, half>> /\ ~AllDown
    BY DEF PublishesV2, rstVars, backupVars, AllDown, IsDown
  <1>2. KsInv' /\ rows' = rows /\ kekFile' = kekFile /\ proc' = proc
    BY KeyStoreIdle DEF BkInv
  <1>3. HostType' /\ HostInv'
    BY <1>1 DEF BkInv, HostType, HostInv
  <1>4. SavedInv' /\ SecretsInv'
    BY <1>1, <1>2 DEF BkInv, SavedInv, OwnKeys, SecretsInv, KeysOf, Opened
  <1>5. rst = "none"
    BY <1>1 DEF BkInv, RestoreInv
  <1>6. RestoreInv'
    BY <1>1, <1>5 DEF BkInv, RestoreInv, AfterDatabase, AfterKey, AfterMove, AfterCerts
  <1>7. TakenInv'
    BY <1>1, <1>2 DEF BkInv, TakenInv, TakenOK, KeysOf, OwnKeys, Opened
  <1> QED
    BY <1>2, <1>3, <1>4, <1>6, <1>7 DEF BkInv

-----------------------------------------------------------------------------
(* A step of a backup: what it has to show. *)
LEMMA BackupMoves ==
  ASSUME BkInv, UNCHANGED <<ksVars, hostVars, rstVars, walLeft>>, SavedInv', TakenInv',
         saved' = saved \/ (saved' # NoBackup /\ rst = "none")
  PROVE  BkInv'
  <1>1. UNCHANGED <<disk, link, issue, rst, half>>
    BY DEF hostVars, rstVars
  <1>2. KsInv' /\ rows' = rows /\ kekFile' = kekFile /\ proc' = proc
    BY KeyStoreIdle DEF BkInv
  <1>3. HostType' /\ HostInv'
    BY <1>1 DEF BkInv, HostType, HostInv
  <1>4. SecretsInv'
    BY <1>1, <1>2 DEF BkInv, SecretsInv, KeysOf, Opened
  <1>5. RestoreInv'
    <2>1. CASE saved' = saved
      BY <1>1, <1>2, <2>1 DEF BkInv, RestoreInv, AllDown, IsDown
    <2>2. CASE saved' # NoBackup /\ rst = "none"
      BY <1>1, <2>2 DEF BkInv, RestoreInv, AfterDatabase, AfterKey, AfterMove, AfterCerts
    <2> QED
      BY <2>1, <2>2
  <1> QED
    BY <1>2, <1>3, <1>4, <1>5 DEF BkInv

(* VACUUM INTO copies the rows, in a process that is open. *)
LEMMA BackupDatabaseGood ==
  ASSUME BkInv, NEW p \in Process, BackupDatabase(p),
         UNCHANGED <<ksVars, hostVars, rstVars, walLeft>>
  PROVE  BkInv'
  <1>1. /\ proc[p].at = "open" /\ saved = NoBackup /\ saved' = saved
        /\ bk' = [NoBackup EXCEPT !.at = "kek", !.by = p, !.rows = rows, !.overlap = issue # "idle"]
    BY DEF BackupDatabase
  <1>2. /\ bk'.at = "kek" /\ bk'.by = p /\ bk'.rows = rows /\ bk'.kek = "none"
        /\ bk'.files = NoBackup.files /\ bk'.overlap = (issue # "idle")
        /\ bk' \in BackupRec(Stages, Process)
    <2>1. bk' = [at |-> "kek", by |-> p, rows |-> rows, kek |-> "none",
                 files |-> NoFiles, overlap |-> issue # "idle"]
      BY <1>1 DEF NoBackup
    <2>2. NoFiles = NoBackup.files /\ NoFiles \in [File -> 0..MaxIssues]
      BY NoBackupFields DEF NoBackup
    <2>3. rows \in [Secret -> RowSet] /\ (issue # "idle") \in BOOLEAN
      BY DEF BkInv, KsInv, KsType
    <2> QED
      BY <2>1, <2>2, <2>3 DEF BackupRec, Stages
  <1>3. KsInv' /\ rows' = rows /\ kekFile' = kekFile /\ proc' = proc /\ issue' = issue
    BY KeyStoreIdle DEF BkInv, hostVars
  <1>4. KeysOf(rows)
    BY <1>1 DEF BkInv, RestoreInv, SecretsInv
  <1>5. KeysOf(bk.rows)'
    BY <1>2, <1>3, <1>4 DEF KeysOf, Opened
  <1>6. bk'.overlap \/ issue' = "idle"
    BY <1>2, <1>3
  <1>7. TakenInv'
    BY <1>1, <1>2, <1>3, <1>5, <1>6 DEF TakenInv, TakenOK
  <1>8. SavedInv'
    BY <1>1 DEF SavedInv
  <1> QED
    BY <1>1, <1>7, <1>8, BackupMoves

(* The key file follows: it can only have been written since, not replaced. *)
LEMMA BackupKeyGood ==
  ASSUME BkInv, BackupKey, UNCHANGED <<ksVars, hostVars, rstVars, walLeft>>
  PROVE  BkInv'
  <1>1. bk.at = "kek" /\ bk' = [bk EXCEPT !.at = "cert", !.kek = kekFile] /\ saved' = saved
    BY DEF BackupKey
  <1>2. TakenOK
    BY <1>1, TakingAlone
  <1>3. bk \in BackupRec(Stages, Process) /\ kekFile \in {"none", "empty"} \union FileKey
    BY <1>2 DEF TakenOK, BkInv, KsInv, KsType
  <1>4. /\ bk' \in BackupRec(Stages, Process) /\ bk'.at = "cert" /\ bk'.kek = kekFile
        /\ bk'.by = bk.by /\ bk'.rows = bk.rows /\ bk'.overlap = bk.overlap
    BY <1>1, <1>3 DEF BackupRec, Stages
  <1>5. proc' = proc /\ issue' = issue
    BY KeyStoreIdle DEF BkInv, hostVars
  <1>6. KeysOf(bk.rows)
    BY <1>1, <1>2 DEF TakenOK
  <1>7. OwnKeys(bk)'
    BY <1>4, <1>6 DEF OwnKeys, KeysOf, Opened
  <1>8. TakenInv'
    BY <1>1, <1>2, <1>4, <1>5, <1>7 DEF TakenInv, TakenOK
  <1>9. SavedInv'
    BY <1>1 DEF BkInv, SavedInv, OwnKeys
  <1> QED
    BY <1>1, <1>8, <1>9, BackupMoves

(* copyTree: with no issue under way the two files belong together. *)
LEMMA BackupFileGood ==
  ASSUME BkInv, BackupFile("cert", "key") \/ BackupFile("key", "link"),
         UNCHANGED <<ksVars, hostVars, rstVars, walLeft>>
  PROVE  BkInv'
  <1>1. PICK f \in {"cert", "key"} : \E n \in {"key", "link"} :
          /\ bk.at = f /\ (f = "cert" => n = "key") /\ (f = "key" => n = "link")
          /\ bk' = [bk EXCEPT !.at = n, !.files[f] = disk[f]] /\ saved' = saved
    BY DEF BackupFile
  <1>2. PICK n \in {"key", "link"} :
          /\ bk.at = f /\ (f = "cert" => n = "key") /\ (f = "key" => n = "link")
          /\ bk' = [bk EXCEPT !.at = n, !.files[f] = disk[f]] /\ saved' = saved
    BY <1>1
  <1>3. TakenOK
    BY <1>2, TakingAlone
  <1>4. bk \in BackupRec(Stages, Process) /\ disk \in [File -> 0..MaxIssues] /\ f \in File
    BY <1>3 DEF TakenOK, BkInv, HostType, File
  <1>5. /\ bk' \in BackupRec(Stages, Process) /\ bk'.at = n /\ bk'.kek = bk.kek
        /\ bk'.by = bk.by /\ bk'.rows = bk.rows /\ bk'.overlap = bk.overlap
        /\ bk'.files[f] = disk[f] /\ (f = "key" => bk'.files["cert"] = bk.files["cert"])
    BY <1>2, <1>4 DEF BackupRec, Stages, File
  <1>6. proc' = proc /\ issue' = issue /\ disk' = disk
    BY KeyStoreIdle DEF BkInv, hostVars
  <1>7. OwnKeys(bk)'
    BY <1>2, <1>3, <1>5 DEF TakenOK, OwnKeys
  <1>8. bk.overlap \/ disk["cert"] = disk["key"]
    BY <1>3 DEF TakenOK, BkInv, HostInv
  <1>9. TakenInv'
    BY <1>2, <1>3, <1>5, <1>6, <1>7, <1>8 DEF TakenInv, TakenOK
  <1>10. SavedInv'
    BY <1>2 DEF BkInv, SavedInv, OwnKeys
  <1> QED
    BY <1>2, <1>9, <1>10, BackupMoves

(* The walk passes where the link would be, or the backup ends. *)
LEMMA BackupEndsGood ==
  ASSUME BkInv, BackupLink \/ BackupFails, UNCHANGED <<ksVars, hostVars, rstVars, walLeft>>
  PROVE  BkInv'
  <1>1. /\ bk' = NoBackup \/ (bk.at = "link" /\ bk' = [bk EXCEPT !.at = "acme"])
        /\ saved' = saved
    BY DEF BackupLink, BackupFails
  <1>2. SavedInv'
    BY <1>1 DEF BkInv, SavedInv, OwnKeys
  <1>3. CASE bk' = NoBackup
    BY <1>1, <1>2, <1>3, BackupMoves DEF TakenInv
  <1>4. CASE bk.at = "link" /\ bk' = [bk EXCEPT !.at = "acme"]
    <2>1. TakenOK
      BY <1>4, TakingAlone
    <2>2. bk \in BackupRec(Stages, Process)
      BY <2>1 DEF TakenOK
    <2>3. /\ bk' \in BackupRec(Stages, Process) /\ bk'.at = "acme" /\ bk'.kek = bk.kek
          /\ bk'.by = bk.by /\ bk'.rows = bk.rows /\ bk'.overlap = bk.overlap
          /\ bk'.files = bk.files
      BY <1>4, <2>2 DEF BackupRec, Stages
    <2>4. proc' = proc /\ issue' = issue
      BY KeyStoreIdle DEF BkInv, hostVars
    <2>5. OwnKeys(bk)'
      BY <1>4, <2>1, <2>3 DEF TakenOK, OwnKeys
    <2>6. TakenInv'
      BY <1>1, <1>4, <2>1, <2>3, <2>4, <2>5 DEF TakenInv, TakenOK
    <2> QED
      BY <1>1, <1>2, <2>6, BackupMoves
  <1> QED
    BY <1>1, <1>3, <1>4

(* The backup is complete. *)
LEMMA BackupRenameGood ==
  ASSUME BkInv, BackupRename, UNCHANGED <<ksVars, hostVars, rstVars, walLeft>>
  PROVE  BkInv'
  <1>1. /\ bk.at = "acme" /\ bk' = NoBackup
        /\ saved' = [bk EXCEPT !.at = "saved", !.by = "nobody", !.files["acme"] = disk["acme"]]
    BY DEF BackupRename
  <1>2. TakenOK /\ rst = "none"
    BY <1>1, TakingAlone
  <1>3. bk \in BackupRec(Stages, Process) /\ disk \in [File -> 0..MaxIssues]
    BY <1>2 DEF TakenOK, BkInv, HostType
  <1>4. /\ saved' \in BackupRec({"saved"}, {"nobody"}) /\ saved'.at = "saved"
        /\ saved'.kek = bk.kek /\ saved'.rows = bk.rows /\ saved'.overlap = bk.overlap
        /\ saved'.files["cert"] = bk.files["cert"] /\ saved'.files["key"] = bk.files["key"]
    BY <1>1, <1>3 DEF BackupRec, File
  <1>5. saved' # NoBackup
    BY <1>4, NoBackupFields
  <1>6. OwnKeys(saved)' /\ (saved'.overlap \/ saved'.files["cert"] = saved'.files["key"])
    BY <1>1, <1>2, <1>4 DEF TakenOK, OwnKeys
  <1>7. SavedInv' /\ TakenInv'
    BY <1>1, <1>4, <1>5, <1>6 DEF SavedInv, TakenInv
  <1> QED
    BY <1>2, <1>5, <1>7, BackupMoves

-----------------------------------------------------------------------------
(* With every process down, only the rows and the key file matter. *)
LEMMA NobodyRuns ==
  ASSUME AllDown', proc' \in [Process -> ProcRec]
  PROVE  KeyInv' /\ CopyInv' /\ OpenStoreReads'
  <1>1. \A p \in Process : proc'[p].at = "down"
    BY DEF AllDown, IsDown
  <1>2. KeyInv'
    BY <1>1 DEF KeyInv, Creating, KeyOK
  <1>3. CopyInv'
    BY <1>1 DEF CopyInv, CopyOK
  <1>4. OpenStoreReads'
    BY <1>1 DEF OpenStoreReads
  <1> QED
    BY <1>2, <1>3, <1>4

(* A restore has the host to itself. *)
LEMMA RestoringAlone ==
  ASSUME BkInv, rst # "none"
  PROVE  /\ AllDown /\ issue = "idle" /\ saved # NoBackup /\ bk = NoBackup
         /\ saved \in BackupRec({"saved"}, {"nobody"}) /\ OwnKeys(saved)
  BY DEF BkInv, RestoreInv, SavedInv, TakenInv, TakenOK

(* A step of a restore, or a new host: what it has to show. *)
LEMMA RestoreMovesOn ==
  ASSUME BkInv, UNCHANGED <<bk, saved, issue>>, bk = NoBackup, issue = "idle", saved # NoBackup,
         KsInv', disk' \in [File -> 0..MaxIssues], link' \in BOOLEAN, RestoreInv', SecretsInv'
  PROVE  BkInv'
  <1>1. HostType' /\ HostInv'
    BY DEF HostType, HostInv
  <1>2. SavedInv' /\ TakenInv'
    BY DEF BkInv, SavedInv, OwnKeys, TakenInv
  <1> QED
    BY <1>1, <1>2 DEF BkInv

(* The command begins, fails, or moves or places a tree. *)
LEMMA RestoreBeginsGood ==
  ASSUME BkInv, RestoreBegins \/ RestoreFails, UNCHANGED <<backupVars, walLeft>>
  PROVE  BkInv'
  <1>1. /\ rst' \in {"db", "error"} /\ AllDown /\ issue = "idle" /\ saved # NoBackup
        /\ bk = NoBackup /\ UNCHANGED <<disk, link, issue, half, bk, saved>>
    <2>1. CASE RestoreBegins
      <3>1. saved # NoBackup /\ AllDown /\ issue = "idle"
        BY <2>1 DEF RestoreBegins
      <3>2. bk = NoBackup
        BY <3>1 DEF BkInv, TakenInv, TakenOK
      <3> QED
        BY <2>1, <3>1, <3>2 DEF RestoreBegins, hostVars, backupVars
    <2>2. CASE RestoreFails
      BY <2>2, RestoringAlone DEF RestoreFails, Restoring, hostVars, backupVars
    <2> QED
      BY <2>1, <2>2
  <1>2. UNCHANGED ksVars
    BY DEF RestoreBegins, RestoreFails
  <1>3. KsInv' /\ rows' = rows /\ kekFile' = kekFile /\ proc' = proc
    BY <1>2, KeyStoreIdle DEF BkInv
  <1>4. SecretsInv'
    BY <1>1, <1>3 DEF BkInv, SecretsInv, KeysOf, Opened
  <1>5. RestoreInv'
    BY <1>1, <1>3 DEF BkInv, RestoreInv, AfterDatabase, AfterKey, AfterMove, AfterCerts, AllDown, IsDown
  <1>6. disk' \in [File -> 0..MaxIssues] /\ link' \in BOOLEAN
    BY <1>1 DEF BkInv, HostType
  <1> QED
    BY <1>1, <1>3, <1>4, <1>5, <1>6, RestoreMovesOn

(* The database is replaced. *)
LEMMA RestoreDatabaseGood ==
  ASSUME BkInv, RestoreDatabase, UNCHANGED <<backupVars, walLeft>>
  PROVE  BkInv'
  <1>1. /\ rst = "db" /\ rows' = saved.rows /\ schema' = TRUE
        /\ newest' = [s \in Secret |-> saved.rows[s].val] /\ raced' = {}
        /\ rst' = "kek" /\ half' = TRUE
        /\ UNCHANGED <<kekFile, proc, drawn, writes, starts, exposed, disk, link, issue, bk, saved>>
    BY DEF RestoreDatabase, hostVars, backupVars
  <1>2. /\ AllDown /\ issue = "idle" /\ saved # NoBackup /\ bk = NoBackup
        /\ saved \in BackupRec({"saved"}, {"nobody"})
    BY <1>1, RestoringAlone
  <1>3. rows' \in [Secret -> RowSet]
    BY <1>1, <1>2 DEF BackupRec
  <1>4. newest' \in [Secret -> 0..MaxWrites]
    <2>1. ASSUME NEW s \in Secret PROVE saved.rows[s].val \in 0..MaxWrites
      <3>1. saved.rows[s] \in RowSet
        BY <1>1, <1>3
      <3> QED
        BY <3>1, WritesAssumption DEF RowSet, NoRow
    <2> QED
      BY <1>1, <2>1
  <1>5. KsType'
    BY <1>1, <1>3, <1>4 DEF BkInv, KsInv, KsType
  <1>6. AllDown' /\ proc' \in [Process -> ProcRec]
    BY <1>1, <1>2, <1>5 DEF AllDown, IsDown, KsType
  <1>7. KeyInv' /\ CopyInv' /\ OpenStoreReads'
    BY <1>6, NobodyRuns
  <1>8. NewestSecretStays'
    BY <1>1 DEF NewestSecretStays
  <1>9. KsInv' /\ SecretsInv'
    BY <1>1, <1>5, <1>7, <1>8 DEF KsInv, SecretsInv
  <1>10. RestoreInv'
    BY <1>1, <1>2, <1>6 DEF RestoreInv, AfterDatabase, AfterKey, AfterMove, AfterCerts
  <1>11. disk' \in [File -> 0..MaxIssues] /\ link' \in BOOLEAN
    BY <1>1 DEF BkInv, HostType
  <1> QED
    BY <1>1, <1>2, <1>9, <1>10, <1>11, RestoreMovesOn

(* The key file is replaced, if the backup has one. *)
LEMMA RestoreKeyGood ==
  ASSUME BkInv, RestoreKey, UNCHANGED <<backupVars, walLeft>>
  PROVE  BkInv'
  <1>1. /\ rst = "kek" /\ rst' = "certs"
        /\ kekFile' = IF saved.kek = "none" THEN kekFile ELSE saved.kek
        /\ UNCHANGED <<rows, schema, proc, drawn, writes, starts, newest, raced, exposed>>
        /\ UNCHANGED <<disk, link, issue, half, bk, saved>>
    BY DEF RestoreKey, hostVars, backupVars, ksHistory
  <1>2. /\ AllDown /\ issue = "idle" /\ saved # NoBackup /\ bk = NoBackup
        /\ saved \in BackupRec({"saved"}, {"nobody"})
    BY <1>1, RestoringAlone
  <1>3. kekFile' \in {"none", "empty"} \union FileKey /\ saved.kek \in {"none", kekFile'}
    BY <1>1, <1>2 DEF BackupRec, BkInv, KsInv, KsType
  <1>4. KsType'
    BY <1>1, <1>3 DEF BkInv, KsInv, KsType
  <1>5. AllDown' /\ proc' \in [Process -> ProcRec]
    BY <1>1, <1>2, <1>4 DEF AllDown, IsDown, KsType
  <1>6. KeyInv' /\ CopyInv' /\ OpenStoreReads'
    BY <1>5, NobodyRuns
  <1>7. NewestSecretStays'
    BY <1>1 DEF BkInv, KsInv, NewestSecretStays
  <1>8. rows = saved.rows /\ half = TRUE
    BY <1>1 DEF BkInv, RestoreInv, AfterDatabase
  <1>9. KsInv' /\ SecretsInv'
    BY <1>1, <1>4, <1>6, <1>7, <1>8 DEF KsInv, SecretsInv
  <1>10. RestoreInv'
    BY <1>1, <1>2, <1>3, <1>5, <1>8 DEF RestoreInv, AfterDatabase, AfterKey, AfterMove, AfterCerts
  <1>11. disk' \in [File -> 0..MaxIssues] /\ link' \in BOOLEAN
    BY <1>1 DEF BkInv, HostType
  <1> QED
    BY <1>1, <1>2, <1>9, <1>10, <1>11, RestoreMovesOn

(* A tree steps aside. *)
LEMMA RestoreMovesGood ==
  ASSUME BkInv, RestoreMoves("certs", "certsMoved") \/ RestoreMoves("acme", "acmeMoved"),
         UNCHANGED <<backupVars, walLeft>>
  PROVE  BkInv'
  <1>1. /\ rst \in {"certs", "acme"} /\ UNCHANGED ksVars
        /\ UNCHANGED <<issue, half, bk, saved>>
        /\ disk' = [f \in File |-> IF f \in Trees[rst] THEN 0 ELSE disk[f]]
        /\ rst = "certs" => rst' = "certsMoved"
        /\ rst = "acme" => rst' = "acmeMoved"
    BY DEF RestoreMoves, backupVars
  <1>2. (rst = "certs" => link' = FALSE) /\ (rst = "acme" => link' = link)
    <2>1. CASE RestoreMoves("certs", "certsMoved")
      BY <2>1 DEF RestoreMoves
    <2>2. CASE RestoreMoves("acme", "acmeMoved")
      <3>1. rst = "acme" /\ link' = (link /\ "acme" # "certs") /\ link \in BOOLEAN
        BY <2>2 DEF RestoreMoves, BkInv, HostType
      <3> QED
        BY <3>1
    <2> QED
      BY <2>1, <2>2
  <1>3. AllDown /\ issue = "idle" /\ saved # NoBackup /\ bk = NoBackup
    BY <1>1, RestoringAlone
  <1>4. KsInv' /\ rows' = rows /\ kekFile' = kekFile /\ proc' = proc
    BY <1>1, KeyStoreIdle DEF BkInv
  <1>5. half /\ rows = saved.rows /\ saved.kek \in {"none", kekFile}
    BY <1>1 DEF BkInv, RestoreInv, AfterDatabase, AfterKey
  <1>6. disk' \in [File -> 0..MaxIssues] /\ link' \in BOOLEAN
    <2>1. disk \in [File -> 0..MaxIssues] /\ 0 \in 0..MaxIssues /\ link \in BOOLEAN
      BY IssuesAssumption DEF BkInv, HostType
    <2>2. disk' \in [File -> 0..MaxIssues]
      BY <1>1, <2>1
    <2>3. link' \in BOOLEAN
      BY <1>1, <1>2, <2>1
    <2> QED
      BY <2>2, <2>3
  <1>7. rst' = "acmeMoved" =>
          /\ ~link' /\ disk'["cert"] = saved.files["cert"] /\ disk'["key"] = saved.files["key"]
    <2>1. SUFFICES ASSUME rst = "acme"
                   PROVE  /\ ~link' /\ disk'["cert"] = saved.files["cert"]
                          /\ disk'["key"] = saved.files["key"]
      BY <1>1
    <2>2. /\ ~link /\ disk["cert"] = saved.files["cert"] /\ disk["key"] = saved.files["key"]
      BY <2>1 DEF BkInv, RestoreInv, AfterDatabase, AfterKey, AfterMove, AfterCerts
    <2>3. disk'["cert"] = disk["cert"] /\ disk'["key"] = disk["key"]
      BY <1>1, <2>1 DEF Trees, File
    <2> QED
      BY <1>2, <2>1, <2>2, <2>3
  <1>8. RestoreInv'
    BY <1>1, <1>2, <1>3, <1>4, <1>5, <1>7
       DEF RestoreInv, AfterDatabase, AfterKey, AfterMove, AfterCerts, AllDown, IsDown
  <1>9. SecretsInv'
    BY <1>1, <1>5 DEF SecretsInv
  <1> QED
    BY <1>1, <1>3, <1>4, <1>6, <1>8, <1>9, RestoreMovesOn

(* The rows and the key file are both those of the backup: they fit. *)
LEMMA RestoredKeysFit ==
  ASSUME BkInv, rst \in AfterKey
  PROVE  KeysOf(rows)
  <1>1. saved \in BackupRec({"saved"}, {"nobody"}) /\ OwnKeys(saved)
    BY RestoringAlone DEF AfterKey, AfterDatabase
  <1>2. rows = saved.rows /\ saved.kek \in {"none", kekFile}
    BY DEF BkInv, RestoreInv, AfterKey, AfterDatabase
  <1>3. ASSUME NEW s \in Secret
        PROVE  rows[s].key \in {"none", "plain"} \/ Opened(rows[s].key)
    <2>1. rows[s].key \in {"none", "plain", EnvKey, saved.kek} /\ rows[s] \in RowSet
      BY <1>1, <1>2 DEF OwnKeys, BackupRec
    <2>2. rows[s].key \in {"none", "plain", EnvKey} \union FileKey
      BY <2>1 DEF RowSet, NoRow
    <2> QED
      BY <1>2, <2>1, <2>2 DEF Opened
  <1> QED
    BY <1>3 DEF KeysOf

(* A tree is placed; with the second one the restore is done. *)
LEMMA RestorePlacesGood ==
  ASSUME BkInv, UNCHANGED <<backupVars, walLeft>>,
         \/ RestorePlaces("certs", "certsMoved", "acme")
         \/ RestorePlaces("acme", "acmeMoved", "ok")
  PROVE  BkInv'
  <1>1. /\ rst \in {"certsMoved", "acmeMoved"} /\ UNCHANGED ksVars
        /\ UNCHANGED <<link, issue, bk, saved>>
        /\ rst = "certsMoved" => rst' = "acme" /\ disk' =
             [f \in File |-> IF f \in Trees["certs"] THEN saved.files[f] ELSE disk[f]]
        /\ rst = "acmeMoved" => rst' = "ok" /\ disk' =
             [f \in File |-> IF f \in Trees["acme"] THEN saved.files[f] ELSE disk[f]]
    BY DEF RestorePlaces, backupVars
  <1>2. /\ AllDown /\ issue = "idle" /\ saved # NoBackup /\ bk = NoBackup
        /\ saved \in BackupRec({"saved"}, {"nobody"})
    BY <1>1, RestoringAlone
  <1>3. KsInv' /\ rows' = rows /\ kekFile' = kekFile /\ proc' = proc
    BY <1>1, KeyStoreIdle DEF BkInv
  <1>4. half = TRUE /\ rows = saved.rows /\ saved.kek \in {"none", kekFile} /\ ~link
    BY <1>1 DEF BkInv, RestoreInv, AfterDatabase, AfterKey, AfterMove
  <1>5. (rst = "certsMoved" => half' = TRUE) /\ (rst = "acmeMoved" => half' = FALSE)
    BY <1>4 DEF RestorePlaces
  <1>6. disk' \in [File -> 0..MaxIssues] /\ link' \in BOOLEAN
    BY <1>1, <1>2 DEF BkInv, HostType, BackupRec
  <1>7. /\ disk'["cert"] = saved.files["cert"] /\ disk'["key"] = saved.files["key"]
        /\ rst = "acmeMoved" => disk'["acme"] = saved.files["acme"]
    <2>1. CASE rst = "certsMoved"
      BY <1>1, <2>1 DEF Trees, File
    <2>2. CASE rst = "acmeMoved"
      <3>1. disk["cert"] = saved.files["cert"] /\ disk["key"] = saved.files["key"]
        BY <2>2 DEF BkInv, RestoreInv, AfterDatabase, AfterKey, AfterMove, AfterCerts
      <3> QED
        BY <1>1, <2>2, <3>1 DEF Trees, File
    <2> QED
      BY <1>1, <2>1, <2>2
  <1>8. AllDown'
    BY <1>2, <1>3 DEF AllDown, IsDown
  <1>9. RestoreInv'
    <2>1. CASE rst = "certsMoved"
      BY <1>1, <1>2, <1>3, <1>4, <1>5, <1>7, <1>8, <2>1
         DEF RestoreInv, AfterDatabase, AfterKey, AfterMove, AfterCerts
    <2>2. CASE rst = "acmeMoved"
      BY <1>1, <1>2, <1>3, <1>4, <1>5, <1>7, <1>8, <2>2
         DEF RestoreInv, AfterDatabase, AfterKey, AfterMove, AfterCerts
    <2> QED
      BY <1>1, <2>1, <2>2
  <1>10. SecretsInv'
    <2>1. KeysOf(rows)
      BY <1>1, RestoredKeysFit DEF AfterKey, AfterDatabase
    <2> QED
      BY <1>3, <2>1 DEF SecretsInv, KeysOf, Opened
  <1> QED
    BY <1>1, <1>2, <1>3, <1>6, <1>9, <1>10, RestoreMovesOn

(* A new machine has nothing on it. *)
LEMMA NewHostGood ==
  ASSUME BkInv, NewHost
  PROVE  BkInv'
  <1>1. /\ AllDown /\ issue = "idle" /\ saved # NoBackup
        /\ rows' = [s \in Secret |-> NoRow] /\ schema' = FALSE /\ kekFile' = "none"
        /\ newest' = [s \in Secret |-> 0] /\ raced' = {}
        /\ disk' = NoFiles /\ link' = FALSE /\ rst' = "none" /\ half' = FALSE
        /\ UNCHANGED <<proc, drawn, writes, starts, exposed, issue, bk, saved>>
    BY DEF NewHost, backupVars
  <1>2. bk = NoBackup
    BY <1>1 DEF BkInv, TakenInv, TakenOK
  <1>3. NoRow \in RowSet /\ NoRow.key = "none"
    BY DEF RowSet, NoRow
  <1>4. KsType'
    <2>1. rows' \in [Secret -> RowSet] /\ schema' \in BOOLEAN
      BY <1>1, <1>3
    <2>2. newest' \in [Secret -> 0..MaxWrites]
      BY <1>1, WritesAssumption
    <2> QED
      BY <1>1, <2>1, <2>2 DEF BkInv, KsInv, KsType
  <1>5. AllDown' /\ proc' \in [Process -> ProcRec]
    BY <1>1, <1>4 DEF AllDown, IsDown, KsType
  <1>6. KeyInv' /\ CopyInv' /\ OpenStoreReads'
    BY <1>5, NobodyRuns
  <1>7. NewestSecretStays' /\ SecretsInv'
    BY <1>1, <1>3 DEF NewestSecretStays, SecretsInv, KeysOf
  <1>8. disk' \in [File -> 0..MaxIssues] /\ link' \in BOOLEAN
    <2>1. NoFiles \in [File -> 0..MaxIssues]
      BY IssuesAssumption DEF NoFiles
    <2> QED
      BY <1>1, <2>1
  <1>9. RestoreInv'
    BY <1>1 DEF RestoreInv, AfterDatabase, AfterKey, AfterMove, AfterCerts
  <1> QED
    BY <1>1, <1>2, <1>4, <1>6, <1>7, <1>8, <1>9, RestoreMovesOn DEF KsInv

-----------------------------------------------------------------------------
(* A v1 database, or one with a key file that opens its rows. *)
LEMMA InitBkInv == Init => BkInv
  <1> SUFFICES ASSUME Init PROVE BkInv
    OBVIOUS
  <1>1. /\ kekFile \in {"none"} \union FileKey /\ schema \in BOOLEAN
        /\ rows \in [Secret -> {[key |-> k, val |-> 0] : k \in {"none", "plain", kekFile}}]
        /\ proc = [p \in Process |-> Stopped]
        /\ drawn = {kekFile} \ {"none"} /\ writes = 0 /\ starts = 0
        /\ newest = [s \in Secret |-> 0] /\ raced = {} /\ exposed = {}
        /\ disk = NoFiles /\ link = FALSE /\ issue = "idle"
        /\ bk = NoBackup /\ saved = NoBackup /\ rst = "none" /\ half = FALSE
    BY DEF Init, KsInit
  <1>2. ASSUME NEW s \in Secret
        PROVE  /\ rows[s] \in RowSet /\ rows[s].val = 0
               /\ rows[s].key \in {"none", "plain"} \/ Opened(rows[s].key)
    <2>1. PICK k \in {"none", "plain", kekFile} : rows[s] = [key |-> k, val |-> 0]
      BY <1>1
    <2>2. 0 \in 0..MaxWrites
      BY WritesAssumption
    <2> QED
      BY <1>1, <2>1, <2>2 DEF RowSet, NoRow, Opened
  <1>3. Stopped \in ProcRec /\ Stopped.at = "down"
    BY DEF Stopped, ProcRec, Places, Copies
  <1>4. KsType
    <2>1. rows \in [Secret -> RowSet]
      BY <1>1, <1>2
    <2>2. proc \in [Process -> ProcRec]
      BY <1>1, <1>3
    <2>3. 0 \in 0..MaxWrites /\ 0 \in 0..MaxStarts
      BY WritesAssumption
    <2>4. newest \in [Secret -> 0..MaxWrites]
      BY <1>1, <2>3
    <2> QED
      BY <1>1, <2>1, <2>2, <2>3, <2>4 DEF KsType
  <1>5. \A p \in Process : proc[p].at = "down"
    BY <1>1, <1>3
  <1>6. KeyInv /\ OpenStoreReads
    BY <1>5 DEF KeyInv, Creating, KeyOK, OpenStoreReads
  <1>7. CopyInv
    BY <1>5 DEF CopyInv, CopyOK
  <1>8. NewestSecretStays /\ SecretsInv
    BY <1>1, <1>2 DEF NewestSecretStays, SecretsInv, KeysOf
  <1>9. disk \in [File -> 0..MaxIssues] /\ disk["cert"] = disk["key"]
    BY <1>1, IssuesAssumption DEF NoFiles, File
  <1>10. HostType /\ HostInv /\ TakenInv /\ SavedInv
    BY <1>1, <1>9 DEF HostType, HostInv, TakenInv, SavedInv
  <1>11. RestoreInv
    BY <1>1 DEF RestoreInv, AfterDatabase, AfterKey, AfterMove, AfterCerts
  <1> QED
    BY <1>4, <1>6, <1>7, <1>8, <1>10, <1>11 DEF BkInv, KsInv

(* Nothing happens. *)
LEMMA StutterGood ==
  ASSUME BkInv, UNCHANGED bkVars
  PROVE  BkInv'
  <1>1. /\ UNCHANGED <<ksVars, hostVars, rstVars, walLeft>> /\ bk' = bk /\ saved' = saved
    BY DEF bkVars, backupVars
  <1>2. kekFile' = kekFile /\ proc' = proc /\ disk' = disk /\ issue' = issue
    BY <1>1, KeyStoreIdle DEF BkInv, hostVars
  <1>3. SavedInv' /\ TakenInv'
    BY <1>1, <1>2 DEF BkInv, SavedInv, TakenInv, TakenOK, OwnKeys, KeysOf, Opened
  <1> QED
    BY <1>1, <1>3, BackupMoves

(* Every step keeps the invariant. *)
LEMMA NextBkInv == BkInv /\ [Next]_bkVars => BkInv'
  <1> SUFFICES ASSUME BkInv, [Next]_bkVars PROVE BkInv'
    OBVIOUS
  <1>1. CASE (\E p \in Process : Works(p)) \/ Repairs
    BY <1>1, WorksGood
  <1>2. ASSUME NEW p \in Process, Ends(p) PROVE BkInv'
    BY <1>2, EndsGood
  <1>3. CASE HostStep
    BY <1>3, IssueBeginsGood, IssueWritesGood, PublishesV2Good DEF HostStep
  <1>4. CASE BackupStep
    BY <1>4, BackupDatabaseGood, BackupKeyGood, BackupFileGood, BackupEndsGood, BackupRenameGood
       DEF BackupStep
  <1>5. CASE RestoreStep
    BY <1>5, RestoreBeginsGood, RestoreDatabaseGood, RestoreKeyGood, RestoreMovesGood,
       RestorePlacesGood DEF RestoreStep
  <1>6. CASE NewHost
    BY <1>6, NewHostGood
  <1>7. CASE UNCHANGED bkVars
    BY <1>7, StutterGood
  <1> QED
    BY <1>1, <1>2, <1>3, <1>4, <1>5, <1>6, <1>7 DEF Next

(* The inductive invariant of the key store with its backups: which keys a     *)
(* process may hold, what a start has read, what a backup under way and a      *)
(* restore under way have done so far.                                         *)
THEOREM BackupInvariance == Spec => []BkInv
  BY InitBkInv, NextBkInv, PTL DEF Spec

-----------------------------------------------------------------------------
(* Type correctness of the key store and of backups: where processes, backup   *)
(* and restore may be, and that a backup runs in a process that is open        *)
(* (CreateBackup is a method of an open store).                                *)
THEOREM BackupTypeCorrect == Spec => []BkTypeOK
  <1>1. BkInv => BkTypeOK
    <2> SUFFICES ASSUME BkInv PROVE BkTypeOK
      OBVIOUS
    <2>1. KsTypeOK
      <3>1. ASSUME NEW p \in Process
            PROVE  /\ proc[p].at \in Places
                   /\ proc[p].active \in {"none", EnvKey} \union FileKey
                   /\ proc[p].legacy \in {"none"} \union FileKey
                   /\ proc[p].todo \subseteq Secret
        BY DEF BkInv, KsInv, KsType, ProcRec
      <3> QED
        BY <3>1 DEF KsTypeOK, Places, BkInv, KsInv, KsType
    <2>2. /\ disk \in [File -> 0..MaxIssues] /\ link \in BOOLEAN
          /\ issue \in {"idle"} \union File
      BY DEF BkInv, HostType
    <2>3. rst \in {"none", "db", "kek", "certs", "certsMoved", "acme", "acmeMoved", "ok", "error"}
      BY DEF BkInv, RestoreInv, AfterDatabase
    <2>4. /\ bk.at \in {"idle", "kek", "link"} \union File
          /\ bk.by \in Process \union {"nobody"}
          /\ bk.at # "idle" => bk.rows \in [Secret -> RowSet] /\ proc[bk.by].at = "open"
      BY NoBackupFields DEF BkInv, TakenInv, TakenOK, BackupRec, Stages, File
    <2>5. saved.at \in {"idle", "saved"}
      BY NoBackupFields DEF BkInv, SavedInv, BackupRec
    <2> QED
      BY <2>1, <2>2, <2>3, <2>4, <2>5 DEF BkTypeOK
  <1> QED
    BY <1>1, BackupInvariance, PTL

(* Wherever processes, backups and restores are killed, the injected key and   *)
(* the key file open every secret of the database, except between the two file *)
(* replacements of an unfinished restore (loadOrCreateKEK, RestoreBackup).     *)
THEOREM KeysAreNotLost == Spec => []SecretsSurvive
  <1>1. BkInv => SecretsSurvive
    BY DEF BkInv, SecretsInv, SecretsSurvive, NoSecretIsLost, KeysOf, Opened
  <1> QED
    BY <1>1, BackupInvariance, PTL

(* A process that passed CheckEncryptionReadiness reads every secret, as long  *)
(* as nobody writes with another key beside it.                                *)
THEOREM OpenStoresRead == Spec => []OpenStoreReads
  <1>1. BkInv => OpenStoreReads
    BY DEF BkInv, KsInv
  <1> QED
    BY <1>1, BackupInvariance, PTL

(* migrateLegacyCiphertexts never puts an older value back, unless the value   *)
(* was set between its read and its write of the row.                          *)
THEOREM ValuesAreNotLost == Spec => []NewestSecretStays
  <1>1. BkInv => NewestSecretStays
    BY DEF BkInv, KsInv
  <1> QED
    BY <1>1, BackupInvariance, PTL

(* CreateBackup copies database, key file and certificates one after the other *)
(* beside processes that write to them, and still its key file opens its       *)
(* database and its certificate belongs to its key, but for an issue that      *)
(* overlapped it.                                                              *)
THEOREM BackupsFit == Spec => []BackupIsRestorable
  <1>1. BkInv => BackupIsRestorable
    BY DEF BkInv, SavedInv, OwnKeys, BackupIsRestorable
  <1> QED
    BY <1>1, BackupInvariance, PTL

(* A RestoreBackup that returns nil has put back everything the backup holds,  *)
(* whatever earlier restores left half-way.                                    *)
THEOREM RestoresAreComplete == Spec => []RestoredIsTheBackup
  <1>1. BkInv => RestoredIsTheBackup
    <2> SUFFICES ASSUME BkInv, rst = "ok"
                 PROVE  /\ rows = saved.rows /\ disk = saved.files /\ ~link
                        /\ saved.kek \in {"none", kekFile}
      BY DEF RestoredIsTheBackup
    <2>1. saved \in BackupRec({"saved"}, {"nobody"})
      BY RestoringAlone
    <2>2. saved.files \in [File -> 0..MaxIssues] /\ disk \in [File -> 0..MaxIssues]
      BY <2>1 DEF BackupRec, BkInv, HostType
    <2>3. /\ rows = saved.rows /\ ~link /\ saved.kek \in {"none", kekFile}
          /\ disk["cert"] = saved.files["cert"] /\ disk["key"] = saved.files["key"]
          /\ disk["acme"] = saved.files["acme"]
      BY DEF BkInv, RestoreInv, AfterDatabase, AfterKey, AfterMove, AfterCerts
    <2>4. \A f \in File : disk[f] = saved.files[f]
      BY <2>3 DEF File
    <2>5. disk = saved.files
      BY <2>2, <2>4
    <2> QED
      BY <2>3, <2>5
  <1> QED
    BY <1>1, BackupInvariance, PTL
====
