--------------------------- MODULE ConfigStoreProofs ---------------------------
(***************************************************************************)
(* Proofs about ConfigStore, for any languages, instances, clients and     *)
(* numbers of edits, webhooks and restarts.                                *)
(***************************************************************************)
EXTENDS ConfigStore, SequenceTheorems, TLAPS

Ops == {"none", "create", "update", "primary", "workers",
        "readPrimary", "readInstances", "mark"}
Requests == [op : Ops, name : Names \cup {None}, language : Langs \cup {None},
             url : {"good", "bad"}, workers : 0 .. MaxWorkers, langs : SUBSET Langs]
Config == [primary : Langs \cup {None}, languages : SUBSET Langs,
           instances : UNION {[S -> Rows] : S \in SUBSET Names}, workers : Nat]

JobRecord == [at : Names, state : {"pending", "handled", "unknown"}]

Known(l) == l \in languages \cup deleted
KnownName(n) == n \in DOMAIN instances \cup deleted

(* The values of the tables, the requests and the snapshot.                  *)
Typed ==
  /\ languages \subseteq Langs
  /\ instances \in UNION {[S -> Rows] : S \in SUBSET Names}
  /\ primary \in Langs \cup {None} /\ workers \in 1 .. MaxWorkers \cup {Unset}
  /\ up \in BOOLEAN /\ loaded \in BOOLEAN /\ setup \in BOOLEAN
  /\ snapshot \in Config
  /\ request \in [Clients -> Requests]
  /\ job \in Seq(JobRecord)
  /\ deleted \subseteq Langs \cup Names

(* What the foreign key gives.                                               *)
References == \A n \in DOMAIN instances : instances[n].language \in languages

(* What a request has read was true once: a language it found was defined,   *)
(* and is unless it was deleted; and a primary language is never unset.      *)
RequestsHold ==
  \A c \in Clients :
    /\ request[c].op \in {"create", "update"} => request[c].name # None
    /\ request[c].op \in {"primary", "workers"} => request[c].workers > 0
    /\ request[c].op = "primary" => Known(request[c].language)
    /\ request[c].op \in {"readInstances", "mark"} /\ request[c].language # None => primary # None
    /\ request[c].op = "mark" => request[c].language # None

(* Setup is only marked after a primary language was set.                    *)
SetupHolds == (primary # None => Known(primary)) /\ (setup => primary # None)

(* Names of the snapshot and of the jobs are in the tables unless they were  *)
(* deleted, and names of jobs are in the snapshot unless they were deleted.  *)
NamesHold ==
  /\ up => \A n \in DOMAIN snapshot.instances : KnownName(n)
  /\ \A k \in DOMAIN job : job[k].state = "pending" =>
       /\ KnownName(job[k].at)
       /\ up /\ loaded => job[k].at \in DOMAIN snapshot.instances \cup deleted

StoreInv ==
  /\ Typed /\ References /\ SnapshotIsWhole
  /\ RequestsHold /\ SetupHolds /\ NamesHold /\ UnknownOnlyIfDeleted

-----------------------------------------------------------------------------
LEMMA NoRequestTyped == NoRequest \in Requests
BY ConfigAssumption DEF NoRequest, Requests, Ops

LEMMA InitInv == Init => StoreInv
<1> SUFFICES ASSUME Init PROVE StoreInv
  OBVIOUS
<1>1. up \in BOOLEAN /\ loaded \in BOOLEAN /\ setup \in BOOLEAN
  BY Zenon DEF Init
<1>2. instances \in [{} -> Rows] /\ EmptyConfig.instances \in [{} -> Rows]
  BY DEF Init, EmptyConfig
<1>3. EmptyConfig \in Config
  BY <1>2 DEF EmptyConfig, Config
<1>4. job \in Seq(JobRecord) /\ DOMAIN job = {}
  BY DEF Init
<1>5. Typed
  BY <1>1, <1>2, <1>3, <1>4, NoRequestTyped DEF Init, Typed
<1>6. ~loaded /\ ~up /\ ~setup
  BY DEF Init
<1>7. QED
  BY <1>2, <1>4, <1>5, <1>6
     DEF Init, StoreInv, References, SnapshotIsWhole, RequestsHold, SetupHolds,
         NamesHold, UnknownOnlyIfDeleted, NoRequest

(* An edit that keeps the tables' names and languages, or notes them as      *)
(* deleted, keeps what is known of them.                                     *)
LEMMA EditKeepsNames ==
  ASSUME StoreInv, UNCHANGED <<process, job>>, deleted \subseteq deleted',
         DOMAIN instances \subseteq (DOMAIN instances)' \cup deleted'
  PROVE  NamesHold' /\ SnapshotIsWhole' /\ UnknownOnlyIfDeleted'
BY DEF StoreInv, process, NamesHold, KnownName, SnapshotIsWhole, UnknownOnlyIfDeleted

(* A request that arrives or goes on, with the tables as they are.           *)
LEMMA ReadStep ==
  ASSUME StoreInv, NEW c \in Clients, NEW r \in Requests,
         request' = [request EXCEPT ![c] = r],
         r.op \in {"create", "update"} => r.name # None,
         r.op \in {"primary", "workers"} => r.workers > 0,
         r.op = "primary" => Known(r.language),
         r.op \in {"readInstances", "mark"} /\ r.language # None => primary # None,
         r.op = "mark" => r.language # None,
         UNCHANGED <<tables, process, job, deleted>>
  PROVE  StoreInv'
<1> USE DEF StoreInv, tables, process
<1>1. NamesHold' /\ SnapshotIsWhole' /\ UnknownOnlyIfDeleted'
  BY EditKeepsNames
<1>2. Typed' /\ References' /\ SetupHolds'
  BY DEF Typed, References, SetupHolds, Known
<1>3. RequestsHold'
  BY DEF RequestsHold, Known, Typed
<1>4. QED
  BY <1>1, <1>2, <1>3

(* A request that ends with its answer, or one that is a single statement.   *)
LEMMA Answer ==
  ASSUME StoreInv, NEW c \in Clients, request' = [request EXCEPT ![c] = NoRequest],
         primary # None => primary' # None,
         languages \cup deleted \subseteq languages' \cup deleted'
  PROVE  request' \in [Clients -> Requests] /\ RequestsHold'
<1>1. request' \in [Clients -> Requests]
  BY NoRequestTyped DEF StoreInv, Typed
<1>2. ASSUME NEW d \in Clients
      PROVE  (d # c /\ request'[d] = request[d]) \/ request'[d] = NoRequest
  BY DEF StoreInv, Typed
<1>3. QED
  BY <1>1, <1>2 DEF StoreInv, RequestsHold, NoRequest, Known

-----------------------------------------------------------------------------
LEMMA LanguageSteps ==
  ASSUME StoreInv, NEW c \in Clients, NEW l \in Langs,
         CreateLanguage(c, l) \/ DeleteLanguage(c, l)
  PROVE  StoreInv'
<1> USE DEF StoreInv, process
<1>1. request' = [request EXCEPT ![c] = NoRequest]
  BY DEF CreateLanguage, DeleteLanguage, AtOnce, Begin
<1>2. languages \cup deleted \subseteq languages' \cup deleted' /\ deleted \subseteq deleted'
  BY DEF CreateLanguage, DeleteLanguage
<1>3. UNCHANGED <<instances, primary, workers, setup, process, job>>
  BY DEF CreateLanguage, DeleteLanguage
<1>4. request' \in [Clients -> Requests] /\ RequestsHold'
  BY <1>1, <1>2, <1>3, Answer
<1>5. Typed'
  BY <1>3, <1>4 DEF CreateLanguage, DeleteLanguage, Typed
<1>6. References'
  BY <1>3 DEF CreateLanguage, DeleteLanguage, Referenced, References
<1>7. SetupHolds'
  BY <1>2, <1>3 DEF SetupHolds, Known
<1>8. NamesHold' /\ SnapshotIsWhole' /\ UnknownOnlyIfDeleted'
  BY <1>2, <1>3, EditKeepsNames
<1>9. QED
  BY <1>4, <1>5, <1>6, <1>7, <1>8

LEMMA CheckSteps ==
  ASSUME StoreInv, NEW c \in Clients
  PROVE  /\ \A op \in {"create", "update"}, n \in Names, row \in Rows :
               CheckInstance(c, op, n, row) => StoreInv'
         /\ \A l \in Langs, w \in 0 .. MaxWorkers : CheckConfig(c, l, w) => StoreInv'
         /\ ReadLanguages(c) => StoreInv'
<1>1. ASSUME NEW op \in {"create", "update"}, NEW n \in Names, NEW row \in Rows,
             CheckInstance(c, op, n, row)
      PROVE  StoreInv'
  <2> DEFINE r == [NoRequest EXCEPT !.op = op, !.name = n, !.language = row.language,
                                    !.url = row.url]
  <2>1. r \in Requests /\ r.op = op /\ r.name # None
    BY NoRequestTyped, ConfigAssumption DEF Requests, Ops, Rows, NoRequest
  <2>2. request' = [request EXCEPT ![c] = r] /\ UNCHANGED <<tables, process, job, deleted>>
    BY <1>1 DEF CheckInstance, Begin
  <2> HIDE DEF r
  <2>3. QED
    BY <2>1, <2>2, ReadStep
<1>2. ASSUME NEW l \in Langs, NEW w \in 0 .. MaxWorkers, CheckConfig(c, l, w)
      PROVE  StoreInv'
  <2> DEFINE r == [NoRequest EXCEPT !.op = "primary", !.language = l, !.workers = w]
  <2>1. r \in Requests /\ r.op = "primary" /\ r.workers = w /\ r.language = l
    BY NoRequestTyped DEF Requests, Ops, NoRequest
  <2>2. request' = [request EXCEPT ![c] = r] /\ UNCHANGED <<tables, process, job, deleted>>
    BY <1>2 DEF CheckConfig, Begin
  <2>3. w > 0 /\ Known(l)
    BY <1>2 DEF CheckConfig, Known
  <2> HIDE DEF r
  <2>4. QED
    BY <2>1, <2>2, <2>3, ReadStep
<1>3. ASSUME ReadLanguages(c) PROVE StoreInv'
  <2> DEFINE r == [NoRequest EXCEPT !.op = "readPrimary", !.langs = languages]
  <2>1. r \in Requests /\ r.op = "readPrimary"
    BY NoRequestTyped DEF Requests, Ops, NoRequest, StoreInv, Typed
  <2>2. request' = [request EXCEPT ![c] = r] /\ UNCHANGED <<tables, process, job, deleted>>
    BY <1>3 DEF ReadLanguages, Begin
  <2> HIDE DEF r
  <2>3. QED
    BY <2>1, <2>2, ReadStep
<1>4. QED
  BY <1>1, <1>2, <1>3

LEMMA InstanceSteps ==
  ASSUME StoreInv, NEW c \in Clients,
         WriteInstance(c) \/ \E n \in Names : DeleteInstance(c, n)
  PROVE  StoreInv'
<1> USE DEF StoreInv, process
<1>1. request' = [request EXCEPT ![c] = NoRequest]
  BY DEF WriteInstance, DeleteInstance, AtOnce, Begin, Respond
<1>2. UNCHANGED <<languages, primary, workers, setup, process, job>>
  BY DEF WriteInstance, DeleteInstance
<1>3. deleted \subseteq deleted' /\ deleted' \subseteq deleted \cup Names
  BY DEF WriteInstance, DeleteInstance
<1>4. request' \in [Clients -> Requests] /\ RequestsHold'
  BY <1>1, <1>2, <1>3, Answer
<1>5. /\ instances' \in UNION {[S -> Rows] : S \in SUBSET Names}
      /\ References'
      /\ DOMAIN instances \subseteq (DOMAIN instances)' \cup deleted'
  <2>1. CASE instances' = instances
    BY <1>2, <2>1 DEF Typed, References
  <2>2. CASE WriteInstance(c) /\ instances' # instances
    <3>1. request[c] \in Requests /\ request[c].op \in {"create", "update"}
      BY <2>2 DEF Typed, WriteInstance, Doing
    <3> DEFINE n == request[c].name
    <3>2. /\ instances' = [m \in DOMAIN instances \cup {n} |->
                              IF m = n THEN Row(c) ELSE instances[m]]
          /\ request[c].language \in languages
          /\ (n \in DOMAIN instances) = (request[c].op = "update")
      BY <2>2 DEF WriteInstance
    <3>3. Row(c) \in Rows /\ Row(c).language \in languages
      BY <3>1, <3>2 DEF Row, Rows, Requests, Typed
    <3>4. n \in Names
      <4>1. Doing(c, "create") \/ Doing(c, "update")
        BY <2>2 DEF WriteInstance
      <4>2. request[c].name # None
        BY <4>1 DEF RequestsHold, Doing
      <4>3. QED
        BY <3>1, <4>2 DEF Requests
    <3>5. PICK S \in SUBSET Names : instances \in [S -> Rows]
      BY DEF Typed
    <3>6. instances' \in [S \cup {n} -> Rows]
      BY <3>2, <3>3, <3>5
    <3>7. S \cup {n} \in SUBSET Names
      BY <3>4
    <3>8. References'
      BY <1>2, <3>2, <3>3 DEF References
    <3>9. QED
      BY <3>2, <3>6, <3>7, <3>8
  <2>3. CASE \E n \in Names : DeleteInstance(c, n)
    <3>1. PICK n \in Names : DeleteInstance(c, n)
      BY <2>3
    <3>2. PICK S \in SUBSET Names : instances \in [S -> Rows]
      BY DEF Typed
    <3>3. instances' \in [S \ {n} -> Rows]
      BY <3>1, <3>2 DEF DeleteInstance
    <3>4. QED
      BY <1>2, <3>1, <3>2, <3>3 DEF DeleteInstance, References
  <2>4. QED
    BY <2>1, <2>2, <2>3
<1>6. Typed' /\ SetupHolds'
  BY <1>2, <1>3, <1>4, <1>5 DEF Typed, SetupHolds, Known
<1>7. NamesHold' /\ SnapshotIsWhole' /\ UnknownOnlyIfDeleted'
  BY <1>2, <1>3, <1>5, EditKeepsNames
<1>8. QED
  BY <1>4, <1>5, <1>6, <1>7

LEMMA ConfigSteps ==
  ASSUME StoreInv, NEW c \in Clients, SetPrimary(c) \/ SetWorkers(c)
  PROVE  StoreInv'
<1> USE DEF StoreInv, process
<1>1. request[c] \in Requests
  BY DEF Typed
<1>2. UNCHANGED <<languages, instances, setup, process, job, deleted>>
  BY DEF SetPrimary, SetWorkers
<1>3. CASE SetPrimary(c)
  <2>1. Known(request[c].language) /\ request[c].workers > 0
    BY <1>3 DEF SetPrimary, Doing, RequestsHold
  <2>2. primary' \in Langs /\ Known(primary')
    <3>1. request[c].language \in Langs
      BY <1>1, <2>1, ConfigAssumption DEF Requests, Known, Typed
    <3>2. QED
      BY <1>3, <2>1, <3>1 DEF SetPrimary
  <2>3. primary' # None
    BY <2>2, ConfigAssumption
  <2>4. request' \in [Clients -> Requests] /\ request'[c].op = "workers"
        /\ request'[c].workers = request[c].workers
        /\ \A d \in Clients \ {c} : request'[d] = request[d]
    BY <1>1, <1>3 DEF SetPrimary, Typed, Requests, Ops
  <2>5. RequestsHold'
    BY <1>2, <2>1, <2>3, <2>4 DEF RequestsHold, Known
  <2>6. Typed' /\ References' /\ SetupHolds'
    BY <1>2, <1>3, <2>2, <2>3, <2>4 DEF SetPrimary, Typed, References, SetupHolds, Known
  <2>7. QED
    BY <1>2, <2>5, <2>6, EditKeepsNames
<1>4. CASE SetWorkers(c)
  <2>1. workers' \in 1 .. MaxWorkers /\ primary' = primary
    BY <1>1, <1>4, ConfigAssumption DEF SetWorkers, Doing, RequestsHold, Requests
  <2>2. request' \in [Clients -> Requests] /\ RequestsHold'
    BY <1>2, <1>4, <2>1, Answer DEF SetWorkers, Respond
  <2>3. Typed' /\ References' /\ SetupHolds'
    BY <1>2, <2>1, <2>2 DEF Typed, References, SetupHolds, Known
  <2>4. QED
    BY <1>2, <2>2, <2>3, EditKeepsNames
<1>5. QED
  BY <1>3, <1>4

LEMMA SetupSteps ==
  ASSUME StoreInv, NEW c \in Clients,
         ReadPrimary(c) \/ ReadInstances(c) \/ MarkSetupComplete(c)
  PROVE  StoreInv'
<1> USE DEF StoreInv, process
<1>1. request[c] \in Requests
  BY DEF Typed
<1>2. CASE ReadPrimary(c)
  <2> DEFINE r == [request[c] EXCEPT !.op = "readInstances", !.language = primary]
  <2>1. r \in Requests /\ r.op = "readInstances" /\ r.language = primary
    BY <1>1 DEF Requests, Ops, Typed
  <2>2. request' = [request EXCEPT ![c] = r] /\ UNCHANGED <<tables, process, job, deleted>>
    BY <1>1, <1>2 DEF ReadPrimary, Typed, Requests
  <2> HIDE DEF r
  <2>3. QED
    BY <2>1, <2>2, ReadStep
<1>3. CASE ReadInstances(c) /\ request' = [request EXCEPT ![c].op = "mark"]
                           /\ request[c].language \in request[c].langs
  <2> DEFINE r == [request[c] EXCEPT !.op = "mark"]
  <2>1. r \in Requests /\ r.op = "mark" /\ r.language # None
    BY <1>1, <1>3, ConfigAssumption DEF Requests, Ops
  <2>2. request' = [request EXCEPT ![c] = r] /\ UNCHANGED <<tables, process, job, deleted>>
    BY <1>3 DEF ReadInstances, Typed
  <2>3. primary # None
    BY <1>1, <1>3, ConfigAssumption DEF ReadInstances, Doing, RequestsHold, Requests
  <2> HIDE DEF r
  <2>4. QED
    BY <2>1, <2>2, <2>3, ReadStep
<1>4. CASE ReadInstances(c) /\ Respond(c)
  <2>1. UNCHANGED <<tables, process, job, deleted>>
    BY <1>4 DEF ReadInstances
  <2>2. request' = [request EXCEPT ![c] = NoRequest]
    BY <1>4 DEF Respond
  <2>3. NoRequest.op = "none"
    BY DEF NoRequest
  <2>4. QED
    BY <2>1, <2>2, <2>3, NoRequestTyped, ReadStep
<1>5. CASE MarkSetupComplete(c)
  <2>1. UNCHANGED <<languages, instances, primary, workers, process, job, deleted>> /\ setup' \in BOOLEAN
    BY <1>5, Zenon DEF MarkSetupComplete
  <2>2. request' \in [Clients -> Requests] /\ RequestsHold'
    BY <1>5, <2>1, Answer DEF MarkSetupComplete, Respond
  <2>3. primary # None
    BY <1>5 DEF MarkSetupComplete, Doing, RequestsHold
  <2>4. Typed' /\ References' /\ SetupHolds'
    BY <2>1, <2>2, <2>3 DEF Typed, References, SetupHolds, Known
  <2>5. QED
    BY <2>1, <2>2, <2>4, EditKeepsNames
<1>6. QED
  BY <1>2, <1>3, <1>4, <1>5 DEF ReadInstances

-----------------------------------------------------------------------------
LEMMA StartStep == StoreInv /\ Start => StoreInv'
<1> SUFFICES ASSUME StoreInv, Start PROVE StoreInv'
  OBVIOUS
<1> USE DEF StoreInv
<1>1. UNCHANGED <<tables, request, job, deleted>>
  BY DEF Start
<1>2. up' \in BOOLEAN /\ loaded' \in BOOLEAN
  BY Zenon DEF Start, Loadable, Typed
<1>3. CASE Loadable
  <2>1. snapshot' = [primary |-> primary, languages |-> languages, instances |-> instances,
                     workers |-> IF workers = Unset THEN 2 ELSE workers]
    BY <1>3 DEF Start
  <2>2. snapshot' \in Config
    BY <2>1, ConfigAssumption DEF Config, Typed, Unset
  <2>3. SnapshotIsWhole'
    BY <1>3, <2>1, ConfigAssumption DEF SnapshotIsWhole, Loadable, References, Typed, Unset
  <2>4. NamesHold'
    BY <1>1, <2>1 DEF NamesHold, KnownName, tables
  <2>5. QED
    BY <1>1, <1>2, <2>2, <2>3, <2>4
       DEF Typed, References, RequestsHold, SetupHolds, Known, UnknownOnlyIfDeleted, tables
<1>4. CASE ~Loadable
  <2>1. snapshot' = EmptyConfig /\ ~loaded'
    BY <1>4 DEF Start
  <2>2. EmptyConfig.instances \in [{} -> Rows] /\ DOMAIN EmptyConfig.instances = {}
    BY DEF EmptyConfig
  <2>3. EmptyConfig \in Config
    BY <2>2 DEF EmptyConfig, Config
  <2>4. NamesHold'
    BY <1>1, <2>1, <2>2 DEF NamesHold, KnownName, tables
  <2>5. SnapshotIsWhole'
    BY <2>1 DEF SnapshotIsWhole
  <2>6. QED
    BY <1>1, <1>2, <2>1, <2>3, <2>4, <2>5
       DEF Typed, References, RequestsHold, SetupHolds, Known, UnknownOnlyIfDeleted, tables
<1>5. QED
  BY <1>3, <1>4

LEMMA EndStep == StoreInv /\ End => StoreInv'
<1> SUFFICES ASSUME StoreInv, End PROVE StoreInv'
  OBVIOUS
<1>1. up' \in BOOLEAN /\ ~up'
  BY Zenon DEF End
<1>2. request' \in [Clients -> Requests] /\ RequestsHold'
  BY NoRequestTyped DEF End, RequestsHold, NoRequest
<1>3. QED
  BY <1>1, <1>2 DEF End, StoreInv, Typed, References, SnapshotIsWhole, SetupHolds,
                    NamesHold, KnownName, Known, UnknownOnlyIfDeleted, tables

LEMMA JobSteps ==
  ASSUME StoreInv,
         (\E n \in Names : Webhook(n)) \/ (\E k \in DOMAIN job : Work(k))
  PROVE  StoreInv'
<1> DEFINE JobsHold ==
                /\ job' \in Seq(JobRecord)
                /\ \A k \in (DOMAIN job)' :
                     /\ job'[k].state = "pending" =>
                          /\ KnownName(job'[k].at)
                          /\ up /\ loaded => job'[k].at \in DOMAIN snapshot.instances \cup deleted
                     /\ job'[k].state = "unknown" => job'[k].at \in deleted
<1> USE DEF StoreInv
<1>1. UNCHANGED <<tables, request, process, deleted>>
  BY DEF Webhook, Work
<1>2. JobsHold
  <2>1. ASSUME NEW n \in Names, Webhook(n) PROVE JobsHold
    <3>1. [at |-> n, state |-> "pending"] \in JobRecord /\ job \in Seq(JobRecord)
      BY DEF Typed, JobRecord
    <3>2. /\ job' \in Seq(JobRecord) /\ DOMAIN job' = 1 .. Len(job) + 1
          /\ \A k \in 1 .. Len(job) : job'[k] = job[k]
          /\ job'[Len(job) + 1] = [at |-> n, state |-> "pending"]
          /\ DOMAIN job = 1 .. Len(job)
      BY <2>1, <3>1 DEF Webhook
    <3>3. KnownName(n) /\ n \in DOMAIN snapshot.instances
      BY <2>1 DEF Webhook, NamesHold
    <3>4. ASSUME NEW k \in (DOMAIN job)'
          PROVE  (k \in DOMAIN job /\ job'[k] = job[k]) \/ job'[k] = [at |-> n, state |-> "pending"]
      <4>1. Len(job) \in Nat
        BY <3>1, LenProperties
      <4>2. k \in 1 .. Len(job) \/ k = Len(job) + 1
        BY <3>2, <4>1
      <4>3. QED
        BY <3>2, <4>2
    <3>5. ASSUME NEW k \in (DOMAIN job)'
          PROVE  /\ job'[k].state = "pending" =>
                      /\ KnownName(job'[k].at)
                      /\ up /\ loaded => job'[k].at \in DOMAIN snapshot.instances \cup deleted
                 /\ job'[k].state = "unknown" => job'[k].at \in deleted
      <4>1. CASE k \in DOMAIN job /\ job'[k] = job[k]
        BY <4>1 DEF NamesHold, UnknownOnlyIfDeleted
      <4>2. CASE job'[k] = [at |-> n, state |-> "pending"]
        BY <3>3, <4>2
      <4>3. QED
        BY <3>4, <4>1, <4>2
    <3>6. QED
      BY <3>2, <3>5
  <2>2. ASSUME NEW k \in DOMAIN job, Work(k) PROVE JobsHold
    <3>1. job \in Seq(JobRecord) /\ job[k] \in JobRecord /\ DOMAIN job = 1 .. Len(job)
      <4>1. job \in Seq(JobRecord)
        BY DEF Typed
      <4>2. DOMAIN job = 1 .. Len(job)
        BY <4>1, LenProperties
      <4>3. QED
        BY <4>1, <4>2, ElementOfSeq
    <3>2. PICK s \in {"handled", "unknown"} :
             /\ job' = [job EXCEPT ![k] = [job[k] EXCEPT !.state = s]]
             /\ s = "unknown" => job[k].at \notin DOMAIN snapshot.instances
      BY <2>2 DEF Work
    <3>3. [job[k] EXCEPT !.state = s] \in JobRecord
      BY <3>1 DEF JobRecord
    <3>4. job' \in Seq(JobRecord) /\ DOMAIN job' = DOMAIN job
      BY <3>1, <3>2, <3>3, ExceptSeq
    <3>5. job'[k].at = job[k].at /\ job'[k].state = s
          /\ \A x \in DOMAIN job \ {k} : job'[x] = job[x]
      BY <3>1, <3>2 DEF JobRecord
    <3>6. job[k].at \in DOMAIN snapshot.instances \cup deleted
      BY <2>2 DEF Work, NamesHold
    <3>7. QED
      BY <3>2, <3>4, <3>5, <3>6 DEF NamesHold, UnknownOnlyIfDeleted
  <2>3. QED
    BY <2>1, <2>2
<1>3. Typed' /\ References' /\ SnapshotIsWhole' /\ RequestsHold' /\ SetupHolds'
  BY <1>1, <1>2 DEF Typed, References, SnapshotIsWhole, RequestsHold, SetupHolds, Known,
                    tables, process
<1>4. NamesHold' /\ UnknownOnlyIfDeleted'
  BY <1>1, <1>2 DEF NamesHold, KnownName, UnknownOnlyIfDeleted, tables, process
<1>5. QED
  BY <1>3, <1>4

LEMMA StepInv == StoreInv /\ [Next]_vars => StoreInv'
<1> SUFFICES ASSUME StoreInv, [Next]_vars PROVE StoreInv'
  OBVIOUS
<1>1. ASSUME NEW c \in Clients, Arrival(c) PROVE StoreInv'
  BY <1>1, LanguageSteps, CheckSteps, InstanceSteps DEF Arrival
<1>2. ASSUME NEW c \in Clients, Statement(c) PROVE StoreInv'
  BY <1>2, InstanceSteps, ConfigSteps, SetupSteps DEF Statement
<1>3. CASE UNCHANGED vars
  BY <1>3 DEF vars, tables, process, StoreInv, Typed, References, SnapshotIsWhole,
              RequestsHold, SetupHolds, NamesHold, KnownName, Known, UnknownOnlyIfDeleted
<1>4. QED
  BY <1>1, <1>2, <1>3, StartStep, EndStep, JobSteps DEF Next

LEMMA AlwaysInv == Spec => []StoreInv
BY InitInv, StepInv, PTL DEF Spec

-----------------------------------------------------------------------------
(* Every reachable state is well typed: no request leaves a number of        *)
(* workers that cannot work.                                                 *)
THEOREM ConfigTypeCorrect == Spec => []TypeOK
<1>1. Typed => TypeOK
  BY DEF Typed, TypeOK, JobRecord
<1>2. QED
  BY <1>1, AlwaysInv, PTL DEF StoreInv

(* Every configuration a process runs with is whole, whatever requests       *)
(* overlapped and wherever an earlier process ended in them.                 *)
THEOREM SnapshotWhole == Spec => []SnapshotIsWhole
BY AlwaysInv, PTL DEF StoreInv

(* A stored webhook only fails as unknown if its instance was deleted.       *)
THEOREM UnknownMeansDeleted == Spec => []UnknownOnlyIfDeleted
BY AlwaysInv, PTL DEF StoreInv

(* After setup, only the deletion of a language makes a process start        *)
(* without a configuration.                                                  *)
THEOREM SetupIsKept == Spec => SetupLostOnlyByDelete
<1>1. StoreInv /\ [Next]_vars =>
        [~up /\ up' /\ setup /\ ~loaded' => primary \in deleted]_vars
  <2> SUFFICES ASSUME StoreInv, Next, ~up, up', setup, ~loaded'
               PROVE  primary \in deleted
    OBVIOUS
  <2>1. Start
    BY DEF Next, Arrival, Statement, CreateLanguage, DeleteLanguage, AtOnce, Begin, Free,
           CheckInstance, CheckConfig, DeleteInstance, ReadLanguages, WriteInstance, Doing,
           SetPrimary, SetWorkers, ReadPrimary, ReadInstances, MarkSetupComplete,
           Webhook, Work, End
  <2>2. ~Loadable
    BY <2>1 DEF Start
  <2>3. QED
    BY <2>2 DEF StoreInv, SetupHolds, Loadable, Known
<1>2. QED
  BY <1>1, AlwaysInv, PTL DEF Spec, SetupLostOnlyByDelete
=============================================================================
