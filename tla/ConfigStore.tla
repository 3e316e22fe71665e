------------------------------ MODULE ConfigStore ------------------------------
(***************************************************************************)
(* The configuration: the tables of migrations/002 behind                  *)
(* src/config/repo.rs, the admin endpoints of src/api that edit them, and  *)
(* the snapshot of them that src/app/mod.rs takes when the process starts  *)
(* and that webhooks and handlers use until it ends.                       *)
(*                                                                         *)
(* One SQL statement is one step.  An endpoint that reads and then writes  *)
(* is a request in flight in between, beside the requests of other clients. *)
(***************************************************************************)
EXTENDS Integers, Sequences

CONSTANTS
  Langs,       \* keys of language definitions
  Names,       \* names of instances
  Clients,     \* admin requests that may be in flight at once
  MaxWorkers,  \* the largest queue_concurrency anyone asks for
  HasFfprobe,  \* whether ffprobe is on the PATH
  MaxEdits,    \* bound on the admin requests
  MaxJobs,     \* bound on the webhooks
  MaxCrashes   \* bound on the times the process ends

None == "none"
Unset == -1

ASSUME ConfigAssumption ==
  /\ None \notin Langs \cup Names
  /\ MaxWorkers \in Nat \ {0}
  /\ HasFfprobe \in BOOLEAN
  /\ MaxEdits \in Nat /\ MaxJobs \in Nat /\ MaxCrashes \in Nat

VARIABLES
  languages, \* the keys in the languages table
  instances, \* the instances table: name |-> [language, url]
  primary,   \* the primary_language value, None if unset
  workers,   \* the queue_concurrency value, Unset if there is none
  setup,     \* whether the setup row is there
  request,   \* request[c]: what client c's request has read so far
  up,        \* whether the process runs
  loaded,    \* whether it found a configuration when it started
  snapshot,  \* the configuration it runs with
  job,       \* the jobs of the queue: whose they are and how they ended
  deleted,   \* names and keys that were ever deleted from the tables
  edits,     \* admin requests so far
  crashes    \* times the process has ended so far

tables == <<languages, instances, primary, workers, setup>>
process == <<up, loaded, snapshot>>
vars == <<tables, request, process, job, deleted, edits, crashes>>

\* A url that does not parse is only noticed when a client is made of it.
Rows == [language : Langs, url : {"good", "bad"}]

NoRequest == [op |-> "none", name |-> None, language |-> None, url |-> "good",
              workers |-> 0, langs |-> {}]

Free(c) == up /\ request[c].op = "none"
Doing(c, op) == up /\ request[c].op = op

\* A request arrives and its first statement is executed.
Begin(c, r) ==
  /\ Free(c)
  /\ edits < MaxEdits /\ edits' = edits + 1
  /\ request' = [request EXCEPT ![c] = r]

\* A request that is one statement.
AtOnce(c) == Begin(c, NoRequest)

\* The response is sent.
Respond(c) == request' = [request EXCEPT ![c] = NoRequest]

-----------------------------------------------------------------------------
(* api/languages.rs                                                        *)

CreateLanguage(c, l) ==
  /\ AtOnce(c)
  /\ languages' = languages \cup {l}
  /\ UNCHANGED <<instances, primary, workers, setup, process, job, deleted, crashes>>

Referenced(l) == \E n \in DOMAIN instances : instances[n].language = l

\* The foreign key keeps a language that an instance has, but nothing keeps the
\* primary language.
DeleteLanguage(c, l) ==
  /\ AtOnce(c)
  /\ l \in languages /\ ~Referenced(l)
  /\ languages' = languages \ {l}
  /\ deleted' = deleted \cup {l}
  /\ UNCHANGED <<instances, primary, workers, setup, process, job, crashes>>

-----------------------------------------------------------------------------
(* api/instances.rs                                                        *)

\* create and update look the language up first.
CheckInstance(c, op, n, row) ==
  /\ row.language \in languages
  /\ Begin(c, [NoRequest EXCEPT !.op = op, !.name = n, !.language = row.language,
                                !.url = row.url])
  /\ UNCHANGED <<tables, process, job, deleted, crashes>>

Row(c) == [language |-> request[c].language, url |-> request[c].url]

\* Variant: the foreign key is not enforced.
WriteInstanceUnenforced(c) ==
  LET n == request[c].name
  IN  /\ Doing(c, "create") \/ Doing(c, "update")
      /\ IF (n \in DOMAIN instances) = (request[c].op = "update")
         THEN instances' = [m \in DOMAIN instances \cup {n} |->
                              IF m = n THEN Row(c) ELSE instances[m]]
         ELSE UNCHANGED instances
      /\ Respond(c)
      /\ UNCHANGED <<languages, primary, workers, setup, process, job, deleted, edits, crashes>>

\* INSERT fails if the name is taken, UPDATE if there is no such row, and both
\* if the language has gone since it was looked up.
WriteInstance(c) ==
  LET n == request[c].name
  IN  /\ Doing(c, "create") \/ Doing(c, "update")
      /\ IF /\ (n \in DOMAIN instances) = (request[c].op = "update")
            /\ request[c].language \in languages
         THEN instances' = [m \in DOMAIN instances \cup {n} |->
                              IF m = n THEN Row(c) ELSE instances[m]]
         ELSE UNCHANGED instances
      /\ Respond(c)
      /\ UNCHANGED <<languages, primary, workers, setup, process, job, deleted, edits, crashes>>

\* Nothing looks at the jobs the instance still has in the queue.
DeleteInstance(c, n) ==
  /\ AtOnce(c)
  /\ n \in DOMAIN instances
  /\ instances' = [m \in DOMAIN instances \ {n} |-> instances[m]]
  /\ deleted' = deleted \cup {n}
  /\ UNCHANGED <<languages, primary, workers, setup, process, job, crashes>>

-----------------------------------------------------------------------------
(* api/config.rs: validation, then two values in two statements.           *)

CheckConfig(c, l, w) ==
  /\ w > 0 /\ l \in languages
  /\ Begin(c, [NoRequest EXCEPT !.op = "primary", !.language = l, !.workers = w])
  /\ UNCHANGED <<tables, process, job, deleted, crashes>>

SetPrimary(c) ==
  /\ Doing(c, "primary")
  /\ primary' = request[c].language
  /\ request' = [request EXCEPT ![c].op = "workers"]
  /\ UNCHANGED <<languages, instances, workers, setup, process, job, deleted, edits, crashes>>

SetWorkers(c) ==
  /\ Doing(c, "workers")
  /\ workers' = request[c].workers
  /\ Respond(c)
  /\ UNCHANGED <<languages, instances, primary, setup, process, job, deleted, edits, crashes>>

-----------------------------------------------------------------------------
(* api/setup.rs: three reads, a decision, and the setup row.               *)

ReadLanguages(c) ==
  /\ Begin(c, [NoRequest EXCEPT !.op = "readPrimary", !.langs = languages])
  /\ UNCHANGED <<tables, process, job, deleted, crashes>>

ReadPrimary(c) ==
  /\ Doing(c, "readPrimary")
  /\ request' = [request EXCEPT ![c].op = "readInstances", ![c].language = primary]
  /\ UNCHANGED <<tables, process, job, deleted, edits, crashes>>

\* Variant: it is enough that there are languages and instances.
ReadInstancesLax(c) ==
  /\ Doing(c, "readInstances")
  /\ IF request[c].langs # {} /\ DOMAIN instances # {}
     THEN request' = [request EXCEPT ![c].op = "mark"] ELSE Respond(c)
  /\ UNCHANGED <<tables, process, job, deleted, edits, crashes>>

\* collect_missing_items, on what the three reads returned.
ReadInstances(c) ==
  /\ Doing(c, "readInstances")
  /\ IF request[c].language \in request[c].langs /\ DOMAIN instances # {}
     THEN request' = [request EXCEPT ![c].op = "mark"] ELSE Respond(c)
  /\ UNCHANGED <<tables, process, job, deleted, edits, crashes>>

MarkSetupComplete(c) ==
  /\ Doing(c, "mark")
  /\ setup' = TRUE
  /\ Respond(c)
  /\ UNCHANGED <<languages, instances, primary, workers, process, job, deleted, edits, crashes>>

-----------------------------------------------------------------------------
(* The process.                                                            *)

\* What load_config returns a configuration for.
Loadable == setup /\ primary \in languages

\* App::build succeeds: every instance's url makes a client, and ffprobe is there
\* if there is a configuration.
Bootable ==
  Loadable => HasFfprobe /\ \A n \in DOMAIN instances : instances[n].url = "good"

\* The configuration the process runs with before setup.
EmptyConfig == [primary |-> None, languages |-> {}, instances |-> << >>, workers |-> 2]

Start ==
  /\ ~up /\ Bootable
  /\ up' = TRUE /\ loaded' = Loadable
  /\ snapshot' =
       IF Loadable
       THEN [primary |-> primary, languages |-> languages, instances |-> instances,
             workers |-> IF workers = Unset THEN 2 ELSE workers]
       ELSE EmptyConfig
  /\ UNCHANGED <<tables, request, job, deleted, edits, crashes>>

\* The process ends, and with it every request, wherever it was.
End ==
  /\ up /\ crashes < MaxCrashes /\ crashes' = crashes + 1
  /\ up' = FALSE
  /\ request' = [c \in Clients |-> NoRequest]
  /\ UNCHANGED <<tables, loaded, snapshot, job, deleted, edits>>

\* Variant: webhooks are checked against the tables.
WebhookFromTables(n) ==
  /\ up /\ n \in DOMAIN instances
  /\ Len(job) < MaxJobs
  /\ job' = Append(job, [at |-> n, state |-> "pending"])
  /\ UNCHANGED <<tables, request, process, deleted, edits, crashes>>

\* A webhook is stored if the snapshot has its instance, and answered 404 if not.
Webhook(n) ==
  /\ up /\ n \in DOMAIN snapshot.instances
  /\ Len(job) < MaxJobs
  /\ job' = Append(job, [at |-> n, state |-> "pending"])
  /\ UNCHANGED <<tables, request, process, deleted, edits, crashes>>

\* Variant: a job of an instance that has gone is put off.
WorkKnown(k) ==
  /\ up /\ loaded
  /\ job[k].state = "pending" /\ job[k].at \in DOMAIN snapshot.instances
  /\ job' = [job EXCEPT ![k].state = "handled"]
  /\ UNCHANGED <<tables, request, process, deleted, edits, crashes>>

\* The worker pool, which only runs with a configuration: a job whose instance is
\* not in the snapshot fails for good (UnknownInstance).
Work(k) ==
  /\ up /\ loaded /\ job[k].state = "pending"
  /\ job' = [job EXCEPT ![k].state =
               IF job[k].at \in DOMAIN snapshot.instances THEN "handled" ELSE "unknown"]
  /\ UNCHANGED <<tables, request, process, deleted, edits, crashes>>

Statement(c) ==
  \/ WriteInstance(c) \/ SetPrimary(c) \/ SetWorkers(c)
  \/ ReadPrimary(c) \/ ReadInstances(c) \/ MarkSetupComplete(c)

Arrival(c) ==
  \/ \E l \in Langs : CreateLanguage(c, l) \/ DeleteLanguage(c, l)
  \/ \E l \in Langs, w \in 0 .. MaxWorkers : CheckConfig(c, l, w)
  \/ \E n \in Names : DeleteInstance(c, n)
  \/ \E op \in {"create", "update"}, n \in Names, row \in Rows : CheckInstance(c, op, n, row)
  \/ ReadLanguages(c)

Init ==
  /\ languages = {} /\ instances = << >>
  /\ primary = None /\ workers = Unset /\ setup = FALSE
  /\ request = [c \in Clients |-> NoRequest]
  /\ up = FALSE /\ loaded = FALSE /\ snapshot = EmptyConfig
  /\ job = << >> /\ deleted = {}
  /\ edits = 0 /\ crashes = 0

Next ==
  \/ \E c \in Clients : Arrival(c) \/ Statement(c)
  \/ \E n \in Names : Webhook(n)
  \/ \E k \in DOMAIN job : Work(k)
  \/ Start \/ End

Spec == Init /\ [][Next]_vars

\* The process is started again when it has ended, and its workers work.
FairSpec ==
  Spec /\ WF_vars(Start) /\ \A k \in 1 .. MaxJobs : WF_vars(k \in DOMAIN job /\ Work(k))

-----------------------------------------------------------------------------
(* Properties.                                                             *)

\* Every variable has its type.
TypeOK ==
  /\ languages \subseteq Langs
  /\ DOMAIN instances \subseteq Names
  /\ \A n \in DOMAIN instances : instances[n] \in Rows
  /\ primary \in Langs \cup {None} /\ workers \in 1 .. MaxWorkers \cup {Unset}
  /\ up \in BOOLEAN /\ loaded \in BOOLEAN /\ setup \in BOOLEAN
  /\ job \in Seq([at : Names, state : {"pending", "handled", "unknown"}])
  /\ deleted \subseteq Langs \cup Names

\* The configuration a process runs with is whole, whatever requests overlapped
\* and wherever an earlier process stopped in them: its primary language and its
\* instances' languages are defined, and it has a worker (Config of types.rs).
SnapshotIsWhole ==
  loaded =>
    /\ snapshot.primary \in snapshot.languages
    /\ \A n \in DOMAIN snapshot.instances : snapshot.instances[n].language \in snapshot.languages
    /\ snapshot.workers > 0

\* "the queue contains a job for an instance no longer in config" (registry.rs:75):
\* a stored webhook only comes to nothing if an admin deleted its instance, never
\* because the snapshots it was stored and handled under differ otherwise.
UnknownOnlyIfDeleted ==
  \A k \in DOMAIN job : job[k].state = "unknown" => job[k].at \in deleted

\* Once setup was completed, a process that starts without a configuration has
\* lost it to the deletion of a language: no overlap of requests and no
\* half-applied one leads there.
SetupLostOnlyByDelete ==
  [][~up /\ up' /\ setup /\ ~loaded' => primary \in deleted]_vars

Waiting(k) == k \in DOMAIN job /\ job[k].state = "pending"

\* Stored webhooks are handled, across restarts and edits, unless no process can
\* start with what the tables hold, or one has started that found no
\* configuration: it waits for a restart even after the tables are mended.
JobsWaitOnlyForConfig ==
  \A k \in 1 .. MaxJobs : Waiting(k) ~> (~Waiting(k) \/ ~Bootable \/ (up /\ ~loaded))
=============================================================================
