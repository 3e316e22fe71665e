--------------------------- MODULE EpisodeLibrary ---------------------------
(***************************************************************************)
(* The per-language libraries of one series: the import and delete         *)
(* handlers of src/handler/import.rs and src/handler/delete.rs for Sonarr  *)
(* instances that use symlinks, over the file operations of                *)
(* src/link/mod.rs.                                                        *)
(*                                                                         *)
(* Each library holds one season folder.  A library entry is a symlink to  *)
(* the file of the same relative name in some instance's storage, so an    *)
(* entry is represented by that instance.  A handler is a sequence of      *)
(* file-system calls: between any two of them other handlers run, the      *)
(* instances change their storage, and the process may crash.              *)
(***************************************************************************)
EXTENDS Integers, Sequences, FiniteSets, Selection

CONSTANTS
  Config,          \* the Sonarr instances, in the order of the configuration
  Language,        \* the language of each instance
  PrimaryLanguage, \* languages.primary of the configuration
  Names,           \* the episode files' names within the season folder
  Episode,         \* the episode each name is a release of
  Marker,          \* what parse_season_episode reads off a name, or 0
  Audio,           \* per instance and name, the sets of configured languages a
                   \* file may carry; no set if the instance never has the file
  Concurrency,     \* queue_concurrency
  UpgradeDeletes,  \* TRUE: Sonarr reports the file an upgrade replaces
  Redownloads,     \* TRUE: a deleted name may be imported again
  SeriesDeletes,   \* TRUE: the series may be deleted in Sonarr
  MaxJobs,         \* bound on the webhooks
  MaxOutages,      \* bound on the failures of ffprobe and of the instances' APIs
  MaxCrashes       \* bound on the crashes of the process

Instances == Elements(Config)
Languages == {Language[i] : i \in Instances}
None == "none"

ASSUME EpisodeLibraryAssumption ==
  /\ Config \in Seq(Instances) /\ None \notin Instances
  /\ DOMAIN Language = Instances
  /\ DOMAIN Episode = Names /\ DOMAIN Marker = Names
  /\ Audio \in [Instances -> [Names -> SUBSET SUBSET Languages]]
  /\ Concurrency \in Nat \ {0}
  /\ MaxJobs \in Nat /\ MaxOutages \in Nat /\ MaxCrashes \in Nat
  /\ UpgradeDeletes \in BOOLEAN /\ Redownloads \in BOOLEAN
  /\ SeriesDeletes \in BOOLEAN /\ (SeriesDeletes => Concurrency = 1) \* Clear is coarse

VARIABLES
  stored,  \* stored[i][n]: the languages in the file n of i's storage
  entry,   \* entry[i][n]: whose file the symlink n in i's library names, or None
  folder,  \* folder[i]: whether the season folder exists in i's library
  job,     \* the jobs, in the order of their webhooks
  ready,   \* the pending jobs that are due, in the order they will be claimed
  run,     \* run[k]: how far the handler of job k is
  outages, \* failures of ffprobe and of the instances' APIs so far
  crashes  \* crashes so far

libraries == <<entry, folder>>
budgets == <<outages, crashes>>
vars == <<stored, libraries, job, ready, run, budgets>>

Jobs == DOMAIN job
Running == {k \in Jobs : job[k].state = "running"}

Present(i, n) == n \in DOMAIN stored[i]
IsPrimary(i) == Language[i] = PrimaryLanguage

\* LanguageDetector::detect, and the handler's fallback for untagged files.
Heard(i, n) == IF stored[i][n] = {} THEN {Language[i]} ELSE stored[i][n]

\* HandlerRegistry::instances_for_languages
Speaking(langs) == Filter(Config, {i \in Instances : Language[i] \in langs})

\* Variant: an alternate links whatever it imports.
LinkTargetsUnchecked(i, langs) ==
  IF IsPrimary(i)
  THEN IF Language[i] \in langs THEN Speaking(langs) ELSE Append(Speaking(langs), i)
  ELSE <<i>>

\* primary_link_targets, and the wrong-language skip of link_sonarr_alternate.
LinkTargets(i, langs) ==
  CASE Language[i] \in langs -> IF IsPrimary(i) THEN Speaking(langs) ELSE <<i>>
    [] OTHER -> IF IsPrimary(i) THEN Append(Speaking(langs), i) ELSE <<>>

\* unlink_sonarr_targets: the libraries an upgrade clears first.
UpgradeTargets(i, langs) ==
  IF IsPrimary(i) /\ Cardinality(langs) > 1 THEN Speaking(langs) ELSE <<i>>

\* Variant: whoever came first stays.
VerdictIncumbent(incumbent, source, target) ==
  CASE incumbent = None -> "link"
    [] incumbent = source -> "replace"
    [] OTHER -> "skip"

\* Variant: whoever came last stays.
VerdictNewcomer(incumbent, source, target) ==
  IF incumbent = None THEN "link" ELSE "replace"

\* dedup_verdict: own link, then native audio, then the incumbent.
Verdict(incumbent, source, target) ==
  CASE incumbent = None -> "link"
    [] incumbent = source -> "replace"
    [] OTHER -> IF /\ Language[incumbent] # Language[target]
                   /\ Language[source] = Language[target]
                THEN "replace" ELSE "skip"

-----------------------------------------------------------------------------
(* Sonarr: files come and go, and each change sends its webhooks.          *)

\* A handler that has not begun.  todo: libraries still to visit; why: what an
\* unlink is for; victim: the name it removes; failed: the worst error so far.
Idle == [pc |-> "idle", todo |-> <<>>, why |-> None, victim |-> None,
         langs |-> {}, failed |-> "no"]

Webhook(op, i, n, upgrade) ==
  [op |-> op, at |-> i, name |-> n, upgrade |-> upgrade, state |-> "queued"]

\* The queue stores one job per webhook.
Enqueue(hooks) ==
  LET new == 1 .. Len(hooks)
  IN  /\ Len(job) + Len(hooks) <= MaxJobs
      /\ job' = job \o hooks
      /\ run' = run \o [x \in new |-> Idle]
      /\ ready' = ready \o [x \in new |-> Len(job) + x]

\* An episode is downloaded.  The file it replaces is gone by then, and Sonarr
\* reports that deletion too when it is asked to.
Download(i, n, audio) ==
  LET old == {m \in DOMAIN stored[i] : Episode[m] = Episode[n]}
      upgrade == old # {}
      gone == IF UpgradeDeletes /\ upgrade
              THEN <<Webhook("delete", i, CHOOSE m \in old : TRUE, FALSE)>> ELSE <<>>
  IN  /\ audio \in Audio[i][n]
      /\ Redownloads \/ \A k \in Jobs : ~(job[k].op = "import" /\ job[k].at = i /\ job[k].name = n)
      /\ stored' = [stored EXCEPT ![i] =
           [m \in (DOMAIN stored[i] \ old) \cup {n} |->
              IF m = n THEN audio ELSE stored[i][m]]]
      /\ Enqueue(Append(gone, Webhook("import", i, n, upgrade)))
      /\ UNCHANGED <<libraries, budgets>>

\* An episode file is deleted in Sonarr.
Delete(i, n) ==
  /\ Present(i, n)
  /\ stored' = [stored EXCEPT ![i] = [m \in DOMAIN stored[i] \ {n} |-> stored[i][m]]]
  /\ Enqueue(<<Webhook("delete", i, n, FALSE)>>)
  /\ UNCHANGED <<libraries, budgets>>

\* The series, which has had files, is deleted in an instance once, with them
\* (deletedFiles) or without.
DeleteSeries(i, files) ==
  /\ SeriesDeletes
  /\ \E k \in Jobs : job[k].op = "import" /\ job[k].at = i
  /\ \A k \in Jobs : job[k].op \in {"seriesDelete", "recordDelete"} => job[k].at # i
  /\ stored' = IF files THEN [stored EXCEPT ![i] = << >>] ELSE stored
  /\ Enqueue(<<Webhook(IF files THEN "seriesDelete" ELSE "recordDelete", i, None, FALSE)>>)
  /\ UNCHANGED <<libraries, budgets>>

-----------------------------------------------------------------------------
(* The queue, as JobQueue specifies it: due jobs are claimed in order, at  *)
(* most Concurrency at a time.                                             *)

SetState(k, s) == job' = [job EXCEPT ![k].state = s]

\* The worker starts the handler of the first due job.  A delete goes through
\* every library for a primary, and through its own for an alternate; one that
\* left the files alone has nothing to do.
Claim(k) ==
  /\ ready # <<>> /\ k = Head(ready)
  /\ Cardinality(Running) < Concurrency
  /\ ready' = Tail(ready)
  /\ SetState(k, "running")
  /\ run' = [run EXCEPT ![k] =
       [Idle EXCEPT
          !.pc = CASE job[k].op = "import" -> "detect"
                   [] job[k].op = "delete" -> "check"
                   [] job[k].op = "seriesDelete" -> "clear"
                   [] OTHER -> "finish",
          !.todo = IF job[k].op \in {"import", "recordDelete"} THEN <<>>
                   ELSE IF IsPrimary(job[k].at) THEN Config ELSE <<job[k].at>>]]
  /\ UNCHANGED <<stored, libraries, budgets>>

\* A retry is due: it is claimed after the jobs that were due before it.
BackoffOver(k) ==
  /\ job[k].state = "backoff"
  /\ SetState(k, "queued")
  /\ ready' = Append(ready, k)
  /\ UNCHANGED <<stored, libraries, run, budgets>>

\* The process dies in the middle of its handlers.
Crash ==
  /\ crashes < MaxCrashes
  /\ Running # {}
  /\ crashes' = crashes + 1
  /\ job' = [k \in Jobs |-> IF k \in Running THEN [job[k] EXCEPT !.state = "orphaned"] ELSE job[k]]
  /\ run' = [k \in Jobs |-> Idle]
  /\ UNCHANGED <<stored, libraries, ready, outages>>

\* The lease of an orphaned job expires; the job keeps its place at the front.
Sweep(k) ==
  /\ job[k].state = "orphaned"
  /\ SetState(k, "queued")
  /\ ready' = <<k>> \o ready
  /\ UNCHANGED <<stored, libraries, run, budgets>>

-----------------------------------------------------------------------------
(* The handlers.                                                           *)

At(k, pc) == k \in Running /\ run[k].pc = pc

\* The library job k is working on.
Here(k) == Head(run[k].todo)

Goto(k, pc) == run' = [run EXCEPT ![k].pc = pc] /\ UNCHANGED job

\* The handler returns and its job is settled, or retried later.
Return(k, s) == SetState(k, s) /\ run' = [run EXCEPT ![k] = Idle]

\* Begin, in the libraries `todo`, with the unlinks of an upgrade or the links.
Unlinks(k, langs, todo) ==
  run' = [run EXCEPT ![k] = [@ EXCEPT !.pc = "stat", !.why = "upgrade",
            !.victim = job[k].name, !.langs = langs, !.todo = todo]]

Links(k, langs) ==
  LET todo == LinkTargets(job[k].at, langs)
  IN  run' = [run EXCEPT ![k] = [@ EXCEPT !.pc = IF todo = <<>> THEN "finish" ELSE "find",
                !.langs = langs, !.todo = todo]]

\* One library is linked, skipped, or has failed, and the next one's turn has
\* come.  job_error: a transient failure wins over a permanent one.
NextLibrary(k, failure) ==
  LET rest == Tail(run[k].todo)
      worst == CASE failure = "no" -> run[k].failed
                 [] run[k].failed = "transient" -> "transient"
                 [] OTHER -> failure
  IN  /\ run' = [run EXCEPT ![k] = [@ EXCEPT !.todo = rest, !.failed = worst,
                   !.pc = IF rest = <<>> THEN "finish" ELSE "find"]]
      /\ UNCHANGED job

\* ffprobe reads the file; without it the job fails for good.
Detect(k) ==
  LET i == job[k].at  n == job[k].name
  IN  /\ At(k, "detect")
      /\ IF Present(i, n)
         THEN /\ UNCHANGED job
              /\ IF job[k].upgrade
                 THEN Unlinks(k, Heard(i, n), UpgradeTargets(i, Heard(i, n)))
                 ELSE Links(k, Heard(i, n))
         ELSE Return(k, "failed")
      /\ UNCHANGED <<stored, libraries, ready, budgets>>

\* ffprobe cannot be started, is killed at its timeout, or its output does not
\* parse: the job fails for good, although the file is there.
DetectFails(k) ==
  /\ At(k, "detect")
  /\ outages < MaxOutages /\ outages' = outages + 1
  /\ Return(k, "failed")
  /\ UNCHANGED <<stored, libraries, ready, crashes>>

\* Variant: clearing an upgrade's libraries starts over at the first one.
UnlinkedAgain(k) ==
  LET rest == Tail(run[k].todo)
  IN  CASE run[k].why = "evict" -> Goto(k, "prepare")
        [] run[k].why = "upgrade" -> Goto(k, "stat")
        [] OTHER -> IF rest = <<>> THEN Return(k, "done")
                    ELSE /\ run' = [run EXCEPT ![k] = [@ EXCEPT !.pc = "check", !.todo = rest]]
                         /\ UNCHANGED job

\* What follows the unlink in one library: the replacing link, the next library
\* to clear, the links of the upgraded file, or the end of a delete.
Unlinked(k) ==
  LET rest == Tail(run[k].todo)
  IN  CASE run[k].why = "evict" -> Goto(k, "prepare")
        [] run[k].why = "upgrade" /\ rest # <<>> ->
             run' = [run EXCEPT ![k] = [@ EXCEPT !.pc = "stat", !.todo = rest]] /\ UNCHANGED job
        [] run[k].why = "upgrade" /\ rest = <<>> -> Links(k, run[k].langs) /\ UNCHANGED job
        [] OTHER -> IF rest = <<>> THEN Return(k, "done")
                    ELSE /\ run' = [run EXCEPT ![k] = [@ EXCEPT !.pc = "check", !.todo = rest]]
                         /\ UNCHANGED job

\* unlink_episode, first call: an absent entry is nothing to remove.
Stat(k) ==
  /\ At(k, "stat")
  /\ IF entry[Here(k)][run[k].victim] = None THEN Unlinked(k) ELSE Goto(k, "remove")
  /\ UNCHANGED <<stored, libraries, ready, budgets>>

\* unlink_episode, second call: an entry that has vanished since is an error,
\* which ends an upgrade or a delete and fails one library of an import.
Remove(k) ==
  LET n == run[k].victim
  IN  /\ At(k, "remove")
      /\ IF entry[Here(k)][n] = None
         THEN /\ IF run[k].why = "evict" THEN NextLibrary(k, "permanent") ELSE Return(k, "failed")
              /\ UNCHANGED entry
         ELSE Goto(k, "prune") /\ entry' = [entry EXCEPT ![Here(k)][n] = None]
      /\ UNCHANGED <<stored, folder, ready, budgets>>

\* Variant: the folder is removed with what is in it.
PruneAll(k) ==
  /\ At(k, "prune")
  /\ folder' = [folder EXCEPT ![Here(k)] = FALSE]
  /\ Unlinked(k)
  /\ UNCHANGED <<stored, entry, ready, budgets>>

\* prune_empty_parents: rmdir fails, and is ignored, if the folder has entries.
Prune(k) ==
  /\ At(k, "prune")
  /\ folder' = [folder EXCEPT ![Here(k)] = \E n \in Names : entry[Here(k)][n] # None]
  /\ Unlinked(k)
  /\ UNCHANGED <<stored, entry, ready, budgets>>

\* Variant: only the exact name is looked at.
ConflictsByName(lib, i, n, e) == IF entry[lib][n] \notin {None, i} THEN {n} ELSE {}

\* find_conflicting_episode_link, for file n of i's storage, a release of episode e,
\* in library lib: an entry in the way at the exact name, or any other whose name
\* parses to the episode.
Conflicts(lib, i, n, e) ==
  IF entry[lib][n] \notin {None, i} THEN {n}
  ELSE {m \in Names \ {n} : entry[lib][m] # None /\ Marker[m] = e}

Find(k) ==
  LET found == Conflicts(Here(k), job[k].at, job[k].name, Episode[job[k].name])
  IN  /\ At(k, "find")
      /\ IF found = {} THEN Goto(k, "prepare")
         ELSE /\ \E m \in found : run' = [run EXCEPT ![k] = [@ EXCEPT !.pc = "judge", !.victim = m]]
              /\ UNCHANGED job
      /\ UNCHANGED <<stored, libraries, ready, budgets>>

\* owner_instance reads the link again, and the keep-policy decides.
Judge(k) ==
  /\ At(k, "judge")
  /\ CASE Verdict(entry[Here(k)][run[k].victim], job[k].at, Here(k)) = "skip" -> NextLibrary(k, "no")
       [] Verdict(entry[Here(k)][run[k].victim], job[k].at, Here(k)) = "link" -> Goto(k, "prepare")
       [] OTHER -> /\ run' = [run EXCEPT ![k] = [@ EXCEPT !.pc = "stat", !.why = "evict"]]
                   /\ UNCHANGED job
  /\ UNCHANGED <<stored, libraries, ready, budgets>>

\* link_episode_from: the source must be a file, and the folder is made.
Prepare(k) ==
  /\ At(k, "prepare")
  /\ IF Present(job[k].at, job[k].name)
     THEN Goto(k, "probe") /\ folder' = [folder EXCEPT ![Here(k)] = TRUE]
     ELSE NextLibrary(k, "permanent") /\ UNCHANGED folder
  /\ UNCHANGED <<stored, entry, ready, budgets>>

\* Variant: a link that is there already is an error.
ProbeStrict(k) ==
  LET there == entry[Here(k)][job[k].name]
  IN  /\ At(k, "probe")
      /\ folder' = [folder EXCEPT ![Here(k)] = TRUE]
      /\ IF there = None THEN Goto(k, "create") ELSE NextLibrary(k, "permanent")
      /\ UNCHANGED <<stored, entry, ready, budgets>>

\* create_symlink_idempotent, up to the check of what is there.
Probe(k) ==
  LET there == entry[Here(k)][job[k].name]
  IN  /\ At(k, "probe")
      /\ folder' = [folder EXCEPT ![Here(k)] = TRUE]
      /\ CASE there = None -> Goto(k, "create")
           [] there = job[k].at -> NextLibrary(k, "no")
           [] OTHER -> NextLibrary(k, "permanent")
      /\ UNCHANGED <<stored, entry, ready, budgets>>

\* symlink(2): a folder pruned meanwhile is NotFound, a permanent error; an
\* entry made meanwhile is an Io error, a transient one.
Create(k) ==
  LET i == Here(k)  n == job[k].name
  IN  /\ At(k, "create")
      /\ IF folder[i] /\ entry[i][n] = None
         THEN NextLibrary(k, "no") /\ entry' = [entry EXCEPT ![i][n] = job[k].at]
         ELSE /\ NextLibrary(k, IF folder[i] THEN "transient" ELSE "permanent")
              /\ UNCHANGED entry
      /\ UNCHANGED <<stored, folder, ready, budgets>>

\* A primary's import asks the instances of the languages its file lacks to add
\* the series, and its delete of the series asks all to delete it.
TellsSiblings(k) ==
  LET i == job[k].at
  IN  /\ IsPrimary(i)
      /\ \/ job[k].op = "seriesDelete"
         \/ job[k].op = "import" /\ Languages \ (run[k].langs \cup {Language[i]}) # {}

\* The handler returns.  The siblings of a primary are told last, and their APIs
\* may fail for now or for good.
Finish(k) ==
  /\ At(k, "finish")
  /\ \/ run[k].failed = "no" /\ Return(k, "done") /\ UNCHANGED outages
     \/ run[k].failed = "permanent" /\ Return(k, "failed") /\ UNCHANGED outages
     \/ run[k].failed = "transient" /\ Return(k, "backoff") /\ UNCHANGED outages
     \/ /\ run[k].failed = "no" /\ TellsSiblings(k)
        /\ outages < MaxOutages /\ outages' = outages + 1
        /\ Return(k, "backoff") \/ Return(k, "failed")
  /\ UNCHANGED <<stored, libraries, ready, crashes>>

\* Variant: a primary's delete stops at its own library.
MayRemoveOwn(i, lib, owner) ==
  IF IsPrimary(i) THEN lib = i ELSE owner \in {None, i}

\* Which entry a delete may remove: a primary's own whatever it is, and in other
\* libraries a link into its storage; an alternate keeps foreign links.
MayRemove(i, lib, owner) ==
  IF IsPrimary(i) THEN lib = i \/ owner = i ELSE owner \in {None, i}

\* unlink_episode_storage_aware and unlink_episode_local_only
Check(k) ==
  LET i == job[k].at  n == job[k].name
  IN  /\ At(k, "check")
      /\ IF MayRemove(i, Here(k), entry[Here(k)][n])
         THEN /\ run' = [run EXCEPT ![k] = [@ EXCEPT !.pc = "stat", !.why = "delete", !.victim = n]]
              /\ UNCHANGED job
         ELSE Unlinked(k)
      /\ UNCHANGED <<stored, libraries, ready, budgets>>

\* Variant: a series' folder goes with everything in it.
KeepsNothing(i, lib, owner) == FALSE

\* Which link the delete of a series leaves: none in a primary's own library
\* (unlink_folder), in others those into another storage (unlink_folder_keeping).
Keeps(i, lib, owner) == ~(IsPrimary(i) /\ lib = i) /\ owner \notin {None, i}

\* unlink_storage_aware and unlink_series_local_only: a library's links go one
\* after the other, then its folder if it is empty.
Clear(k) ==
  LET lib == Here(k)  rest == Tail(run[k].todo)
      doomed == {n \in Names : entry[lib][n] # None /\ ~Keeps(job[k].at, lib, entry[lib][n])}
  IN  /\ At(k, "clear")
      /\ IF doomed # {}
         THEN /\ \E n \in doomed : entry' = [entry EXCEPT ![lib][n] = None]
              /\ UNCHANGED <<folder, run>>
         ELSE /\ folder' = [folder EXCEPT ![lib] = \E n \in Names : entry[lib][n] # None]
              /\ run' = [run EXCEPT ![k] = [@ EXCEPT !.todo = rest,
                           !.pc = IF rest = <<>> THEN "finish" ELSE "clear"]]
              /\ UNCHANGED entry
      /\ UNCHANGED <<stored, job, ready, budgets>>

Handler(k) ==
  \/ Detect(k) \/ DetectFails(k) \/ Stat(k) \/ Remove(k) \/ Prune(k) \/ Find(k) \/ Judge(k)
  \/ Prepare(k) \/ Probe(k) \/ Create(k) \/ Finish(k) \/ Check(k) \/ Clear(k)

-----------------------------------------------------------------------------
Init ==
  /\ stored = [i \in Instances |-> << >>]
  /\ entry = [i \in Instances |-> [n \in Names |-> None]]
  /\ folder = [i \in Instances |-> FALSE]
  /\ job = <<>> /\ ready = <<>> /\ run = <<>>
  /\ outages = 0 /\ crashes = 0

Next ==
  \/ \E i \in Instances, n \in Names : Delete(i, n) \/ \E a \in Audio[i][n] : Download(i, n, a)
  \/ \E i \in Instances : DeleteSeries(i, TRUE) \/ DeleteSeries(i, FALSE)
  \/ \E k \in Jobs : Claim(k) \/ BackoffOver(k) \/ Sweep(k) \/ Handler(k)
  \/ Crash

Spec == Init /\ [][Next]_vars

\* Due jobs are claimed, backoffs and leases run out, handlers run on; every file
\* operation, ffprobe (under its timeout) and HTTP call returns.
Fairness ==
  \A k \in 1 .. MaxJobs :
    /\ WF_vars(k \in Jobs /\ (Claim(k) \/ BackoffOver(k) \/ Sweep(k)))
    /\ WF_vars(k \in Jobs /\ Handler(k))

FairSpec == Spec /\ Fairness

-----------------------------------------------------------------------------
(* Properties.                                                             *)

\* Every variable has its type.
TypeOK ==
  /\ \A i \in Instances : DOMAIN stored[i] \subseteq Names
  /\ entry \in [Instances -> [Names -> Instances \cup {None}]]
  /\ folder \in [Instances -> BOOLEAN]
  /\ \A i \in Instances : ~folder[i] => \A n \in Names : entry[i][n] = None
  /\ DOMAIN run = Jobs
  /\ Elements(ready) = {k \in Jobs : job[k].state = "queued"}
  /\ Cardinality(Running) <= Concurrency

\* The libraries a stored file is for: its own instance's if it has the language
\* or the instance is primary; a primary's file, every library in its languages.
For(o, n, i) ==
  /\ Present(o, n)
  /\ \/ o = i /\ IsPrimary(i)
     \/ Language[i] \in Heard(o, n) /\ (o = i \/ IsPrimary(o))

\* All webhooks have been dealt with.
Settled == \A k \in Jobs : job[k].state \in {"done", "failed"}

\* The last import of the name succeeded.
Imported(i, n) ==
  LET imports == {k \in Jobs : job[k].op = "import" /\ job[k].at = i /\ job[k].name = n}
  IN  \E k \in imports : job[k].state = "done" /\ \A l \in imports : l <= k

\* "one file per SxxEyy per library" (import.rs:538), at every moment.
OneLinkPerEpisode ==
  \A i \in Instances : \A m, n \in Names :
    entry[i][m] # None /\ entry[i][n] # None /\ Episode[m] = Episode[n] => m = n

\* The jobs that remove the links to o's file n.
Removes(d, o, n) ==
  job[d].at = o /\ ((job[d].op = "delete" /\ job[d].name = n) \/ job[d].op = "seriesDelete")

\* A removal that may run after the import that followed it: the process crashed, or,
\* for a series, a sibling's API failed.
Delayed(i, n) ==
  \E d \in Jobs : Removes(d, i, n) /\ (crashes > 0 \/ (job[d].op = "seriesDelete" /\ outages > 0))

\* What another primary may do to it: an upgrade unlinks its name in every library of
\* the file's languages, and of two instances of one language the first keeps its link.
TakenOver(i, n) ==
  \E k \in Jobs :
    /\ job[k].op = "import" /\ job[k].at # i /\ IsPrimary(job[k].at)
    /\ \/ job[k].upgrade /\ job[k].name = n
       \/ Language[job[k].at] = Language[i] /\ Episode[job[k].name] = Episode[n]

\* The job k is an import of i's file n.
Imports(k, i, n) == job[k].op = "import" /\ job[k].at = i /\ job[k].name = n

\* "the release whose source instance speaks the library's language wins"
\* (import.rs:548): a stored file whose last import succeeded is what its own
\* instance's library shows, whatever others link or delete meanwhile.
OwnFileShown ==
  \A i \in Instances : \A n \in DOMAIN stored[i] :
    /\ Imported(i, n) /\ For(i, n, i) /\ \A k \in Running : ~Imports(k, i, n)
    => entry[i][n] = i \/ TakenOver(i, n) \/ Delayed(i, n)

\* "when content is deleted, corresponding links are removed from all libraries"
\* (how-it-works.md:39): with every webhook dealt with, no link dangles.
NoDanglingLink ==
  Settled =>
    \A i \in Instances, n \in Names :
      entry[i][n] # None => Present(entry[i][n], n)

\* Every library shows the native file of an episode where there is one, and else
\* the primary's.
Healthy ==
  LET files(owners, i, e) ==
        {f \in owners \X Names : Episode[f[2]] = e /\ For(f[1], f[2], i)}
      shown(i, e) == {f \in Instances \X Names : Episode[f[2]] = e /\ entry[i][f[2]] = f[1]}
  IN  \A i \in Instances, e \in Elements(Episode) :
        shown(i, e) = IF files({i}, i, e) # {} THEN files({i}, i, e) ELSE files(Instances, i, e)

\* The libraries are the same in whatever order first imports that succeed arrive,
\* are retried or restarted.
OrderDoesNotMatter ==
  (\A k \in Jobs : job[k] = [Webhook("import", job[k].at, job[k].name, FALSE) EXCEPT !.state = "done"])
    => Healthy

\* "separate libraries per language" (introduction.md:11): with every webhook
\* dealt with, a library shows only files in its language, besides what the
\* primary's own library gets, even when files changed under their names.
LanguagesFit ==
  Settled =>
    \A i \in Instances, n \in Names :
      entry[i][n] # None /\ Present(entry[i][n], n) => For(entry[i][n], n, i)

\* Handlers that race for one library neither block each other nor retry for
\* ever: once the webhooks stop, every job is settled for good.
EveryJobSettles == <>[]Settled

GivenUp(k) == job[k].state = "failed" \/ run[k].failed = "permanent"

\* An import gives up on a library, or altogether, only when its file is gone:
\* retrying after any other permanent error "will give the same answer" (handler/error.rs:79).
GivesUpOnlyWithoutFile ==
  [][\A k \in Jobs : job[k].op = "import" /\ ~GivenUp(k) /\ GivenUp(k)' =>
       outages' # outages \/ ~Present(job[k].at, job[k].name)]_vars
=============================================================================
