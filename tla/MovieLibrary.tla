----------------------------- MODULE MovieLibrary -----------------------------
(***************************************************************************)
(* The per-language libraries' entries for one movie: the Radarr handlers  *)
(* of src/handler/import.rs and src/handler/delete.rs over the folder      *)
(* operations of src/link/mod.rs.                                          *)
(*                                                                         *)
(* A symlink library has one link for the movie, to the movie's folder in  *)
(* some instance's storage.  A hardlink library has a folder of its own,   *)
(* whose files are the same files as the storage's (a mirror).  There is   *)
(* no keep-policy between releases as there is for episodes: what is there *)
(* first stays, until it is upgraded or deleted.                           *)
(*                                                                         *)
(* The queue has one worker here (queue_concurrency = 1).  Between two     *)
(* file operations of its handler the instances change their storage, and  *)
(* the process may crash.  Nothing else writes a library, so a check of an *)
(* entry and the operation it guards are one step.                         *)
(***************************************************************************)
EXTENDS Integers, Sequences, FiniteSets, Selection

CONSTANTS
  Config,          \* the Radarr instances, in the order of the configuration
  Language,        \* the language of each instance
  PrimaryLanguage, \* languages.primary of the configuration
  Hardlinks,       \* the instances whose link_strategy is hardlink
  Releases,        \* the files the instances may find for the movie
  Holder,          \* the instance that may find each release
  FileName,        \* each release's name within the movie's folder
  Audio,           \* the configured languages each release carries
  MaxJobs,         \* bound on the webhooks
  MaxOutages,      \* bound on the failures of ffprobe and of the instances' APIs
  MaxCrashes       \* bound on the crashes of the process

Instances == Elements(Config)
Languages == {Language[i] : i \in Instances}
None == "none"

ASSUME MovieAssumption ==
  /\ Config \in Seq(Instances) /\ None \notin Instances \cup Releases
  /\ DOMAIN Language = Instances
  /\ Hardlinks \subseteq Instances
  /\ Holder \in [Releases -> Instances]
  /\ DOMAIN FileName = Releases
  /\ Audio \in [Releases -> SUBSET Languages]
  /\ MaxJobs \in Nat /\ MaxOutages \in Nat /\ MaxCrashes \in Nat

VARIABLES
  stored,  \* stored[i]: the release in the movie's folder of i's storage, or None
  folder,  \* folder[i]: whether that folder exists
  entry,   \* entry[i]: whose folder the link in i's library names, or None
  mirror,  \* mirror[i]: the releases that are linked into the folder in i's library
  made,    \* made[i]: whether that folder exists
  job,     \* the jobs, in the order of their webhooks
  ready,   \* the pending jobs that are due, in the order they will be claimed
  run,     \* how far the handler of the running job is
  outages, \* failures of ffprobe and of the instances' APIs so far
  crashes  \* crashes so far

storages == <<stored, folder>>
libraries == <<entry, mirror, made>>
budgets == <<outages, crashes>>
vars == <<storages, libraries, job, ready, run, budgets>>

Jobs == DOMAIN job

IsPrimary(i) == Language[i] = PrimaryLanguage

\* LanguageDetector::detect, and the handler's fallback for untagged files.
Heard(i, r) == IF Audio[r] = {} THEN {Language[i]} ELSE Audio[r]

\* HandlerRegistry::instances_for_languages
Speaking(langs) == Filter(Config, {i \in Instances : Language[i] \in langs})

\* Variant: an alternate links whatever it imports.
LinkTargetsUnchecked(i, langs) ==
  IF IsPrimary(i)
  THEN IF Language[i] \in langs THEN Speaking(langs) ELSE Append(Speaking(langs), i)
  ELSE <<i>>

\* primary_link_targets, and the wrong-language skip of link_radarr_alternate.
LinkTargets(i, langs) ==
  CASE Language[i] \in langs -> IF IsPrimary(i) THEN Speaking(langs) ELSE <<i>>
    [] OTHER -> IF IsPrimary(i) THEN Append(Speaking(langs), i) ELSE <<>>

\* unlink_radarr_targets: the libraries an upgrade clears first.
UpgradeTargets(i, langs) ==
  IF IsPrimary(i) /\ Cardinality(langs) > 1 THEN Speaking(langs) ELSE <<i>>

-----------------------------------------------------------------------------
(* Radarr: files come and go, and each change sends its webhooks.          *)

\* The worker between two jobs.  todo: libraries still to visit; file: what the
\* listing of the storage's folder returned; failed: the worst error so far.
Idle == [job |-> 0, pc |-> "idle", todo |-> <<>>, langs |-> {}, file |-> None, failed |-> "no"]

Webhook(op, i, r, upgrade) ==
  [op |-> op, at |-> i, file |-> r, upgrade |-> upgrade, state |-> "queued"]

Enqueue(hooks) ==
  /\ Len(job) + Len(hooks) <= MaxJobs
  /\ job' = job \o hooks
  /\ ready' = ready \o [x \in 1 .. Len(hooks) |-> Len(job) + x]

\* A release is downloaded, once.  The file it replaces is gone by then, and
\* Radarr reports that deletion first.
Download(r) ==
  LET i == Holder[r]
      upgrade == stored[i] # None
      gone == IF upgrade THEN <<Webhook("fileDelete", i, stored[i], FALSE)>> ELSE <<>>
  IN  /\ \A k \in Jobs : job[k].file # r
      /\ stored' = [stored EXCEPT ![i] = r]
      /\ folder' = [folder EXCEPT ![i] = TRUE]
      /\ Enqueue(Append(gone, Webhook("import", i, r, upgrade)))
      /\ UNCHANGED <<libraries, run, budgets>>

\* The file is deleted in Radarr: the folder stays.
DeleteFile(i) ==
  /\ stored[i] # None
  /\ stored' = [stored EXCEPT ![i] = None]
  /\ Enqueue(<<Webhook("fileDelete", i, stored[i], FALSE)>>)
  /\ UNCHANGED <<folder, libraries, run, budgets>>

\* The movie is deleted in Radarr, with its files (deletedFiles) or without.
DeleteMovie(i, files) ==
  /\ folder[i]
  /\ stored' = IF files THEN [stored EXCEPT ![i] = None] ELSE stored
  /\ folder' = IF files THEN [folder EXCEPT ![i] = FALSE] ELSE folder
  /\ Enqueue(<<Webhook(IF files THEN "movieDelete" ELSE "recordDelete", i, None, FALSE)>>)
  /\ UNCHANGED <<libraries, run, budgets>>

-----------------------------------------------------------------------------
(* The queue, as JobQueue specifies it, with one worker.                   *)

SetState(k, s) == job' = [job EXCEPT ![k].state = s]

\* A delete goes through every library for a primary, and through its own for an
\* alternate; one that left the files alone has nothing to do.
Claim(k) ==
  /\ run.job = 0 /\ ready # <<>> /\ k = Head(ready)
  /\ ready' = Tail(ready)
  /\ SetState(k, "running")
  /\ run' = [Idle EXCEPT
       !.job = k,
       !.pc = CASE job[k].op = "import" -> "detect"
                [] job[k].op = "recordDelete" -> "finish"
                [] OTHER -> "delete",
       !.todo = IF job[k].op \in {"import", "recordDelete"} THEN <<>>
                ELSE IF IsPrimary(job[k].at) THEN Config ELSE <<job[k].at>>]
  /\ UNCHANGED <<storages, libraries, budgets>>

BackoffOver(k) ==
  /\ job[k].state = "backoff"
  /\ SetState(k, "queued")
  /\ ready' = Append(ready, k)
  /\ UNCHANGED <<storages, libraries, run, budgets>>

\* The process dies in the middle of a handler.
Crash ==
  /\ crashes < MaxCrashes /\ run.job # 0
  /\ crashes' = crashes + 1
  /\ SetState(run.job, "orphaned")
  /\ run' = Idle
  /\ UNCHANGED <<storages, libraries, ready, outages>>

\* The lease of the orphaned job expires.
Sweep(k) ==
  /\ job[k].state = "orphaned"
  /\ SetState(k, "queued")
  /\ ready' = <<k>> \o ready
  /\ UNCHANGED <<storages, libraries, run, budgets>>

-----------------------------------------------------------------------------
(* The handlers.                                                           *)

At(k, pc) == k \in Jobs /\ run.job = k /\ run.pc = pc
Here == Head(run.todo)

Return(k, s) == SetState(k, s) /\ run' = Idle

\* The libraries of an import, one after the other.
Links(langs) ==
  LET todo == LinkTargets(job[run.job].at, langs)
  IN  run' = [run EXCEPT !.pc = IF todo = <<>> THEN "finish" ELSE "source",
                         !.langs = langs, !.todo = todo]

\* job_error: a transient failure would win over a permanent one, and link_movie
\* has only permanent ones here.
NextLibrary(failure) ==
  /\ run' = [run EXCEPT !.todo = Tail(@), !.file = None,
                        !.failed = IF failure = "no" THEN @ ELSE failure,
                        !.pc = IF Tail(run.todo) = <<>> THEN "finish" ELSE "source"]
  /\ UNCHANGED job

\* ffprobe reads the file; without it the job fails for good.
Detect(k) ==
  LET i == job[k].at  langs == Heard(i, job[k].file)
  IN  /\ At(k, "detect")
      /\ IF stored[i] = job[k].file
         THEN /\ UNCHANGED job
              /\ IF job[k].upgrade
                 THEN run' = [run EXCEPT !.pc = "upgrade", !.langs = langs,
                                         !.todo = UpgradeTargets(i, langs)]
                 ELSE Links(langs)
         ELSE Return(k, "failed")
      /\ UNCHANGED <<storages, libraries, ready, budgets>>

\* ffprobe cannot be started, is killed at its timeout, or its output does not
\* parse: the job fails for good, although the file is there.
DetectFails(k) ==
  /\ At(k, "detect")
  /\ outages < MaxOutages /\ outages' = outages + 1
  /\ Return(k, "failed")
  /\ UNCHANGED <<storages, libraries, ready, crashes>>

\* What follows once the library's entry is gone.
Unlinked(k) ==
  LET rest == Tail(run.todo)
      next == IF rest = <<>> THEN "finish" ELSE "delete"
  IN  CASE run.pc = "upgrade" /\ rest = <<>> -> Links(run.langs) /\ UNCHANGED job
        [] run.pc = "upgrade" /\ rest # <<>> -> run' = [run EXCEPT !.todo = rest] /\ UNCHANGED job
        [] OTHER -> run' = [run EXCEPT !.todo = rest, !.pc = next] /\ UNCHANGED job

\* Variant: an entry that is not a link is left alone.
UnlinkFolderLinks(k) ==
  /\ entry' = [entry EXCEPT ![Here] = None]
  /\ Unlinked(k)
  /\ UNCHANGED <<mirror, made>>

\* unlink_folder: a link goes at once, a mirror file by file and then its folder.
UnlinkFolder(k) ==
  IF mirror[Here] # {}
  THEN /\ \E r \in mirror[Here] : mirror' = [mirror EXCEPT ![Here] = @ \ {r}]
       /\ UNCHANGED <<entry, made, job, run>>
  ELSE /\ entry' = [entry EXCEPT ![Here] = None]
       /\ made' = [made EXCEPT ![Here] = FALSE]
       /\ Unlinked(k)
       /\ UNCHANGED mirror

\* unlink_radarr_targets does not look at whose link it removes.
Upgrade(k) ==
  /\ At(k, "upgrade")
  /\ UnlinkFolder(k)
  /\ UNCHANGED <<storages, ready, budgets>>

\* Variant: a primary's delete clears every library.
MayUnlinkAll(i, lib) == TRUE

\* Whether the delete of i removes what library lib has.  A primary's own entry
\* and every mirror go (unlink_storage_aware); of other links only those into
\* i's storage (unlink_folder_keeping).
MayUnlink(i, lib) == (IsPrimary(i) /\ lib = i) \/ lib \in Hardlinks \/ entry[lib] \in {None, i}

Delete(k) ==
  /\ At(k, "delete")
  /\ IF MayUnlink(job[k].at, Here) THEN UnlinkFolder(k)
     ELSE Unlinked(k) /\ UNCHANGED libraries
  /\ UNCHANGED <<storages, ready, budgets>>

\* link_movie_from: the source must be a directory.
Source(k) ==
  /\ At(k, "source")
  /\ IF folder[job[k].at]
     THEN run' = [run EXCEPT !.pc = IF Here \in Hardlinks THEN "list" ELSE "symlink"] /\ UNCHANGED job
     ELSE NextLibrary("permanent")
  /\ UNCHANGED <<storages, libraries, ready, budgets>>

\* create_symlink_idempotent: what is there first stays.
Symlink(k) ==
  LET there == entry[Here]
  IN  /\ At(k, "symlink")
      /\ IF there \in {None, job[k].at}
         THEN entry' = [entry EXCEPT ![Here] = job[k].at] /\ NextLibrary("no")
         ELSE NextLibrary("permanent") /\ UNCHANGED entry
      /\ UNCHANGED <<storages, mirror, made, ready, budgets>>

\* mirror_dir_with_hardlinks: the target folder is made, and the source's is
\* listed, if it is still there.
List(k) ==
  LET i == job[k].at
  IN  /\ At(k, "list")
      /\ made' = [made EXCEPT ![Here] = TRUE]
      /\ CASE ~folder[i] -> NextLibrary("permanent")
           [] folder[i] /\ stored[i] = None -> NextLibrary("no")
           [] OTHER -> run' = [run EXCEPT !.pc = "hardlink", !.file = stored[i]] /\ UNCHANGED job
      /\ UNCHANGED <<storages, entry, mirror, ready, budgets>>

\* create_hardlink_idempotent: the file must still be there, and the name free
\* or the file's own.
Hardlink(k) ==
  LET taken == {r \in mirror[Here] : FileName[r] = FileName[run.file]}
  IN  /\ At(k, "hardlink")
      /\ IF taken \subseteq {run.file} /\ stored[job[k].at] = run.file
         THEN mirror' = [mirror EXCEPT ![Here] = @ \cup {run.file}] /\ NextLibrary("no")
         ELSE NextLibrary("permanent") /\ UNCHANGED mirror
      /\ UNCHANGED <<storages, entry, made, ready, budgets>>

\* A primary's import asks the instances of the languages its file lacks to add
\* the movie, and its delete of the movie asks all to delete it.
TellsSiblings(k) ==
  /\ IsPrimary(job[k].at)
  /\ \/ job[k].op = "movieDelete"
     \/ job[k].op = "import" /\ Languages \ (run.langs \cup {Language[job[k].at]}) # {}

\* The handler returns.  A failure of the siblings' APIs comes last.
Finish(k) ==
  /\ At(k, "finish")
  /\ \/ run.failed = "no" /\ Return(k, "done") /\ UNCHANGED outages
     \/ run.failed = "permanent" /\ Return(k, "failed") /\ UNCHANGED outages
     \/ /\ run.failed = "no" /\ TellsSiblings(k)
        /\ outages < MaxOutages /\ outages' = outages + 1
        /\ Return(k, "backoff") \/ Return(k, "failed")
  /\ UNCHANGED <<storages, libraries, ready, crashes>>

Handler(k) ==
  \/ Detect(k) \/ DetectFails(k) \/ Upgrade(k) \/ Delete(k) \/ Source(k)
  \/ Symlink(k) \/ List(k) \/ Hardlink(k) \/ Finish(k)

-----------------------------------------------------------------------------
Init ==
  /\ stored = [i \in Instances |-> None] /\ folder = [i \in Instances |-> FALSE]
  /\ entry = [i \in Instances |-> None]
  /\ mirror = [i \in Instances |-> {}] /\ made = [i \in Instances |-> FALSE]
  /\ job = <<>> /\ ready = <<>> /\ run = Idle
  /\ outages = 0 /\ crashes = 0

Next ==
  \/ \E r \in Releases : Download(r)
  \/ \E i \in Instances : DeleteFile(i) \/ DeleteMovie(i, TRUE) \/ DeleteMovie(i, FALSE)
  \/ \E k \in Jobs : Claim(k) \/ BackoffOver(k) \/ Sweep(k) \/ Handler(k)
  \/ Crash

Spec == Init /\ [][Next]_vars

-----------------------------------------------------------------------------
(* Properties.                                                             *)

\* Every variable has its type; a library has links or a mirror, and files only
\* in a folder.
TypeOK ==
  /\ stored \in [Instances -> Releases \cup {None}] /\ folder \in [Instances -> BOOLEAN]
  /\ entry \in [Instances -> Instances \cup {None}]
  /\ mirror \in [Instances -> SUBSET Releases] /\ made \in [Instances -> BOOLEAN]
  /\ \A i \in Instances :
       /\ stored[i] # None => folder[i]
       /\ IF i \in Hardlinks THEN entry[i] = None ELSE ~made[i]
       /\ mirror[i] # {} => made[i]
       /\ \A r, s \in mirror[i] : FileName[r] = FileName[s] => r = s
  /\ \A k \in Jobs : run.job = k <=> job[k].state = "running"

\* All webhooks have been dealt with.
Settled == \A k \in Jobs : job[k].state \in {"done", "failed"}

\* "when content is deleted, corresponding links are removed from all libraries"
\* (how-it-works.md:39): with every webhook dealt with, no link leads nowhere and
\* no mirror keeps a file alive that its storage has lost, however often the
\* process crashed and whatever was upgraded in between.
NoDanglingEntry ==
  Settled =>
    \A i \in Instances :
      /\ entry[i] # None => stored[entry[i]] # None
      /\ \A r \in mirror[i] : stored[Holder[r]] = r

\* An alternate's library shows only files in its language: a link to a folder
\* shows whatever file the folder holds by now.
LanguagesFit ==
  Settled =>
    \A i \in Instances : ~IsPrimary(i) =>
      /\ entry[i] # None => Language[i] \in Heard(entry[i], stored[entry[i]])
      /\ \A r \in mirror[i] : Language[i] \in Heard(Holder[r], r)

\* Another instance, a primary, had a multi-audio upgrade for the library of i.
TakenOver(i) ==
  \E k \in Jobs : /\ job[k].op = "import" /\ job[k].upgrade /\ job[k].at # i /\ IsPrimary(job[k].at)
                  /\ Language[i] \in Audio[job[k].file] /\ Cardinality(Audio[job[k].file]) > 1

\* "an instance only deletes what lives in its own storage" (link/mod.rs:186): a
\* link an instance made to its own file outlives what the others import,
\* upgrade and delete, except for a multi-audio upgrade of a primary.  After a
\* crash or a retry an instance's own delete may run late, and take its newer link.
OwnMovieShown ==
  Settled /\ budgets = <<0, 0>> =>
    \A i \in Instances \ Hardlinks : \A k \in Jobs :
      /\ job[k].op = "import" /\ job[k].at = i /\ job[k].state = "done"
      /\ stored[i] = job[k].file
      /\ i \in Elements(LinkTargets(i, Heard(i, stored[i])))
      => entry[i] = i \/ TakenOver(i)
=============================================================================
