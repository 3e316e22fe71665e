--------------------------- MODULE MovieLibraryProofs ---------------------------
(***************************************************************************)
(* Proofs about MovieLibrary, for any instances, releases, languages and   *)
(* link strategies, and any number of webhooks, outages and crashes.       *)
(***************************************************************************)
EXTENDS MovieLibrary, SelectionProofs, FiniteSetTheorems, SequenceTheorems, TLAPS

Files == Releases \cup {None}
JobRecord == [op : {"import", "fileDelete", "movieDelete", "recordDelete"},
              at : Instances, file : Files, upgrade : BOOLEAN,
              state : {"queued", "running", "backoff", "orphaned", "done", "failed"}]

(* The instances' side.                                                      *)
StorageOK ==
  /\ stored \in [Instances -> Files] /\ folder \in [Instances -> BOOLEAN]
  /\ \A i \in Instances : stored[i] # None => folder[i]

(* A library has links or a mirror, and the mirror one file of a name.       *)
LibraryOK ==
  /\ entry \in [Instances -> Instances \cup {None}]
  /\ mirror \in [Instances -> SUBSET Releases] /\ made \in [Instances -> BOOLEAN]
  /\ \A i \in Instances :
       /\ IF i \in Hardlinks THEN entry[i] = None ELSE ~made[i]
       /\ mirror[i] # {} => made[i]
       /\ \A r, s \in mirror[i] : FileName[r] = FileName[s] => r = s

(* The worker has the one job that runs.                                     *)
QueueOK ==
  /\ job \in Seq(JobRecord)
  /\ run.job \in {0} \cup Jobs
  /\ \A k \in Jobs : run.job = k <=> job[k].state = "running"

(* A handler that makes a link or a mirror is in a library that takes it.    *)
RunOK ==
  /\ DOMAIN run = {"job", "pc", "todo", "langs", "file", "failed"}
  /\ run.pc = "symlink" => Here \notin Hardlinks
  /\ run.pc \in {"list", "hardlink"} => Here \in Hardlinks
  /\ run.pc = "hardlink" => run.file \in Releases /\ made[Here]

MovieInv == StorageOK /\ LibraryOK /\ QueueOK /\ RunOK

LEMMA InvIsTyped == MovieInv => TypeOK
BY DEF MovieInv, StorageOK, LibraryOK, QueueOK, TypeOK, Files

LEMMA InitInv == Init => MovieInv
BY MovieAssumption DEF Init, MovieInv, StorageOK, LibraryOK, QueueOK, RunOK, Idle, Files, Jobs

-----------------------------------------------------------------------------
LEMMA JobTyped ==
  ASSUME QueueOK, NEW k \in Jobs
  PROVE  job[k] \in JobRecord
BY DEF QueueOK, Jobs

(* A job that changes its state, with the worker's place.                    *)
LEMMA StateSet ==
  ASSUME QueueOK, NEW k \in Jobs, NEW s \in {"queued", "running", "backoff", "orphaned", "done", "failed"},
         SetState(k, s), s = "running" <=> run'.job = k,
         run'.job = run.job \/ (run.job \in {0, k} /\ run'.job \in {0, k})
  PROVE  QueueOK'
<1>1. job' \in Seq(JobRecord) /\ Jobs' = Jobs
  <2>1. job[k] \in JobRecord
    BY JobTyped
  <2>2. [job[k] EXCEPT !.state = s] \in JobRecord
    BY <2>1 DEF JobRecord
  <2>3. job' = [job EXCEPT ![k] = [job[k] EXCEPT !.state = s]]
    BY DEF SetState
  <2>4. QED
    BY <2>2, <2>3 DEF QueueOK, Jobs
<1>2. \A m \in Jobs : job'[m].state = IF m = k THEN s ELSE job[m].state
  <2>1. ASSUME NEW m \in Jobs PROVE job[m] \in JobRecord
    BY JobTyped
  <2>2. QED
    BY <2>1 DEF QueueOK, SetState, JobRecord, Jobs
<1>3. 0 \notin Jobs
  BY DEF QueueOK, Jobs
<1>4. QED
  BY <1>1, <1>2, <1>3 DEF QueueOK

(* New webhooks do not disturb the worker.                                   *)
LEMMA Enqueued ==
  ASSUME QueueOK, NEW hooks \in Seq(JobRecord), Enqueue(hooks), UNCHANGED run,
         \A x \in 1 .. Len(hooks) : hooks[x].state = "queued"
  PROVE  QueueOK'
<1>1. job' = job \o hooks /\ job' \in Seq(JobRecord)
  BY DEF Enqueue, QueueOK
<1>2. Jobs' = 1 .. Len(job) + Len(hooks) /\ Jobs = 1 .. Len(job)
  BY <1>1 DEF Jobs, QueueOK
<1>3. ASSUME NEW m \in Jobs' PROVE job'[m] = IF m \in Jobs THEN job[m] ELSE hooks[m - Len(job)]
  BY <1>1, <1>2, <1>3 DEF QueueOK
<1>4. ASSUME NEW m \in Jobs', m \notin Jobs PROVE m - Len(job) \in 1 .. Len(hooks)
  BY <1>2, <1>4 DEF QueueOK
<1>5. QED
  BY <1>1, <1>2, <1>3, <1>4 DEF QueueOK

LEMMA WebhookTyped ==
  ASSUME NEW op \in {"import", "fileDelete", "movieDelete", "recordDelete"},
         NEW i \in Instances, NEW r \in Files, NEW u \in BOOLEAN
  PROVE  Webhook(op, i, r, u) \in JobRecord /\ Webhook(op, i, r, u).state = "queued"
BY DEF Webhook, JobRecord

(* What Radarr does.                                                         *)
LEMMA RadarrSteps ==
  ASSUME MovieInv,
         \/ \E r \in Releases : Download(r)
         \/ \E i \in Instances : DeleteFile(i) \/ DeleteMovie(i, TRUE) \/ DeleteMovie(i, FALSE)
  PROVE  MovieInv'
<1>1. ASSUME NEW r \in Releases, Download(r) PROVE StorageOK' /\ QueueOK'
  <2> DEFINE i == Holder[r]
             u == stored[i] # None
             gone == IF u THEN <<Webhook("fileDelete", i, stored[i], FALSE)>> ELSE <<>>
             hooks == Append(gone, Webhook("import", i, r, u))
  <2>1. i \in Instances /\ stored[i] \in Files /\ u \in BOOLEAN /\ r \in Files
    BY MovieAssumption DEF MovieInv, StorageOK, Files
  <2>2. gone \in Seq(JobRecord) /\ \A x \in 1 .. Len(gone) : gone[x].state = "queued"
    <3>1. CASE u
      <4> DEFINE hook == Webhook("fileDelete", i, stored[i], FALSE)
      <4>1. hook \in JobRecord /\ hook.state = "queued"
        BY <2>1, WebhookTyped
      <4>2. gone = <<hook>>
        BY <3>1
      <4> HIDE DEF hook, gone
      <4>3. QED
        BY <4>1, <4>2
    <3>2. CASE ~u
      BY <3>2
    <3>3. QED
      BY <3>1, <3>2
  <2>3. hooks \in Seq(JobRecord) /\ \A x \in 1 .. Len(hooks) : hooks[x].state = "queued"
    <3> HIDE DEF gone, u
    <3>1. Webhook("import", i, r, u) \in JobRecord /\ Webhook("import", i, r, u).state = "queued"
      BY <2>1, WebhookTyped
    <3>2. QED
      BY <2>2, <3>1
  <2>4. Enqueue(hooks) /\ UNCHANGED run
    BY <1>1 DEF Download
  <2>5. QueueOK'
    <3> HIDE DEF hooks
    <3> QED  BY <2>3, <2>4, Enqueued DEF MovieInv
  <2>6. StorageOK'
    BY <1>1, <2>1 DEF Download, MovieInv, StorageOK, Files
  <2>7. QED
    BY <2>5, <2>6
<1>2. ASSUME NEW i \in Instances, DeleteFile(i) PROVE StorageOK' /\ QueueOK'
  <2> DEFINE hook == Webhook("fileDelete", i, stored[i], FALSE)
  <2>1. hook \in JobRecord /\ hook.state = "queued"
    BY WebhookTyped DEF MovieInv, StorageOK
  <2>2. Enqueue(<<hook>>) /\ UNCHANGED run
    BY <1>2 DEF DeleteFile
  <2>3. QueueOK'
    <3> HIDE DEF hook
    <3>1. <<hook>> \in Seq(JobRecord) /\ \A x \in 1 .. Len(<<hook>>) : <<hook>>[x].state = "queued"
      BY <2>1
    <3>2. QED
      BY <2>2, <3>1, Enqueued DEF MovieInv
  <2>4. QED
    BY <1>2, <2>3 DEF DeleteFile, MovieInv, StorageOK, Files
<1>3. ASSUME NEW i \in Instances, NEW files \in BOOLEAN, DeleteMovie(i, files)
      PROVE  StorageOK' /\ QueueOK'
  <2> DEFINE hook == Webhook(IF files THEN "movieDelete" ELSE "recordDelete", i, None, FALSE)
  <2>1. hook \in JobRecord /\ hook.state = "queued"
    BY WebhookTyped DEF Files
  <2>2. Enqueue(<<hook>>) /\ UNCHANGED run
    BY <1>3 DEF DeleteMovie
  <2>3. QueueOK'
    <3> HIDE DEF hook
    <3>1. <<hook>> \in Seq(JobRecord) /\ \A x \in 1 .. Len(<<hook>>) : <<hook>>[x].state = "queued"
      BY <2>1
    <3>2. QED
      BY <2>2, <3>1, Enqueued DEF MovieInv
  <2>4. QED
    BY <1>3, <2>3 DEF DeleteMovie, MovieInv, StorageOK, Files
<1>4. UNCHANGED <<entry, mirror, made, run>>
  BY DEF Download, DeleteFile, DeleteMovie, libraries
<1>5. LibraryOK' /\ RunOK'
  BY <1>4 DEF MovieInv, LibraryOK, RunOK, Here
<1>6. QED
  BY <1>1, <1>2, <1>3, <1>5 DEF MovieInv

-----------------------------------------------------------------------------
(* The queue's steps leave storage and libraries alone.                      *)
LEMMA QueueSteps ==
  ASSUME MovieInv,
         Crash \/ \E k \in Jobs : Claim(k) \/ BackoffOver(k) \/ Sweep(k)
  PROVE  MovieInv'
<1>0. StorageOK' /\ LibraryOK'
  BY DEF Crash, Claim, BackoffOver, Sweep, storages, libraries, MovieInv, StorageOK, LibraryOK
<1>1. CASE Crash
  <2>1. run.job \in Jobs /\ SetState(run.job, "orphaned") /\ run' = Idle
    BY <1>1 DEF Crash, MovieInv, QueueOK
  <2>2. run'.job = 0 /\ run'.job # run.job
    BY <2>1 DEF Idle, Jobs, MovieInv, QueueOK
  <2>3. QueueOK'
    BY <2>1, <2>2, StateSet DEF MovieInv
  <2>4. RunOK'
    BY <2>1 DEF RunOK, Idle
  <2>5. QED
    BY <1>0, <2>3, <2>4 DEF MovieInv
<1>2. ASSUME NEW k \in Jobs, Claim(k) PROVE MovieInv'
  <2>1. run.job = 0 /\ SetState(k, "running") /\ run'.job = k /\ run'.pc \in {"detect", "finish", "delete"}
    BY <1>2 DEF Claim, Idle
  <2>2. DOMAIN run' = {"job", "pc", "todo", "langs", "file", "failed"}
    BY <1>2 DEF Claim, Idle
  <2>3. QueueOK'
    BY <2>1, StateSet DEF MovieInv
  <2>4. RunOK'
    BY <2>1, <2>2 DEF RunOK
  <2>5. QED
    BY <1>0, <2>3, <2>4 DEF MovieInv
<1>3. ASSUME NEW k \in Jobs, BackoffOver(k) \/ Sweep(k) PROVE MovieInv'
  <2>1. job[k].state # "running" /\ SetState(k, "queued") /\ UNCHANGED run
    BY <1>3 DEF BackoffOver, Sweep
  <2>2. run.job # k
    BY <2>1 DEF MovieInv, QueueOK
  <2>3. QueueOK'
    BY <2>1, <2>2, StateSet DEF MovieInv
  <2>4. RunOK'
    BY <1>3, <2>1 DEF RunOK, Here, MovieInv, BackoffOver, Sweep, libraries
  <2>5. QED
    BY <1>0, <2>3, <2>4 DEF MovieInv
<1>4. QED
  BY <1>1, <1>2, <1>3

-----------------------------------------------------------------------------
(* A handler that goes on: its job is untouched.                             *)
Onward == UNCHANGED job /\ run'.job = run.job /\ DOMAIN run' = DOMAIN run

LEMMA OnwardKeepsQueue == ASSUME QueueOK, Onward PROVE QueueOK'
BY DEF QueueOK, Onward, Jobs

(* A handler that returns.                                                   *)
LEMMA Returned ==
  ASSUME MovieInv, NEW k \in Jobs, run.job = k, NEW s \in {"backoff", "done", "failed"}, Return(k, s)
  PROVE  QueueOK' /\ RunOK'
<1>1. SetState(k, s) /\ run' = Idle
  BY DEF Return
<1>2. run'.job = 0 /\ 0 # k
  BY <1>1 DEF Idle, Jobs, MovieInv, QueueOK
<1>3. QueueOK'
  BY <1>1, <1>2, StateSet DEF MovieInv
<1>4. QED
  BY <1>1, <1>3 DEF RunOK, Idle

LEMMA WentOn ==
  ASSUME MovieInv, Onward, run'.pc \in {"upgrade", "delete", "source", "finish"}
  PROVE  QueueOK' /\ RunOK'
BY OnwardKeepsQueue DEF MovieInv, RunOK, Onward

LEMMA NextLibraryGoesOn ==
  ASSUME MovieInv, NEW failure, NextLibrary(failure)
  PROVE  QueueOK' /\ RunOK'
<1>1. Onward /\ run'.pc \in {"source", "finish"}
  BY DEF NextLibrary, Onward, MovieInv, RunOK
<1>2. QED
  BY <1>1, WentOn

LEMMA LinksGoOn ==
  ASSUME MovieInv, NEW langs, Links(langs), UNCHANGED job
  PROVE  QueueOK' /\ RunOK'
<1>1. Onward /\ run'.pc \in {"source", "finish"}
  BY DEF Links, Onward, MovieInv, RunOK
<1>2. QED
  BY <1>1, WentOn

LEMMA UnlinkedGoesOn ==
  ASSUME MovieInv, NEW k, Unlinked(k)
  PROVE  QueueOK' /\ RunOK'
<1>1. CASE run.pc = "upgrade" /\ Tail(run.todo) = <<>>
  BY <1>1, LinksGoOn DEF Unlinked
<1>2. CASE run.pc = "upgrade" /\ Tail(run.todo) # <<>>
  <2>1. Onward /\ run'.pc = "upgrade"
    BY <1>2 DEF Unlinked, Onward, MovieInv, RunOK
  <2>2. QED
    BY <2>1, WentOn
<1>3. CASE run.pc # "upgrade"
  <2>1. Onward /\ run'.pc \in {"delete", "finish"}
    BY <1>3 DEF Unlinked, Onward, MovieInv, RunOK
  <2>2. QED
    BY <2>1, WentOn
<1>4. QED
  BY <1>1, <1>2, <1>3

(* Removing an entry keeps the library well formed, wherever it stops.       *)
LEMMA UnlinkStep ==
  ASSUME MovieInv, NEW k, UnlinkFolder(k), run.pc \in {"upgrade", "delete"}
  PROVE  LibraryOK' /\ QueueOK' /\ RunOK'
<1>1. CASE mirror[Here] # {}
  <2>1. PICK r \in mirror[Here] : mirror' = [mirror EXCEPT ![Here] = @ \ {r}]
    BY <1>1 DEF UnlinkFolder
  <2>2. UNCHANGED <<entry, made, job, run>>
    BY <1>1 DEF UnlinkFolder
  <2>3. LibraryOK'
    BY <2>1, <2>2 DEF MovieInv, LibraryOK
  <2>4. QueueOK' /\ RunOK'
    BY <2>2 DEF MovieInv, QueueOK, RunOK, Here, Jobs
  <2>5. QED
    BY <2>3, <2>4
<1>2. CASE mirror[Here] = {}
  <2>1. /\ entry' = [entry EXCEPT ![Here] = None] /\ made' = [made EXCEPT ![Here] = FALSE]
        /\ UNCHANGED mirror /\ Unlinked(k)
    BY <1>2 DEF UnlinkFolder
  <2>2. LibraryOK'
    BY <1>2, <2>1 DEF MovieInv, LibraryOK
  <2>3. QED
    BY <2>1, <2>2, UnlinkedGoesOn
<1>3. QED
  BY <1>1, <1>2

(* The handlers' steps: none changes storage, and each leaves the library    *)
(* in hand well formed.                                                      *)
LEMMA HandlerSteps ==
  ASSUME MovieInv, NEW k \in Jobs, Handler(k)
  PROVE  MovieInv'
<1>0. StorageOK'
  BY DEF Handler, Detect, DetectFails, Upgrade, Delete, Source, Symlink, List, Hardlink,
         Finish, storages, MovieInv, StorageOK
<1>1. CASE Detect(k)
  <2>1. LibraryOK'
    BY <1>1 DEF Detect, libraries, MovieInv, LibraryOK
  <2>2. CASE stored[job[k].at] = job[k].file /\ job[k].upgrade
    <3>1. Onward /\ run'.pc = "upgrade"
      BY <1>1, <2>2 DEF Detect, Onward, MovieInv, RunOK
    <3>2. QED
      BY <1>0, <2>1, <3>1, WentOn DEF MovieInv
  <2>3. CASE stored[job[k].at] = job[k].file /\ ~job[k].upgrade
    <3>1. Links(Heard(job[k].at, job[k].file)) /\ UNCHANGED job
      BY <1>1, <2>3 DEF Detect
    <3>2. QED
      BY <1>0, <2>1, <3>1, LinksGoOn DEF MovieInv
  <2>4. CASE stored[job[k].at] # job[k].file
    <3>1. Return(k, "failed") /\ run.job = k
      BY <1>1, <2>4 DEF Detect, At
    <3>2. QED
      BY <1>0, <2>1, <3>1, Returned DEF MovieInv
  <2>5. QED
    BY <2>2, <2>3, <2>4
<1>2. CASE DetectFails(k)
  <2>1. Return(k, "failed") /\ run.job = k /\ LibraryOK'
    BY <1>2 DEF DetectFails, At, libraries, MovieInv, LibraryOK
  <2>2. QED
    BY <1>0, <2>1, Returned DEF MovieInv
<1>3. CASE Upgrade(k)
  <2>1. UnlinkFolder(k) /\ run.pc = "upgrade"
    BY <1>3 DEF Upgrade, At
  <2>2. QED
    BY <1>0, <2>1, UnlinkStep DEF MovieInv
<1>4. CASE Delete(k)
  <2>1. CASE MayUnlink(job[k].at, Here)
    <3>1. UnlinkFolder(k) /\ run.pc = "delete"
      BY <1>4, <2>1 DEF Delete, At
    <3>2. QED
      BY <1>0, <3>1, UnlinkStep DEF MovieInv
  <2>2. CASE ~MayUnlink(job[k].at, Here)
    <3>1. Unlinked(k) /\ LibraryOK'
      BY <1>4, <2>2 DEF Delete, libraries, MovieInv, LibraryOK
    <3>2. QED
      BY <1>0, <3>1, UnlinkedGoesOn DEF MovieInv
  <2>3. QED
    BY <2>1, <2>2
<1>5. CASE Source(k)
  <2>1. LibraryOK'
    BY <1>5 DEF Source, libraries, MovieInv, LibraryOK
  <2>2. CASE folder[job[k].at]
    <3>1. run' = [run EXCEPT !.pc = IF Here \in Hardlinks THEN "list" ELSE "symlink"] /\ UNCHANGED job
      BY <1>5, <2>2 DEF Source
    <3>2. Onward /\ Here' = Here /\ run'.pc = IF Here \in Hardlinks THEN "list" ELSE "symlink"
      BY <3>1 DEF Onward, Here, MovieInv, RunOK
    <3>3. RunOK'
      BY <3>2 DEF MovieInv, RunOK, Onward
    <3>4. QED
      BY <1>0, <2>1, <3>2, <3>3, OnwardKeepsQueue DEF MovieInv
  <2>3. CASE ~folder[job[k].at]
    <3>1. NextLibrary("permanent")
      BY <1>5, <2>3 DEF Source
    <3>2. QED
      BY <1>0, <2>1, <3>1, NextLibraryGoesOn DEF MovieInv
  <2>4. QED
    BY <2>2, <2>3
<1>6. CASE Symlink(k)
  <2>1. job[k].at \in Instances /\ Here \notin Hardlinks
    BY <1>6, JobTyped DEF Symlink, At, MovieInv, RunOK, JobRecord
  <2>2. UNCHANGED <<mirror, made>>
        /\ (UNCHANGED entry \/ entry' = [entry EXCEPT ![Here] = job[k].at])
    BY <1>6 DEF Symlink
  <2>3. LibraryOK'
    BY <2>1, <2>2 DEF MovieInv, LibraryOK
  <2>4. NextLibrary("no") \/ NextLibrary("permanent")
    BY <1>6 DEF Symlink
  <2>5. QED
    BY <1>0, <2>3, <2>4, NextLibraryGoesOn DEF MovieInv
<1>7. CASE List(k)
  <2>1. Here \in Hardlinks /\ made' = [made EXCEPT ![Here] = TRUE] /\ UNCHANGED <<entry, mirror>>
    BY <1>7 DEF List, At, MovieInv, RunOK
  <2>2. LibraryOK'
    BY <2>1 DEF MovieInv, LibraryOK
  <2>3. job[k].at \in Instances
    BY JobTyped DEF MovieInv, JobRecord
  <2>4. CASE NextLibrary("no") \/ NextLibrary("permanent")
    BY <1>0, <2>2, <2>4, NextLibraryGoesOn DEF MovieInv
  <2>5. CASE /\ stored[job[k].at] # None /\ UNCHANGED job
             /\ run' = [run EXCEPT !.pc = "hardlink", !.file = stored[job[k].at]]
    <3>1. stored[job[k].at] \in Releases
      BY <2>3, <2>5 DEF MovieInv, StorageOK, Files
    <3>2. Onward /\ Here' = Here /\ run'.pc = "hardlink" /\ run'.file = stored[job[k].at]
      BY <2>5 DEF Onward, Here, MovieInv, RunOK
    <3>3. made'[Here]
      BY <2>1, MovieAssumption DEF MovieInv, LibraryOK
    <3>4. RunOK'
      BY <2>1, <3>1, <3>2, <3>3 DEF MovieInv, RunOK, Onward
    <3>5. QED
      BY <1>0, <2>2, <3>2, <3>4, OnwardKeepsQueue DEF MovieInv
  <2>6. QED
    BY <1>7, <2>4, <2>5 DEF List
<1>8. CASE Hardlink(k)
  <2>1. Here \in Hardlinks /\ run.file \in Releases /\ made[Here] /\ UNCHANGED <<entry, made>>
    BY <1>8 DEF Hardlink, At, MovieInv, RunOK
  <2>2. PICK taken : taken = {r \in mirror[Here] : FileName[r] = FileName[run.file]}
    OBVIOUS
  <2>3. CASE taken \subseteq {run.file} /\ stored[job[k].at] = run.file
    <3>1. mirror' = [mirror EXCEPT ![Here] = @ \cup {run.file}] /\ NextLibrary("no")
      BY <1>8, <2>2, <2>3 DEF Hardlink
    <3>2. \A q \in mirror[Here] : FileName[q] = FileName[run.file] => q = run.file
      BY <2>2, <2>3
    <3>3. LibraryOK'
      <4>1. mirror' \in [Instances -> SUBSET Releases]
        BY <2>1, <3>1 DEF MovieInv, LibraryOK
      <4>2. QED
        BY <2>1, <3>1, <3>2, <4>1 DEF MovieInv, LibraryOK
    <3>4. QED
      BY <1>0, <3>1, <3>3, NextLibraryGoesOn DEF MovieInv
  <2>4. CASE ~(taken \subseteq {run.file} /\ stored[job[k].at] = run.file)
    <3>1. NextLibrary("permanent") /\ UNCHANGED mirror
      BY <1>8, <2>2, <2>4 DEF Hardlink
    <3>2. LibraryOK'
      BY <2>1, <3>1 DEF MovieInv, LibraryOK
    <3>3. QED
      BY <1>0, <3>1, <3>2, NextLibraryGoesOn DEF MovieInv
  <2>5. QED
    BY <2>3, <2>4
<1>9. CASE Finish(k)
  <2>1. LibraryOK' /\ run.job = k
    BY <1>9 DEF Finish, At, libraries, MovieInv, LibraryOK
  <2>2. Return(k, "done") \/ Return(k, "failed") \/ Return(k, "backoff")
    BY <1>9 DEF Finish
  <2>3. QED
    BY <1>0, <2>1, <2>2, Returned DEF MovieInv
<1>10. QED
  BY <1>1, <1>2, <1>3, <1>4, <1>5, <1>6, <1>7, <1>8, <1>9 DEF Handler

LEMMA StepInv == MovieInv /\ [Next]_vars => MovieInv'
<1> SUFFICES ASSUME MovieInv, [Next]_vars PROVE MovieInv'
  OBVIOUS
<1>1. CASE UNCHANGED vars
  BY <1>1 DEF vars, storages, libraries, MovieInv, StorageOK, LibraryOK, QueueOK, RunOK, Jobs, Here
<1>2. CASE Next
  BY <1>2, RadarrSteps, QueueSteps, HandlerSteps DEF Next
<1>3. QED
  BY <1>1, <1>2

-----------------------------------------------------------------------------
(* Every reachable state is well typed: through any upgrades, deletes,       *)
(* outages and crashes in the middle of a mirror, a library holds either     *)
(* links or a mirror, a mirror never two files of one name, and at most one  *)
(* job runs.                                                                 *)
THEOREM MovieTypeCorrect == Spec => []TypeOK
<1>1. Spec => []MovieInv
  BY InitInv, StepInv, PTL DEF Spec
<1>2. QED
  BY <1>1, InvIsTyped, PTL

-----------------------------------------------------------------------------
(* What the libraries show.                                                  *)

Deletes == {"fileDelete", "movieDelete"}

(* The libraries the imports and the deletes of o go through.                *)
Reaches(o, i) == IsPrimary(o) \/ i = o

(* The file r of o may be shown in the library of i.                         *)
Fits(i, o, r) == r # None /\ (IsPrimary(i) \/ Language[i] \in Heard(o, r))

(* A delete of o that will visit every library it reaches, or one that runs  *)
(* and has not visited that of i yet.                                        *)
Waiting(o) ==
  \E k \in Jobs : job[k].op \in Deletes /\ job[k].at = o /\ job[k].state \in {"queued", "backoff", "orphaned"}

Visits(o, i) ==
  run.job # 0 /\ job[run.job].op \in Deletes /\ job[run.job].at = o /\ i \in Elements(run.todo)

OnItsWay(o, i) == Waiting(o) \/ Visits(o, i)

(* An instance stores, and imports, what it may find.                        *)
FilesAreTheirs ==
  /\ \A i \in Instances : stored[i] # None => Holder[stored[i]] = i
  /\ \A k \in Jobs : job[k].op = "import" => job[k].file \in Releases /\ Holder[job[k].file] = job[k].at

(* A link, or a mirrored file, that does not fit has a delete on its way.    *)
EntriesFit ==
  \A i \in Instances : entry[i] # None =>
    Reaches(entry[i], i) /\ (Fits(i, entry[i], stored[entry[i]]) \/ OnItsWay(entry[i], i))

MirrorsFit ==
  \A i \in Instances : \A r \in mirror[i] :
    Reaches(Holder[r], i) /\ ((stored[Holder[r]] = r /\ Fits(i, Holder[r], r)) \/ OnItsWay(Holder[r], i))

(* An import links what its file is for; when the file has gone meanwhile,   *)
(* its delete waits.                                                         *)
ImportFits(j, r) ==
  /\ r.pc \in {"detect", "upgrade", "source", "symlink", "list", "hardlink", "finish"}
  /\ r.pc \notin {"detect", "finish"} =>
       /\ r.todo # <<>> /\ r.langs = Heard(j.at, j.file)
       /\ stored[j.at] = j.file \/ Waiting(j.at)
  /\ r.pc \in {"source", "symlink", "list", "hardlink"} =>
       \A i \in Elements(r.todo) : Reaches(j.at, i) /\ (IsPrimary(i) \/ Language[i] \in r.langs)
  /\ r.pc = "hardlink" => r.file \in Releases /\ Holder[r.file] = j.at

(* A delete ends when it has visited all.                                    *)
DeleteFits(r) ==
  r.pc \in {"delete", "finish"} /\ (r.pc = "delete" <=> r.todo # <<>>)

WorkFits ==
  run.job # 0 =>
    /\ run.todo \in Seq(Instances)
    /\ job[run.job].op = "import" => ImportFits(job[run.job], run)
    /\ job[run.job].op \in Deletes => DeleteFits(run)
    /\ job[run.job].op = "recordDelete" => run.pc = "finish"

FitInv == FilesAreTheirs /\ EntriesFit /\ MirrorsFit /\ WorkFits

-----------------------------------------------------------------------------
(* The libraries a handler goes through.                                     *)
LEMMA ConfigTyped == Config \in Seq(Instances) /\ Elements(Config) = Instances
BY MovieAssumption DEF Instances

LEMMA HeardTyped ==
  ASSUME NEW i \in Instances, NEW r \in Releases
  PROVE  Heard(i, r) \in SUBSET Languages
BY MovieAssumption DEF Heard, Languages

LEMMA SpeakingTyped ==
  ASSUME NEW langs
  PROVE  /\ Speaking(langs) \in Seq(Instances)
         /\ Elements(Speaking(langs)) = Instances \cap {i \in Instances : Language[i] \in langs}
BY ConfigTyped, FilterElements DEF Speaking

LEMMA NothingTodo == Elements(<<>>) = {}
BY DEF Elements

LEMMA OneTodo == ASSUME NEW i \in Instances PROVE <<i>> \in Seq(Instances) /\ Elements(<<i>>) = {i} /\ <<i>> # <<>>
BY SingleDistinct

(* An import links only where its file fits, and where its delete reaches.   *)
LEMMA TargetsFit ==
  ASSUME NEW o \in Instances, NEW langs
  PROVE  /\ LinkTargets(o, langs) \in Seq(Instances)
         /\ \A i \in Elements(LinkTargets(o, langs)) : Reaches(o, i) /\ (IsPrimary(i) \/ Language[i] \in langs)
<1>1. /\ Append(Speaking(langs), o) \in Seq(Instances)
      /\ Elements(Append(Speaking(langs), o)) = Elements(Speaking(langs)) \cup {o}
  BY SpeakingTyped, AppendElements
<1>2. <<>> \in Seq(Instances)
  OBVIOUS
<1>3. CASE Language[o] \in langs /\ IsPrimary(o)
  BY <1>3, SpeakingTyped DEF LinkTargets, Reaches
<1>4. CASE Language[o] \in langs /\ ~IsPrimary(o)
  BY <1>4, OneTodo DEF LinkTargets, Reaches
<1>5. CASE Language[o] \notin langs /\ IsPrimary(o)
  BY <1>1, <1>5, SpeakingTyped DEF LinkTargets, Reaches
<1>6. CASE Language[o] \notin langs /\ ~IsPrimary(o)
  BY <1>2, <1>6, NothingTodo DEF LinkTargets
<1>7. QED
  BY <1>3, <1>4, <1>5, <1>6

-----------------------------------------------------------------------------
(* Webhooks are queued behind the others, which stay as they are.            *)
LEMMA EnqueueExtends ==
  ASSUME QueueOK, NEW hooks \in Seq(JobRecord), Enqueue(hooks)
  PROVE  /\ Jobs \subseteq Jobs' /\ \A k \in Jobs : job'[k] = job[k]
         /\ \A k \in Jobs' \ Jobs : job'[k] \in Elements(hooks)
         /\ \A h \in Elements(hooks) : \E k \in Jobs' : job'[k] = h
<1>1. /\ job \in Seq(JobRecord) /\ job' = job \o hooks /\ Len(job) \in Nat /\ Len(hooks) \in Nat
      /\ Jobs = 1 .. Len(job)
  BY LenProperties DEF QueueOK, Jobs, Enqueue
<1>2. Jobs' = 1 .. Len(job) + Len(hooks)
      /\ \A k \in Jobs' : job'[k] = IF k <= Len(job) THEN job[k] ELSE hooks[k - Len(job)]
  BY <1>1, ConcatProperties, LenProperties DEF Jobs
<1>3. ASSUME NEW x \in 1 .. Len(hooks) PROVE Len(job) + x \in Jobs' /\ job'[Len(job) + x] = hooks[x]
  <2>1. Len(job) + x \in Jobs' /\ ~(Len(job) + x <= Len(job)) /\ Len(job) + x - Len(job) = x
    BY <1>1, <1>2
  <2>2. QED
    BY <1>2, <2>1
<1>4. ASSUME NEW k \in Jobs' \ Jobs PROVE k - Len(job) \in 1 .. Len(hooks) /\ job'[k] = hooks[k - Len(job)]
  BY <1>1, <1>2
<1>0. DOMAIN hooks = 1 .. Len(hooks)
  BY LenProperties
<1>5. \A k \in Jobs' \ Jobs : job'[k] \in Elements(hooks)
  BY <1>0, <1>4 DEF Elements
<1>6. \A h \in Elements(hooks) : \E k \in Jobs' : job'[k] = h
  BY <1>0, <1>3 DEF Elements
<1>7. Jobs \subseteq Jobs' /\ \A k \in Jobs : job'[k] = job[k]
  BY <1>1, <1>2
<1>8. QED
  BY <1>5, <1>6, <1>7

(* The other jobs keep theirs, and what was on its way still is.             *)
LEMMA StorageChanges ==
  ASSUME MovieInv, FitInv, Jobs \subseteq Jobs', \A k \in Jobs : job'[k] = job[k],
         UNCHANGED <<entry, mirror, run>>, FilesAreTheirs',
         \A i \in Instances : stored'[i] = stored[i] \/ stored[i] = None \/ Waiting(i)'
  PROVE  FitInv'
<1>1. \A o : Waiting(o) => Waiting(o)'
  BY DEF Waiting
<1>2. run.job # 0 => run.job \in Jobs /\ job'[run.job] = job[run.job]
  BY DEF MovieInv, QueueOK
<1>3. \A o, i : OnItsWay(o, i) => OnItsWay(o, i)'
  BY <1>1, <1>2 DEF OnItsWay, Visits
<1>4. ASSUME NEW o \in Instances, NEW r, r # None, stored[o] = r \/ Waiting(o)
      PROVE  stored'[o] = r \/ Waiting(o)'
  BY <1>1, <1>4
<1>5. EntriesFit'
  <2>1. ASSUME NEW i \in Instances, entry[i] # None
        PROVE  Reaches(entry[i], i) /\ (Fits(i, entry[i], stored'[entry[i]]) \/ OnItsWay(entry[i], i)')
    <3>1. Reaches(entry[i], i) /\ (Fits(i, entry[i], stored[entry[i]]) \/ OnItsWay(entry[i], i))
      BY <2>1 DEF FitInv, EntriesFit
    <3>2. entry[i] \in Instances
      BY <2>1 DEF MovieInv, LibraryOK
    <3>3. QED
      BY <1>3, <3>1, <3>2 DEF Fits, OnItsWay
  <2>2. QED
    BY <2>1 DEF EntriesFit
<1>6. MirrorsFit'
  <2>1. ASSUME NEW i \in Instances, NEW r \in mirror[i]
        PROVE  /\ Reaches(Holder[r], i)
               /\ (stored'[Holder[r]] = r /\ Fits(i, Holder[r], r)) \/ OnItsWay(Holder[r], i)'
    <3>1. Reaches(Holder[r], i) /\ ((stored[Holder[r]] = r /\ Fits(i, Holder[r], r)) \/ OnItsWay(Holder[r], i))
      BY DEF FitInv, MirrorsFit
    <3>2. Holder[r] \in Instances
      BY MovieAssumption DEF MovieInv, LibraryOK
    <3>3. QED
      BY <1>3, <3>1, <3>2 DEF Fits, OnItsWay
  <2>2. QED
    BY <2>1 DEF MirrorsFit
<1>7. WorkFits'
  <2>1. CASE run.job = 0
    BY <2>1 DEF WorkFits
  <2>2. CASE run.job # 0
    <3>1. job[run.job].op = "import" => job[run.job].file # None /\ job[run.job].at \in Instances
      BY <1>2, <2>2, JobTyped, MovieAssumption DEF FitInv, FilesAreTheirs, MovieInv, JobRecord
    <3>2. PICK j : j = job[run.job]
      OBVIOUS
    <3>3. ImportFits(j, run) /\ j.op = "import" => ImportFits(j, run)'
      BY <1>4, <3>1, <3>2 DEF ImportFits
    <3>4. QED
      BY <1>2, <2>2, <3>2, <3>3 DEF FitInv, WorkFits, DeleteFits
  <2>3. QED
    BY <2>1, <2>2
<1>8. QED
  BY <1>5, <1>6, <1>7 DEF FitInv

-----------------------------------------------------------------------------
(* A download's webhooks: the import comes last, behind the report of the    *)
(* file it replaces.                                                         *)
LEMMA DownloadHooks ==
  ASSUME MovieInv, NEW r \in Releases, Download(r)
  PROVE  \E hooks \in Seq(JobRecord) :
           /\ Enqueue(hooks)
           /\ \A h \in Elements(hooks) :
                /\ h.state = "queued" /\ h.at = Holder[r]
                /\ (h.op = "import" /\ h.file = r) \/ (h.op = "fileDelete" /\ stored[Holder[r]] # None)
           /\ stored[Holder[r]] # None => \E h \in Elements(hooks) : h.op = "fileDelete"
           /\ \A x \in 1 .. Len(hooks) : hooks[x].op = "import" => x = Len(hooks)
<1> DEFINE i == Holder[r]
           u == stored[i] # None
           del == Webhook("fileDelete", i, stored[i], FALSE)
           imp == Webhook("import", i, r, u)
           gone == IF u THEN <<del>> ELSE <<>>
<1>1. i \in Instances /\ stored[i] \in Files /\ u \in BOOLEAN /\ r \in Files
  BY MovieAssumption DEF MovieInv, StorageOK, Files
<1>2. /\ del \in JobRecord /\ del.op = "fileDelete" /\ del.at = i /\ del.state = "queued"
      /\ imp \in JobRecord /\ imp.op = "import" /\ imp.at = i /\ imp.state = "queued" /\ imp.file = r
  BY <1>1, WebhookTyped DEF Webhook
<1>3. Enqueue(Append(gone, imp))
  BY DEF Download
<1>4. /\ gone \in Seq(JobRecord) /\ Elements(gone) = IF u THEN {del} ELSE {}
  <2>1. CASE u
    <3>1. gone = <<del>> /\ u
      BY <2>1
    <3> HIDE DEF del, u, i, gone
    <3>2. QED
      BY <1>2, <3>1, SingleDistinct
  <2>2. CASE ~u
    <3>1. gone = <<>> /\ ~u
      BY <2>2
    <3> HIDE DEF del, u, i, gone
    <3>2. QED
      BY <3>1, NothingTodo
  <2>3. QED
    BY <2>1, <2>2
<1>5. PICK hooks : hooks = Append(gone, imp)
  OBVIOUS
<1> HIDE DEF gone, del, imp
<1>6. hooks \in Seq(JobRecord) /\ Elements(hooks) = Elements(gone) \cup {imp}
  BY <1>2, <1>4, <1>5, AppendElements
<1>7. \A x \in 1 .. Len(hooks) : hooks[x].op = "import" => x = Len(hooks)
  <2>1. Len(gone) \in Nat /\ DOMAIN gone = 1 .. Len(gone)
    BY <1>4, LenProperties
  <2>2. Len(hooks) = Len(gone) + 1 /\ \A x \in 1 .. Len(gone) : hooks[x] = gone[x]
    BY <1>2, <1>4, <1>5, AppendProperties
  <2>3. \A x \in 1 .. Len(gone) : gone[x] \in Elements(gone)
    BY <2>1 DEF Elements
  <2>4. \A x \in 1 .. Len(gone) : hooks[x].op = "fileDelete"
    BY <1>2, <1>4, <2>2, <2>3
  <2>5. QED
    BY <2>1, <2>2, <2>4
<1>8. Enqueue(hooks)
  BY <1>3, <1>5
<1>9. /\ \A h \in Elements(hooks) :
           /\ h.state = "queued" /\ h.at = Holder[r]
           /\ (h.op = "import" /\ h.file = r) \/ (h.op = "fileDelete" /\ stored[Holder[r]] # None)
      /\ stored[Holder[r]] # None => \E h \in Elements(hooks) : h.op = "fileDelete"
  <2>1. (u <=> stored[Holder[r]] # None) /\ i = Holder[r]
    OBVIOUS
  <2> HIDE DEF u, i
  <2>2. ASSUME NEW h \in Elements(hooks) PROVE h = imp \/ (u /\ h = del)
    BY <1>1, <1>4, <1>6
  <2>3. u => del \in Elements(hooks)
    BY <1>4, <1>6
  <2>4. QED
    BY <1>2, <2>1, <2>2, <2>3
<1>10. QED
  BY <1>6, <1>7, <1>8, <1>9

(* What Radarr does keeps the libraries fitting: a file that goes is         *)
(* reported.                                                                 *)
LEMMA RadarrKeepsFit ==
  ASSUME MovieInv, FitInv,
         \/ \E r \in Releases : Download(r)
         \/ \E i \in Instances : DeleteFile(i) \/ DeleteMovie(i, TRUE) \/ DeleteMovie(i, FALSE)
  PROVE  FitInv'
<1>1. ASSUME NEW r \in Releases, Download(r) PROVE FitInv'
  <2>1. PICK i \in Instances : i = Holder[r]
    BY MovieAssumption
  <2>2. PICK hooks \in Seq(JobRecord) :
           /\ Enqueue(hooks)
           /\ \A h \in Elements(hooks) :
                /\ h.state = "queued" /\ h.at = i
                /\ (h.op = "import" /\ h.file = r) \/ (h.op = "fileDelete" /\ stored[i] # None)
           /\ stored[i] # None => \E h \in Elements(hooks) : h.op = "fileDelete"
    BY <1>1, <2>1, DownloadHooks
  <2>3. /\ Jobs \subseteq Jobs' /\ \A k \in Jobs : job'[k] = job[k]
        /\ \A k \in Jobs' \ Jobs : job'[k] \in Elements(hooks)
        /\ \A h \in Elements(hooks) : \E k \in Jobs' : job'[k] = h
    BY <2>2, EnqueueExtends DEF MovieInv
  <2>4. UNCHANGED <<entry, mirror, run>> /\ stored' = [stored EXCEPT ![i] = r]
    BY <1>1, <2>1 DEF Download, libraries
  <2>5. stored[i] # None => Waiting(i)'
    BY <2>2, <2>3 DEF Waiting, Deletes
  <2>6. FilesAreTheirs'
    <3>1. \A k \in Jobs' \ Jobs : job'[k].op = "import" => job'[k].file = r /\ job'[k].at = i
      BY <2>2, <2>3
    <3>2. \A j \in Instances : stored'[j] # None => Holder[stored'[j]] = j
      BY <2>1, <2>4 DEF FitInv, FilesAreTheirs, MovieInv, StorageOK
    <3>3. QED
      BY <2>1, <2>3, <3>1, <3>2 DEF FitInv, FilesAreTheirs
  <2>7. \A j \in Instances : stored'[j] = stored[j] \/ stored[j] = None \/ Waiting(j)'
    BY <2>4, <2>5 DEF MovieInv, StorageOK
  <2>8. QED
    BY <2>3, <2>4, <2>6, <2>7, StorageChanges
<1>2. ASSUME NEW i \in Instances, NEW op \in Deletes \cup {"recordDelete"}, NEW f \in Files,
             Enqueue(<<Webhook(op, i, f, FALSE)>>), UNCHANGED libraries, UNCHANGED run,
             stored' = stored \/ (op \in Deletes /\ stored' = [stored EXCEPT ![i] = None])
      PROVE  FitInv'
  <2>1. PICK hook \in JobRecord : hook = Webhook(op, i, f, FALSE)
    BY WebhookTyped DEF Deletes
  <2>2. /\ Jobs \subseteq Jobs' /\ \A k \in Jobs : job'[k] = job[k]
        /\ \A k \in Jobs' \ Jobs : job'[k] = hook
        /\ \E k \in Jobs' : job'[k] = hook
    <3>1. PICK hooks \in Seq(JobRecord) : hooks = <<hook>> /\ Elements(hooks) = {hook}
      BY SingleDistinct
    <3>2. /\ Jobs \subseteq Jobs' /\ \A k \in Jobs : job'[k] = job[k]
          /\ \A k \in Jobs' \ Jobs : job'[k] \in Elements(hooks)
          /\ \A h \in Elements(hooks) : \E k \in Jobs' : job'[k] = h
      BY <1>2, <2>1, <3>1, EnqueueExtends DEF MovieInv
    <3>3. QED
      BY <3>1, <3>2
  <2>3. hook.op = op /\ hook.at = i /\ hook.state = "queued"
    BY <2>1 DEF Webhook
  <2>4. op \in Deletes => Waiting(i)'
    BY <2>2, <2>3 DEF Waiting
  <2>5. FilesAreTheirs'
    BY <1>2, <2>2, <2>3 DEF FitInv, FilesAreTheirs, MovieInv, StorageOK, Deletes
  <2>6. \A j \in Instances : stored'[j] = stored[j] \/ stored[j] = None \/ Waiting(j)'
    BY <1>2, <2>4 DEF MovieInv, StorageOK
  <2>7. QED
    BY <1>2, <2>2, <2>5, <2>6, StorageChanges DEF libraries
<1>3. ASSUME NEW i \in Instances, DeleteFile(i) PROVE FitInv'
  BY <1>2, <1>3 DEF DeleteFile, Deletes, MovieInv, StorageOK
<1>4. ASSUME NEW i \in Instances, DeleteMovie(i, TRUE) PROVE FitInv'
  BY <1>2, <1>4 DEF DeleteMovie, Deletes, Files
<1>5. ASSUME NEW i \in Instances, DeleteMovie(i, FALSE) PROVE FitInv'
  BY <1>2, <1>5 DEF DeleteMovie, Deletes, Files
<1>6. QED
  BY <1>1, <1>3, <1>4, <1>5

-----------------------------------------------------------------------------
(* A job that changes its state stays what it is, like the others.           *)
LEMMA OnlyState ==
  ASSUME QueueOK, NEW k \in Jobs, NEW s, SetState(k, s)
  PROVE  /\ Jobs' = Jobs
         /\ \A m \in Jobs : /\ job'[m].op = job[m].op /\ job'[m].at = job[m].at /\ job'[m].file = job[m].file
                            /\ job'[m].upgrade = job[m].upgrade
                            /\ job'[m].state = IF m = k THEN s ELSE job[m].state
<1>1. \A m \in Jobs : job[m] \in JobRecord
  BY JobTyped
<1>2. QED
  BY <1>1 DEF QueueOK, SetState, JobRecord, Jobs

(* What fits, or has a delete on its way, still does.                        *)
LEMMA FitsOn ==
  ASSUME MovieInv, FitInv, UNCHANGED stored, Jobs' = Jobs,
         \A m \in Jobs : job'[m].op = job[m].op /\ job'[m].at = job[m].at /\ job'[m].file = job[m].file,
         \A i \in Instances : entry'[i] \in {None, entry[i]} /\ mirror'[i] \subseteq mirror[i],
         \A i, o \in Instances :
           OnItsWay(o, i) /\ Reaches(o, i) /\ (entry'[i] = o \/ \E r \in mirror'[i] : Holder[r] = o)
             => OnItsWay(o, i)'
  PROVE  FilesAreTheirs' /\ EntriesFit' /\ MirrorsFit'
<1>1. FilesAreTheirs'
  BY DEF FitInv, FilesAreTheirs
<1>2. ASSUME NEW i \in Instances, entry'[i] # None
      PROVE  Reaches(entry'[i], i) /\ (Fits(i, entry'[i], stored[entry'[i]]) \/ OnItsWay(entry[i], i)')
  <2>1. PICK o \in Instances : o = entry[i] /\ entry'[i] = o
    BY <1>2 DEF MovieInv, LibraryOK
  <2>2. Reaches(o, i) /\ (Fits(i, o, stored[o]) \/ OnItsWay(o, i))
    BY <1>2, <2>1 DEF FitInv, EntriesFit
  <2>3. QED
    BY <2>1, <2>2
<1>3. ASSUME NEW i \in Instances, NEW r \in mirror'[i]
      PROVE  Reaches(Holder[r], i) /\ ((stored[Holder[r]] = r /\ Fits(i, Holder[r], r)) \/ OnItsWay(Holder[r], i)')
  <2>1. r \in mirror[i]
    OBVIOUS
  <2>2. PICK o \in Instances : o = Holder[r]
    BY <2>1, MovieAssumption DEF MovieInv, LibraryOK
  <2>3. Reaches(o, i) /\ ((stored[o] = r /\ Fits(i, o, r)) \/ OnItsWay(o, i))
    BY <2>1, <2>2 DEF FitInv, MirrorsFit
  <2>4. QED
    BY <2>2, <2>3
<1>4. EntriesFit' /\ MirrorsFit'
  BY <1>2, <1>3 DEF EntriesFit, MirrorsFit
<1>5. QED
  BY <1>1, <1>4

(* The queue's steps: a delete that crashed begins anew, and one that is     *)
(* claimed will visit every library it reaches.                              *)
LEMMA QueueKeepsFit ==
  ASSUME MovieInv, FitInv,
         Crash \/ \E k \in Jobs : Claim(k) \/ BackoffOver(k) \/ Sweep(k)
  PROVE  FitInv'
<1>0. UNCHANGED <<stored, entry, mirror>>
  BY DEF Crash, Claim, BackoffOver, Sweep, storages, libraries
<1>1. CASE Crash
  <2>1. run.job \in Jobs /\ SetState(run.job, "orphaned") /\ run' = Idle
    BY <1>1 DEF Crash, MovieInv, QueueOK
  <2>2. /\ Jobs' = Jobs
        /\ \A m \in Jobs : /\ job'[m].op = job[m].op /\ job'[m].at = job[m].at /\ job'[m].file = job[m].file
                           /\ job'[m].state = IF m = run.job THEN "orphaned" ELSE job[m].state
    BY <2>1, OnlyState DEF MovieInv
  <2>3. ASSUME NEW o, NEW i, OnItsWay(o, i) PROVE OnItsWay(o, i)'
    BY <2>1, <2>2, <2>3 DEF OnItsWay, Waiting, Visits
  <2>4. WorkFits'
    BY <2>1 DEF WorkFits, Idle
  <2>5. QED
    BY <1>0, <2>2, <2>3, <2>4, FitsOn DEF FitInv
<1>2. ASSUME NEW k \in Jobs, BackoffOver(k) \/ Sweep(k) PROVE FitInv'
  <2>1. job[k].state \in {"backoff", "orphaned"} /\ SetState(k, "queued") /\ run' = run
    BY <1>2 DEF BackoffOver, Sweep
  <2>2. /\ Jobs' = Jobs
        /\ \A m \in Jobs : /\ job'[m].op = job[m].op /\ job'[m].at = job[m].at /\ job'[m].file = job[m].file
                           /\ job'[m].state = IF m = k THEN "queued" ELSE job[m].state
    BY <2>1, OnlyState DEF MovieInv
  <2>3. run.job # 0 => run.job \in Jobs
    BY DEF MovieInv, QueueOK
  <2>4. \A o : Waiting(o) => Waiting(o)'
    BY <2>2 DEF Waiting
  <2>5. \A o, i : OnItsWay(o, i) => OnItsWay(o, i)'
    BY <2>1, <2>2, <2>3, <2>4 DEF OnItsWay, Visits
  <2>6. WorkFits'
    BY <1>0, <2>1, <2>2, <2>3, <2>4 DEF FitInv, WorkFits, ImportFits, DeleteFits
  <2>7. QED
    BY <1>0, <2>2, <2>5, <2>6, FitsOn DEF FitInv
<1>3. ASSUME NEW k \in Jobs, Claim(k) PROVE FitInv'
  <2> DEFINE j == job[k]
  <2>0. j \in JobRecord
    BY JobTyped DEF MovieInv
  <2>1. /\ run.job = 0 /\ SetState(k, "running") /\ run'.job = k
        /\ j.op = "import" => run'.pc = "detect" /\ run'.todo = <<>>
        /\ j.op = "recordDelete" => run'.pc = "finish" /\ run'.todo = <<>>
        /\ j.op \in Deletes => run'.pc = "delete" /\ run'.todo = IF IsPrimary(j.at) THEN Config ELSE <<j.at>>
    BY <1>3 DEF Claim, Idle, Deletes
  <2>2. /\ Jobs' = Jobs
        /\ \A m \in Jobs : /\ job'[m].op = job[m].op /\ job'[m].at = job[m].at /\ job'[m].file = job[m].file
                           /\ job'[m].state = IF m = k THEN "running" ELSE job[m].state
    BY <2>1, OnlyState DEF MovieInv
  <2>3. k # 0
    BY DEF MovieInv, QueueOK, Jobs
  <2>4. run'.todo \in Seq(Instances)
    <3>1. j.at \in Instances /\ (j.op \in {"import", "recordDelete"} \/ j.op \in Deletes)
      BY <2>0 DEF JobRecord, Deletes
    <3>2. <<>> \in Seq(Instances) /\ <<j.at>> \in Seq(Instances)
      BY <3>1
    <3>3. run'.todo \in {<<>>, <<j.at>>, Config}
      BY <2>1, <3>1
    <3>4. QED
      BY <3>2, <3>3, ConfigTyped
  <2>5. ASSUME j.op \in Deletes
        PROVE  run'.pc = "delete" /\ run'.todo # <<>> /\ \A i \in Instances : Reaches(j.at, i) => i \in Elements(run'.todo)
    <3>1. j.at \in Instances
      BY <2>0 DEF JobRecord
    <3>2. CASE IsPrimary(j.at)
      BY <2>1, <2>5, <3>1, <3>2, ConfigTyped, NothingTodo DEF Deletes
    <3>3. CASE ~IsPrimary(j.at)
      BY <2>1, <2>5, <3>1, <3>3, OneTodo DEF Deletes, Reaches
    <3>4. QED
      BY <3>2, <3>3
  <2>6. ASSUME NEW i \in Instances, NEW o \in Instances, OnItsWay(o, i), Reaches(o, i) PROVE OnItsWay(o, i)'
    <3>1. PICK m \in Jobs : job[m].op \in Deletes /\ job[m].at = o /\ job[m].state \in {"queued", "backoff", "orphaned"}
      BY <2>1, <2>6 DEF OnItsWay, Visits, Waiting
    <3>2. CASE m = k
      BY <2>1, <2>2, <2>3, <2>5, <2>6, <3>1, <3>2 DEF OnItsWay, Visits
    <3>3. CASE m # k
      BY <2>2, <3>1, <3>3 DEF OnItsWay, Waiting
    <3>4. QED
      BY <3>2, <3>3
  <2>7. WorkFits'
    <3>1. j.op = "import" => ImportFits(job[k], run)'
      BY <2>1 DEF ImportFits
    <3>2. QED
      BY <2>1, <2>2, <2>4, <2>5, <3>1 DEF WorkFits, DeleteFits
  <2>8. QED
    BY <1>0, <2>2, <2>6, <2>7, FitsOn DEF FitInv
<1>4. QED
  BY <1>1, <1>2, <1>3

-----------------------------------------------------------------------------
(* Which handler is at a call, and that it has a library to make it in.      *)
LEMMA HandlerAt ==
  ASSUME MovieInv, FitInv, NEW k \in Jobs, run.job = k
  PROVE  /\ k # 0 /\ job[k].at \in Instances /\ run.todo \in Seq(Instances) /\ job[k].state = "running"
         /\ run.pc = "delete" => job[k].op \in Deletes
         /\ run.pc \in {"detect", "upgrade", "source", "symlink", "list", "hardlink"} =>
              /\ job[k].op = "import" /\ ImportFits(job[k], run)
              /\ job[k].file \in Releases /\ Holder[job[k].file] = job[k].at
         /\ job[k].op \in Deletes => DeleteFits(run)
         /\ run.pc \in {"upgrade", "delete", "source", "symlink", "list", "hardlink"} =>
              /\ run.todo # <<>> /\ Here \in Instances /\ Tail(run.todo) \in Seq(Instances)
              /\ Elements(run.todo) = {Here} \cup Elements(Tail(run.todo))
<1>1. k # 0 /\ job[k] \in JobRecord /\ job[k].state = "running"
  BY JobTyped DEF MovieInv, QueueOK, Jobs
<1>2. /\ job[k].at \in Instances
      /\ job[k].op \in {"import", "recordDelete"} \/ job[k].op \in Deletes
  BY <1>1 DEF JobRecord, Deletes
<1>3. /\ run.todo \in Seq(Instances)
      /\ job[k].op = "import" => ImportFits(job[k], run)
      /\ job[k].op \in Deletes => DeleteFits(run)
      /\ job[k].op = "recordDelete" => run.pc = "finish"
  BY <1>1 DEF FitInv, WorkFits
<1>4. run.pc = "delete" => job[k].op \in Deletes
  BY <1>2, <1>3 DEF ImportFits
<1>5. run.pc \in {"detect", "upgrade", "source", "symlink", "list", "hardlink"} =>
        /\ job[k].op = "import" /\ ImportFits(job[k], run)
        /\ job[k].file \in Releases /\ Holder[job[k].file] = job[k].at
  BY <1>2, <1>3 DEF DeleteFits, FitInv, FilesAreTheirs
<1>6. run.pc \in {"upgrade", "delete", "source", "symlink", "list", "hardlink"} => run.todo # <<>>
  BY <1>3, <1>4, <1>5 DEF ImportFits, DeleteFits
<1>7. run.todo # <<>> =>
        /\ Here \in Instances /\ Tail(run.todo) \in Seq(Instances)
        /\ Elements(run.todo) = {Here} \cup Elements(Tail(run.todo))
  BY <1>3, HeadElements DEF Here
<1>8. QED
  BY <1>1, <1>2, <1>3, <1>4, <1>5, <1>6, <1>7

(* The handler returns: a delete only when it has visited all.               *)
LEMMA ReturnKeepsFit ==
  ASSUME MovieInv, FitInv, NEW k \in Jobs, run.job = k, NEW s, Return(k, s),
         run.pc \in {"detect", "finish"}, UNCHANGED <<stored, entry, mirror>>
  PROVE  FitInv'
<1>1. SetState(k, s) /\ run' = Idle
  BY DEF Return
<1>2. /\ Jobs' = Jobs
      /\ \A m \in Jobs : /\ job'[m].op = job[m].op /\ job'[m].at = job[m].at /\ job'[m].file = job[m].file
                         /\ job'[m].state = IF m = k THEN s ELSE job[m].state
  BY <1>1, OnlyState DEF MovieInv
<1>3. \A o : Waiting(o) => Waiting(o)'
  BY <1>2, HandlerAt DEF Waiting
<1>4. \A o, i : ~Visits(o, i)
  BY HandlerAt, NothingTodo DEF Visits, DeleteFits
<1>5. \A o, i : OnItsWay(o, i) => OnItsWay(o, i)'
  BY <1>3, <1>4 DEF OnItsWay
<1>6. WorkFits'
  BY <1>1 DEF WorkFits, Idle
<1>7. QED
  BY <1>2, <1>5, <1>6, FitsOn DEF FitInv

-----------------------------------------------------------------------------
(* The steps a handler ends its calls with.                                  *)
LEMMA LinksEffect ==
  ASSUME MovieInv, NEW langs, Links(langs)
  PROVE  /\ run'.job = run.job /\ run'.langs = langs
         /\ run'.todo = LinkTargets(job[run.job].at, langs)
         /\ run'.pc = IF run'.todo = <<>> THEN "finish" ELSE "source"
BY DEF Links, MovieInv, RunOK

LEMMA NextLibraryEffect ==
  ASSUME MovieInv, NEW failure, NextLibrary(failure)
  PROVE  /\ job' = job /\ run'.job = run.job /\ run'.langs = run.langs
         /\ run'.todo = Tail(run.todo)
         /\ run'.pc = IF run'.todo = <<>> THEN "finish" ELSE "source"
BY DEF NextLibrary, MovieInv, RunOK

(* An import that goes on with its libraries still links where it should.    *)
LEMMA BeginsLinking ==
  ASSUME MovieInv, FitInv, NEW k \in Jobs, run.job = k, run.pc \in {"detect", "upgrade"},
         stored[job[k].at] = job[k].file \/ Waiting(job[k].at),
         Links(Heard(job[k].at, job[k].file)), UNCHANGED <<job, stored>>
  PROVE  WorkFits'
<1>1. PICK langs : langs = Heard(job[k].at, job[k].file)
  OBVIOUS
<1>2. /\ k # 0 /\ job[k].at \in Instances /\ job[k].op = "import"
  BY HandlerAt
<1>3. /\ run'.job = k /\ run'.langs = langs /\ run'.todo = LinkTargets(job[k].at, langs)
      /\ run'.pc = IF run'.todo = <<>> THEN "finish" ELSE "source"
  BY <1>1, LinksEffect
<1>4. /\ run'.todo \in Seq(Instances)
      /\ \A i \in Elements(run'.todo) : Reaches(job[k].at, i) /\ (IsPrimary(i) \/ Language[i] \in langs)
  BY <1>2, <1>3, TargetsFit
<1>5. Waiting(job[k].at)' = Waiting(job[k].at)
  BY DEF Waiting, Jobs
<1>6. ImportFits(job[k], run)'
  BY <1>1, <1>3, <1>4, <1>5 DEF ImportFits
<1>7. QED
  BY <1>2, <1>3, <1>4, <1>6 DEF WorkFits, Deletes

LEMMA GoesOnLinking ==
  ASSUME MovieInv, FitInv, NEW k \in Jobs, run.job = k, run.pc \in {"source", "symlink", "list", "hardlink"},
         NEW failure, NextLibrary(failure), UNCHANGED stored
  PROVE  WorkFits'
<1>1. /\ k # 0 /\ job[k].op = "import" /\ ImportFits(job[k], run)
      /\ Tail(run.todo) \in Seq(Instances) /\ Elements(run.todo) = {Here} \cup Elements(Tail(run.todo))
  BY HandlerAt
<1>2. /\ job' = job /\ run'.job = k /\ run'.langs = run.langs /\ run'.todo = Tail(run.todo)
      /\ run'.pc = IF run'.todo = <<>> THEN "finish" ELSE "source"
  BY NextLibraryEffect
<1>3. Waiting(job[k].at)' = Waiting(job[k].at)
  BY <1>2 DEF Waiting, Jobs
<1>4. ImportFits(job[k], run)'
  BY <1>1, <1>2, <1>3 DEF ImportFits
<1>5. QED
  BY <1>1, <1>2, <1>4 DEF WorkFits, Deletes

(* An import's other steps, in the library in hand.                          *)
LEMMA StaysLinking ==
  ASSUME MovieInv, FitInv, NEW k \in Jobs, run.job = k, run.pc \in {"source", "list"},
         UNCHANGED <<job, stored>>, run'.job = k, run'.langs = run.langs, run'.todo = run.todo,
         run'.pc \in {"symlink", "list", "hardlink"},
         run'.pc = "hardlink" => run'.file \in Releases /\ Holder[run'.file] = job[k].at
  PROVE  WorkFits'
<1>1. /\ k # 0 /\ job[k].op = "import" /\ ImportFits(job[k], run) /\ run.todo \in Seq(Instances)
  BY HandlerAt
<1>2. Waiting(job[k].at)' = Waiting(job[k].at)
  BY DEF Waiting, Jobs
<1>3. ImportFits(job[k], run)'
  BY <1>1, <1>2 DEF ImportFits
<1>4. QED
  BY <1>1, <1>3 DEF WorkFits, Deletes

(* An import has no delete at work beside it, and leaves those that wait.    *)
LEMMA ImportKeepsDeletes ==
  ASSUME MovieInv, FitInv, NEW k \in Jobs, run.job = k, job[k].op = "import", UNCHANGED job
  PROVE  \A o, i : OnItsWay(o, i) => Waiting(o) /\ OnItsWay(o, i)'
BY DEF OnItsWay, Visits, Waiting, Deletes, Jobs

LEMMA ShrinkingKeepsFit ==
  ASSUME MovieInv, FitInv, NEW k \in Jobs, run.job = k, job[k].op = "import", UNCHANGED <<job, stored>>,
         \A i \in Instances : entry'[i] \in {None, entry[i]} /\ mirror'[i] \subseteq mirror[i],
         WorkFits'
  PROVE  FitInv'
BY ImportKeepsDeletes, FitsOn DEF FitInv, Jobs

-----------------------------------------------------------------------------
(* An upgrade has a library to clear.                                        *)
LEMMA UpgradeHasWork ==
  ASSUME NEW o \in Instances, NEW f \in Releases
  PROVE  /\ UpgradeTargets(o, Heard(o, f)) \in Seq(Instances)
         /\ UpgradeTargets(o, Heard(o, f)) # <<>>
<1>1. PICK langs : langs = Heard(o, f)
  OBVIOUS
<1>2. langs \subseteq Languages
  BY <1>1, HeardTyped
<1>3. CASE IsPrimary(o) /\ Cardinality(langs) > 1
  <2>1. PICK l \in langs : TRUE
    BY <1>3, FS_EmptySet
  <2>2. PICK i \in Instances : Language[i] = l
    BY <1>2, <2>1 DEF Languages
  <2>3. i \in Elements(Speaking(langs))
    BY <2>1, <2>2, SpeakingTyped
  <2>4. QED
    BY <1>1, <1>3, <2>3, SpeakingTyped, NothingTodo DEF UpgradeTargets
<1>4. CASE ~(IsPrimary(o) /\ Cardinality(langs) > 1)
  BY <1>1, <1>4, OneTodo DEF UpgradeTargets
<1>5. QED
  BY <1>3, <1>4

(* Each call of a handler keeps the libraries fitting.                       *)
LEMMA ImportBegins ==
  ASSUME MovieInv, FitInv, NEW k \in Jobs, Detect(k) \/ DetectFails(k)
  PROVE  FitInv'
<1>1. run.job = k /\ run.pc = "detect" /\ UNCHANGED <<stored, entry, mirror>>
  BY DEF Detect, DetectFails, At, storages, libraries
<1>2. CASE Return(k, "failed")
  BY <1>1, <1>2, ReturnKeepsFit
<1>3. CASE ~Return(k, "failed")
  <2>1. Detect(k) /\ stored[job[k].at] = job[k].file /\ job' = job
    BY <1>3 DEF Detect, DetectFails
  <2>2. WorkFits'
    <3>1. CASE job[k].upgrade
      <4>1. PICK langs : langs = Heard(job[k].at, job[k].file)
        OBVIOUS
      <4>2. /\ run'.job = k /\ run'.pc = "upgrade" /\ run'.langs = langs
            /\ run'.todo = UpgradeTargets(job[k].at, langs)
        BY <1>1, <2>1, <3>1, <4>1 DEF Detect, MovieInv, RunOK
      <4>3. UpgradeTargets(job[k].at, langs) \in Seq(Instances) /\ UpgradeTargets(job[k].at, langs) # <<>>
        BY <1>1, <4>1, UpgradeHasWork, HandlerAt
      <4>4. ImportFits(job[k], run)'
        BY <1>1, <2>1, <4>1, <4>2, <4>3 DEF ImportFits
      <4>5. k # 0 /\ job[k].op = "import"
        BY <1>1, HandlerAt
      <4>6. QED
        BY <2>1, <4>2, <4>3, <4>4, <4>5 DEF WorkFits, Deletes
    <3>2. CASE ~job[k].upgrade
      <4>1. Links(Heard(job[k].at, job[k].file)) /\ UNCHANGED stored
        BY <1>1, <2>1, <3>2 DEF Detect
      <4>2. QED
        BY <1>1, <2>1, <4>1, BeginsLinking
    <3>3. QED
      BY <3>1, <3>2
  <2>3. job[k].op = "import"
    BY <1>1, HandlerAt
  <2>4. QED
    BY <1>1, <2>1, <2>2, <2>3, ShrinkingKeepsFit
<1>4. QED
  BY <1>2, <1>3

(* An upgrade only removes.                                                  *)
LEMMA UpgradeKeepsFit ==
  ASSUME MovieInv, FitInv, NEW k \in Jobs, Upgrade(k)
  PROVE  FitInv'
<1>1. run.job = k /\ run.pc = "upgrade" /\ UnlinkFolder(k) /\ UNCHANGED stored
  BY DEF Upgrade, At, storages
<1>2. /\ k # 0 /\ job[k].op = "import" /\ ImportFits(job[k], run)
      /\ Here \in Instances /\ Tail(run.todo) \in Seq(Instances)
  BY <1>1, HandlerAt
<1>3. /\ run.langs = Heard(job[k].at, job[k].file)
      /\ stored[job[k].at] = job[k].file \/ Waiting(job[k].at)
  BY <1>1, <1>2 DEF ImportFits
<1>4. CASE mirror[Here] # {}
  <2>1. /\ \A i \in Instances : mirror'[i] \subseteq mirror[i]
        /\ UNCHANGED <<entry, job, run>>
    BY <1>1, <1>2, <1>4 DEF UnlinkFolder, MovieInv, LibraryOK
  <2>2. WorkFits'
    BY <1>1, <2>1 DEF FitInv, WorkFits, ImportFits, DeleteFits, Waiting, Jobs
  <2>3. QED
    BY <1>1, <1>2, <2>1, <2>2, ShrinkingKeepsFit
<1>5. CASE mirror[Here] = {}
  <2>1. entry' = [entry EXCEPT ![Here] = None] /\ UNCHANGED mirror /\ Unlinked(k)
    BY <1>5, <1>1 DEF UnlinkFolder
  <2>2. job' = job
    BY <1>1, <2>1 DEF Unlinked
  <2>3. WorkFits'
    <3>1. CASE Tail(run.todo) = <<>>
      <4>1. Links(run.langs)
        BY <1>1, <2>1, <3>1 DEF Unlinked
      <4>2. QED
        BY <1>1, <1>3, <2>2, <4>1, BeginsLinking
    <3>2. CASE Tail(run.todo) # <<>>
      <4>1. /\ run'.job = k /\ run'.pc = "upgrade" /\ run'.langs = run.langs /\ run'.todo = Tail(run.todo)
        BY <1>1, <2>1, <3>2 DEF Unlinked, MovieInv, RunOK
      <4>2. Waiting(job[k].at)' = Waiting(job[k].at)
        BY <2>2 DEF Waiting, Jobs
      <4>3. ImportFits(job[k], run)'
        BY <1>1, <1>3, <2>2, <3>2, <4>1, <4>2 DEF ImportFits
      <4>4. QED
        BY <1>2, <2>2, <4>1, <4>3 DEF WorkFits, Deletes
    <3>3. QED
      BY <3>1, <3>2
  <2>4. \A i \in Instances : entry'[i] \in {None, entry[i]} /\ mirror'[i] \subseteq mirror[i]
    BY <2>1 DEF MovieInv, LibraryOK
  <2>5. QED
    BY <1>1, <1>2, <2>2, <2>3, <2>4, ShrinkingKeepsFit
<1>6. QED
  BY <1>4, <1>5

(* A delete leaves a library when nothing there is its instance's.           *)
LEMMA DeleteKeepsFit ==
  ASSUME MovieInv, FitInv, NEW k \in Jobs, Delete(k)
  PROVE  FitInv'
<1>1. run.job = k /\ run.pc = "delete" /\ UNCHANGED stored
  BY DEF Delete, At, storages
<1>2. /\ k # 0 /\ job[k].op \in Deletes /\ job[k].at \in Instances
      /\ Here \in Instances /\ Tail(run.todo) \in Seq(Instances)
      /\ Elements(run.todo) = {Here} \cup Elements(Tail(run.todo))
  BY <1>1, HandlerAt
<1>3. CASE /\ MayUnlink(job[k].at, Here) /\ mirror[Here] # {}
  <2>1. /\ \A i \in Instances : mirror'[i] \subseteq mirror[i]
        /\ UNCHANGED <<entry, job, run>>
    BY <1>2, <1>3 DEF Delete, UnlinkFolder, MovieInv, LibraryOK
  <2>2. WorkFits'
    BY <1>1, <2>1 DEF FitInv, WorkFits, ImportFits, DeleteFits, Waiting, Jobs
  <2>3. \A o, i : OnItsWay(o, i) => OnItsWay(o, i)'
    BY <2>1 DEF OnItsWay, Waiting, Visits, Jobs
  <2>4. QED
    BY <1>1, <2>1, <2>2, <2>3, FitsOn DEF FitInv, Jobs
<1>4. CASE ~(MayUnlink(job[k].at, Here) /\ mirror[Here] # {})
  <2>1. /\ Unlinked(k) /\ UNCHANGED mirror
        /\ \/ UNCHANGED entry /\ ~MayUnlink(job[k].at, Here)
           \/ entry' = [entry EXCEPT ![Here] = None] /\ mirror[Here] = {}
    BY <1>4 DEF Delete, UnlinkFolder, libraries
  <2>2. /\ entry'[Here] # job[k].at /\ mirror'[Here] = {}
        /\ \A i \in Instances : entry'[i] \in {None, entry[i]} /\ mirror'[i] \subseteq mirror[i]
    <3>1. CASE UNCHANGED entry /\ ~MayUnlink(job[k].at, Here)
      BY <1>2, <2>1, <3>1 DEF MayUnlink, MovieInv, LibraryOK
    <3>2. CASE entry' = [entry EXCEPT ![Here] = None] /\ mirror[Here] = {}
      BY <1>2, <2>1, <3>2, MovieAssumption DEF MovieInv, LibraryOK
    <3>3. QED
      BY <2>1, <3>1, <3>2
  <2>3. /\ job' = job /\ run'.job = k /\ run'.todo = Tail(run.todo)
        /\ run'.pc = IF run'.todo = <<>> THEN "finish" ELSE "delete"
    BY <1>1, <2>1 DEF Unlinked, MovieInv, RunOK
  <2>4. WorkFits'
    BY <1>2, <2>3 DEF WorkFits, DeleteFits, Deletes
  <2>5. ASSUME NEW i \in Instances, NEW o \in Instances, OnItsWay(o, i),
               entry'[i] = o \/ \E r \in mirror'[i] : Holder[r] = o
        PROVE  OnItsWay(o, i)'
    <3>1. CASE Waiting(o)
      BY <2>3, <3>1 DEF OnItsWay, Waiting, Jobs
    <3>2. CASE Visits(o, i)
      <4>1. o = job[k].at /\ i \in Elements(run.todo)
        BY <1>1, <3>2 DEF Visits
      <4>2. i # Here
        BY <2>2, <2>5, <4>1
      <4>3. i \in Elements(run'.todo)
        BY <1>2, <2>3, <4>1, <4>2
      <4>4. QED
        BY <1>2, <2>3, <4>1, <4>3 DEF OnItsWay, Visits
    <3>3. QED
      BY <2>5, <3>1, <3>2 DEF OnItsWay
  <2>6. Jobs' = Jobs
    BY <2>3 DEF Jobs
  <2>7. FilesAreTheirs' /\ EntriesFit' /\ MirrorsFit'
    BY <1>1, <2>2, <2>3, <2>5, <2>6, FitsOn
  <2>8. QED
    BY <2>4, <2>7 DEF FitInv
<1>5. QED
  BY <1>3, <1>4

(* An import looks at its source, and at the library.                        *)
LEMMA SourceKeepsFit ==
  ASSUME MovieInv, FitInv, NEW k \in Jobs, Source(k) \/ List(k)
  PROVE  FitInv'
<1>1. run.job = k /\ run.pc \in {"source", "list"} /\ UNCHANGED <<stored, entry, mirror>>
  BY DEF Source, List, At, storages, libraries
<1>2. job[k].op = "import" /\ job[k].at \in Instances
  BY <1>1, HandlerAt
<1>3. job' = job /\ WorkFits'
  <2>1. CASE NextLibrary("permanent") \/ NextLibrary("no")
    BY <1>1, <2>1, NextLibraryEffect, GoesOnLinking
  <2>2. CASE ~(NextLibrary("permanent") \/ NextLibrary("no"))
    <3>1. CASE Source(k)
      <4>1. job' = job /\ run'.job = k /\ run'.langs = run.langs /\ run'.todo = run.todo /\ run'.pc \in {"symlink", "list"}
        BY <1>1, <2>2, <3>1 DEF Source, MovieInv, RunOK
      <4>2. QED
        BY <1>1, <4>1, StaysLinking
    <3>2. CASE List(k)
      <4>1. /\ job' = job /\ run'.job = k /\ run'.langs = run.langs /\ run'.todo = run.todo
            /\ run'.pc = "hardlink" /\ run'.file = stored[job[k].at] /\ stored[job[k].at] # None
        BY <1>1, <2>2, <3>2 DEF List, MovieInv, RunOK
      <4>2. run'.file \in Releases /\ Holder[run'.file] = job[k].at
        BY <1>2, <4>1 DEF MovieInv, StorageOK, Files, FitInv, FilesAreTheirs
      <4>3. QED
        BY <1>1, <4>1, <4>2, StaysLinking
    <3>3. QED
      BY <3>1, <3>2
  <2>3. QED
    BY <2>1, <2>2
<1>4. QED
  BY <1>1, <1>2, <1>3, ShrinkingKeepsFit

(* A link is made where the import's file fits, or its delete waits.         *)
LEMMA SymlinkKeepsFit ==
  ASSUME MovieInv, FitInv, NEW k \in Jobs, Symlink(k)
  PROVE  FitInv'
<1>1. run.job = k /\ run.pc = "symlink" /\ UNCHANGED <<stored, mirror>>
  BY DEF Symlink, At, storages
<1>2. /\ job[k].op = "import" /\ job[k].at \in Instances /\ ImportFits(job[k], run)
      /\ job[k].file \in Releases /\ Here \in Instances
      /\ Elements(run.todo) = {Here} \cup Elements(Tail(run.todo))
  BY <1>1, HandlerAt
<1>3. job' = job /\ WorkFits'
  <2>1. NextLibrary("no") \/ NextLibrary("permanent")
    BY DEF Symlink
  <2>2. QED
    BY <1>1, <2>1, NextLibraryEffect, GoesOnLinking
<1>4. CASE UNCHANGED entry
  BY <1>1, <1>2, <1>3, <1>4, ShrinkingKeepsFit
<1>5. CASE ~UNCHANGED entry
  <2>1. entry' = [entry EXCEPT ![Here] = job[k].at] /\ entry[Here] \in {None, job[k].at}
    BY <1>5 DEF Symlink
  <2>2. PICK o \in Instances : o = job[k].at
    BY <1>2
  <2>3. Reaches(o, Here) /\ (Fits(Here, o, stored[o]) \/ Waiting(o))
    <3>1. /\ Reaches(o, Here) /\ (IsPrimary(Here) \/ Language[Here] \in run.langs)
          /\ run.langs = Heard(o, job[k].file) /\ (stored[o] = job[k].file \/ Waiting(o))
      BY <1>1, <1>2, <2>2 DEF ImportFits
    <3>2. job[k].file # None
      BY <1>2, MovieAssumption
    <3>3. QED
      BY <3>1, <3>2 DEF Fits
  <2>4. \A p, i : OnItsWay(p, i) => OnItsWay(p, i)'
    BY <1>1, <1>2, <1>3, ImportKeepsDeletes
  <2>5. Waiting(o) => Waiting(o)'
    BY <1>3 DEF Waiting, Jobs
  <2>6. ASSUME NEW i \in Instances, entry'[i] # None
        PROVE  Reaches(entry'[i], i) /\ (Fits(i, entry'[i], stored[entry'[i]]) \/ OnItsWay(entry[i], i)')
    <3>1. CASE i = Here
      <4>1. entry'[i] = o
        BY <2>1, <2>2, <3>1 DEF MovieInv, LibraryOK
      <4>2. QED
        BY <2>3, <2>5, <3>1, <4>1 DEF OnItsWay
    <3>2. CASE i # Here
      <4>1. entry'[i] = entry[i]
        BY <2>1, <3>2 DEF MovieInv, LibraryOK
      <4>2. PICK p : p = entry[i] /\ p = entry'[i]
        BY <4>1
      <4>3. Reaches(p, i) /\ (Fits(i, p, stored[p]) \/ OnItsWay(p, i))
        BY <2>6, <4>1, <4>2 DEF FitInv, EntriesFit
      <4>4. QED
        BY <2>4, <4>2, <4>3
    <3>3. QED
      BY <3>1, <3>2
  <2>7. EntriesFit'
    BY <1>1, <2>6 DEF EntriesFit
  <2>8. MirrorsFit'
    <3>1. \A i \in Instances : \A r \in mirror[i] : OnItsWay(Holder[r], i) => OnItsWay(Holder[r], i)'
      BY <2>4
    <3>2. QED
      BY <1>1, <3>1 DEF FitInv, MirrorsFit
  <2>9. FilesAreTheirs'
    BY <1>1, <1>3 DEF FitInv, FilesAreTheirs, Jobs
  <2>10. QED
    BY <1>3, <2>7, <2>8, <2>9 DEF FitInv
<1>6. QED
  BY <1>4, <1>5

(* A file is mirrored while it is there; when it has come since the import   *)
(* read its languages, the delete of the file before it waits.               *)
LEMMA HardlinkKeepsFit ==
  ASSUME MovieInv, FitInv, NEW k \in Jobs, Hardlink(k)
  PROVE  FitInv'
<1>1. run.job = k /\ run.pc = "hardlink" /\ UNCHANGED <<stored, entry>>
  BY DEF Hardlink, At, storages
<1>2. /\ job[k].op = "import" /\ job[k].at \in Instances /\ ImportFits(job[k], run)
      /\ job[k].file \in Releases /\ Here \in Instances
      /\ Elements(run.todo) = {Here} \cup Elements(Tail(run.todo))
  BY <1>1, HandlerAt
<1>3. job' = job /\ WorkFits'
  <2>1. NextLibrary("no") \/ NextLibrary("permanent")
    BY DEF Hardlink
  <2>2. QED
    BY <1>1, <2>1, NextLibraryEffect, GoesOnLinking
<1>4. CASE UNCHANGED mirror
  BY <1>1, <1>2, <1>3, <1>4, ShrinkingKeepsFit DEF MovieInv, LibraryOK
<1>5. CASE ~UNCHANGED mirror
  <2>1. mirror' = [mirror EXCEPT ![Here] = @ \cup {run.file}] /\ stored[job[k].at] = run.file
    BY <1>5 DEF Hardlink
  <2>2. PICK o \in Instances, f \in Releases : o = job[k].at /\ f = run.file
    BY <1>1, <1>2 DEF ImportFits
  <2>3. /\ f \in Releases /\ Holder[f] = o /\ stored[o] = f /\ Reaches(o, Here)
        /\ Fits(Here, o, f) \/ Waiting(o)
    <3>1. /\ Reaches(o, Here) /\ (IsPrimary(Here) \/ Language[Here] \in run.langs)
          /\ run.langs = Heard(o, job[k].file) /\ (stored[o] = job[k].file \/ Waiting(o))
          /\ f \in Releases /\ Holder[f] = o
      BY <1>1, <1>2, <2>2 DEF ImportFits
    <3>2. f # None /\ stored[o] = f
      BY <2>1, <2>2, <3>1, MovieAssumption
    <3>3. QED
      BY <3>1, <3>2 DEF Fits
  <2>4. \A p, i : OnItsWay(p, i) => OnItsWay(p, i)'
    BY <1>1, <1>2, <1>3, ImportKeepsDeletes
  <2>5. Waiting(o) => Waiting(o)'
    BY <1>3 DEF Waiting, Jobs
  <2>6. ASSUME NEW i \in Instances, NEW r \in mirror'[i]
        PROVE  Reaches(Holder[r], i) /\ ((stored[Holder[r]] = r /\ Fits(i, Holder[r], r)) \/ OnItsWay(Holder[r], i)')
    <3>1. CASE r \in mirror[i]
      BY <2>4, <3>1 DEF FitInv, MirrorsFit
    <3>2. CASE r \notin mirror[i]
      <4>1. i = Here /\ r = f
        BY <2>1, <2>2, <3>2 DEF MovieInv, LibraryOK
      <4>2. QED
        BY <2>3, <2>5, <4>1 DEF OnItsWay
    <3>3. QED
      BY <3>1, <3>2
  <2>7. MirrorsFit'
    BY <1>1, <2>6 DEF MirrorsFit
  <2>8. EntriesFit'
    <3>1. \A i \in Instances : OnItsWay(entry[i], i) => OnItsWay(entry[i], i)'
      BY <1>1, <2>4
    <3>2. QED
      BY <1>1, <3>1 DEF FitInv, EntriesFit
  <2>9. FilesAreTheirs'
    BY <1>1, <1>3 DEF FitInv, FilesAreTheirs, Jobs
  <2>10. QED
    BY <1>3, <2>7, <2>8, <2>9 DEF FitInv
<1>6. QED
  BY <1>4, <1>5

LEMMA FinishKeepsFit ==
  ASSUME MovieInv, FitInv, NEW k \in Jobs, Finish(k)
  PROVE  FitInv'
<1>1. run.job = k /\ run.pc = "finish" /\ UNCHANGED <<stored, entry, mirror>>
  BY DEF Finish, At, storages, libraries
<1>2. Return(k, "done") \/ Return(k, "failed") \/ Return(k, "backoff")
  BY DEF Finish
<1>3. QED
  BY <1>1, <1>2, ReturnKeepsFit

-----------------------------------------------------------------------------
LEMMA FitInit == Init => FitInv
BY MovieAssumption DEF Init, FitInv, FilesAreTheirs, EntriesFit, MirrorsFit, WorkFits, Idle, Jobs

LEMMA FitStep == MovieInv /\ FitInv /\ [Next]_vars => FitInv'
<1> SUFFICES ASSUME MovieInv, FitInv, [Next]_vars PROVE FitInv'
  OBVIOUS
<1>1. CASE UNCHANGED vars
  <2>1. UNCHANGED <<stored, entry, mirror, job, run>>
    BY <1>1 DEF vars, storages, libraries
  <2>2. \A o, i : OnItsWay(o, i) => OnItsWay(o, i)'
    BY <2>1 DEF OnItsWay, Waiting, Visits, Jobs
  <2>3. WorkFits'
    BY <2>1 DEF FitInv, WorkFits, ImportFits, DeleteFits, Waiting, Jobs
  <2>4. Jobs' = Jobs
    BY <2>1 DEF Jobs
  <2>5. QED
    BY <2>1, <2>2, <2>3, <2>4, FitsOn DEF FitInv
<1>2. CASE Next
  <2>1. ASSUME NEW k \in Jobs, Handler(k) PROVE FitInv'
    BY <2>1, ImportBegins, UpgradeKeepsFit, DeleteKeepsFit, SourceKeepsFit, SymlinkKeepsFit,
       HardlinkKeepsFit, FinishKeepsFit DEF Handler
  <2>2. QED
    BY <1>2, <2>1, RadarrKeepsFit, QueueKeepsFit DEF Next
<1>3. QED
  BY <1>1, <1>2

LEMMA MovieInvariant == Spec => [](MovieInv /\ FitInv)
<1>1. Init => MovieInv /\ FitInv
  BY InitInv, FitInit
<1>2. MovieInv /\ FitInv /\ [Next]_vars => (MovieInv /\ FitInv)'
  BY StepInv, FitStep
<1>3. QED
  BY <1>1, <1>2, PTL DEF Spec

(* When all webhooks are dealt with no delete is on its way.                 *)
LEMMA SettledFits ==
  ASSUME MovieInv, FitInv, Settled
  PROVE  \A o, i : ~OnItsWay(o, i)
<1>1. \A o : ~Waiting(o)
  BY DEF Settled, Waiting
<1>2. run.job = 0
  BY DEF Settled, MovieInv, QueueOK
<1>3. QED
  BY <1>1, <1>2 DEF OnItsWay, Visits

(* With every webhook dealt with no link leads nowhere and no mirror keeps a *)
(* deleted file (how-it-works.md:39), for any instances and strategies, any  *)
(* number of crashes and failures, and whatever was upgraded in between.     *)
THEOREM NoEntryDangles == Spec => []NoDanglingEntry
<1>1. MovieInv /\ FitInv => NoDanglingEntry
  BY SettledFits DEF NoDanglingEntry, FitInv, EntriesFit, MirrorsFit, Fits
<1>2. QED
  BY <1>1, MovieInvariant, PTL

(* With every webhook dealt with an alternate's library shows only files in  *)
(* its language, also where the file in a linked folder has changed.         *)
THEOREM MoviesKeepTheirLanguage == Spec => []LanguagesFit
<1>1. MovieInv /\ FitInv => LanguagesFit
  BY SettledFits DEF LanguagesFit, FitInv, EntriesFit, MirrorsFit, Fits
<1>2. QED
  BY <1>1, MovieInvariant, PTL

-----------------------------------------------------------------------------
(* An instance's own link.                                                   *)

(* How many webhooks have been taken from the queue.                         *)
Begun == Len(job) - Len(ready)

(* With no retries and no crashes webhooks are handled in their order.       *)
InOrder ==
  /\ ready \in Seq(Nat) /\ Len(ready) <= Len(job)
  /\ \A x \in 1 .. Len(ready) : ready[x] = Begun + x
  /\ \A k \in Jobs : IF k > Begun THEN job[k].state = "queued"
                     ELSE job[k].state \in {"done", "failed"} \/ (k = Begun /\ job[k].state = "running")

(* Whatever follows an import of an instance finds its file gone.            *)
Succeeds ==
  \A k, d \in Jobs :
    k < d /\ job[k].op = "import" /\ job[d].op # "recordDelete" /\ job[d].at = job[k].at
      => stored[job[k].at] # job[k].file

(* Job k imports the file i has, into i's library too.                       *)
Owns(i, k) ==
  /\ job[k].op = "import" /\ job[k].at = i /\ stored[i] = job[k].file
  /\ i \in Elements(LinkTargets(i, Heard(i, job[k].file)))

Shown(i) == entry[i] = i \/ TakenOver(i)

OwnShown ==
  \A i \in Instances \ Hardlinks : \A k \in Jobs : Owns(i, k) =>
    /\ job[k].state = "done" => Shown(i)
    /\ run.job = k /\ run.pc \notin {"detect", "upgrade"} /\ run.failed = "no" =>
         Shown(i) \/ (run.pc # "finish" /\ i \in Elements(run.todo))

(* The libraries an upgrade clears.                                          *)
Clears ==
  run.job # 0 /\ run.pc = "upgrade" =>
    /\ job[run.job].upgrade
    /\ Elements(run.todo) \subseteq Elements(UpgradeTargets(job[run.job].at, Heard(job[run.job].at, job[run.job].file)))

OwnInv ==
  /\ outages \in Nat /\ crashes \in Nat
  /\ Succeeds /\ Clears
  /\ outages = 0 /\ crashes = 0 => InOrder /\ OwnShown

-----------------------------------------------------------------------------
(* The queue, in its order.                                                  *)
LEMMA EnqueueInOrder ==
  ASSUME QueueOK, InOrder, NEW hooks \in Seq(JobRecord), Enqueue(hooks),
         \A h \in Elements(hooks) : h.state = "queued"
  PROVE  InOrder'
<1>1. /\ job \in Seq(JobRecord) /\ job' = job \o hooks /\ Len(job) \in Nat /\ Len(hooks) \in Nat
      /\ Jobs = 1 .. Len(job) /\ ready \in Seq(Nat) /\ Len(ready) \in Nat /\ Len(ready) <= Len(job)
      /\ DOMAIN hooks = 1 .. Len(hooks)
  BY LenProperties DEF QueueOK, Jobs, Enqueue, InOrder
<1>2. /\ Jobs' = 1 .. Len(job) + Len(hooks) /\ Len(job') = Len(job) + Len(hooks)
      /\ \A k \in Jobs' : job'[k] = IF k <= Len(job) THEN job[k] ELSE hooks[k - Len(job)]
  BY <1>1, ConcatProperties, LenProperties DEF Jobs
<1>3. PICK new : new = [x \in 1 .. Len(hooks) |-> Len(job) + x]
  OBVIOUS
<1>4. new \in Seq(Nat) /\ Len(new) = Len(hooks) /\ \A x \in 1 .. Len(hooks) : new[x] = Len(job) + x
  <2>1. new \in [1 .. Len(hooks) -> Nat]
    BY <1>1, <1>3
  <2>2. new \in Seq(Nat)
    <3>1. Len(hooks) \in Nat
      BY <1>1
    <3>2. QED
      BY <2>1, <3>1, SeqDef
  <2>3. QED
    BY <1>1, <1>3, <2>1, <2>2, LenProperties
<1>5. /\ ready' = ready \o new /\ ready' \in Seq(Nat) /\ Len(ready') = Len(ready) + Len(hooks)
      /\ \A x \in 1 .. Len(ready') : ready'[x] = IF x <= Len(ready) THEN ready[x] ELSE new[x - Len(ready)]
  <2>1. ready' = ready \o new
    BY <1>3 DEF Enqueue
  <2>2. ready \in Seq(Nat) /\ new \in Seq(Nat) /\ Len(new) = Len(hooks)
    BY <1>1, <1>4
  <2>3. /\ ready \o new \in Seq(Nat) /\ Len(ready \o new) = Len(ready) + Len(new)
        /\ \A x \in 1 .. Len(ready) + Len(new) :
             (ready \o new)[x] = IF x <= Len(ready) THEN ready[x] ELSE new[x - Len(ready)]
    BY <2>2, ConcatProperties
  <2>4. QED
    BY <2>1, <2>2, <2>3
<1>6. Begun' = Begun /\ Begun \in Nat /\ Begun + Len(ready) = Len(job)
  BY <1>1, <1>2, <1>5 DEF Begun
<1>7. ASSUME NEW x \in 1 .. Len(ready') PROVE ready'[x] = Begun + x
  <2>1. CASE x <= Len(ready)
    BY <1>1, <1>5, <2>1 DEF InOrder
  <2>2. CASE ~(x <= Len(ready))
    <3>1. x - Len(ready) \in 1 .. Len(hooks)
      BY <1>1, <1>5, <2>2
    <3>2. ready'[x] = Len(job) + (x - Len(ready))
      BY <1>4, <1>5, <2>2, <3>1
    <3>3. x \in Int /\ Len(ready) \in Int /\ Len(job) \in Int /\ Begun \in Int /\ Begun = Len(job) - Len(ready)
      BY <1>1, <1>6, <1>5 DEF Begun
    <3>4. QED
      BY <3>2, <3>3
  <2>3. QED
    BY <2>1, <2>2
<1>8. ASSUME NEW k \in Jobs'
      PROVE  IF k > Begun THEN job'[k].state = "queued"
             ELSE job'[k].state \in {"done", "failed"} \/ (k = Begun /\ job'[k].state = "running")
  <2>1. CASE k <= Len(job)
    <3>1. k \in Jobs /\ job'[k] = job[k]
      BY <1>1, <1>2, <2>1
    <3>2. QED
      BY <3>1 DEF InOrder
  <2>2. CASE ~(k <= Len(job))
    <3>1. k - Len(job) \in DOMAIN hooks /\ k > Begun
      BY <1>1, <1>2, <1>6, <2>2
    <3>2. job'[k] \in Elements(hooks)
      BY <1>2, <2>2, <3>1 DEF Elements
    <3>3. QED
      BY <3>1, <3>2
  <2>3. QED
    BY <2>1, <2>2
<1>9. QED
  BY <1>1, <1>2, <1>5, <1>6, <1>7, <1>8 DEF InOrder

(* The job that is claimed is the next.                                      *)
LEMMA ClaimInOrder ==
  ASSUME MovieInv, InOrder, NEW k \in Jobs, Claim(k)
  PROVE  InOrder' /\ k = Begun + 1
<1>1. /\ run.job = 0 /\ ready # <<>> /\ k = Head(ready) /\ ready' = Tail(ready) /\ SetState(k, "running")
  BY DEF Claim
<1>2. /\ Len(job) \in Nat /\ Len(ready) \in Nat \ {0} /\ ready \in Seq(Nat) /\ Len(ready) <= Len(job)
      /\ Jobs = 1 .. Len(job) /\ Head(ready) = ready[1]
      /\ ready' \in Seq(Nat) /\ Len(ready') = Len(ready) - 1
      /\ \A x \in 1 .. Len(ready) - 1 : ready'[x] = ready[x + 1]
  BY <1>1, HeadTailProperties, LenProperties, EmptySeq DEF InOrder, MovieInv, QueueOK, Jobs
<1>3. k = Begun + 1
  BY <1>1, <1>2 DEF InOrder, Begun
<1>4. /\ Jobs' = Jobs /\ \A m \in Jobs : job'[m].state = IF m = k THEN "running" ELSE job[m].state
  BY <1>1, OnlyState DEF MovieInv
<1>5. Len(job') = Len(job)
  BY <1>1 DEF SetState, MovieInv, QueueOK
<1>6. Begun' = Begun + 1 /\ Begun \in Nat
  BY <1>2, <1>5 DEF Begun
<1>7. \A x \in 1 .. Len(ready') : ready'[x] = Begun' + x
  BY <1>2, <1>6 DEF InOrder
<1>8. ASSUME NEW m \in Jobs
      PROVE  IF m > Begun' THEN job'[m].state = "queued"
             ELSE job'[m].state \in {"done", "failed"} \/ (m = Begun' /\ job'[m].state = "running")
  <2>1. job[m].state # "running"
    BY <1>1 DEF MovieInv, QueueOK, Jobs
  <2>2. QED
    BY <1>2, <1>3, <1>4, <1>6, <2>1 DEF InOrder
<1>9. QED
  BY <1>2, <1>3, <1>4, <1>5, <1>6, <1>7, <1>8 DEF InOrder

(* The handler's steps: only its own job changes, to an end.                 *)
LEMMA HandlerInOrder ==
  ASSUME MovieInv, InOrder, NEW k \in Jobs, run.job = k, UNCHANGED ready,
         UNCHANGED job \/ SetState(k, "done") \/ SetState(k, "failed")
  PROVE  InOrder'
<1>1. CASE UNCHANGED job
  BY <1>1 DEF InOrder, Begun, Jobs
<1>2. ASSUME NEW s \in {"done", "failed"}, SetState(k, s) PROVE InOrder'
  <2>1. /\ Jobs' = Jobs /\ \A m \in Jobs : job'[m].state = IF m = k THEN s ELSE job[m].state
    BY <1>2, OnlyState DEF MovieInv
  <2>2. Len(job') = Len(job)
    BY <1>2 DEF SetState, MovieInv, QueueOK
  <2>3. job[k].state = "running"
    BY DEF MovieInv, QueueOK
  <2>4. ~(k > Begun)
    BY <2>3 DEF InOrder
  <2>5. Begun' = Begun
    BY <2>2 DEF Begun
  <2>6. \A m \in Jobs : IF m > Begun THEN job'[m].state = "queued"
                        ELSE job'[m].state \in {"done", "failed"} \/ (m = Begun /\ job'[m].state = "running")
    BY <2>1, <2>4 DEF InOrder
  <2>7. QED
    BY <2>1, <2>2, <2>5, <2>6 DEF InOrder
<1>3. QED
  BY <1>1, <1>2

-----------------------------------------------------------------------------
(* The jobs stay what they are.                                              *)
Same(k) ==
  /\ k \in Jobs' /\ job'[k].op = job[k].op /\ job'[k].at = job[k].at
  /\ job'[k].file = job[k].file /\ job'[k].upgrade = job[k].upgrade

LEMMA TakenOverStays ==
  ASSUME \A k \in Jobs : Same(k)
  PROVE  \A i : TakenOver(i) => TakenOver(i)'
<1>1. ASSUME NEW i, TakenOver(i) PROVE TakenOver(i)'
  <2>1. PICK k \in Jobs : /\ job[k].op = "import" /\ job[k].upgrade /\ job[k].at # i /\ IsPrimary(job[k].at)
                          /\ Language[i] \in Audio[job[k].file] /\ Cardinality(Audio[job[k].file]) > 1
    BY <1>1 DEF TakenOver
  <2>2. k \in Jobs' /\ job'[k].op = "import" /\ job'[k].upgrade /\ job'[k].at = job[k].at /\ job'[k].file = job[k].file
    BY <2>1 DEF Same
  <2>3. QED
    BY <2>1, <2>2 DEF TakenOver
<1>2. QED
  BY <1>1

LEMMA SucceedsStays ==
  ASSUME Succeeds, Jobs' = Jobs, \A k \in Jobs : Same(k), UNCHANGED stored
  PROVE  Succeeds'
BY DEF Succeeds, Same

(* Where the new webhooks are.                                               *)
LEMMA EnqueueAt ==
  ASSUME QueueOK, NEW hooks \in Seq(JobRecord), Enqueue(hooks)
  PROVE  /\ Len(job) \in Nat /\ Len(hooks) \in Nat
         /\ Jobs = 1 .. Len(job) /\ Jobs' = 1 .. Len(job) + Len(hooks)
         /\ \A k \in Jobs : k \in Jobs' /\ job'[k] = job[k] /\ Same(k)
         /\ \A k \in Jobs' : k \notin Jobs =>
              /\ k - Len(job) \in 1 .. Len(hooks) /\ job'[k] = hooks[k - Len(job)]
              /\ job'[k] \in Elements(hooks)
<1>1. /\ job \in Seq(JobRecord) /\ job' = job \o hooks /\ Len(job) \in Nat /\ Len(hooks) \in Nat
      /\ Jobs = 1 .. Len(job) /\ DOMAIN hooks = 1 .. Len(hooks)
  BY LenProperties DEF QueueOK, Jobs, Enqueue
<1>2. Jobs' = 1 .. Len(job) + Len(hooks)
      /\ \A k \in Jobs' : job'[k] = IF k <= Len(job) THEN job[k] ELSE hooks[k - Len(job)]
  BY <1>1, ConcatProperties, LenProperties DEF Jobs
<1>3. \A k \in Jobs : k \in Jobs' /\ job'[k] = job[k]
  BY <1>1, <1>2
<1>4. \A k \in Jobs : Same(k)
  BY <1>3 DEF Same
<1>5. ASSUME NEW k \in Jobs', k \notin Jobs
      PROVE  k - Len(job) \in 1 .. Len(hooks) /\ job'[k] = hooks[k - Len(job)]
  BY <1>1, <1>2, <1>5
<1>6. ASSUME NEW k \in Jobs', k \notin Jobs
      PROVE  job'[k] \in Elements(hooks)
  BY <1>1, <1>5, <1>6 DEF Elements
<1>7. QED
  BY <1>1, <1>2, <1>3, <1>4, <1>5, <1>6

(* What Radarr does gives no job the file another had.                       *)
LEMMA RadarrLeavesOwn ==
  ASSUME MovieInv, OwnInv, NEW hooks \in Seq(JobRecord), Enqueue(hooks),
         UNCHANGED <<entry, run, outages, crashes>>,
         \A h \in Elements(hooks) : h.state = "queued",
         \A i \in Instances : \/ stored'[i] = stored[i]
                              \/ \A k \in Jobs : job[k].op = "import" /\ job[k].at = i => stored'[i] # job[k].file,
         \A h \in Elements(hooks), k \in Jobs :
           h.op # "recordDelete" /\ job[k].op = "import" /\ job[k].at = h.at => stored'[h.at] # job[k].file,
         \A x \in 1 .. Len(hooks) : hooks[x].op = "import" => x = Len(hooks)
  PROVE  OwnInv'
<1>2. /\ Len(job) \in Nat /\ Len(hooks) \in Nat
      /\ Jobs = 1 .. Len(job) /\ Jobs' = 1 .. Len(job) + Len(hooks)
  BY EnqueueAt DEF MovieInv
<1>3. \A k \in Jobs : k \in Jobs' /\ job'[k] = job[k] /\ Same(k)
  BY EnqueueAt DEF MovieInv
<1>4. \A k \in Jobs' : k \notin Jobs =>
        /\ k - Len(job) \in 1 .. Len(hooks) /\ job'[k] = hooks[k - Len(job)]
        /\ job'[k] \in Elements(hooks)
  BY EnqueueAt DEF MovieInv
<1>5. \A k \in Jobs : job[k].at \in Instances
  BY JobTyped DEF MovieInv, JobRecord
<1>6. Succeeds'
  <2>1. ASSUME NEW k \in Jobs', NEW d \in Jobs', k < d, job'[k].op = "import", job'[d].op # "recordDelete",
               job'[d].at = job'[k].at
        PROVE  stored'[job'[k].at] # job'[k].file
    <3>1. CASE k \notin Jobs
      <4>1. k - Len(job) \in 1 .. Len(hooks) /\ hooks[k - Len(job)].op = "import"
        BY <1>4, <2>1, <3>1
      <4>2. k - Len(job) = Len(hooks)
        BY <4>1
      <4>3. d <= Len(job) + Len(hooks) /\ d \in Nat /\ k \in Nat
        BY <1>2
      <4>4. QED
        BY <1>2, <2>1, <4>2, <4>3
    <3>2. CASE k \in Jobs /\ d \notin Jobs
      BY <1>3, <1>4, <2>1, <3>2
    <3>3. CASE k \in Jobs /\ d \in Jobs
      <4>1. stored[job[k].at] # job[k].file
        BY <1>3, <2>1, <3>3 DEF OwnInv, Succeeds
      <4>2. QED
        BY <1>3, <1>5, <2>1, <3>3, <4>1
    <3>4. QED
      BY <3>1, <3>2, <3>3
  <2>2. QED
    BY <2>1 DEF Succeeds
<1>7. run.job # 0 => run.job \in Jobs
  BY DEF MovieInv, QueueOK
<1>8. ASSUME outages = 0, crashes = 0 PROVE InOrder' /\ OwnShown'
  <2>1. InOrder /\ OwnShown
    BY <1>8 DEF OwnInv
  <2>2. InOrder'
    BY <2>1, EnqueueInOrder DEF MovieInv
  <2>3. ASSUME NEW i \in Instances \ Hardlinks, NEW k \in Jobs', Owns(i, k)'
        PROVE  /\ job'[k].state = "done" => Shown(i)'
               /\ run.job = k /\ run.pc \notin {"detect", "upgrade"} /\ run.failed = "no" =>
                    Shown(i)' \/ (run.pc # "finish" /\ i \in Elements(run.todo))
    <3>1. CASE k \notin Jobs
      <4>1. job'[k].state = "queued" /\ run.job # k
        BY <1>2, <1>4, <1>7, <3>1
      <4>2. QED
        BY <4>1
    <3>2. CASE k \in Jobs
      <4>1. Owns(i, k) /\ job'[k] = job[k]
        BY <1>3, <2>3, <3>2 DEF Owns
      <4>2. /\ job[k].state = "done" => Shown(i)
            /\ run.job = k /\ run.pc \notin {"detect", "upgrade"} /\ run.failed = "no" =>
                    Shown(i) \/ (run.pc # "finish" /\ i \in Elements(run.todo))
        BY <2>1, <3>2, <4>1 DEF OwnShown
      <4>3. Shown(i) => Shown(i)'
        BY <1>3, TakenOverStays DEF Shown
      <4>4. QED
        BY <4>1, <4>2, <4>3
    <3>3. QED
      BY <3>1, <3>2
  <2>4. OwnShown'
    BY <2>3 DEF OwnShown
  <2>5. QED
    BY <2>2, <2>4
<1>9. Clears'
  BY <1>3, <1>7 DEF OwnInv, Clears
<1>10. QED
  BY <1>6, <1>8, <1>9 DEF OwnInv

-----------------------------------------------------------------------------
(* What Radarr does.                                                         *)
LEMMA RadarrKeepsOwn ==
  ASSUME MovieInv, FitInv, OwnInv,
         \/ \E r \in Releases : Download(r)
         \/ \E i \in Instances : DeleteFile(i) \/ DeleteMovie(i, TRUE) \/ DeleteMovie(i, FALSE)
  PROVE  OwnInv'
<1>1. ASSUME NEW r \in Releases, Download(r) PROVE OwnInv'
  <2>1. PICK hooks \in Seq(JobRecord) :
           /\ Enqueue(hooks)
           /\ \A h \in Elements(hooks) : h.state = "queued" /\ h.at = Holder[r]
           /\ \A x \in 1 .. Len(hooks) : hooks[x].op = "import" => x = Len(hooks)
    BY <1>1, DownloadHooks
  <2>2. /\ \A k \in Jobs : job[k].file # r
        /\ stored' = [stored EXCEPT ![Holder[r]] = r]
        /\ UNCHANGED <<entry, run, outages, crashes>>
    BY <1>1 DEF Download, libraries, budgets
  <2>3. Holder[r] \in Instances
    BY MovieAssumption
  <2>4. stored'[Holder[r]] = r /\ \A i \in Instances : i # Holder[r] => stored'[i] = stored[i]
    BY <2>2, <2>3 DEF MovieInv, StorageOK
  <2>5. \A i \in Instances : \/ stored'[i] = stored[i]
                             \/ \A k \in Jobs : job[k].op = "import" /\ job[k].at = i => stored'[i] # job[k].file
    BY <2>2, <2>4
  <2>6. \A h \in Elements(hooks), k \in Jobs :
           h.op # "recordDelete" /\ job[k].op = "import" /\ job[k].at = h.at => stored'[h.at] # job[k].file
    BY <2>1, <2>2, <2>4
  <2>7. QED
    BY <2>1, <2>2, <2>5, <2>6, RadarrLeavesOwn
<1>2. ASSUME NEW i \in Instances, NEW op \in Deletes \cup {"recordDelete"}, NEW f \in Files,
             Enqueue(<<Webhook(op, i, f, FALSE)>>), UNCHANGED libraries, UNCHANGED <<run, budgets>>,
             (stored' = stored /\ op = "recordDelete") \/ stored' = [stored EXCEPT ![i] = None]
      PROVE  OwnInv'
  <2>1. PICK hook \in JobRecord : hook = Webhook(op, i, f, FALSE)
    BY WebhookTyped DEF Deletes
  <2>2. PICK hooks \in Seq(JobRecord) : hooks = <<hook>> /\ Elements(hooks) = {hook}
    BY SingleDistinct
  <2>3. hook.op = op /\ hook.at = i /\ hook.state = "queued"
    BY <2>1 DEF Webhook
  <2>4. Enqueue(hooks)
    BY <1>2, <2>1, <2>2
  <2>5. \A k \in Jobs : job[k].op = "import" => job[k].file # None
    BY MovieAssumption DEF FitInv, FilesAreTheirs
  <2>6. \A j \in Instances : \/ stored'[j] = stored[j]
                             \/ \A k \in Jobs : job[k].op = "import" /\ job[k].at = j => stored'[j] # job[k].file
    BY <1>2, <2>5 DEF MovieInv, StorageOK
  <2>7. \A h \in Elements(hooks), k \in Jobs :
           h.op # "recordDelete" /\ job[k].op = "import" /\ job[k].at = h.at => stored'[h.at] # job[k].file
    BY <1>2, <2>2, <2>3, <2>5 DEF MovieInv, StorageOK
  <2>8. \A x \in 1 .. Len(hooks) : hooks[x].op = "import" => x = Len(hooks)
    <3>1. \A x \in 1 .. Len(hooks) : hooks[x] \in Elements(hooks)
      BY LenProperties DEF Elements
    <3>2. hook.op # "import"
      BY <2>3 DEF Deletes
    <3>3. QED
      BY <2>2, <3>1, <3>2
  <2>9. QED
    BY <1>2, <2>2, <2>3, <2>4, <2>6, <2>7, <2>8, RadarrLeavesOwn DEF libraries, budgets
<1>3. ASSUME NEW i \in Instances, DeleteFile(i) PROVE OwnInv'
  BY <1>2, <1>3 DEF DeleteFile, Deletes, MovieInv, StorageOK
<1>4. ASSUME NEW i \in Instances, DeleteMovie(i, TRUE) PROVE OwnInv'
  BY <1>2, <1>4 DEF DeleteMovie, Deletes, Files
<1>5. ASSUME NEW i \in Instances, DeleteMovie(i, FALSE) PROVE OwnInv'
  BY <1>2, <1>5 DEF DeleteMovie, Deletes, Files
<1>6. QED
  BY <1>1, <1>3, <1>4, <1>5

(* A job that only changes its state.                                        *)
LEMMA StateLeavesJobs ==
  ASSUME QueueOK, NEW k \in Jobs, NEW s, SetState(k, s)
  PROVE  /\ Jobs' = Jobs /\ \A m \in Jobs : Same(m)
         /\ \A m \in Jobs : job'[m].state = IF m = k THEN s ELSE job[m].state
BY OnlyState DEF Same

LEMMA OwnsStays ==
  ASSUME NEW i, NEW k, Same(k), UNCHANGED stored, Owns(i, k)'
  PROVE  Owns(i, k)
BY DEF Owns, Same

(* The queue: with no retries and no crashes there is only the claim.        *)
LEMMA QueueKeepsOwn ==
  ASSUME MovieInv, OwnInv,
         Crash \/ \E k \in Jobs : Claim(k) \/ BackoffOver(k) \/ Sweep(k)
  PROVE  OwnInv'
<1>1. CASE Crash
  <2>1. run.job \in Jobs /\ SetState(run.job, "orphaned") /\ run'.job = 0 /\ UNCHANGED stored
    BY <1>1 DEF Crash, MovieInv, QueueOK, Idle, storages
  <2>2. Jobs' = Jobs /\ \A m \in Jobs : Same(m)
    BY <2>1, StateLeavesJobs DEF MovieInv
  <2>3. Succeeds'
    BY <2>1, <2>2, SucceedsStays DEF OwnInv
  <2>4. Clears'
    BY <2>1 DEF Clears
  <2>5. outages' \in Nat /\ crashes' \in Nat /\ crashes' # 0
    BY <1>1 DEF Crash, OwnInv
  <2>6. QED
    BY <2>3, <2>4, <2>5 DEF OwnInv
<1>2. ASSUME NEW k \in Jobs, Claim(k) PROVE OwnInv'
  <2>1. /\ SetState(k, "running") /\ run'.job = k /\ UNCHANGED <<stored, entry, outages, crashes>>
        /\ run'.pc = CASE job[k].op = "import" -> "detect"
                       [] job[k].op = "recordDelete" -> "finish"
                       [] OTHER -> "delete"
    BY <1>2 DEF Claim, Idle, storages, libraries, budgets
  <2>2. /\ Jobs' = Jobs /\ \A m \in Jobs : Same(m)
        /\ \A m \in Jobs : job'[m].state = IF m = k THEN "running" ELSE job[m].state
    BY <2>1, StateLeavesJobs DEF MovieInv
  <2>3. Succeeds'
    BY <2>1, <2>2, SucceedsStays DEF OwnInv
  <2>4. run'.pc \in {"detect", "finish", "delete"} /\ (job[k].op = "import" => run'.pc = "detect")
    BY <2>1
  <2>5. Clears'
    BY <2>4 DEF Clears
  <2>6. ASSUME outages = 0, crashes = 0 PROVE InOrder' /\ OwnShown'
    <3>1. InOrder /\ OwnShown
      BY <2>6 DEF OwnInv
    <3>2. InOrder'
      BY <1>2, <3>1, ClaimInOrder
    <3>3. ASSUME NEW i \in Instances \ Hardlinks, NEW m \in Jobs, Owns(i, m)'
          PROVE  /\ job'[m].state = "done" => Shown(i)'
                 /\ ~(run'.job = m /\ run'.pc \notin {"detect", "upgrade"})
      <4>1. Owns(i, m) /\ job[m].op = "import"
        BY <2>1, <2>2, <3>3, OwnsStays DEF Owns
      <4>2. job'[m].state = "done" => Shown(i)
        BY <2>2, <3>1, <4>1 DEF OwnShown
      <4>3. Shown(i) => Shown(i)'
        BY <2>1, <2>2, TakenOverStays DEF Shown
      <4>4. QED
        BY <2>1, <2>4, <4>1, <4>2, <4>3
    <3>4. OwnShown'
      BY <2>2, <3>3 DEF OwnShown
    <3>5. QED
      BY <3>2, <3>4
  <2>7. QED
    BY <2>1, <2>3, <2>5, <2>6 DEF OwnInv
<1>3. ASSUME NEW k \in Jobs, BackoffOver(k) \/ Sweep(k) PROVE OwnInv'
  <2>1. SetState(k, "queued") /\ UNCHANGED <<stored, run, outages, crashes>> /\ job[k].state \in {"backoff", "orphaned"}
    BY <1>3 DEF BackoffOver, Sweep, storages, budgets
  <2>2. Jobs' = Jobs /\ \A m \in Jobs : Same(m)
    BY <2>1, StateLeavesJobs DEF MovieInv
  <2>3. Succeeds'
    BY <2>1, <2>2, SucceedsStays DEF OwnInv
  <2>4. run.job # 0 => run.job \in Jobs
    BY DEF MovieInv, QueueOK
  <2>5. Clears'
    BY <2>1, <2>2, <2>4 DEF OwnInv, Clears, Same
  <2>6. ~(outages = 0 /\ crashes = 0)
    BY <2>1 DEF OwnInv, InOrder
  <2>7. QED
    BY <2>1, <2>3, <2>5, <2>6 DEF OwnInv
<1>4. QED
  BY <1>1, <1>2, <1>3

-----------------------------------------------------------------------------
(* What a step of job k owes to the instances' own links.                    *)
OthersShown(k) ==
  \A i \in Instances \ Hardlinks : \A m \in Jobs \ {k} :
    Owns(i, m) /\ job[m].state = "done" /\ Shown(i) => Shown(i)'

OneShown(k) ==
  \A i \in Instances \ Hardlinks : Owns(i, k) =>
    /\ job'[k].state = "done" => Shown(i)'
    /\ run'.job = k /\ run'.pc \notin {"detect", "upgrade"} /\ run'.failed = "no" =>
         Shown(i)' \/ (run'.pc # "finish" /\ i \in Elements(run'.todo))

LEMMA HandlerLeavesOwn ==
  ASSUME MovieInv, OwnInv, NEW k \in Jobs, run.job = k,
         UNCHANGED <<stored, ready, crashes>>, outages' \in {outages, outages + 1},
         UNCHANGED job \/ \E s : SetState(k, s),
         outages' = outages => UNCHANGED job \/ SetState(k, "done") \/ SetState(k, "failed"),
         run'.job \in {0, k}, Clears',
         outages = 0 /\ crashes = 0 /\ outages' = outages => OthersShown(k) /\ OneShown(k)
  PROVE  OwnInv'
<1>1. /\ Jobs' = Jobs /\ \A m \in Jobs : Same(m)
      /\ \A m \in Jobs : m # k => job'[m].state = job[m].state
  <2>1. CASE UNCHANGED job
    BY <2>1 DEF Jobs, Same
  <2>2. ASSUME NEW s, SetState(k, s)
        PROVE  /\ Jobs' = Jobs /\ \A m \in Jobs : Same(m)
               /\ \A m \in Jobs : m # k => job'[m].state = job[m].state
    BY <2>2, StateLeavesJobs DEF MovieInv
  <2>3. QED
    BY <2>1, <2>2
<1>2. Succeeds'
  BY <1>1, SucceedsStays DEF OwnInv
<1>3. outages' \in Nat /\ crashes' \in Nat
  BY DEF OwnInv
<1>4. ASSUME outages' = 0, crashes' = 0 PROVE InOrder' /\ OwnShown'
  <2>1. outages = 0 /\ crashes = 0 /\ outages' = outages
    BY <1>4 DEF OwnInv
  <2>2. InOrder /\ OwnShown /\ OthersShown(k) /\ OneShown(k)
    BY <2>1 DEF OwnInv
  <2>3. InOrder'
    BY <2>1, <2>2, HandlerInOrder
  <2>4. ASSUME NEW i \in Instances \ Hardlinks, NEW m \in Jobs, Owns(i, m)'
        PROVE  /\ job'[m].state = "done" => Shown(i)'
               /\ run'.job = m /\ run'.pc \notin {"detect", "upgrade"} /\ run'.failed = "no" =>
                    Shown(i)' \/ (run'.pc # "finish" /\ i \in Elements(run'.todo))
    <3>1. Owns(i, m)
      BY <1>1, <2>4, OwnsStays
    <3>2. CASE m = k
      BY <2>2, <3>1, <3>2 DEF OneShown
    <3>3. CASE m # k
      <4>1. m # 0
        BY DEF MovieInv, QueueOK, Jobs
      <4>2. job'[m].state = "done" => Shown(i)
        BY <1>1, <2>2, <3>1, <3>3 DEF OwnShown
      <4>3. QED
        BY <1>1, <2>2, <3>1, <3>3, <4>1, <4>2 DEF OthersShown
    <3>4. QED
      BY <3>2, <3>3
  <2>5. OwnShown'
    BY <1>1, <2>4 DEF OwnShown
  <2>6. QED
    BY <2>3, <2>5
<1>5. QED
  BY <1>2, <1>3, <1>4 DEF OwnInv

(* A step that leaves the links alone.                                       *)
LEMMA SameEntries ==
  ASSUME MovieInv, NEW k \in Jobs, UNCHANGED entry, UNCHANGED job \/ \E s : SetState(k, s)
  PROVE  OthersShown(k) /\ \A i : Shown(i) => Shown(i)'
<1>1. \A m \in Jobs : Same(m)
  BY StateLeavesJobs DEF Same, Jobs, MovieInv
<1>2. QED
  BY <1>1, TakenOverStays DEF OthersShown, Shown

(* The handler returns: it is done when every library has been visited.      *)
LEMMA ReturnKeepsOwn ==
  ASSUME MovieInv, OwnInv, NEW k \in Jobs, Finish(k) \/ DetectFails(k)
  PROVE  OwnInv'
<1>1. /\ run.job = k /\ UNCHANGED <<stored, entry, ready, crashes>>
      /\ run.pc = "finish" \/ (DetectFails(k) /\ outages' = outages + 1)
  BY DEF Finish, DetectFails, At, storages, libraries
<1>2. PICK s : Return(k, s)
  BY DEF Finish, DetectFails
<1>3. SetState(k, s) /\ run' = Idle
  BY <1>2 DEF Return
<1>4. /\ outages' \in {outages, outages + 1}
      /\ outages' = outages =>
           \/ run.failed = "no" /\ SetState(k, "done")
           \/ SetState(k, "failed")
  BY DEF Finish, DetectFails, Return, OwnInv
<1>5. run'.job = 0 /\ run'.pc = "idle" /\ k # 0
  BY <1>3 DEF Idle, MovieInv, QueueOK, Jobs
<1>6. Clears'
  BY <1>5 DEF Clears
<1>7. ASSUME outages = 0, crashes = 0, outages' = outages PROVE OthersShown(k) /\ OneShown(k)
  <2>1. OthersShown(k) /\ \A i : Shown(i) => Shown(i)'
    BY <1>1, <1>3, SameEntries
  <2>2. run.pc = "finish"
    BY <1>1, <1>7 DEF OwnInv
  <2>3. ASSUME NEW i \in Instances \ Hardlinks, Owns(i, k), job'[k].state = "done" PROVE Shown(i)'
    <3>1. ~SetState(k, "failed")
      BY <2>3, StateLeavesJobs DEF MovieInv
    <3>2. run.failed = "no"
      BY <1>4, <1>7, <3>1
    <3>3. Shown(i)
      BY <1>1, <1>7, <2>2, <2>3, <3>2 DEF OwnInv, OwnShown
    <3>4. QED
      BY <2>1, <3>3
  <2>4. QED
    BY <1>5, <2>1, <2>3 DEF OneShown
<1>8. QED
  BY <1>1, <1>3, <1>4, <1>5, <1>6, <1>7, HandlerLeavesOwn

-----------------------------------------------------------------------------
(* An import that begins to link has its own library among those it visits.  *)
LEMMA LinksShowOwn ==
  ASSUME MovieInv, NEW k \in Jobs, run.job = k, UNCHANGED job, job[k].state = "running",
         Links(Heard(job[k].at, job[k].file))
  PROVE  OneShown(k) /\ run'.pc \in {"source", "finish"} /\ run'.job = k
<1>1. /\ run'.job = k /\ run'.todo = LinkTargets(job[k].at, Heard(job[k].at, job[k].file))
      /\ run'.pc = IF run'.todo = <<>> THEN "finish" ELSE "source"
  BY LinksEffect
<1>2. ASSUME NEW i, Owns(i, k) PROVE i \in Elements(run'.todo) /\ run'.pc # "finish"
  <2>1. i \in Elements(run'.todo)
    BY <1>1, <1>2 DEF Owns
  <2>2. QED
    BY <1>1, <2>1, NothingTodo
<1>3. QED
  BY <1>1, <1>2 DEF OneShown

LEMMA DetectKeepsOwn ==
  ASSUME MovieInv, FitInv, OwnInv, NEW k \in Jobs, Detect(k)
  PROVE  OwnInv'
<1>1. /\ run.job = k /\ run.pc = "detect" /\ UNCHANGED <<stored, entry, ready, outages, crashes>>
  BY DEF Detect, At, storages, libraries, budgets
<1>2. k # 0 /\ job[k].state = "running"
  BY <1>1, HandlerAt
<1>3. CASE Return(k, "failed")
  <2>1. SetState(k, "failed") /\ run' = Idle
    BY <1>3 DEF Return
  <2>2. run'.job = 0 /\ run'.pc = "idle"
    BY <2>1 DEF Idle
  <2>3. Clears'
    BY <2>2 DEF Clears
  <2>4. OthersShown(k)
    BY <1>1, <2>1, SameEntries
  <2>5. job'[k].state = "failed"
    BY <2>1, StateLeavesJobs DEF MovieInv
  <2>6. OneShown(k)
    BY <1>2, <2>2, <2>5 DEF OneShown
  <2>7. QED
    BY <1>1, <2>1, <2>2, <2>3, <2>4, <2>6, HandlerLeavesOwn
<1>4. CASE ~Return(k, "failed")
  <2>1. stored[job[k].at] = job[k].file /\ job' = job
    BY <1>4 DEF Detect
  <2>2. OthersShown(k)
    BY <1>1, <2>1, SameEntries
  <2>3. run'.job = k /\ Clears' /\ OneShown(k)
    <3>1. CASE job[k].upgrade
      <4>1. /\ run'.job = k /\ run'.pc = "upgrade"
            /\ run'.todo = UpgradeTargets(job[k].at, Heard(job[k].at, job[k].file))
        BY <1>1, <2>1, <3>1 DEF Detect, MovieInv, RunOK
      <4>2. QED
        BY <1>2, <2>1, <3>1, <4>1 DEF Clears, OneShown
    <3>2. CASE ~job[k].upgrade
      <4>1. Links(Heard(job[k].at, job[k].file))
        BY <1>1, <2>1, <3>2 DEF Detect
      <4>2. OneShown(k) /\ run'.pc \in {"source", "finish"} /\ run'.job = k
        BY <1>1, <1>2, <2>1, <4>1, LinksShowOwn
      <4>3. QED
        BY <4>2 DEF Clears
    <3>3. QED
      BY <3>1, <3>2
  <2>4. QED
    BY <1>1, <2>1, <2>2, <2>3, HandlerLeavesOwn
<1>5. QED
  BY <1>3, <1>4

-----------------------------------------------------------------------------
(* The running job is the last that was claimed.                             *)
LEMMA LastBegun ==
  ASSUME MovieInv, InOrder, NEW k \in Jobs, run.job = k, NEW m \in Jobs \ {k}, job[m].state = "done"
  PROVE  m < k
<1>1. job[k].state = "running" /\ Jobs = 1 .. Len(job) /\ Len(job) \in Nat /\ Len(ready) \in Nat
  BY LenProperties DEF MovieInv, QueueOK, Jobs, InOrder
<1>2. Begun \in Int
  BY <1>1 DEF Begun
<1>3. k = Begun /\ ~(m > Begun)
  BY <1>1 DEF InOrder
<1>4. QED
  BY <1>1, <1>2, <1>3

(* A later job of the same instance: its file has gone since.                *)
LEMMA OwnHasGone ==
  ASSUME MovieInv, OwnInv, InOrder, NEW k \in Jobs, run.job = k, NEW m \in Jobs \ {k},
         job[m].state = "done", NEW i, Owns(i, m), job[k].op # "recordDelete"
  PROVE  job[k].at # i
<1>1. m < k
  BY LastBegun
<1>2. QED
  BY <1>1 DEF OwnInv, Succeeds, Owns

(* A library that is cleared for another instance's upgrade was taken over.  *)
LEMMA UpgradeTakesOver ==
  ASSUME MovieInv, FitInv, OwnInv, NEW k \in Jobs, run.job = k, run.pc = "upgrade",
         NEW i \in Elements(run.todo), job[k].at # i
  PROVE  TakenOver(i)
<1>1. /\ k # 0 /\ job[k].op = "import" /\ job[k].file \in Releases /\ job[k].at \in Instances
  BY HandlerAt
<1>2. PICK langs : langs = Heard(job[k].at, job[k].file)
  OBVIOUS
<1>3. job[k].upgrade /\ i \in Elements(UpgradeTargets(job[k].at, langs))
  BY <1>1, <1>2 DEF OwnInv, Clears
<1>4. IsPrimary(job[k].at) /\ Cardinality(langs) > 1 /\ i \in Elements(Speaking(langs))
  <2>1. CASE IsPrimary(job[k].at) /\ Cardinality(langs) > 1
    BY <1>3, <2>1 DEF UpgradeTargets
  <2>2. CASE ~(IsPrimary(job[k].at) /\ Cardinality(langs) > 1)
    BY <1>1, <1>3, <2>2, OneTodo DEF UpgradeTargets
  <2>3. QED
    BY <2>1, <2>2
<1>5. Language[i] \in langs
  BY <1>4, SpeakingTyped
<1>6. langs = Audio[job[k].file]
  <2>1. CASE Audio[job[k].file] = {}
    <3>1. langs = {Language[job[k].at]}
      BY <1>2, <2>1 DEF Heard
    <3>2. Cardinality(langs) = 1
      BY <3>1, FS_Singleton
    <3>3. QED
      BY <1>4, <3>2
  <2>2. CASE Audio[job[k].file] # {}
    BY <1>2, <2>2 DEF Heard
  <2>3. QED
    BY <2>1, <2>2
<1>7. QED
  BY <1>1, <1>3, <1>4, <1>5, <1>6 DEF TakenOver

(* A removed link: what is shown elsewhere is shown still.                   *)
LEMMA OneEntryRemoved ==
  ASSUME MovieInv, NEW k, Here \in Instances, entry' = [entry EXCEPT ![Here] = None], UNCHANGED job,
         Here \notin Hardlinks =>
           \A m \in Jobs \ {k} : Owns(Here, m) /\ job[m].state = "done" /\ Shown(Here) => TakenOver(Here)
  PROVE  OthersShown(k)
<1>1. \A m \in Jobs : Same(m)
  BY DEF Same, Jobs
<1>2. \A i \in Instances : i # Here => entry'[i] = entry[i]
  BY DEF MovieInv, LibraryOK
<1>3. \A i : TakenOver(i) => TakenOver(i)'
  BY <1>1, TakenOverStays
<1>4. QED
  BY <1>2, <1>3 DEF OthersShown, Shown

LEMMA UpgradeKeepsOwn ==
  ASSUME MovieInv, FitInv, OwnInv, NEW k \in Jobs, Upgrade(k)
  PROVE  OwnInv'
<1>1. /\ run.job = k /\ run.pc = "upgrade" /\ UnlinkFolder(k)
      /\ UNCHANGED <<stored, ready, outages, crashes>>
  BY DEF Upgrade, At, storages, budgets
<1>2. /\ k # 0 /\ job[k].op = "import" /\ job[k].state = "running" /\ ImportFits(job[k], run)
      /\ Here \in Instances /\ Here \in Elements(run.todo)
      /\ Elements(run.todo) = {Here} \cup Elements(Tail(run.todo))
  BY <1>1, HandlerAt
<1>3. run.langs = Heard(job[k].at, job[k].file)
  BY <1>1, <1>2 DEF ImportFits
<1>4. CASE mirror[Here] # {}
  <2>1. UNCHANGED <<entry, job, run>>
    BY <1>1, <1>4 DEF UnlinkFolder
  <2>2. OthersShown(k)
    BY <2>1, SameEntries
  <2>3. Clears' /\ OneShown(k)
    BY <1>1, <1>2, <2>1 DEF OwnInv, Clears, OneShown
  <2>4. QED
    BY <1>1, <2>1, <2>2, <2>3, HandlerLeavesOwn
<1>5. CASE mirror[Here] = {}
  <2>1. entry' = [entry EXCEPT ![Here] = None] /\ Unlinked(k)
    BY <1>1, <1>5 DEF UnlinkFolder
  <2>2. job' = job
    BY <1>1, <2>1 DEF Unlinked
  <2>3. run'.job = k /\ Clears' /\ OneShown(k)
    <3>1. CASE Tail(run.todo) = <<>>
      <4>1. Links(Heard(job[k].at, job[k].file))
        BY <1>1, <1>3, <2>1, <3>1 DEF Unlinked
      <4>2. OneShown(k) /\ run'.pc \in {"source", "finish"} /\ run'.job = k
        BY <1>1, <1>2, <2>2, <4>1, LinksShowOwn
      <4>3. QED
        BY <4>2 DEF Clears
    <3>2. CASE Tail(run.todo) # <<>>
      <4>1. run'.job = k /\ run'.pc = "upgrade" /\ run'.todo = Tail(run.todo)
        BY <1>1, <2>1, <3>2 DEF Unlinked, MovieInv, RunOK
      <4>2. Elements(run'.todo) \subseteq Elements(run.todo)
        BY <1>2, <4>1
      <4>3. QED
        BY <1>1, <1>2, <2>2, <4>1, <4>2 DEF OwnInv, Clears, OneShown
    <3>3. QED
      BY <3>1, <3>2
  <2>4. ASSUME outages = 0, crashes = 0 PROVE OthersShown(k)
    <3>1. ASSUME NEW m \in Jobs \ {k}, Owns(Here, m), job[m].state = "done" PROVE TakenOver(Here)
      <4>1. InOrder
        BY <2>4 DEF OwnInv
      <4>2. job[k].at # Here
        BY <1>1, <1>2, <3>1, <4>1, OwnHasGone
      <4>3. QED
        BY <1>1, <1>2, <4>2, UpgradeTakesOver
    <3>2. QED
      BY <1>2, <2>1, <2>2, <3>1, OneEntryRemoved
  <2>5. QED
    BY <1>1, <2>2, <2>3, <2>4, HandlerLeavesOwn
<1>6. QED
  BY <1>4, <1>5

(* A delete leaves another instance's link where it is.                      *)
LEMMA DeleteKeepsOwn ==
  ASSUME MovieInv, FitInv, OwnInv, NEW k \in Jobs, Delete(k)
  PROVE  OwnInv'
<1>1. /\ run.job = k /\ run.pc = "delete" /\ UNCHANGED <<stored, ready, outages, crashes>>
  BY DEF Delete, At, storages, budgets
<1>2. /\ k # 0 /\ job[k].op \in Deletes /\ job[k].at \in Instances /\ Here \in Instances
  BY <1>1, HandlerAt
<1>3. /\ UNCHANGED job /\ run'.job = k /\ run'.pc \in {"delete", "finish"}
      /\ \/ UNCHANGED entry
         \/ entry' = [entry EXCEPT ![Here] = None] /\ MayUnlink(job[k].at, Here)
  <2>1. CASE Unlinked(k)
    <3>1. UNCHANGED job /\ run'.job = k /\ run'.pc \in {"delete", "finish"}
      BY <1>1, <2>1 DEF Unlinked, MovieInv, RunOK
    <3>2. QED
      BY <3>1 DEF Delete, UnlinkFolder, libraries
  <2>2. CASE ~Unlinked(k)
    BY <1>1, <2>2 DEF Delete, UnlinkFolder
  <2>3. QED
    BY <2>1, <2>2
<1>4. Clears'
  BY <1>3 DEF Clears
<1>5. OneShown(k)
  BY <1>2 DEF OneShown, Owns, Deletes
<1>6. ASSUME outages = 0, crashes = 0 PROVE OthersShown(k)
  <2>1. CASE UNCHANGED entry
    BY <1>3, <2>1, SameEntries
  <2>2. CASE entry' = [entry EXCEPT ![Here] = None] /\ MayUnlink(job[k].at, Here)
    <3>1. ASSUME NEW m \in Jobs \ {k}, Here \notin Hardlinks, Owns(Here, m), job[m].state = "done", Shown(Here)
          PROVE  TakenOver(Here)
      <4>1. InOrder /\ job[k].op # "recordDelete"
        BY <1>2, <1>6 DEF OwnInv, Deletes
      <4>2. job[k].at # Here
        BY <1>1, <3>1, <4>1, OwnHasGone
      <4>3. entry[Here] # Here
        BY <1>2, <2>2, <3>1, <4>2, MovieAssumption DEF MayUnlink
      <4>4. QED
        BY <3>1, <4>3 DEF Shown
    <3>2. QED
      BY <1>2, <1>3, <2>2, <3>1, OneEntryRemoved
  <2>3. QED
    BY <1>3, <2>1, <2>2
<1>7. QED
  BY <1>1, <1>3, <1>4, <1>5, <1>6, HandlerLeavesOwn

-----------------------------------------------------------------------------
(* An import goes to its next library, and its own link is made, or behind   *)
(* the one in hand.                                                          *)
LEMMA NextLibraryKeepsOwn ==
  ASSUME MovieInv, FitInv, OwnInv, NEW k \in Jobs, run.job = k,
         run.pc \in {"source", "symlink", "list", "hardlink"},
         UNCHANGED <<stored, ready, outages, crashes>>,
         OthersShown(k), \A i \in Instances : Shown(i) => Shown(i)',
         \/ NextLibrary("permanent")
         \/ NextLibrary("no") /\ (Here \in Hardlinks \/ (job[k].at = Here => entry'[Here] = Here))
  PROVE  OwnInv'
<1>1. /\ k # 0 /\ job[k].state = "running" /\ Tail(run.todo) \in Seq(Instances)
      /\ Elements(run.todo) = {Here} \cup Elements(Tail(run.todo))
  BY HandlerAt
<1>2. /\ job' = job /\ run'.job = k /\ run'.todo = Tail(run.todo)
      /\ run'.pc = IF run'.todo = <<>> THEN "finish" ELSE "source"
  BY NextLibraryEffect
<1>3. NextLibrary("permanent") => run'.failed = "permanent"
  BY DEF NextLibrary, MovieInv, RunOK
<1>4. NextLibrary("no") => run'.failed = run.failed
  BY DEF NextLibrary, MovieInv, RunOK
<1>5. Clears'
  BY <1>2 DEF Clears
<1>6. ASSUME outages = 0, crashes = 0 PROVE OneShown(k)
  <2>1. ASSUME NEW i \in Instances \ Hardlinks, Owns(i, k), run'.failed = "no"
        PROVE  Shown(i)' \/ (run'.pc # "finish" /\ i \in Elements(run'.todo))
    <3>1. NextLibrary("no") /\ run.failed = "no"
      BY <1>3, <1>4, <2>1
    <3>2. Shown(i) \/ i \in Elements(run.todo)
      BY <1>6, <2>1, <3>1 DEF OwnInv, OwnShown
    <3>3. CASE i = Here
      <4>1. job[k].at = Here
        BY <2>1, <3>3 DEF Owns
      <4>2. CASE NextLibrary("permanent")
        BY <1>3, <2>1, <4>2
      <4>3. QED
        BY <2>1, <3>3, <4>1, <4>2 DEF Shown
    <3>4. CASE i # Here /\ i \in Elements(run.todo)
      <4>1. i \in Elements(run'.todo)
        BY <1>1, <1>2, <3>4
      <4>2. QED
        BY <1>2, <4>1, NothingTodo
    <3>5. QED
      BY <3>2, <3>3, <3>4
  <2>2. QED
    BY <1>1, <1>2, <2>1 DEF OneShown
<1>7. QED
  BY <1>2, <1>5, <1>6, HandlerLeavesOwn

(* An import that looks at a library has not linked it yet.                  *)
LEMMA LookKeepsOwn ==
  ASSUME MovieInv, FitInv, OwnInv, NEW k \in Jobs, Source(k) \/ List(k)
  PROVE  OwnInv'
<1>1. /\ run.job = k /\ run.pc \in {"source", "list"} /\ (run.pc = "list" => Here \in Hardlinks)
      /\ UNCHANGED <<stored, entry, ready, outages, crashes>>
  BY DEF Source, List, At, storages, libraries, budgets, MovieInv, RunOK
<1>2. k # 0 /\ job[k].state = "running"
  BY <1>1, HandlerAt
<1>3. CASE NextLibrary("permanent") \/ NextLibrary("no")
  <2>1. job' = job
    BY <1>3, NextLibraryEffect
  <2>2. OthersShown(k) /\ \A i : Shown(i) => Shown(i)'
    BY <1>1, <2>1, SameEntries
  <2>3. NextLibrary("permanent") \/ (NextLibrary("no") /\ Here \in Hardlinks)
    <3>1. CASE Source(k)
      BY <1>3, <3>1 DEF Source, NextLibrary, MovieInv, RunOK
    <3>2. CASE List(k)
      BY <1>1, <1>3, <3>2 DEF List, At
    <3>3. QED
      BY <3>1, <3>2
  <2>4. QED
    BY <1>1, <2>2, <2>3, NextLibraryKeepsOwn
<1>4. CASE ~(NextLibrary("permanent") \/ NextLibrary("no"))
  <2>1. /\ job' = job /\ run'.job = k /\ run'.todo = run.todo /\ run'.failed = run.failed
        /\ run'.pc \in {"symlink", "list", "hardlink"}
    <3>1. CASE Source(k)
      BY <1>1, <1>4, <3>1 DEF Source, MovieInv, RunOK
    <3>2. CASE List(k)
      BY <1>1, <1>4, <3>2 DEF List, MovieInv, RunOK
    <3>3. QED
      BY <3>1, <3>2
  <2>2. OthersShown(k) /\ \A i : Shown(i) => Shown(i)'
    BY <1>1, <2>1, SameEntries
  <2>3. Clears'
    BY <2>1 DEF Clears
  <2>4. ASSUME outages = 0, crashes = 0 PROVE OneShown(k)
    BY <1>1, <1>2, <2>1, <2>2, <2>4 DEF OwnInv, OwnShown, OneShown
  <2>5. QED
    BY <1>1, <2>1, <2>2, <2>3, <2>4, HandlerLeavesOwn
<1>5. QED
  BY <1>3, <1>4

(* A link is made over none but the instance's own.                          *)
LEMMA LinkKeepsOwn ==
  ASSUME MovieInv, FitInv, OwnInv, NEW k \in Jobs, Symlink(k) \/ Hardlink(k)
  PROVE  OwnInv'
<1>1. /\ run.job = k /\ run.pc \in {"symlink", "hardlink"} /\ (run.pc = "hardlink" => Here \in Hardlinks)
      /\ UNCHANGED <<stored, ready, outages, crashes>>
      /\ NextLibrary("no") \/ NextLibrary("permanent")
  BY DEF Symlink, Hardlink, At, storages, libraries, budgets, MovieInv, RunOK
<1>2. Here \in Instances
  BY <1>1, HandlerAt
<1>3. job' = job
  BY <1>1, NextLibraryEffect
<1>4. CASE UNCHANGED entry
  <2>1. OthersShown(k) /\ \A i : Shown(i) => Shown(i)'
    BY <1>3, <1>4, SameEntries
  <2>2. \/ NextLibrary("permanent")
        \/ NextLibrary("no") /\ (Here \in Hardlinks \/ (job[k].at = Here => entry'[Here] = Here))
    <3>1. CASE Symlink(k)
      BY <1>1, <1>2, <3>1 DEF Symlink, MovieInv, LibraryOK
    <3>2. CASE Hardlink(k)
      BY <1>1, <3>2 DEF Hardlink, At
    <3>3. QED
      BY <3>1, <3>2
  <2>3. QED
    BY <1>1, <2>1, <2>2, NextLibraryKeepsOwn
<1>5. CASE ~UNCHANGED entry
  <2>1. /\ entry' = [entry EXCEPT ![Here] = job[k].at] /\ entry[Here] \in {None, job[k].at}
        /\ NextLibrary("no")
    BY <1>5 DEF Symlink, Hardlink
  <2>2. \A m \in Jobs : Same(m)
    BY <1>3 DEF Same, Jobs
  <2>3. \A i : TakenOver(i) => TakenOver(i)'
    BY <2>2, TakenOverStays
  <2>4. ASSUME NEW i \in Instances, entry[i] = i PROVE entry'[i] = i
    BY <1>2, <2>1, <2>4, MovieAssumption DEF MovieInv, LibraryOK
  <2>6. OthersShown(k) /\ \A i \in Instances : Shown(i) => Shown(i)'
    BY <2>3, <2>4 DEF OthersShown, Shown
  <2>7. job[k].at = Here => entry'[Here] = Here
    BY <1>2, <2>1 DEF MovieInv, LibraryOK
  <2>8. QED
    BY <1>1, <2>1, <2>6, <2>7, NextLibraryKeepsOwn
<1>6. QED
  BY <1>4, <1>5

-----------------------------------------------------------------------------
LEMMA OwnInit == Init => OwnInv
<1> SUFFICES ASSUME Init PROVE OwnInv
  OBVIOUS
<1>1. job = <<>> /\ ready = <<>> /\ run.job = 0 /\ outages = 0 /\ crashes = 0
  BY DEF Init, Idle
<1>2. Jobs = {} /\ Len(job) = 0 /\ Len(ready) = 0 /\ ready \in Seq(Nat)
  BY <1>1 DEF Jobs
<1>3. QED
  BY <1>1, <1>2 DEF OwnInv, Succeeds, Clears, InOrder, OwnShown, Begun

LEMMA OwnStep == MovieInv /\ FitInv /\ OwnInv /\ [Next]_vars => OwnInv'
<1> SUFFICES ASSUME MovieInv, FitInv, OwnInv, [Next]_vars PROVE OwnInv'
  OBVIOUS
<1>1. CASE UNCHANGED vars
  BY <1>1 DEF vars, storages, libraries, budgets, OwnInv, Succeeds, Clears, InOrder, OwnShown,
              Owns, Shown, TakenOver, Begun, Jobs
<1>2. CASE Next
  <2>1. ASSUME NEW k \in Jobs, Handler(k) PROVE OwnInv'
    BY <2>1, DetectKeepsOwn, ReturnKeepsOwn, UpgradeKeepsOwn, DeleteKeepsOwn, LookKeepsOwn,
       LinkKeepsOwn DEF Handler
  <2>2. QED
    BY <1>2, <2>1, RadarrKeepsOwn, QueueKeepsOwn DEF Next
<1>3. QED
  BY <1>1, <1>2

(* "an instance only deletes what lives in its own storage"                  *)
(* (link/mod.rs:186): with no retries and no crashes, a link an instance     *)
(* made to the file it has outlives what the others import, upgrade and      *)
(* delete, until a multi-audio upgrade of a primary takes its library over.  *)
THEOREM OwnFilesAreShown == Spec => []OwnMovieShown
<1>1. Init => MovieInv /\ FitInv /\ OwnInv
  BY InitInv, FitInit, OwnInit
<1>2. MovieInv /\ FitInv /\ OwnInv /\ [Next]_vars => (MovieInv /\ FitInv /\ OwnInv)'
  BY StepInv, FitStep, OwnStep
<1>3. MovieInv /\ FitInv /\ OwnInv => OwnMovieShown
  <2> SUFFICES ASSUME MovieInv, OwnInv, outages = 0, crashes = 0,
                      NEW i \in Instances \ Hardlinks, NEW k \in Jobs,
                      job[k].op = "import", job[k].at = i, job[k].state = "done",
                      stored[i] = job[k].file,
                      i \in Elements(LinkTargets(i, Heard(i, stored[i])))
               PROVE  entry[i] = i \/ TakenOver(i)
    BY DEF OwnMovieShown, budgets
  <2>1. OwnShown /\ Owns(i, k)
    BY DEF OwnInv, Owns
  <2>2. QED
    BY <2>1 DEF OwnShown, Shown
<1>4. QED
  BY <1>1, <1>2, <1>3, PTL DEF Spec
=============================================================================
