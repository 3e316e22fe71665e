---------------------------- MODULE CrossInstance ----------------------------
(***************************************************************************)
(* Cross-instance propagation of one title: src/handler/cross_instance.rs, *)
(* over the HTTP calls and retry loop of src/client.                       *)
(*                                                                         *)
(* When the primary instance imports a title, the siblings of other        *)
(* languages are asked to fetch it; when the primary deletes it, siblings  *)
(* still waiting for a file drop it.  Each HTTP attempt is one step.  An    *)
(* attempt may fail before or after it took effect, and between any two    *)
(* the siblings download, and their operators add and remove titles.       *)
(***************************************************************************)
EXTENDS Integers, Sequences, FiniteSets, Selection

CONSTANTS
  Config,          \* the primary's siblings, in the order of the configuration
  Language,        \* the language of each sibling
  SourceLanguage,  \* the language of the primary
  Unusable,        \* siblings without a quality profile or a root folder
  Silent,          \* siblings that report no statistics with their series
  Propagate,       \* propagate_delete of the primary
  Audio,           \* the sets of languages an imported file may carry
  Concurrency,     \* queue_concurrency
  MaxTries,        \* RetryPolicy.max_attempts of the HTTP client (3 in the code)
  MaxJobs,         \* bound on the webhooks
  MaxFaults,       \* bound on lost answers, refusals and crashes
  MaxMeddling      \* bound on what the siblings' operators do by hand

Siblings == Elements(Config)

ASSUME CrossInstanceAssumption ==
  /\ Config \in Seq(Siblings)
  /\ DOMAIN Language = Siblings
  /\ Unusable \subseteq Siblings /\ Silent \subseteq Siblings
  /\ Propagate \in BOOLEAN
  /\ Concurrency \in Nat \ {0} /\ MaxTries \in Nat \ {0}
  /\ MaxJobs \in Nat /\ MaxFaults \in Nat /\ MaxMeddling \in Nat

VARIABLES
  title,   \* the title at the primary: whether it has a record and a file there
  record,  \* record[s]: the title at sibling s, by whom it was asked for; by nobody
           \* once an operator has removed it
  job,     \* the jobs, in the order of their webhooks
  run,     \* run[k]: how far the handler of job k is
  faults,  \* faults so far
  meddled  \* operators' acts so far

vars == <<title, record, job, run, faults, meddled>>

Jobs == DOMAIN job
Running == {k \in Jobs : job[k].state = "running"}
Settled == \A k \in Jobs : job[k].state \in {"done", "failed"}

\* No call in progress.  todo: siblings still to visit; seen: the record the last
\* look found; tries: failed attempts of the current call.
Idle == [pc |-> "idle", todo |-> <<>>, seen |-> 0, seenFile |-> FALSE, tries |-> 0]

\* Variant: siblings are asked for languages the file has.
AddTargetsAll(langs) == Filter(Config, {s \in Siblings : Language[s] # SourceLanguage})

\* The siblings an add is for: those whose language the file does not serve.
AddTargets(langs) ==
  Filter(Config, {s \in Siblings : Language[s] \notin langs \cup {SourceLanguage}})

\* A sibling's record once a file arrives or goes, or the record itself does.
Becomes(s, state, who) ==
  record' = [record EXCEPT ![s] =
    [state |-> state, by |-> who,
     id |-> IF @.state = "absent" THEN @.id + 1 ELSE @.id]]

-----------------------------------------------------------------------------
(* The instances and their operators.                                      *)

Webhook(op, langs, files) == [op |-> op, langs |-> langs, files |-> files, state |-> "queued"]

Enqueue(hook) ==
  /\ Len(job) < MaxJobs
  /\ job' = Append(job, hook)
  /\ run' = [k \in DOMAIN job' |-> IF k \in Jobs THEN run[k] ELSE Idle]

\* The primary imports a file of the title.
Import(langs) ==
  /\ title' = [title EXCEPT !.record = TRUE, !.file = TRUE]
  /\ Enqueue(Webhook("add", langs, TRUE))
  /\ UNCHANGED <<record, faults, meddled>>

\* The primary deletes the title, with its files or without.
Delete(files) ==
  /\ title.record
  /\ title' = [title EXCEPT !.record = FALSE, !.file = @ /\ ~files]
  /\ Enqueue(Webhook("delete", {}, files))
  /\ UNCHANGED <<record, faults, meddled>>

\* A sibling finds the file it has been waiting for.
Fetch(s) ==
  /\ record[s].state = "waiting"
  /\ Becomes(s, "owned", record[s].by)
  /\ UNCHANGED <<title, job, run, faults, meddled>>

\* A sibling's operator adds the title, deletes it, or deletes its file only.
Meddle(s) ==
  /\ meddled < MaxMeddling /\ meddled' = meddled + 1
  /\ \/ record[s].state = "absent" /\ Becomes(s, "waiting", "operator")
     \/ record[s].state = "owned" /\ Becomes(s, "waiting", "operator")
     \/ /\ record[s].state # "absent"
        /\ record' = [record EXCEPT ![s].state = "absent", ![s].by = "nobody"]
  /\ UNCHANGED <<title, job, run, faults>>

-----------------------------------------------------------------------------
(* The queue, without its order: any queued job may be claimed, and a retry *)
(* or a sweep queues a job again.                                          *)

SetState(k, s) == job' = [job EXCEPT ![k].state = s]

Claim(k) ==
  /\ job[k].state = "queued" /\ Cardinality(Running) < Concurrency
  /\ SetState(k, "running")
  /\ run' = [run EXCEPT ![k].pc = "begin"]
  /\ UNCHANGED <<title, record, faults, meddled>>

Crash ==
  /\ faults < MaxFaults /\ Running # {}
  /\ faults' = faults + 1
  /\ job' = [k \in Jobs |-> IF k \in Running THEN [job[k] EXCEPT !.state = "queued"] ELSE job[k]]
  /\ run' = [k \in Jobs |-> Idle]
  /\ UNCHANGED <<title, record, meddled>>

-----------------------------------------------------------------------------
(* The handlers.                                                           *)

At(k, pc) == k \in Running /\ run[k].pc = pc

\* The sibling job k is talking to.
Here(k) == Head(run[k].todo)

\* The next call, with all its tries.
Goto(k, pc) == run' = [run EXCEPT ![k] = [@ EXCEPT !.pc = pc, !.tries = 0]] /\ UNCHANGED job

Return(k, s) == SetState(k, s) /\ run' = [run EXCEPT ![k] = Idle]

\* Look at the first of the siblings, or be done.
Visit(k, siblings) ==
  IF siblings = <<>> THEN Return(k, "done")
  ELSE /\ run' = [run EXCEPT ![k] = [Idle EXCEPT !.pc = "look", !.todo = siblings]]
       /\ UNCHANGED job

\* Variant: the loop goes on past its last sibling.
NextSiblingBlind(k) ==
  /\ run' = [run EXCEPT ![k] = [Idle EXCEPT !.pc = "look", !.todo = Tail(run[k].todo)]]
  /\ UNCHANGED job

\* Variant: the loop does not advance.
NextSiblingNever(k) == Visit(k, run[k].todo)

NextSibling(k) == Visit(k, Tail(run[k].todo))

\* Variant: an import that starts over does not probe its file again.
BeginAddUnchecked(k) ==
  IF AddTargets(job[k].langs) = <<>> THEN Return(k, "done") ELSE Goto(k, "source")

\* The import handler has probed and linked the file before it propagates; a
\* file that is gone fails the job for good.
BeginAdd(k) ==
  CASE ~title.file -> Return(k, "failed")
    [] title.file /\ AddTargets(job[k].langs) = <<>> -> Return(k, "done")
    [] OTHER -> Goto(k, "source")

\* The delete handlers, propagate_delete_movie and propagate_delete_series.
BeginDelete(k) ==
  IF job[k].files /\ Propagate THEN Visit(k, Config) ELSE Return(k, "done")

Begin(k) ==
  /\ At(k, "begin")
  /\ IF job[k].op = "add" THEN BeginAdd(k) ELSE BeginDelete(k)
  /\ UNCHANGED <<title, record, faults, meddled>>

\* The primary is asked for the original language; its own stays at home.
Source(k) ==
  /\ At(k, "source")
  /\ IF title.record /\ title.ownOriginal THEN Return(k, "done")
     ELSE Visit(k, AddTargets(job[k].langs))
  /\ UNCHANGED <<title, record, faults, meddled>>

\* get_movie_by_tmdb_id or get_series_by_tvdb_id, before an add.
LookToAdd(k) ==
  /\ At(k, "look") /\ job[k].op = "add"
  /\ IF record[Here(k)].state = "absent" THEN Goto(k, "profiles") ELSE NextSibling(k)
  /\ UNCHANGED <<title, record, faults, meddled>>

\* Variant: the ownership rule is forgotten.
MayDropAny(s) == record[s].state # "absent"

\* The ownership rule: only a record that shows it holds no file.
MayDrop(s) == record[s].state = "waiting" /\ s \notin Silent

\* The same look before a delete; the record's id is what the DELETE will name.
LookToDelete(k) ==
  /\ At(k, "look") /\ job[k].op = "delete"
  /\ IF MayDrop(Here(k))
     THEN /\ run' = [run EXCEPT ![k] = [@ EXCEPT !.pc = "delete", !.tries = 0,
                 !.seen = record[Here(k)].id, !.seenFile = record[Here(k)].state = "owned"]]
          /\ UNCHANGED job
     ELSE NextSibling(k)
  /\ UNCHANGED <<title, record, faults, meddled>>

Profiles(k) ==
  /\ At(k, "profiles") /\ Goto(k, "folders")
  /\ UNCHANGED <<title, record, faults, meddled>>

\* Both lists are there: without a profile or a folder the sibling is passed over.
Folders(k) ==
  /\ At(k, "folders")
  /\ IF Here(k) \in Unusable THEN NextSibling(k) ELSE Goto(k, "post")
  /\ UNCHANGED <<title, record, faults, meddled>>

\* Variant: a title that is there already ends the cascade.
PostEnds(k) ==
  LET s == Here(k)
  IN  /\ At(k, "post")
      /\ \/ record[s].state = "absent" /\ Becomes(s, "waiting", "cascade") /\ NextSibling(k)
         \/ record[s].state # "absent" /\ Return(k, "done") /\ UNCHANGED record
      /\ UNCHANGED <<title, faults, meddled>>

\* add_movie, add_series: a title that is there already is answered 409, or 400
\* by a modern Radarr.
Post(k) ==
  LET s == Here(k)
  IN  /\ At(k, "post")
      /\ \/ record[s].state = "absent" /\ Becomes(s, "waiting", "cascade") /\ NextSibling(k)
         \/ record[s].state # "absent" /\ Goto(k, "resolve") /\ UNCHANGED record
         \/ record[s].state # "absent" /\ Return(k, "failed") /\ UNCHANGED record
      /\ UNCHANGED <<title, faults, meddled>>

\* The GET that resolves a 409.
Resolve(k) ==
  /\ At(k, "resolve")
  /\ IF record[Here(k)].state = "absent" THEN Return(k, "failed") ELSE NextSibling(k)
  /\ UNCHANGED <<title, record, faults, meddled>>

\* The record a DELETE names is still there.
Hit(k) == record[Here(k)].state # "absent" /\ record[Here(k)].id = run[k].seen

\* delete_movie, delete_series: a record that has gone is answered 404.
Drop(k) ==
  /\ At(k, "delete")
  /\ IF Hit(k)
     THEN record' = [record EXCEPT ![Here(k)].state = "absent"] /\ NextSibling(k)
     ELSE UNCHANGED record /\ Return(k, "failed")
  /\ UNCHANGED <<title, faults, meddled>>

Calls == {"source", "look", "profiles", "folders", "post", "resolve", "delete"}

\* What an attempt whose answer never comes may have done.
Effect(k) ==
  \/ UNCHANGED record
  \/ run[k].pc = "post" /\ record[Here(k)].state = "absent" /\ Becomes(Here(k), "waiting", "cascade")
  \/ run[k].pc = "delete" /\ Hit(k) /\ record' = [record EXCEPT ![Here(k)].state = "absent"]

\* execute_with_retry: a timeout, a broken connection or a 5xx is tried again;
\* after the last try the job is retried, or was on its last attempt.
Lost(k) ==
  /\ k \in Running /\ run[k].pc \in Calls
  /\ faults < MaxFaults /\ faults' = faults + 1
  /\ Effect(k)
  /\ IF run[k].tries + 1 < MaxTries
     THEN run' = [run EXCEPT ![k].tries = @ + 1] /\ UNCHANGED job
     ELSE Return(k, "queued") \/ Return(k, "failed")
  /\ UNCHANGED <<title, meddled>>

\* Any other 4xx, or a body that cannot be read: the job fails for good.
Refused(k) ==
  /\ k \in Running /\ run[k].pc \in Calls
  /\ faults < MaxFaults /\ faults' = faults + 1
  /\ Effect(k)
  /\ Return(k, "failed")
  /\ UNCHANGED <<title, meddled>>

Handler(k) ==
  \/ Begin(k) \/ Source(k) \/ LookToAdd(k) \/ LookToDelete(k) \/ Profiles(k)
  \/ Folders(k) \/ Post(k) \/ Resolve(k) \/ Drop(k)

-----------------------------------------------------------------------------
Init ==
  /\ \E own \in BOOLEAN : title = [record |-> FALSE, file |-> FALSE, ownOriginal |-> own]
  /\ record = [s \in Siblings |-> [state |-> "absent", id |-> 0, by |-> "operator"]]
  /\ job = <<>> /\ run = <<>>
  /\ faults = 0 /\ meddled = 0

Next ==
  \/ \E langs \in Audio : Import(langs)
  \/ \E files \in BOOLEAN : Delete(files)
  \/ \E s \in Siblings : Fetch(s) \/ Meddle(s)
  \/ \E k \in Jobs : Claim(k) \/ Handler(k) \/ Lost(k) \/ Refused(k)
  \/ Crash

Spec == Init /\ [][Next]_vars

\* Queued jobs are claimed, and every call that is not lost is answered.
Fairness == \A k \in 1 .. MaxJobs : WF_vars(k \in Jobs /\ Claim(k)) /\ WF_vars(k \in Jobs /\ Handler(k))

FairSpec == Spec /\ Fairness

-----------------------------------------------------------------------------
(* Properties.                                                             *)

\* Every variable has its type.
TypeOK ==
  /\ title \in [record : BOOLEAN, file : BOOLEAN, ownOriginal : BOOLEAN]
  /\ record \in [Siblings -> [state : {"absent", "waiting", "owned"}, id : Nat,
                              by : {"operator", "cascade", "nobody"}]]
  /\ DOMAIN run = Jobs
  /\ \A k \in Jobs :
       /\ job[k].state \in {"queued", "running", "done", "failed"}
       /\ run[k].pc \in Calls \cup {"idle", "begin"}
       /\ run[k].pc = "idle" <=> k \notin Running
       /\ run[k].pc \in Calls \ {"source"} => run[k].todo # <<>>
       /\ run[k].tries \in 0 .. MaxTries - 1

\* With one worker, a title that is gone from the primary leaves no sibling
\* searching for it on the cascade's account, whatever was retried, lost or
\* crashed on the way: the cascade's deletes are there to cancel
\* "records still waiting for a file" (cross_instance.rs:392).
NoOrphanRequest ==
  Concurrency = 1 /\ Propagate /\ Settled /\ ~title.file
  /\ (\A k \in Jobs : job[k].op = "delete" => job[k].state = "done") =>
       \A s \in Siblings \ Silent : ~(record[s].state = "waiting" /\ record[s].by = "cascade")

\* An import that was processed has reached every sibling whose language it
\* lacks, past those that cannot take it: "every other instance of the same
\* kind whose configured language is different must add the movie/series"
\* (cross_instance.rs:6), whatever its operators did between the cascade's calls,
\* unless a delete came or the sibling's own operator removed the title.
EverySiblingAsked ==
  \A k \in Jobs :
    /\ job[k].op = "add" /\ job[k].state = "done" /\ ~title.ownOriginal
    /\ \A d \in Jobs : job[d].op = "add"
    => \A s \in Siblings \ Unusable :
         Language[s] \notin job[k].langs \cup {SourceLanguage} =>
           record[s].state # "absent" \/ record[s].by = "nobody"

\* No sibling is asked for a language that every imported file already has:
\* "never ask a sibling to grab a language the imported file already carries"
\* (cross_instance.rs:312), nor for a title that is at home at the primary
\* while the primary has it.
NothingRedundant ==
  \A s \in Siblings :
    record[s].by = "cascade" =>
      \E k \in Jobs :
        /\ job[k].op = "add" /\ Language[s] \notin job[k].langs \cup {SourceLanguage}
        /\ title.ownOriginal => \E d \in Jobs : job[d].op = "delete"

\* A cascade destroys a file only if it arrived after the cascade had looked: a
\* record is dropped only by a handler that saw this very record without a file.
SeenFilesSurvive ==
  [][\A s \in Siblings :
       record[s].state # "absent" /\ record'[s].state = "absent" /\ meddled' = meddled =>
         \E k \in Jobs : At(k, "delete") /\ Here(k) = s /\ run[k].seen = record[s].id /\ ~run[k].seenFile]_vars

\* Lost answers, 409s and restarts never keep a cascade going for ever.
EveryCascadeSettles == <>[]Settled
=============================================================================
