------------------------------ MODULE Reconcile ------------------------------
(***************************************************************************)
(* POST /admin/regenerate over the episode libraries: the walk of          *)
(* src/reconcile/mod.rs, which reads every instance's storage and makes    *)
(* the links an import would have made.                                    *)
(*                                                                         *)
(* The walk runs in the request that asked for it, beside the queue's      *)
(* handlers and without a lock: between two of its file operations they    *)
(* run theirs, the instances change their storage, an operator loses       *)
(* links, the process crashes, or the request is dropped with the walk.    *)
(* Storage may hold files from before the program was set up.              *)
(***************************************************************************)
EXTENDS EpisodeLibrary

CONSTANTS
  MaxWalks,  \* bound on the regenerations asked for
  MaxLosses  \* bound on the links an operator loses

ASSUME ReconcileAssumption == MaxWalks \in Nat /\ MaxLosses \in Nat

VARIABLES
  walk,   \* how far the walk is
  walks,  \* regenerations asked for so far
  losses, \* links lost so far
  began   \* how the libraries were when the walk began, if it runs alone:
          \* "healthy", one link per episode at most ("single") or not
          \* ("doubled"); once anything else moves, "disturbed"

rvars == <<vars, walk, walks, losses, began>>

\* at: the instances whose storage is still to be walked, the current one first;
\* files: the media files the listing of its folder has still to yield; file: the
\* one in hand, langs its languages, todo the libraries still to link it into;
\* victim: the link in the way there; dry: whether this is only a preview.
NoWalk == [pc |-> "idle", at |-> <<>>, files |-> {}, file |-> None, langs |-> {},
           todo |-> <<>>, victim |-> None, dry |-> FALSE]

Walking(pc) == walk.pc = pc
Storage == Head(walk.at)
Library == Head(walk.todo)

-----------------------------------------------------------------------------
(* The walk.                                                               *)

Step(pc) == walk' = [walk EXCEPT !.pc = pc]

Regenerate(dry) ==
  /\ Config # <<>>
  /\ Walking("idle") /\ walks < MaxWalks
  /\ walks' = walks + 1
  /\ walk' = [NoWalk EXCEPT !.pc = "list", !.at = Config, !.dry = dry]
  /\ began' = CASE ~Settled -> "disturbed"
                [] Settled /\ Healthy -> "healthy"
                [] Settled /\ ~Healthy /\ OneLinkPerEpisode -> "single"
                [] OTHER -> "doubled"
  /\ UNCHANGED <<vars, losses>>

\* read_dir of the season folder.
ListFiles ==
  /\ Walking("list")
  /\ walk' = [walk EXCEPT !.pc = "file", !.files = DOMAIN stored[Storage]]
  /\ UNCHANGED vars

\* The next file of the listing, the next instance, or the end of the walk.
NextFile ==
  /\ Walking("file")
  /\ CASE walk.files # {} ->
            \E n \in walk.files :
              walk' = [walk EXCEPT !.pc = "detect", !.file = n, !.files = @ \ {n}]
       [] walk.files = {} /\ Len(walk.at) > 1 ->
            walk' = [walk EXCEPT !.pc = "list", !.at = Tail(@)]
       [] OTHER -> walk' = [NoWalk EXCEPT !.dry = walk.dry]
  /\ UNCHANGED vars

\* ffprobe and resolve_targets.  A file that is gone is an error the walk records;
\* one without a language tag is skipped, where an import assumes its instance's.
DetectFile ==
  LET i == Storage
      langs == IF Present(i, walk.file) THEN stored[i][walk.file] ELSE {}
      todo == IF langs = {} THEN <<>> ELSE LinkTargets(i, langs)
  IN  /\ Walking("detect")
      /\ walk' = [walk EXCEPT !.langs = langs, !.todo = todo,
                    !.pc = IF todo = <<>> THEN "file" ELSE "conflict"]
      /\ UNCHANGED vars

\* Linked, skipped or failed: apply_links goes on with the next library.
NextTarget ==
  walk' = [walk EXCEPT !.todo = Tail(@), !.victim = None,
             !.pc = IF Tail(walk.todo) = <<>> THEN "file" ELSE "conflict"]

\* Variant: the walk looks for no conflict.
ConflictOfWalkUnkeyed ==
  /\ Walking("conflict")
  /\ IF walk.dry THEN NextTarget ELSE Step("prepare")
  /\ UNCHANGED vars

\* episode_conflict: a name without a marker has no conflict.  A preview does not
\* link.
ConflictOfWalk ==
  LET marker == Marker[walk.file]
      found == IF marker = 0 THEN {} ELSE Conflicts(Library, Storage, walk.file, marker)
  IN  /\ Walking("conflict")
      /\ IF found # {}
         THEN \E m \in found : walk' = [walk EXCEPT !.pc = "judge", !.victim = m]
         ELSE IF walk.dry THEN NextTarget ELSE Step("prepare")
      /\ UNCHANGED vars

\* Variant: an incumbent is always replaced.
JudgeOfWalkEager ==
  /\ Walking("judge")
  /\ IF walk.dry THEN NextTarget ELSE Step("stat")
  /\ UNCHANGED vars

\* owner_instance and dedup_verdict.
JudgeOfWalk ==
  LET verdict == Verdict(entry[Library][walk.victim], Storage, Library)
  IN  /\ Walking("judge")
      /\ CASE verdict = "skip" \/ walk.dry -> NextTarget
           [] verdict = "link" /\ ~walk.dry -> Step("prepare")
           [] OTHER -> Step("stat")
      /\ UNCHANGED vars

\* unlink_absolute: as unlink_episode, an absent link is nothing to remove.
StatVictim ==
  /\ Walking("stat")
  /\ Step(IF entry[Library][walk.victim] = None THEN "prepare" ELSE "remove")
  /\ UNCHANGED vars

\* A link that vanished in between is an error, and the library is left.
RemoveVictim ==
  /\ Walking("remove")
  /\ IF entry[Library][walk.victim] = None
     THEN NextTarget /\ UNCHANGED entry
     ELSE Step("prune") /\ entry' = [entry EXCEPT ![Library][walk.victim] = None]
  /\ UNCHANGED <<stored, folder, job, ready, run, budgets>>

PruneFolder ==
  /\ Walking("prune")
  /\ folder' = [folder EXCEPT ![Library] = \E n \in Names : entry[Library][n] # None]
  /\ Step("prepare")
  /\ UNCHANGED <<stored, entry, job, ready, run, budgets>>

\* link_episode_from, in the steps an import makes.
PrepareLink ==
  /\ Walking("prepare")
  /\ IF Present(Storage, walk.file)
     THEN Step("probe") /\ folder' = [folder EXCEPT ![Library] = TRUE]
     ELSE NextTarget /\ UNCHANGED folder
  /\ UNCHANGED <<stored, entry, job, ready, run, budgets>>

ProbeLink ==
  /\ Walking("probe")
  /\ folder' = [folder EXCEPT ![Library] = TRUE]
  /\ IF entry[Library][walk.file] = None THEN Step("create") ELSE NextTarget
  /\ UNCHANGED <<stored, entry, job, ready, run, budgets>>

CreateLink ==
  /\ Walking("create")
  /\ entry' = IF folder[Library] /\ entry[Library][walk.file] = None
              THEN [entry EXCEPT ![Library][walk.file] = Storage] ELSE entry
  /\ NextTarget
  /\ UNCHANGED <<stored, folder, job, ready, run, budgets>>

\* The client goes away, and the walk with its request.
Drop ==
  /\ ~Walking("idle")
  /\ walk' = NoWalk /\ began' = "disturbed"
  /\ UNCHANGED <<vars, walks, losses>>

Walk ==
  /\ \/ ListFiles \/ NextFile \/ DetectFile \/ ConflictOfWalk \/ JudgeOfWalk
     \/ StatVictim \/ RemoveVictim \/ PruneFolder
     \/ PrepareLink \/ ProbeLink \/ CreateLink
  /\ UNCHANGED <<walks, losses, began>>

-----------------------------------------------------------------------------
(* What goes on beside it.                                                 *)

\* "if links were accidentally deleted" (how-it-works.md:79)
Lose(i, n) ==
  /\ losses < MaxLosses /\ entry[i][n] # None
  /\ losses' = losses + 1
  /\ entry' = [entry EXCEPT ![i][n] = None]
  /\ began' = "disturbed"
  /\ UNCHANGED <<stored, folder, job, ready, run, budgets, walk, walks>>

\* A step of EpisodeLibrary; a crash takes the walk with it.
Beside ==
  /\ Next
  /\ walk' = IF crashes' = crashes THEN walk ELSE NoWalk
  /\ began' = "disturbed"
  /\ UNCHANGED <<walks, losses>>

\* Storage as the instances had it, and no link yet: at most one file an episode.
Found(storage) ==
  /\ \A i \in Instances : \A n \in DOMAIN storage[i] : storage[i][n] \in Audio[i][n]
  /\ \A i \in Instances : \A m, n \in DOMAIN storage[i] : Episode[m] = Episode[n] => m = n

WalkInit ==
  /\ stored \in {s \in [Instances -> UNION {[S -> SUBSET Languages] : S \in SUBSET Names}] : Found(s)}
  /\ entry = [i \in Instances |-> [n \in Names |-> None]]
  /\ folder = [i \in Instances |-> FALSE]
  /\ job = <<>> /\ ready = <<>> /\ run = <<>>
  /\ outages = 0 /\ crashes = 0
  /\ walk = NoWalk /\ walks = 0 /\ losses = 0 /\ began = "disturbed"

WalkNext ==
  \/ Regenerate(TRUE) \/ Regenerate(FALSE)
  \/ Walk \/ Drop
  \/ \E i \in Instances, n \in Names : Lose(i, n)
  \/ Beside

WalkSpec == WalkInit /\ [][WalkNext]_rvars

-----------------------------------------------------------------------------
(* Properties.                                                             *)

\* A walk that nothing disturbed has just ended.
Walked == Walking("idle") /\ began # "disturbed" /\ ~walk.dry

\* "rebuilds the entire link tree" (how-it-works.md:75): after an undisturbed walk
\* each tagged file is linked in its own library, and its episode has a link in
\* every library the file is for, whatever state the libraries were in.
WalkRebuilds ==
  Walked =>
    \A o \in Instances : \A n \in DOMAIN stored[o] : \A i \in Instances :
      For(o, n, i) /\ stored[o][n] # {} =>
        /\ o = i => entry[i][n] = i
        /\ \E m \in Names : Episode[m] = Episode[n] /\ entry[i][m] # None

\* "a sweep silently undoes itself" (reconcile/mod.rs:343) is what an undisturbed
\* walk must not do: libraries as the imports leave them it does not touch.
WalkKeepsHealthy == [][began = "healthy" /\ Walk => UNCHANGED entry]_rvars

\* "without this a regenerate would resurrect every duplicate the handler resolved"
\* (reconcile/mod.rs:420): an undisturbed walk links no second file of an episode,
\* in no library and at no moment, unless it began with duplicates.
WalkAddsNoDuplicate == began \in {"healthy", "single"} => OneLinkPerEpisode
=============================================================================
