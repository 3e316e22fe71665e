------------------------ MODULE EpisodeLibraryProofs ------------------------
(***************************************************************************)
(* Proofs about EpisodeLibrary, for any instances, languages, names and    *)
(* releases, and any numbers of webhooks, outages and crashes.  The types  *)
(* hold with any number of workers; what one worker guarantees rests on    *)
(* five invariants: what a handler has seen in its library still holds     *)
(* (SerialInv), an import has the library to itself as far as its episode  *)
(* goes (OneInv), a link that no longer fits its file has a delete on its  *)
(* way (FitInv), a library shows its own instance's file unless something  *)
(* took the link away for a reason (OwnInv), and without deletes and       *)
(* upgrades a link goes only for one that serves the library better        *)
(* (OrderInv).                                                             *)
(***************************************************************************)
EXTENDS EpisodeLibrary, SelectionProofs, FiniteSetTheorems, SequenceTheorems, TLAPS

(* What a job is.                                                            *)
Ops == {"import", "delete", "seriesDelete", "recordDelete"}
States == {"queued", "running", "backoff", "orphaned", "done", "failed"}
JobRecord ==
  {j \in [op : Ops, at : Instances, name : Names \cup {None}, upgrade : BOOLEAN, state : States] :
     j.op \in {"import", "delete"} => j.name \in Names}

(* The file operations of an import in one library, and those of an unlink.  *)
Linking == {"find", "judge", "prepare", "probe", "create"}
Unlinking == {"stat", "remove", "prune"}
Pcs == Linking \cup Unlinking \cup {"idle", "detect", "check", "clear", "finish"}
Handlers ==
  [pc : Pcs, todo : Seq(Instances), why : {None, "delete", "upgrade", "evict"},
   victim : Names \cup {None}, langs : SUBSET Languages, failed : {"no", "permanent", "transient"}]

(* What holds of the handler state r of the job j in state s: which handler  *)
(* is at which call, and that it has a library to make the call in.          *)
HandlerOK(j, s, r) ==
  /\ r.pc = "idle" <=> s # "running"
  /\ r.pc \in Linking \cup Unlinking \cup {"check", "clear"} => r.todo # <<>>
  /\ r.pc \in Linking \cup {"detect"} => j.op = "import"
  /\ r.pc \in Unlinking =>
       \/ j.op = "delete" /\ r.why = "delete" /\ r.victim = j.name
       \/ j.op = "import" /\ r.why = "upgrade" /\ r.victim = j.name
       \/ j.op = "import" /\ r.why = "evict"
  /\ r.pc \in Unlinking \cup {"judge"} => r.victim \in Names
  /\ r.pc = "check" => j.op = "delete" /\ r.why \in {None, "delete"}
  /\ r.pc = "clear" => j.op = "seriesDelete"

(* The jobs that are due; the queue lists each of them once.                 *)
Queued == {k \in Jobs : job[k].state = "queued"}

QueueOK ==
  /\ job \in Seq(JobRecord) /\ run \in Seq(Handlers) /\ Len(run) = Len(job)
  /\ \A k \in Jobs : HandlerOK(job[k], job[k].state, run[k])
  /\ ready \in Seq(Nat) /\ Distinct(ready) /\ Elements(ready) = Queued
  /\ Cardinality(Running) <= Concurrency

(* What the instances store.                                                 *)
StorageOK ==
  /\ DOMAIN stored = Instances
  /\ \A i \in Instances : DOMAIN stored[i] \subseteq Names /\ \A n \in DOMAIN stored[i] : stored[i][n] \subseteq Languages

(* What the libraries hold: the folder of an entry is there.                 *)
LibraryOK ==
  /\ entry \in [Instances -> [Names -> Instances \cup {None}]]
  /\ folder \in [Instances -> BOOLEAN]
  /\ \A i \in Instances : ~folder[i] => \A n \in Names : entry[i][n] = None

(* The inductive invariant of the types.                                     *)
EpisodeInv == StorageOK /\ LibraryOK /\ QueueOK

(* A job, its handler and their place.                                       *)
LEMMA JobTyped ==
  ASSUME QueueOK, NEW k \in Jobs
  PROVE  /\ job[k] \in JobRecord /\ run[k] \in Handlers /\ k \in Nat
         /\ Jobs = 1 .. Len(job) /\ DOMAIN run = Jobs
<1>1. Jobs = 1 .. Len(job) /\ DOMAIN run = 1 .. Len(run) /\ Len(job) \in Nat /\ Len(run) = Len(job)
  BY LenProperties DEF QueueOK, Jobs
<1>2. job[k] \in JobRecord /\ run[k] \in Handlers
  BY <1>1, ElementOfSeq DEF QueueOK
<1>3. QED
  BY <1>1, <1>2

LEMMA RunningIsFinite == ASSUME QueueOK PROVE IsFiniteSet(Running)
<1>1. Jobs = 1 .. Len(job) /\ Len(job) \in Nat
  BY LenProperties DEF QueueOK, Jobs
<1>2. IsFiniteSet(Jobs)
  BY <1>1, FS_Interval
<1>3. Running \in SUBSET Jobs
  BY DEF Running
<1>4. QED
  BY <1>2, <1>3, FS_Subset

(* The webhooks stay what they are.                                          *)
SameHooks ==
  /\ Jobs' = Jobs
  /\ \A x \in Jobs : /\ job'[x].op = job[x].op /\ job'[x].at = job[x].at
                     /\ job'[x].name = job[x].name /\ job'[x].upgrade = job[x].upgrade

(* One job and its handler have changed.                                     *)
Local(k) ==
  /\ SameHooks /\ job' \in Seq(JobRecord) /\ run' \in Seq(Handlers) /\ Len(run') = Len(job')
  /\ \A x \in Jobs \ {k} : job'[x] = job[x] /\ run'[x] = run[x]

(* A job's state becomes s.                                                  *)
LEMMA StateSet ==
  ASSUME QueueOK, NEW k \in Jobs, NEW s \in States, SetState(k, s)
  PROVE  /\ SameHooks /\ job' \in Seq(JobRecord) /\ Len(job') = Len(job)
         /\ job'[k].state = s /\ \A x \in Jobs \ {k} : job'[x] = job[x]
<1>1. job[k] \in JobRecord /\ k \in 1 .. Len(job) /\ DOMAIN job = 1 .. Len(job)
  BY JobTyped, LenProperties DEF QueueOK, Jobs
<1>2. PICK new : new = [job[k] EXCEPT !.state = s]
  OBVIOUS
<1>3. new \in JobRecord /\ new.state = s /\ new.op = job[k].op /\ new.at = job[k].at
      /\ new.name = job[k].name /\ new.upgrade = job[k].upgrade
  BY <1>1, <1>2 DEF JobRecord
<1>4. job' = [job EXCEPT ![k] = new]
  BY <1>2 DEF SetState
<1>5. /\ job' \in Seq(JobRecord) /\ Len(job') = Len(job) /\ DOMAIN job' = DOMAIN job
      /\ \A x \in 1 .. Len(job) : job'[x] = IF x = k THEN new ELSE job[x]
  BY <1>1, <1>3, <1>4, ExceptSeq DEF QueueOK
<1>6. QED
  BY <1>1, <1>3, <1>5 DEF SameHooks, Jobs

(* The handler's state becomes r; its job keeps its state, or gets s.        *)
LEMMA RunSet ==
  ASSUME QueueOK, NEW k \in Jobs, NEW r \in Handlers, run' = [run EXCEPT ![k] = r],
         UNCHANGED job \/ \E s \in States : SetState(k, s)
  PROVE  Local(k) /\ run'[k] = r
<1>1. k \in 1 .. Len(run) /\ Jobs = 1 .. Len(run) /\ Jobs = DOMAIN job
  BY JobTyped, LenProperties DEF QueueOK, Jobs
<1>2. /\ run' \in Seq(Handlers) /\ Len(run') = Len(run)
      /\ \A x \in 1 .. Len(run) : run'[x] = IF x = k THEN r ELSE run[x]
  BY <1>1, ExceptSeq DEF QueueOK
<1>3. SameHooks /\ job' \in Seq(JobRecord) /\ Len(job') = Len(job) /\ \A x \in Jobs \ {k} : job'[x] = job[x]
  <2>1. CASE UNCHANGED job
    BY <2>1 DEF SameHooks, QueueOK, Jobs
  <2>2. QED
    BY <2>1, StateSet
<1>4. QED
  BY <1>1, <1>2, <1>3 DEF Local, QueueOK

LEMMA IdleTyped == Idle \in Handlers
BY EmptySeq DEF Idle, Handlers, Pcs

(* The handler returns.                                                      *)
LEMMA ReturnFacts ==
  ASSUME QueueOK, NEW k \in Jobs, NEW s \in States, Return(k, s)
  PROVE  Local(k) /\ run'[k] = Idle /\ job'[k].state = s
<1>1. SetState(k, s) /\ run' = [run EXCEPT ![k] = Idle]
  BY DEF Return
<1>2. QED
  BY <1>1, IdleTyped, RunSet, StateSet

(* The handler goes on, having changed the fields named.                     *)
LEMMA GotoFacts ==
  ASSUME QueueOK, NEW k \in Jobs, NEW pc \in Pcs, Goto(k, pc)
  PROVE  /\ Local(k) /\ job' = job /\ run'[k].pc = pc
         /\ run'[k].todo = run[k].todo /\ run'[k].why = run[k].why /\ run'[k].victim = run[k].victim
         /\ run'[k].langs = run[k].langs /\ run'[k].failed = run[k].failed
<1>1. run[k] \in Handlers
  BY JobTyped
<1>2. PICK r : r = [run[k] EXCEPT !.pc = pc]
  OBVIOUS
<1>3. /\ r \in Handlers /\ r.pc = pc /\ r.todo = run[k].todo /\ r.why = run[k].why
      /\ r.victim = run[k].victim /\ r.langs = run[k].langs /\ r.failed = run[k].failed
  BY <1>1, <1>2 DEF Handlers
<1>4. run' = [run EXCEPT ![k] = r] /\ job' = job
  BY <1>2 DEF Goto
<1>5. QED
  BY <1>3, <1>4, RunSet

(* It goes on with the libraries todo.                                       *)
LEMMA TodoFacts ==
  ASSUME QueueOK, NEW k \in Jobs, NEW pc \in Pcs, NEW todo \in Seq(Instances),
         run' = [run EXCEPT ![k] = [@ EXCEPT !.pc = pc, !.todo = todo]], UNCHANGED job
  PROVE  /\ Local(k) /\ run'[k].pc = pc /\ run'[k].todo = todo
         /\ run'[k].why = run[k].why /\ run'[k].victim = run[k].victim
         /\ run'[k].langs = run[k].langs /\ run'[k].failed = run[k].failed
<1>1. run[k] \in Handlers
  BY JobTyped
<1>2. PICK r : r = [run[k] EXCEPT !.pc = pc, !.todo = todo]
  OBVIOUS
<1>3. /\ r \in Handlers /\ r.pc = pc /\ r.todo = todo /\ r.why = run[k].why
      /\ r.victim = run[k].victim /\ r.langs = run[k].langs /\ r.failed = run[k].failed
  BY <1>1, <1>2 DEF Handlers
<1>4. run' = [run EXCEPT ![k] = r]
  BY <1>2
<1>5. QED
  BY <1>3, <1>4, RunSet

(* It turns to an entry, to judge it, to evict it or to delete it.           *)
LEMMA JudgingFacts ==
  ASSUME QueueOK, NEW k \in Jobs, NEW m \in Names,
         run' = [run EXCEPT ![k] = [@ EXCEPT !.pc = "judge", !.victim = m]], UNCHANGED job
  PROVE  /\ Local(k) /\ run'[k].pc = "judge" /\ run'[k].victim = m
         /\ run'[k].todo = run[k].todo /\ run'[k].failed = run[k].failed
<1>1. run[k] \in Handlers
  BY JobTyped
<1>2. PICK r : r = [run[k] EXCEPT !.pc = "judge", !.victim = m]
  OBVIOUS
<1>3. r \in Handlers /\ r.pc = "judge" /\ r.victim = m /\ r.todo = run[k].todo /\ r.failed = run[k].failed
  BY <1>1, <1>2 DEF Handlers, Pcs, Linking
<1>4. run' = [run EXCEPT ![k] = r]
  BY <1>2
<1>5. QED
  BY <1>3, <1>4, RunSet

LEMMA EvictingFacts ==
  ASSUME QueueOK, NEW k \in Jobs,
         run' = [run EXCEPT ![k] = [@ EXCEPT !.pc = "stat", !.why = "evict"]], UNCHANGED job
  PROVE  /\ Local(k) /\ run'[k].pc = "stat" /\ run'[k].why = "evict"
         /\ run'[k].victim = run[k].victim
         /\ run'[k].todo = run[k].todo /\ run'[k].failed = run[k].failed
<1>1. run[k] \in Handlers
  BY JobTyped
<1>2. PICK r : r = [run[k] EXCEPT !.pc = "stat", !.why = "evict"]
  OBVIOUS
<1>3. /\ r \in Handlers /\ r.pc = "stat" /\ r.why = "evict" /\ r.victim = run[k].victim
      /\ r.todo = run[k].todo /\ r.failed = run[k].failed
  BY <1>1, <1>2 DEF Handlers, Pcs, Unlinking
<1>4. run' = [run EXCEPT ![k] = r]
  BY <1>2
<1>5. QED
  BY <1>3, <1>4, RunSet

LEMMA DeletingFacts ==
  ASSUME QueueOK, NEW k \in Jobs, NEW n \in Names,
         run' = [run EXCEPT ![k] = [@ EXCEPT !.pc = "stat", !.why = "delete", !.victim = n]], UNCHANGED job
  PROVE  /\ Local(k) /\ run'[k].pc = "stat" /\ run'[k].why = "delete" /\ run'[k].victim = n
         /\ run'[k].todo = run[k].todo
<1>1. run[k] \in Handlers
  BY JobTyped
<1>2. PICK r : r = [run[k] EXCEPT !.pc = "stat", !.why = "delete", !.victim = n]
  OBVIOUS
<1>3. r \in Handlers /\ r.pc = "stat" /\ r.why = "delete" /\ r.victim = n /\ r.todo = run[k].todo
  BY <1>1, <1>2 DEF Handlers, Pcs, Unlinking
<1>4. run' = [run EXCEPT ![k] = r]
  BY <1>2
<1>5. QED
  BY <1>3, <1>4, RunSet

(* A series' delete goes on to the next library, or is done with them.       *)
LEMMA ClearedFacts ==
  ASSUME QueueOK, NEW k \in Jobs, run[k].todo # <<>>, UNCHANGED job,
         run' = [run EXCEPT ![k] = [@ EXCEPT !.todo = Tail(run[k].todo),
                    !.pc = IF Tail(run[k].todo) = <<>> THEN "finish" ELSE "clear"]]
  PROVE  /\ Local(k) /\ run'[k].todo = Tail(run[k].todo) /\ run'[k].todo \in Seq(Instances)
         /\ run'[k].pc = IF run'[k].todo = <<>> THEN "finish" ELSE "clear"
         /\ run'[k].failed = run[k].failed
<1>1. run[k] \in Handlers /\ Tail(run[k].todo) \in Seq(Instances)
  BY JobTyped, HeadElements DEF Handlers
<1>2. PICK r : r = [run[k] EXCEPT !.todo = Tail(run[k].todo),
                       !.pc = IF Tail(run[k].todo) = <<>> THEN "finish" ELSE "clear"]
  OBVIOUS
<1>3. /\ r \in Handlers /\ r.todo = Tail(run[k].todo) /\ r.failed = run[k].failed
      /\ r.pc = IF r.todo = <<>> THEN "finish" ELSE "clear"
  BY <1>1, <1>2 DEF Handlers, Pcs
<1>4. run' = [run EXCEPT ![k] = r]
  BY <1>2
<1>5. QED
  BY <1>1, <1>3, <1>4, RunSet

(* It goes on to the next library, or is done with them.                     *)
LEMMA NextLibraryFacts ==
  ASSUME QueueOK, NEW k \in Jobs, run[k].todo # <<>>, NEW failure \in {"no", "permanent", "transient"},
         NextLibrary(k, failure)
  PROVE  /\ Local(k) /\ job' = job /\ run'[k].todo = Tail(run[k].todo)
         /\ run'[k].pc = IF Tail(run[k].todo) = <<>> THEN "finish" ELSE "find"
         /\ run'[k].why = run[k].why /\ run'[k].victim = run[k].victim /\ run'[k].langs = run[k].langs
         /\ failure = "no" => run'[k].failed = run[k].failed
         /\ run'[k].failed = "permanent" => run[k].failed = "permanent" \/ failure = "permanent"
<1> DEFINE worst == CASE failure = "no" -> run[k].failed
                      [] run[k].failed = "transient" -> "transient"
                      [] OTHER -> failure
           pc == IF Tail(run[k].todo) = <<>> THEN "finish" ELSE "find"
<1>1. run[k] \in Handlers /\ run[k].todo \in Seq(Instances)
  BY JobTyped DEF Handlers
<1>2. Tail(run[k].todo) \in Seq(Instances)
  BY <1>1, HeadElements
<1>3. /\ worst \in {"no", "permanent", "transient"} /\ (failure = "no" => worst = run[k].failed)
      /\ worst = "permanent" => run[k].failed = "permanent" \/ failure = "permanent"
  BY <1>1 DEF Handlers
<1>4. pc \in Pcs
  BY DEF Pcs, Linking
<1>5. run' = [run EXCEPT ![k] = [@ EXCEPT !.todo = Tail(run[k].todo), !.failed = worst, !.pc = pc]] /\ job' = job
  BY DEF NextLibrary
<1>6. PICK r : r = [run[k] EXCEPT !.todo = Tail(run[k].todo), !.failed = worst, !.pc = pc]
  OBVIOUS
<1> HIDE DEF worst, pc
<1>7. /\ r \in Handlers /\ r.pc = pc /\ r.todo = Tail(run[k].todo) /\ r.failed = worst
      /\ r.why = run[k].why /\ r.victim = run[k].victim /\ r.langs = run[k].langs
  BY <1>1, <1>2, <1>3, <1>4, <1>6 DEF Handlers
<1>8. run' = [run EXCEPT ![k] = r]
  BY <1>5, <1>6
<1>9. Local(k) /\ run'[k] = r
  BY <1>5, <1>7, <1>8, RunSet
<1>10. QED
  BY <1>3, <1>5, <1>7, <1>9 DEF pc

(* It begins to link, or to clear what an upgrade replaces.                  *)
LEMMA LinksFacts ==
  ASSUME QueueOK, NEW k \in Jobs, NEW langs \in SUBSET Languages, Links(k, langs), UNCHANGED job
  PROVE  /\ Local(k) /\ run'[k].todo = LinkTargets(job[k].at, langs) /\ run'[k].todo \in Seq(Instances)
         /\ run'[k].pc = IF LinkTargets(job[k].at, langs) = <<>> THEN "finish" ELSE "find"
         /\ run'[k].failed = run[k].failed
<1> DEFINE todo == LinkTargets(job[k].at, langs)
           pc == IF todo = <<>> THEN "finish" ELSE "find"
<1>1. run[k] \in Handlers /\ job[k].at \in Instances
  BY JobTyped DEF JobRecord
<1>2. todo \in Seq(Instances)
  <2>1. Speaking(langs) \in Seq(Instances)
    BY EpisodeLibraryAssumption, FilterElements DEF Speaking
  <2>2. Append(Speaking(langs), job[k].at) \in Seq(Instances)
    BY <1>1, <2>1, AppendElements
  <2>3. <<job[k].at>> \in Seq(Instances) /\ <<>> \in Seq(Instances)
    BY <1>1, SingleDistinct, EmptySeq
  <2>4. QED
    BY <2>1, <2>2, <2>3 DEF LinkTargets
<1>3. pc \in Pcs
  BY DEF Pcs, Linking
<1>4. PICK r : r = [run[k] EXCEPT !.pc = pc, !.langs = langs, !.todo = todo]
  OBVIOUS
<1>5. run' = [run EXCEPT ![k] = r]
  BY <1>4 DEF Links
<1> HIDE DEF todo, pc
<1>6. r \in Handlers /\ r.pc = pc /\ r.todo = todo /\ r.failed = run[k].failed
  BY <1>1, <1>2, <1>3, <1>4 DEF Handlers
<1>7. Local(k) /\ run'[k] = r
  BY <1>5, <1>6, RunSet
<1>8. QED
  BY <1>2, <1>6, <1>7 DEF todo, pc

LEMMA UnlinksFacts ==
  ASSUME QueueOK, NEW k \in Jobs, job[k].op = "import", NEW langs \in SUBSET Languages, NEW todo \in Seq(Instances),
         Unlinks(k, langs, todo), UNCHANGED job
  PROVE  /\ Local(k) /\ run'[k].pc = "stat" /\ run'[k].why = "upgrade" /\ run'[k].victim = job[k].name
         /\ run'[k].todo = todo /\ run'[k].langs = langs /\ run'[k].failed = run[k].failed
<1>1. run[k] \in Handlers /\ job[k].name \in Names
  BY JobTyped DEF JobRecord
<1>2. PICK r : r = [run[k] EXCEPT !.pc = "stat", !.why = "upgrade", !.victim = job[k].name,
                                  !.langs = langs, !.todo = todo]
  OBVIOUS
<1>3. /\ r \in Handlers /\ r.pc = "stat" /\ r.why = "upgrade" /\ r.victim = job[k].name
      /\ r.todo = todo /\ r.langs = langs /\ r.failed = run[k].failed
  BY <1>1, <1>2 DEF Handlers, Pcs, Unlinking
<1>4. run' = [run EXCEPT ![k] = r]
  BY <1>2 DEF Unlinks
<1>5. QED
  BY <1>3, <1>4, RunSet

(* After the unlink in one library: five ways to go on.                      *)
LEMMA UnlinkedFacts ==
  ASSUME QueueOK, NEW k \in Jobs, run[k].pc \in Unlinking \cup {"check"}, Unlinked(k)
  PROVE  /\ Local(k)
         /\ \/ /\ job[k].op = "import" /\ run[k].why = "evict" /\ job' = job
               /\ run'[k].pc = "prepare" /\ run'[k].todo = run[k].todo /\ run'[k].failed = run[k].failed
            \/ /\ job[k].op = "import" /\ run[k].why = "upgrade" /\ job' = job /\ run'[k].pc = "stat"
               /\ run'[k].todo = Tail(run[k].todo) /\ run'[k].todo # <<>> /\ run'[k].todo \in Seq(Instances)
               /\ run'[k].why = "upgrade" /\ run'[k].victim = run[k].victim
               /\ run'[k].langs = run[k].langs /\ run'[k].failed = run[k].failed
            \/ /\ job[k].op = "import" /\ run[k].why = "upgrade" /\ job' = job
               /\ run'[k].todo = LinkTargets(job[k].at, run[k].langs) /\ run'[k].todo \in Seq(Instances)
               /\ run'[k].pc = IF run'[k].todo = <<>> THEN "finish" ELSE "find"
               /\ run'[k].failed = run[k].failed
            \/ /\ job[k].op = "delete" /\ Tail(run[k].todo) = <<>>
               /\ run'[k] = Idle /\ job'[k].state = "done"
            \/ /\ job[k].op = "delete" /\ job' = job /\ run'[k].pc = "check"
               /\ run'[k].todo = Tail(run[k].todo) /\ run'[k].todo # <<>> /\ run'[k].todo \in Seq(Instances)
               /\ run'[k].why = run[k].why /\ run'[k].why \in {None, "delete"}
<1>1. HandlerOK(job[k], job[k].state, run[k]) /\ run[k] \in Handlers
  BY JobTyped DEF QueueOK
<1>2. /\ run[k].todo \in Seq(Instances) /\ run[k].todo # <<>> /\ run[k].langs \in SUBSET Languages
      /\ \/ job[k].op = "import" /\ run[k].why \in {"evict", "upgrade"}
         \/ job[k].op = "delete" /\ run[k].why \in {None, "delete"}
  BY <1>1 DEF HandlerOK, Handlers
<1>3. Tail(run[k].todo) \in Seq(Instances) /\ None # "evict" /\ None # "upgrade"
  BY <1>2, HeadElements DEF None
<1>4. CASE run[k].why = "evict"
  <2>1. Goto(k, "prepare") /\ "prepare" \in Pcs
    BY <1>4 DEF Unlinked, Pcs, Linking
  <2>2. QED
    BY <1>2, <1>3, <1>4, <2>1, GotoFacts
<1>5. CASE run[k].why = "upgrade" /\ Tail(run[k].todo) # <<>>
  <2>1. run' = [run EXCEPT ![k] = [@ EXCEPT !.pc = "stat", !.todo = Tail(run[k].todo)]] /\ UNCHANGED job
    BY <1>5 DEF Unlinked
  <2>2. "stat" \in Pcs
    BY DEF Pcs, Unlinking
  <2>3. QED
    BY <1>2, <1>3, <1>5, <2>1, <2>2, TodoFacts
<1>6. CASE run[k].why = "upgrade" /\ Tail(run[k].todo) = <<>>
  <2>1. Links(k, run[k].langs) /\ UNCHANGED job
    BY <1>6 DEF Unlinked
  <2>2. QED
    BY <1>2, <1>3, <1>6, <2>1, LinksFacts
<1>7. CASE run[k].why \notin {"evict", "upgrade"} /\ Tail(run[k].todo) = <<>>
  <2>1. Return(k, "done") /\ "done" \in States
    BY <1>7 DEF Unlinked, States
  <2>2. QED
    BY <1>2, <1>3, <1>7, <2>1, ReturnFacts
<1>8. CASE run[k].why \notin {"evict", "upgrade"} /\ Tail(run[k].todo) # <<>>
  <2>1. run' = [run EXCEPT ![k] = [@ EXCEPT !.pc = "check", !.todo = Tail(run[k].todo)]] /\ UNCHANGED job
    BY <1>8 DEF Unlinked
  <2>2. "check" \in Pcs
    BY DEF Pcs
  <2>3. QED
    BY <1>2, <1>3, <1>8, <2>1, <2>2, TodoFacts
<1>9. QED
  BY <1>4, <1>5, <1>6, <1>7, <1>8

-----------------------------------------------------------------------------
(* The types.                                                                *)

(* A handler's step keeps the queue if it leaves its own job well formed.    *)
LEMMA LocalKeepsQueue ==
  ASSUME QueueOK, NEW k \in Running, Local(k), UNCHANGED ready,
         HandlerOK(job[k], job'[k].state, run'[k]), job'[k].state # "queued"
  PROVE  QueueOK'
<1>1. k \in Jobs /\ job[k].state = "running"
  BY DEF Running
<1>2. ASSUME NEW x \in Jobs'
      PROVE  HandlerOK(job'[x], job'[x].state, run'[x])
  BY <1>1 DEF Local, SameHooks, QueueOK, HandlerOK
<1>3. Queued' = Queued
  BY <1>1 DEF Queued, Local, SameHooks
<1>4. Running' \in SUBSET Running
  BY <1>1 DEF Running, Local, SameHooks
<1>5. Cardinality(Running') <= Concurrency
  <2>1. IsFiniteSet(Running)
    BY RunningIsFinite
  <2>2. /\ Cardinality(Running') <= Cardinality(Running) /\ IsFiniteSet(Running')
    BY <1>4, <2>1, FS_Subset
  <2>3. Cardinality(Running') \in Nat /\ Cardinality(Running) \in Nat /\ Concurrency \in Nat
    BY <2>1, <2>2, FS_CardinalityType, EpisodeLibraryAssumption
  <2>4. QED
    BY <2>2, <2>3 DEF QueueOK
<1>6. QED
  BY <1>2, <1>3, <1>5 DEF QueueOK, Local, HandlerOK

(* The steps a handler ends its calls with.                                  *)
LEMMA UnlinkedKeepsQueue ==
  ASSUME QueueOK, NEW k \in Running, run[k].pc \in Unlinking \cup {"check"}, Unlinked(k), UNCHANGED ready
  PROVE  QueueOK'
<1>1. k \in Jobs /\ job[k].state = "running" /\ HandlerOK(job[k], "running", run[k]) /\ Local(k)
  BY UnlinkedFacts DEF Running, QueueOK
<1>2. HandlerOK(job[k], job'[k].state, run'[k]) /\ job'[k].state # "queued"
  <2>1. CASE job[k].op = "delete" /\ run'[k] = Idle /\ job'[k].state = "done"
    BY <2>1 DEF HandlerOK, Idle, Linking, Unlinking
  <2>2. CASE job' = job /\ run'[k].pc = "prepare" /\ job[k].op = "import" /\ run'[k].todo = run[k].todo
    BY <1>1, <2>2 DEF HandlerOK, Linking, Unlinking
  <2>3. CASE /\ job[k].op = "import" /\ run[k].why = "upgrade" /\ job' = job /\ run'[k].pc = "stat"
             /\ run'[k].todo # <<>> /\ run'[k].why = "upgrade" /\ run'[k].victim = run[k].victim
    BY <1>1, <2>3 DEF HandlerOK, Linking, Unlinking, None
  <2>4. CASE job[k].op = "import" /\ job' = job /\ run'[k].pc = IF run'[k].todo = <<>> THEN "finish" ELSE "find"
    BY <1>1, <2>4 DEF HandlerOK, Linking, Unlinking
  <2>5. CASE job[k].op = "delete" /\ job' = job /\ run'[k].pc = "check" /\ run'[k].todo # <<>> /\ run'[k].why \in {None, "delete"}
    BY <1>1, <2>5 DEF HandlerOK, Linking, Unlinking
  <2>6. QED
    BY <1>1, <2>1, <2>2, <2>3, <2>4, <2>5, UnlinkedFacts
<1>3. QED
  BY <1>1, <1>2, LocalKeepsQueue

LEMMA GotoKeepsQueue ==
  ASSUME QueueOK, NEW k \in Running, NEW pc \in {"prepare", "probe", "create", "remove", "prune"}, Goto(k, pc), UNCHANGED ready,
         IF pc \in Linking THEN run[k].pc \in Linking ELSE run[k].pc \in Unlinking
  PROVE  QueueOK'
<1>1. k \in Jobs /\ job[k].state = "running" /\ HandlerOK(job[k], "running", run[k])
  BY DEF Running, QueueOK
<1>2. /\ Local(k) /\ job' = job /\ run'[k].pc = pc /\ run'[k].todo = run[k].todo
      /\ run'[k].why = run[k].why /\ run'[k].victim = run[k].victim
  BY <1>1, GotoFacts DEF Pcs, Linking, Unlinking
<1>3. HandlerOK(job[k], job'[k].state, run'[k])
  BY <1>1, <1>2 DEF HandlerOK, Linking, Unlinking
<1>4. QED
  BY <1>1, <1>2, <1>3, LocalKeepsQueue

LEMMA ReturnKeepsQueue ==
  ASSUME QueueOK, NEW k \in Running, NEW s \in {"done", "failed", "backoff"}, Return(k, s), UNCHANGED ready
  PROVE  QueueOK'
<1>1. k \in Jobs /\ Local(k) /\ run'[k] = Idle /\ job'[k].state = s
  BY ReturnFacts DEF Running, States
<1>2. HandlerOK(job[k], s, Idle)
  BY DEF HandlerOK, Idle, Linking, Unlinking
<1>3. QED
  BY <1>1, <1>2, LocalKeepsQueue

LEMMA NextLibraryKeepsQueue ==
  ASSUME QueueOK, NEW k \in Running, run[k].pc \in Linking \/ (run[k].pc \in Unlinking /\ run[k].why = "evict"),
         NEW failure \in {"no", "permanent", "transient"}, NextLibrary(k, failure), UNCHANGED ready
  PROVE  QueueOK'
<1>1. k \in Jobs /\ job[k].state = "running" /\ HandlerOK(job[k], "running", run[k])
  BY DEF Running, QueueOK
<1>2. run[k].todo # <<>> /\ job[k].op = "import"
  BY <1>1 DEF HandlerOK
<1>3. /\ Local(k) /\ job' = job /\ run'[k].todo = Tail(run[k].todo)
      /\ run'[k].pc = IF run'[k].todo = <<>> THEN "finish" ELSE "find"
  BY <1>1, <1>2, NextLibraryFacts
<1>4. HandlerOK(job[k], job'[k].state, run'[k])
  BY <1>1, <1>2, <1>3 DEF HandlerOK, Linking, Unlinking
<1>5. QED
  BY <1>1, <1>3, <1>4, LocalKeepsQueue

(* The libraries an upgrade clears are one or more.                          *)
LEMMA UpgradeTargetsTyped ==
  ASSUME NEW i \in Instances, NEW langs \in SUBSET Languages
  PROVE  UpgradeTargets(i, langs) \in Seq(Instances) /\ UpgradeTargets(i, langs) # <<>>
<1>1. <<i>> \in Seq(Instances) /\ <<i>> # <<>>
  BY SingleDistinct
<1>2. /\ Speaking(langs) \in Seq(Instances)
      /\ Elements(Speaking(langs)) = Instances \cap {j \in Instances : Language[j] \in langs}
  BY EpisodeLibraryAssumption, FilterElements DEF Speaking, Instances
<1>3. ASSUME Cardinality(langs) > 1 PROVE Speaking(langs) # <<>>
  <2>1. PICK l : l \in langs
    BY <1>3, FS_EmptySet
  <2>2. PICK j \in Instances : l = Language[j]
    BY <2>1 DEF Languages
  <2>3. j \in Elements(Speaking(langs))
    BY <1>2, <2>1, <2>2
  <2>4. QED
    BY <2>3 DEF Elements
<1>4. QED
  BY <1>1, <1>2, <1>3 DEF UpgradeTargets

(* What a file carries are configured languages.                             *)
LEMMA HeardTyped ==
  ASSUME StorageOK, NEW i \in Instances, NEW n, Present(i, n)
  PROVE  Heard(i, n) \in SUBSET Languages
BY DEF StorageOK, Present, Heard, Languages

(* Every handler's step keeps the queue.                                     *)
LEMMA HandlerKeepsQueue ==
  ASSUME EpisodeInv, NEW k \in Jobs, Handler(k)
  PROVE  QueueOK'
<1>0. /\ QueueOK /\ k \in Running /\ UNCHANGED ready /\ job[k].state = "running"
      /\ HandlerOK(job[k], "running", run[k]) /\ job[k] \in JobRecord /\ run[k] \in Handlers
  BY JobTyped DEF EpisodeInv, QueueOK, Handler, At, Detect, DetectFails, Stat, Remove, Prune, Find, Judge,
     Prepare, Probe, Create, Finish, Check, Clear, Running
<1>1. CASE Detect(k)
  <2> DEFINE i == job[k].at  n == job[k].name
  <2>0. job[k].op = "import" /\ i \in Instances
    BY <1>0, <1>1 DEF Detect, At, HandlerOK, JobRecord
  <2>1. CASE Present(i, n) /\ job[k].upgrade
    <3>1. Unlinks(k, Heard(i, n), UpgradeTargets(i, Heard(i, n))) /\ UNCHANGED job
      BY <1>1, <2>1 DEF Detect
    <3>2. Heard(i, n) \in SUBSET Languages
      BY <2>0, <2>1, HeardTyped DEF EpisodeInv
    <3>3. /\ Local(k) /\ run'[k].pc = "stat" /\ run'[k].why = "upgrade" /\ run'[k].victim = job[k].name
          /\ run'[k].todo # <<>>
      BY <1>0, <2>0, <3>1, <3>2, UpgradeTargetsTyped, UnlinksFacts
    <3>4. HandlerOK(job[k], "running", run'[k])
      BY <1>0, <2>0, <3>3 DEF HandlerOK, Linking, Unlinking, JobRecord
    <3>5. QED
      BY <1>0, <3>1, <3>3, <3>4, LocalKeepsQueue
  <2>2. CASE Present(i, n) /\ ~job[k].upgrade
    <3>1. Links(k, Heard(i, n)) /\ UNCHANGED job
      BY <1>1, <2>2 DEF Detect
    <3>2. Heard(i, n) \in SUBSET Languages
      BY <2>0, <2>2, HeardTyped DEF EpisodeInv
    <3>3. Local(k) /\ run'[k].pc = IF run'[k].todo = <<>> THEN "finish" ELSE "find"
      BY <1>0, <3>1, <3>2, LinksFacts
    <3>4. HandlerOK(job[k], "running", run'[k])
      BY <2>0, <3>3 DEF HandlerOK, Linking, Unlinking
    <3>5. QED
      BY <1>0, <3>1, <3>3, <3>4, LocalKeepsQueue
  <2>3. CASE ~Present(i, n)
    BY <1>0, <1>1, <2>3, ReturnKeepsQueue DEF Detect
  <2>4. QED
    BY <2>1, <2>2, <2>3
<1>2. CASE DetectFails(k)
  BY <1>0, <1>2, ReturnKeepsQueue DEF DetectFails
<1>3. CASE Stat(k)
  <2>1. run[k].pc = "stat" /\ (Unlinked(k) \/ Goto(k, "remove"))
    BY <1>3 DEF Stat, At
  <2>2. QED
    BY <1>0, <2>1, UnlinkedKeepsQueue, GotoKeepsQueue DEF Unlinking, Linking
<1>4. CASE Remove(k)
  <2>1. /\ run[k].pc = "remove"
        /\ Goto(k, "prune") \/ Return(k, "failed") \/ (run[k].why = "evict" /\ NextLibrary(k, "permanent"))
    BY <1>4 DEF Remove, At
  <2>2. QED
    BY <1>0, <2>1, NextLibraryKeepsQueue, GotoKeepsQueue, ReturnKeepsQueue DEF Unlinking, Linking
<1>5. CASE Prune(k)
  BY <1>0, <1>5, UnlinkedKeepsQueue DEF Prune, At, Unlinking
<1>6. CASE Find(k)
  <2>1. run[k].pc = "find" /\ job[k].op = "import"
    BY <1>0, <1>6 DEF Find, At, HandlerOK, Linking
  <2>2. CASE Goto(k, "prepare")
    BY <1>0, <2>1, <2>2, GotoKeepsQueue DEF Linking
  <2>3. CASE \E m \in Names : run' = [run EXCEPT ![k] = [@ EXCEPT !.pc = "judge", !.victim = m]] /\ UNCHANGED job
    <3>1. PICK m \in Names : run' = [run EXCEPT ![k] = [@ EXCEPT !.pc = "judge", !.victim = m]] /\ UNCHANGED job
      BY <2>3
    <3>3. Local(k) /\ run'[k].pc = "judge" /\ run'[k].victim = m /\ run'[k].todo = run[k].todo
      BY <1>0, <3>1, JudgingFacts
    <3>4. HandlerOK(job[k], "running", run'[k])
      BY <1>0, <2>1, <3>3 DEF HandlerOK, Linking, Unlinking
    <3>5. QED
      BY <1>0, <3>1, <3>3, <3>4, LocalKeepsQueue
  <2>4. Conflicts(Here(k), job[k].at, job[k].name, Episode[job[k].name]) \subseteq Names
    BY <1>0, <2>1 DEF Conflicts, JobRecord
  <2>5. QED
    BY <1>6, <2>2, <2>3, <2>4 DEF Find
<1>7. CASE Judge(k)
  <2>1. run[k].pc = "judge" /\ job[k].op = "import"
    BY <1>0, <1>7 DEF Judge, At, HandlerOK, Linking
  <2>2. CASE NextLibrary(k, "no")
    BY <1>0, <2>1, <2>2, NextLibraryKeepsQueue DEF Linking
  <2>3. CASE Goto(k, "prepare")
    BY <1>0, <2>1, <2>3, GotoKeepsQueue DEF Linking
  <2>4. CASE run' = [run EXCEPT ![k] = [@ EXCEPT !.pc = "stat", !.why = "evict"]] /\ UNCHANGED job
    <3>1. run[k].victim \in Names
      BY <1>0, <2>1 DEF HandlerOK
    <3>2. /\ Local(k) /\ run'[k].pc = "stat" /\ run'[k].why = "evict" /\ run'[k].victim = run[k].victim
          /\ run'[k].todo = run[k].todo
      BY <1>0, <2>4, EvictingFacts
    <3>3. HandlerOK(job[k], "running", run'[k])
      BY <1>0, <2>1, <3>1, <3>2 DEF HandlerOK, Linking, Unlinking
    <3>4. QED
      BY <1>0, <2>4, <3>2, <3>3, LocalKeepsQueue
  <2>5. QED
    BY <1>7, <2>2, <2>3, <2>4 DEF Judge
<1>8. CASE Prepare(k)
  <2>1. run[k].pc = "prepare" /\ (Goto(k, "probe") \/ NextLibrary(k, "permanent"))
    BY <1>8 DEF Prepare, At
  <2>2. QED
    BY <1>0, <2>1, NextLibraryKeepsQueue, GotoKeepsQueue DEF Linking
<1>9. CASE Probe(k)
  <2>1. run[k].pc = "probe" /\ (Goto(k, "create") \/ NextLibrary(k, "permanent") \/ NextLibrary(k, "no"))
    BY <1>9 DEF Probe, At
  <2>2. QED
    BY <1>0, <2>1, NextLibraryKeepsQueue, GotoKeepsQueue DEF Linking
<1>10. CASE Create(k)
  <2>1. run[k].pc = "create" /\ (NextLibrary(k, "transient") \/ NextLibrary(k, "permanent") \/ NextLibrary(k, "no"))
    BY <1>10 DEF Create, At
  <2>2. QED
    BY <1>0, <2>1, NextLibraryKeepsQueue DEF Linking
<1>11. CASE Finish(k)
  <2>1. Return(k, "done") \/ Return(k, "failed") \/ Return(k, "backoff")
    BY <1>11 DEF Finish
  <2>2. QED
    BY <1>0, <2>1, ReturnKeepsQueue
<1>12. CASE Check(k)
  <2>1. run[k].pc = "check" /\ job[k].op = "delete" /\ job[k].name \in Names
    BY <1>0, <1>12 DEF Check, At, HandlerOK, JobRecord
  <2>2. CASE Unlinked(k)
    BY <1>0, <2>1, <2>2, UnlinkedKeepsQueue
  <2>3. CASE /\ run' = [run EXCEPT ![k] = [@ EXCEPT !.pc = "stat", !.why = "delete", !.victim = job[k].name]]
             /\ UNCHANGED job
    <3>2. /\ Local(k) /\ run'[k].pc = "stat" /\ run'[k].why = "delete" /\ run'[k].victim = job[k].name
          /\ run'[k].todo = run[k].todo
      BY <1>0, <2>1, <2>3, DeletingFacts
    <3>3. HandlerOK(job[k], "running", run'[k])
      BY <1>0, <2>1, <3>2 DEF HandlerOK, Linking, Unlinking
    <3>4. QED
      BY <1>0, <2>3, <3>2, <3>3, LocalKeepsQueue
  <2>4. QED
    BY <1>12, <2>2, <2>3 DEF Check
<1>13. CASE Clear(k)
  <2>1. run[k].pc = "clear" /\ job[k].op = "seriesDelete"
    BY <1>0, <1>13 DEF Clear, At, HandlerOK
  <2>2. CASE UNCHANGED <<job, run>>
    BY <1>0, <2>2 DEF QueueOK, Jobs, Queued, Running, HandlerOK
  <2>3. CASE /\ UNCHANGED job
             /\ run' = [run EXCEPT ![k] = [@ EXCEPT !.todo = Tail(run[k].todo),
                           !.pc = IF Tail(run[k].todo) = <<>> THEN "finish" ELSE "clear"]]
    <3>1. run[k].todo # <<>>
      BY <1>0, <2>1 DEF HandlerOK
    <3>3. Local(k) /\ run'[k].pc = IF run'[k].todo = <<>> THEN "finish" ELSE "clear"
      BY <1>0, <2>3, <3>1, ClearedFacts
    <3>4. HandlerOK(job[k], "running", run'[k])
      BY <1>0, <2>1, <3>3 DEF HandlerOK, Linking, Unlinking
    <3>5. QED
      BY <1>0, <2>3, <3>3, <3>4, LocalKeepsQueue
  <2>4. QED
    BY <1>13, <2>2, <2>3 DEF Clear
<1>14. QED
  BY <1>1, <1>2, <1>3, <1>4, <1>5, <1>6, <1>7, <1>8, <1>9, <1>10, <1>11, <1>12, <1>13 DEF Handler

(* A handler at a library's call has the library.                            *)
LEMMA HereTyped ==
  ASSUME QueueOK, NEW k \in Running, run[k].pc \in Linking \cup Unlinking \cup {"check", "clear"}
  PROVE  /\ k \in Jobs /\ Here(k) \in Instances /\ run[k].todo \in Seq(Instances) /\ run[k].todo # <<>>
         /\ Elements(run[k].todo) = {Here(k)} \cup Elements(Tail(run[k].todo))
<1>1. k \in Jobs /\ run[k] \in Handlers /\ HandlerOK(job[k], job[k].state, run[k])
  BY JobTyped DEF Running, QueueOK
<1>2. run[k].todo \in Seq(Instances) /\ run[k].todo # <<>>
  BY <1>1 DEF HandlerOK, Handlers
<1>3. QED
  BY <1>1, <1>2, HeadElements DEF Here

LEMMA ImportTyped ==
  ASSUME QueueOK, NEW k \in Running
  PROVE  /\ k \in Jobs /\ job[k].at \in Instances /\ job[k].op \in Ops
         /\ job[k].op \in {"import", "delete"} => job[k].name \in Names
         /\ run[k].pc \in Linking \cup {"detect"} => job[k].op = "import"
         /\ run[k].pc \in Unlinking => job[k].op \in {"import", "delete"} /\ run[k].victim \in Names
<1>1. k \in Jobs /\ job[k] \in JobRecord /\ HandlerOK(job[k], job[k].state, run[k])
  BY JobTyped DEF Running, QueueOK
<1>2. QED
  BY <1>1 DEF HandlerOK, JobRecord, Linking, Unlinking

(* The handlers' file operations leave folders for all entries.              *)
LEMMA HandlerKeepsLibrary ==
  ASSUME EpisodeInv, NEW k \in Jobs, Handler(k)
  PROVE  LibraryOK' /\ StorageOK'
<1>0. /\ QueueOK /\ k \in Running /\ UNCHANGED stored /\ LibraryOK /\ StorageOK
  BY DEF EpisodeInv, Handler, At, Detect, DetectFails, Stat, Remove, Prune, Find, Judge,
     Prepare, Probe, Create, Finish, Check, Clear
<1>1. StorageOK'
  BY <1>0 DEF StorageOK
<1>2. CASE UNCHANGED <<entry, folder>>
  BY <1>0, <1>1, <1>2 DEF LibraryOK
<1>3. CASE Remove(k)
  <2>1. run[k].pc = "remove" /\ UNCHANGED folder
        /\ (UNCHANGED entry \/ entry' = [entry EXCEPT ![Here(k)][run[k].victim] = None])
    BY <1>3 DEF Remove, At
  <2>2. Here(k) \in Instances /\ run[k].victim \in Names
    BY <1>0, <2>1, HereTyped, ImportTyped DEF Unlinking
  <2>3. CASE UNCHANGED entry
    BY <1>0, <1>1, <2>1, <2>3 DEF LibraryOK
  <2>4. CASE entry' = [entry EXCEPT ![Here(k)][run[k].victim] = None]
    <3>1. PICK lib \in Instances, n \in Names : entry' = [entry EXCEPT ![lib][n] = None]
      BY <2>2, <2>4
    <3>2. entry' \in [Instances -> [Names -> Instances \cup {None}]]
      BY <1>0, <3>1 DEF LibraryOK
    <3>3. QED
      BY <1>0, <1>1, <2>1, <3>1, <3>2 DEF LibraryOK
  <2>5. QED
    BY <2>1, <2>3, <2>4
<1>4. CASE Prune(k)
  BY <1>0, <1>1, <1>4, HereTyped DEF LibraryOK, Prune, At, Unlinking
<1>5. CASE Prepare(k)
  BY <1>0, <1>1, <1>5, HereTyped DEF LibraryOK, Prepare, At, Linking
<1>6. CASE Probe(k)
  BY <1>0, <1>1, <1>6, HereTyped DEF LibraryOK, Probe, At, Linking
<1>7. CASE Create(k)
  <2>1. Here(k) \in Instances /\ job[k].at \in Instances /\ job[k].name \in Names /\ run[k].pc = "create"
    BY <1>0, <1>7, HereTyped, ImportTyped DEF Create, At, Linking
  <2>2. QED
    BY <1>0, <1>1, <1>7, <2>1 DEF LibraryOK, Create
<1>8. CASE Clear(k)
  <2>1. Here(k) \in Instances
    BY <1>0, <1>8, HereTyped DEF Clear, At
  <2>2. CASE UNCHANGED folder /\ \E n \in Names : entry' = [entry EXCEPT ![Here(k)][n] = None]
    BY <1>0, <1>1, <2>1, <2>2 DEF LibraryOK
  <2>3. CASE UNCHANGED entry /\ folder' = [folder EXCEPT ![Here(k)] = \E n \in Names : entry[Here(k)][n] # None]
    BY <1>0, <1>1, <2>1, <2>3 DEF LibraryOK
  <2>4. QED
    BY <1>8, <2>2, <2>3 DEF Clear
<1>9. QED
  BY <1>2, <1>3, <1>4, <1>5, <1>6, <1>7, <1>8
     DEF Handler, Detect, DetectFails, Stat, Find, Judge, Finish, Check, libraries

-----------------------------------------------------------------------------
(* A sequence behind another.                                                *)
LEMMA ConcatItems ==
  ASSUME NEW X, NEW s \in Seq(X), NEW t \in Seq(X)
  PROVE  /\ s \o t \in Seq(X) /\ Len(s \o t) = Len(s) + Len(t)
         /\ \A x \in 1 .. Len(s) + Len(t) : (s \o t)[x] = IF x <= Len(s) THEN s[x] ELSE t[x - Len(s)]
BY ConcatProperties, LenProperties

(* New webhooks are queued behind the others, which keep what they have.     *)
LEMMA EnqueueExtends ==
  ASSUME QueueOK, NEW hooks \in Seq(JobRecord), \A x \in 1 .. Len(hooks) : hooks[x].state = "queued",
         Enqueue(hooks)
  PROVE  /\ QueueOK' /\ Jobs \subseteq Jobs' /\ Running' = Running
         /\ \A k \in Jobs : job'[k] = job[k] /\ run'[k] = run[k]
         /\ \A k \in Jobs' \ Jobs : k - Len(job) \in 1 .. Len(hooks) /\ job'[k] = hooks[k - Len(job)] /\ run'[k] = Idle
         /\ \A x \in 1 .. Len(hooks) : Len(job) + x \in Jobs' /\ job'[Len(job) + x] = hooks[x]
<1> DEFINE new == 1 .. Len(hooks)
           idles == [x \in new |-> Idle]
           fresh == [x \in new |-> Len(job) + x]
<1>0. /\ job \in Seq(JobRecord) /\ run \in Seq(Handlers) /\ Len(run) = Len(job) /\ Jobs = 1 .. Len(job)
      /\ Len(job) \in Nat /\ Len(hooks) \in Nat /\ ready \in Seq(Nat)
  BY LenProperties DEF QueueOK, Jobs
<1>1. idles \in Seq(Handlers) /\ Len(idles) = Len(hooks) /\ \A x \in new : idles[x] = Idle
  <2>1. idles \in [1 .. Len(hooks) -> Handlers]
    BY IdleTyped
  <2>2. idles \in Seq(Handlers)
    BY <1>0, <2>1, SeqDef
  <2>3. QED
    BY <1>0, <2>1, <2>2, LenProperties
<1>2. /\ fresh \in Seq(Nat) /\ Distinct(fresh) /\ Elements(fresh) = {Len(job) + x : x \in new}
  <2>1. fresh \in [1 .. Len(hooks) -> Nat]
    BY <1>0
  <2>2. fresh \in Seq(Nat)
    BY <1>0, <2>1, SeqDef
  <2>3. Distinct(fresh)
    BY <1>0 DEF Distinct
  <2>4. QED
    BY <2>2, <2>3 DEF Elements
<1>3. job' = job \o hooks /\ run' = run \o idles /\ ready' = ready \o fresh
  BY DEF Enqueue
<1> HIDE DEF idles, fresh
<1>4. /\ job' \in Seq(JobRecord) /\ Jobs' = 1 .. Len(job) + Len(hooks) /\ Len(job') = Len(job) + Len(hooks)
      /\ \A x \in Jobs' : job'[x] = IF x <= Len(job) THEN job[x] ELSE hooks[x - Len(job)]
  BY <1>0, <1>3, ConcatProperties, LenProperties DEF Jobs
<1>5. /\ run' \in Seq(Handlers) /\ Len(run') = Len(job')
      /\ \A x \in Jobs' : run'[x] = IF x <= Len(job) THEN run[x] ELSE idles[x - Len(job)]
  <2>1. /\ run \o idles \in Seq(Handlers) /\ Len(run \o idles) = Len(run) + Len(idles)
        /\ \A x \in 1 .. Len(run) + Len(idles) : (run \o idles)[x] = IF x <= Len(run) THEN run[x] ELSE idles[x - Len(run)]
    <3>1. idles \in Seq(Handlers)
      BY <1>1
    <3>2. PICK t \in Seq(Handlers) : t = idles
      BY <3>1
    <3>3. /\ run \o t \in Seq(Handlers) /\ Len(run \o t) = Len(run) + Len(t)
          /\ \A x \in 1 .. Len(run) + Len(t) : (run \o t)[x] = IF x <= Len(run) THEN run[x] ELSE t[x - Len(run)]
      BY <1>0, ConcatItems
    <3>4. QED
      BY <3>2, <3>3
  <2>2. QED
    BY <1>0, <1>1, <1>3, <1>4, <2>1
<1>6. \A k \in Jobs : job'[k] = job[k] /\ run'[k] = run[k]
  BY <1>0, <1>4, <1>5
<1>7. ASSUME NEW k \in Jobs' \ Jobs
      PROVE  k - Len(job) \in 1 .. Len(hooks) /\ job'[k] = hooks[k - Len(job)] /\ run'[k] = Idle
  <2>1. k - Len(job) \in 1 .. Len(hooks) /\ ~(k <= Len(job))
    BY <1>0, <1>4
  <2>2. QED
    BY <1>1, <1>4, <1>5, <2>1
<1>8. ASSUME NEW x \in new
      PROVE  Len(job) + x \in Jobs' /\ job'[Len(job) + x] = hooks[x]
  <2>1. Len(job) + x \in Jobs' /\ ~(Len(job) + x <= Len(job)) /\ (Len(job) + x) - Len(job) = x
    BY <1>0, <1>4
  <2>2. QED
    BY <1>4, <2>1
<1>9. Jobs \subseteq Jobs' /\ Running' = Running
  <2>1. Jobs \subseteq Jobs'
    BY <1>0, <1>4
  <2>2. QED
    BY <1>6, <1>7, <2>1 DEF Running
<1>10. Queued' = Queued \cup {Len(job) + x : x \in new}
  <2>1. Jobs' = Jobs \cup {Len(job) + x : x \in new}
    <3>1. ASSUME NEW k \in Jobs' \ Jobs PROVE k \in {Len(job) + x : x \in new}
      <4>1. k = Len(job) + (k - Len(job)) /\ k - Len(job) \in new
        BY <1>0, <1>4, <1>7
      <4>2. QED
        BY <4>1
    <3>2. QED
      BY <1>8, <1>9, <3>1
  <2>2. \A x \in new : job'[Len(job) + x].state = "queued"
    BY <1>8
  <2>3. QED
    BY <1>6, <2>1, <2>2 DEF Queued
<1>11. ready' \in Seq(Nat) /\ Distinct(ready') /\ Elements(ready') = Queued'
  <2>1. Elements(ready) \cap Elements(fresh) = {}
    <3>1. \A x \in new : Len(job) + x \notin Jobs
      BY <1>0
    <3>2. QED
      BY <1>2, <3>1 DEF QueueOK, Queued
  <2>2. QED
    BY <1>0, <1>2, <1>3, <1>10, <2>1, ConcatDistinct DEF QueueOK
<1>12. \A k \in Jobs' : HandlerOK(job'[k], job'[k].state, run'[k])
  <2>1. \A k \in Jobs' \ Jobs : HandlerOK(job'[k], job'[k].state, run'[k])
    BY <1>7 DEF HandlerOK, Idle, Linking, Unlinking
  <2>2. QED
    BY <1>6, <2>1 DEF QueueOK
<1>13. QueueOK'
  BY <1>4, <1>5, <1>9, <1>11, <1>12 DEF QueueOK, HandlerOK
<1>14. QED
  BY <1>6, <1>7, <1>8, <1>9, <1>13

(* The files of i of one episode.                                            *)
Releases(i, e) == {m \in DOMAIN stored[i] : Episode[m] = e}

(* What Sonarr sends when it has downloaded n.                               *)
Hooks(i, n) ==
  LET old == Releases(i, Episode[n])
      upgrade == old # {}
      gone == IF UpgradeDeletes /\ upgrade
              THEN <<Webhook("delete", i, CHOOSE m \in old : TRUE, FALSE)>> ELSE <<>>
  IN  Append(gone, Webhook("import", i, n, upgrade))

(* They are well formed, and name the file an upgrade replaces.              *)
LEMMA HooksTyped ==
  ASSUME StorageOK, NEW i \in Instances, NEW n \in Names
  PROVE  /\ Hooks(i, n) \in Seq(JobRecord)
         /\ \A x \in 1 .. Len(Hooks(i, n)) : Hooks(i, n)[x].state = "queued"
         /\ UpgradeDeletes /\ Releases(i, Episode[n]) # {} =>
              \E x \in 1 .. Len(Hooks(i, n)) :
                /\ Hooks(i, n)[x].op = "delete" /\ Hooks(i, n)[x].at = i
                /\ Hooks(i, n)[x].name \in Releases(i, Episode[n])
<1> DEFINE old == Releases(i, Episode[n])
           upgrade == old # {}
           del == Webhook("delete", i, CHOOSE m \in old : TRUE, FALSE)
           imp == Webhook("import", i, n, upgrade)
           gone == IF UpgradeDeletes /\ upgrade THEN <<del>> ELSE <<>>
<1>1. imp \in JobRecord /\ imp.state = "queued"
  BY DEF Webhook, JobRecord, Ops, States
<1>2. upgrade => (CHOOSE m \in old : TRUE) \in old /\ old \subseteq Names
  BY DEF Releases, StorageOK
<1>3. upgrade => del \in JobRecord /\ del.state = "queued" /\ del.op = "delete" /\ del.at = i /\ del.name \in old
  BY <1>2 DEF Webhook, JobRecord, Ops, States
<1>4. Hooks(i, n) = Append(gone, imp)
  BY DEF Hooks
<1> HIDE DEF imp, del, old
<1>5. CASE UpgradeDeletes /\ upgrade
  <2>1. Hooks(i, n) = Append(<<del>>, imp)
    <3>1. gone = <<del>>
      BY <1>5
    <3> HIDE DEF gone
    <3>2. QED
      BY <1>4, <3>1
  <2>2. <<del>> \in Seq(JobRecord) /\ Len(<<del>>) = 1 /\ <<del>>[1] = del
    BY <1>3, <1>5
  <2>3. /\ Hooks(i, n) \in Seq(JobRecord) /\ Len(Hooks(i, n)) = 2
        /\ Hooks(i, n)[1] = del /\ Hooks(i, n)[2] = imp
    BY <1>1, <2>1, <2>2, AppendProperties, LenProperties
  <2>4. QED
    BY <1>1, <1>3, <1>5, <2>3 DEF old
<1>6. CASE ~(UpgradeDeletes /\ upgrade)
  <2>1. Hooks(i, n) = <<imp>>
    <3>1. gone = <<>>
      BY <1>6
    <3>2. Append(<<>>, imp) = <<imp>>
      OBVIOUS
    <3> HIDE DEF gone
    <3>3. QED
      BY <1>4, <3>1, <3>2
  <2>2. Len(<<imp>>) = 1 /\ <<imp>>[1] = imp /\ <<imp>> \in Seq(JobRecord)
    BY <1>1
  <2>3. QED
    BY <1>1, <1>6, <2>1, <2>2 DEF old
<1>7. QED
  BY <1>5, <1>6

(* What a download changes.                                                  *)
LEMMA DownloadFacts ==
  ASSUME EpisodeInv, NEW i \in Instances, NEW n \in Names, NEW a \in Audio[i][n], Download(i, n, a)
  PROVE  /\ Enqueue(Hooks(i, n)) /\ UNCHANGED <<entry, folder>>
         /\ DOMAIN stored' = Instances /\ \A j \in Instances \ {i} : stored'[j] = stored[j]
         /\ DOMAIN stored'[i] = (DOMAIN stored[i] \ Releases(i, Episode[n])) \cup {n}
         /\ stored'[i][n] = a /\ a \in SUBSET Languages
         /\ \A m \in DOMAIN stored[i] \ (Releases(i, Episode[n]) \cup {n}) : stored'[i][m] = stored[i][m]
<1> DEFINE old == Releases(i, Episode[n])
           files == [m \in (DOMAIN stored[i] \ old) \cup {n} |-> IF m = n THEN a ELSE stored[i][m]]
<1>1. Enqueue(Hooks(i, n)) /\ stored' = [stored EXCEPT ![i] = files] /\ UNCHANGED <<entry, folder>>
  BY DEF Download, Hooks, Releases, libraries
<1>2. a \in SUBSET Languages /\ DOMAIN stored = Instances
  BY EpisodeLibraryAssumption DEF EpisodeInv, StorageOK
<1>3. stored'[i] = files
  BY <1>1, <1>2
<1>4. QED
  BY <1>1, <1>2, <1>3

(* Sonarr's changes keep the types.                                          *)
LEMMA SonarrSteps ==
  ASSUME EpisodeInv,
         \/ \E i \in Instances, n \in Names : Delete(i, n) \/ \E a \in Audio[i][n] : Download(i, n, a)
         \/ \E i \in Instances : DeleteSeries(i, TRUE) \/ DeleteSeries(i, FALSE)
  PROVE  EpisodeInv'
<1>0. StorageOK /\ LibraryOK /\ QueueOK
  BY DEF EpisodeInv
<1>1. ASSUME NEW i \in Instances, NEW n \in Names, Delete(i, n)
      PROVE  StorageOK' /\ QueueOK'
  <2> DEFINE hook == Webhook("delete", i, n, FALSE)
  <2>1. hook \in JobRecord /\ hook.state = "queued"
    BY DEF Webhook, JobRecord, Ops, States
  <2>2. Enqueue(<<hook>>)
        /\ stored' = [stored EXCEPT ![i] = [m \in DOMAIN stored[i] \ {n} |-> stored[i][m]]]
    BY <1>1 DEF Delete
  <2>3. StorageOK'
    BY <1>0, <2>2 DEF StorageOK
  <2> HIDE DEF hook
  <2>4. <<hook>> \in Seq(JobRecord) /\ \A x \in 1 .. Len(<<hook>>) : <<hook>>[x].state = "queued"
    BY <2>1
  <2>5. QED
    BY <1>0, <2>2, <2>3, <2>4, EnqueueExtends
<1>2. ASSUME NEW i \in Instances, NEW n \in Names, NEW a \in Audio[i][n], Download(i, n, a)
      PROVE  StorageOK' /\ QueueOK'
  <2>1. QueueOK'
    BY <1>0, <1>2, DownloadFacts, HooksTyped, EnqueueExtends
  <2>2. StorageOK'
    BY <1>0, <1>2, DownloadFacts DEF StorageOK, Releases
  <2>3. QED
    BY <2>1, <2>2
<1>3. ASSUME NEW i \in Instances, NEW files \in BOOLEAN, DeleteSeries(i, files)
      PROVE  StorageOK' /\ QueueOK'
  <2> DEFINE hook == Webhook(IF files THEN "seriesDelete" ELSE "recordDelete", i, None, FALSE)
  <2>1. hook \in JobRecord /\ hook.state = "queued"
    BY DEF Webhook, JobRecord, Ops, States
  <2>2. Enqueue(<<hook>>) /\ stored' = IF files THEN [stored EXCEPT ![i] = << >>] ELSE stored
    BY <1>3 DEF DeleteSeries
  <2>3. StorageOK'
    BY <1>0, <2>2 DEF StorageOK
  <2> HIDE DEF hook
  <2>4. <<hook>> \in Seq(JobRecord) /\ \A x \in 1 .. Len(<<hook>>) : <<hook>>[x].state = "queued"
    BY <2>1
  <2>5. QED
    BY <1>0, <2>2, <2>3, <2>4, EnqueueExtends
<1>4. UNCHANGED <<entry, folder>>
  BY DEF Download, Delete, DeleteSeries, libraries
<1>5. LibraryOK'
  BY <1>0, <1>4 DEF LibraryOK
<1>6. QED
  BY <1>1, <1>2, <1>3, <1>5 DEF EpisodeInv

(* A job has changed, and with it the queue.                                 *)
LEMMA QueueKept ==
  ASSUME QueueOK, NEW k \in Jobs, Local(k), HandlerOK(job[k], job'[k].state, run'[k]),
         ready' \in Seq(Nat), Distinct(ready'), Elements(ready') = Queued', Cardinality(Running') <= Concurrency
  PROVE  QueueOK'
<1>1. ASSUME NEW x \in Jobs' PROVE HandlerOK(job'[x], job'[x].state, run'[x])
  <2>1. CASE x = k
    BY <2>1 DEF Local, SameHooks, HandlerOK
  <2>2. CASE x # k
    BY <2>2 DEF Local, SameHooks, QueueOK
  <2>3. QED
    BY <2>1, <2>2
<1>2. QED
  BY <1>1 DEF QueueOK, Local, HandlerOK

(* The handler a claim starts.                                               *)
LEMMA ClaimFacts ==
  ASSUME QueueOK, NEW k \in Jobs, Claim(k)
  PROVE  /\ Local(k) /\ job[k].state = "queued" /\ job'[k].state = "running"
         /\ run'[k].pc = CASE job[k].op = "import" -> "detect" [] job[k].op = "delete" -> "check"
                           [] job[k].op = "seriesDelete" -> "clear" [] OTHER -> "finish"
         /\ run'[k].todo = IF job[k].op \in {"import", "recordDelete"} THEN <<>>
                           ELSE IF IsPrimary(job[k].at) THEN Config ELSE <<job[k].at>>
         /\ run'[k].todo \in Seq(Instances) /\ (job[k].op \in {"delete", "seriesDelete"} => run'[k].todo # <<>>)
         /\ run'[k].why = None /\ run'[k].failed = "no"
<1> DEFINE pc == CASE job[k].op = "import" -> "detect" [] job[k].op = "delete" -> "check"
                   [] job[k].op = "seriesDelete" -> "clear" [] OTHER -> "finish"
           todo == IF job[k].op \in {"import", "recordDelete"} THEN <<>>
                   ELSE IF IsPrimary(job[k].at) THEN Config ELSE <<job[k].at>>
<1>1. job[k] \in JobRecord /\ job[k].at \in Instances /\ job[k].op \in Ops
  BY JobTyped DEF JobRecord
<1>2. pc \in Pcs
  BY DEF Pcs
<1>3. todo \in Seq(Instances) /\ (job[k].op \in {"delete", "seriesDelete"} => todo # <<>>)
  <2>1. Config \in Seq(Instances) /\ Config # <<>>
    BY <1>1, EpisodeLibraryAssumption DEF Instances, Elements
  <2>2. <<job[k].at>> \in Seq(Instances) /\ <<job[k].at>> # <<>> /\ <<>> \in Seq(Instances)
    BY <1>1, SingleDistinct, EmptySeq
  <2>3. QED
    BY <1>1, <2>1, <2>2
<1>4. PICK r : r = [Idle EXCEPT !.pc = pc, !.todo = todo]
  OBVIOUS
<1>5. run' = [run EXCEPT ![k] = r] /\ SetState(k, "running")
  BY <1>4 DEF Claim
<1> HIDE DEF pc, todo
<1>6. r \in Handlers /\ r.pc = pc /\ r.todo = todo /\ r.why = None /\ r.failed = "no"
  BY <1>2, <1>3, <1>4 DEF Idle, Handlers
<1>7. Local(k) /\ run'[k] = r /\ job'[k].state = "running"
  BY <1>5, <1>6, RunSet, StateSet DEF States
<1>8. job[k].state = "queued"
  <2>1. Head(ready) \in Elements(ready) /\ k = Head(ready)
    BY TailDistinct DEF Claim, QueueOK
  <2>2. QED
    BY <2>1 DEF QueueOK, Queued
<1>9. QED
  BY <1>3, <1>6, <1>7, <1>8 DEF pc, todo

(* A claim takes the first of the queue, while there is a free worker.       *)
LEMMA ClaimKeepsQueue ==
  ASSUME QueueOK, NEW k \in Jobs, Claim(k)
  PROVE  QueueOK' /\ Running' = Running \cup {k}
<1>1. /\ Local(k) /\ job[k].state = "queued" /\ job'[k].state = "running"
  BY ClaimFacts
<1>2. /\ ready # <<>> /\ k = Head(ready) /\ ready' = Tail(ready) /\ Cardinality(Running) < Concurrency
  BY DEF Claim
<1>3. HandlerOK(job[k], "running", run'[k])
  <2>1. job[k].op \in Ops
    BY JobTyped DEF JobRecord
  <2>2. /\ run'[k].pc = CASE job[k].op = "import" -> "detect" [] job[k].op = "delete" -> "check"
                          [] job[k].op = "seriesDelete" -> "clear" [] OTHER -> "finish"
        /\ job[k].op \in {"delete", "seriesDelete"} => run'[k].todo # <<>>
        /\ run'[k].why = None
    BY ClaimFacts
  <2>3. QED
    BY <2>1, <2>2 DEF HandlerOK, Linking, Unlinking, Ops
<1>4. ready' \in Seq(Nat) /\ Distinct(ready') /\ Elements(ready') = Queued'
  <2>1. Tail(ready) \in Seq(Nat) /\ Distinct(Tail(ready)) /\ Elements(Tail(ready)) = Elements(ready) \ {k}
    BY <1>2, TailDistinct DEF QueueOK
  <2>2. Queued' = Queued \ {k}
    BY <1>1 DEF Queued, Local, SameHooks
  <2>3. QED
    BY <1>2, <2>1, <2>2 DEF QueueOK
<1>5. Running' = Running \cup {k} /\ k \notin Running
  BY <1>1 DEF Running, Local, SameHooks
<1>6. Cardinality(Running') <= Concurrency
  <2>1. IsFiniteSet(Running)
    BY RunningIsFinite
  <2>2. Cardinality(Running') = Cardinality(Running) + 1
    BY <1>5, <2>1, FS_AddElement
  <2>3. Cardinality(Running) \in Nat /\ Concurrency \in Nat
    BY <2>1, FS_CardinalityType, EpisodeLibraryAssumption
  <2>4. QED
    BY <1>2, <2>2, <2>3
<1>7. QED
  BY <1>1, <1>3, <1>4, <1>5, <1>6, QueueKept

(* A job that waits for its retry, or for its lease, is due again.           *)
LEMMA RequeueFacts ==
  ASSUME QueueOK, NEW k \in Jobs, BackoffOver(k) \/ Sweep(k)
  PROVE  /\ Local(k) /\ job[k].state \in {"backoff", "orphaned"} /\ job'[k].state = "queued"
         /\ run' = run /\ Running' = Running /\ k \notin Running /\ QueueOK'
<1>1. job[k].state \in {"backoff", "orphaned"} /\ SetState(k, "queued") /\ run' = run
  BY DEF BackoffOver, Sweep
<1>2. Local(k) /\ job'[k].state = "queued"
  BY <1>1, StateSet DEF Local, QueueOK, States
<1>3. Running' = Running /\ k \notin Running
  BY <1>1, <1>2 DEF Running, Local, SameHooks
<1>4. Queued' = Queued \cup {k} /\ k \notin Queued
  BY <1>1, <1>2 DEF Queued, Local, SameHooks
<1>5. ready' \in Seq(Nat) /\ Distinct(ready') /\ Elements(ready') = Queued'
  <2>1. k \in Nat /\ ready \in Seq(Nat) /\ Distinct(ready) /\ Elements(ready) = Queued
    BY JobTyped DEF QueueOK
  <2>2. \E s \in Seq(Nat) : s = Append(ready, k) /\ Distinct(s) /\ Elements(s) = Elements(ready) \cup {k}
    <3>1. k \notin Elements(ready)
      BY <1>4, <2>1
    <3>2. QED
      BY <2>1, <3>1, OneMoreBehind
  <2>3. \E s \in Seq(Nat) : s = <<k>> \o ready /\ Distinct(s) /\ Elements(s) = Elements(ready) \cup {k}
    <3>1. k \notin Elements(ready)
      BY <1>4, <2>1
    <3>2. QED
      BY <2>1, <3>1, OneMoreBefore
  <2>4. CASE BackoffOver(k)
    <3>1. ready' = Append(ready, k)
      BY <2>4 DEF BackoffOver
    <3>2. QED
      BY <1>4, <2>1, <2>2, <3>1
  <2>5. CASE Sweep(k)
    <3>1. ready' = <<k>> \o ready
      BY <2>5 DEF Sweep
    <3>2. QED
      BY <1>4, <2>1, <2>3, <3>1
  <2>6. QED
    BY <2>4, <2>5
<1>6. HandlerOK(job[k], job'[k].state, run'[k])
  BY <1>1, <1>2 DEF QueueOK, HandlerOK
<1>7. QED
  BY <1>1, <1>2, <1>3, <1>5, <1>6, QueueKept DEF QueueOK

(* The process dies: what ran is orphaned, and begins anew.                  *)
LEMMA CrashFacts ==
  ASSUME QueueOK, Crash
  PROVE  /\ QueueOK' /\ SameHooks /\ Running' = {}
         /\ \A k \in Jobs : job'[k].state = IF k \in Running THEN "orphaned" ELSE job[k].state
<1>1. /\ job' = [k \in Jobs |-> IF k \in Running THEN [job[k] EXCEPT !.state = "orphaned"] ELSE job[k]]
      /\ run' = [k \in Jobs |-> Idle] /\ ready' = ready
  BY DEF Crash
<1>2. Jobs = 1 .. Len(job) /\ Len(job) \in Nat /\ \A k \in Jobs : job[k] \in JobRecord
  BY LenProperties, ElementOfSeq DEF QueueOK, Jobs
<1>3. ASSUME NEW k \in Jobs
      PROVE  /\ job'[k] \in JobRecord /\ job'[k].state = IF k \in Running THEN "orphaned" ELSE job[k].state
             /\ job'[k].op = job[k].op /\ job'[k].at = job[k].at
             /\ job'[k].name = job[k].name /\ job'[k].upgrade = job[k].upgrade
             /\ run'[k] = Idle
  BY <1>1, <1>2 DEF JobRecord, States
<1>4. job' \in [1 .. Len(job) -> JobRecord] /\ run' \in [1 .. Len(job) -> Handlers]
  <2>1. DOMAIN job' = 1 .. Len(job) /\ DOMAIN run' = 1 .. Len(job)
    BY <1>1, <1>2
  <2>2. job' = [k \in 1 .. Len(job) |-> job'[k]] /\ run' = [k \in 1 .. Len(job) |-> run'[k]]
    BY <1>1, <1>2
  <2>3. QED
    BY <1>2, <1>3, <2>1, <2>2, IdleTyped
<1>5. job' \in Seq(JobRecord) /\ run' \in Seq(Handlers) /\ Len(job') = Len(job) /\ Len(run') = Len(job)
      /\ Jobs' = Jobs
  <2>1. job' \in Seq(JobRecord) /\ run' \in Seq(Handlers)
    BY <1>2, <1>4, SeqDef
  <2>2. DOMAIN job' = 1 .. Len(job') /\ DOMAIN run' = 1 .. Len(run') /\ Len(job') \in Nat /\ Len(run') \in Nat
    BY <2>1, LenProperties
  <2>3. QED
    BY <1>2, <1>4, <2>1, <2>2 DEF Jobs
<1>6. Running' = {} /\ Queued' = Queued
  BY <1>3, <1>5 DEF Running, Queued
<1>7. \A k \in Jobs' : HandlerOK(job'[k], job'[k].state, run'[k])
  <2>1. ASSUME NEW k \in Jobs PROVE HandlerOK(job'[k], job'[k].state, Idle)
    <3>1. job'[k].state # "running"
      BY <1>3 DEF Running
    <3>2. QED
      BY <3>1 DEF HandlerOK, Idle, Linking, Unlinking
  <2>2. QED
    BY <1>3, <1>5, <2>1
<1>8. Cardinality(Running') <= Concurrency
  BY <1>6, FS_EmptySet, EpisodeLibraryAssumption
<1>9. QueueOK'
  BY <1>1, <1>5, <1>6, <1>7, <1>8 DEF QueueOK, HandlerOK
<1>10. QED
  BY <1>3, <1>5, <1>6, <1>9 DEF SameHooks

-----------------------------------------------------------------------------
(* The types hold at first, and stay.                                        *)
LEMMA EpisodeInit == Init => EpisodeInv
<1> SUFFICES ASSUME Init PROVE EpisodeInv
  OBVIOUS
<1>1. StorageOK /\ LibraryOK
  BY DEF Init, StorageOK, LibraryOK
<1>2. Jobs = {} /\ Running = {} /\ Queued = {}
  BY DEF Init, Jobs, Running, Queued
<1>3. <<>> \in Seq(Nat) /\ <<>> \in Seq(JobRecord) /\ <<>> \in Seq(Handlers) /\ Distinct(<<>>) /\ Elements(<<>>) = {}
  BY EmptySeq DEF Distinct, Elements
<1>4. QueueOK
  BY <1>2, <1>3, FS_EmptySet, EpisodeLibraryAssumption DEF Init, QueueOK
<1>5. QED
  BY <1>1, <1>4 DEF EpisodeInv

LEMMA EpisodeStep == EpisodeInv /\ [Next]_vars => EpisodeInv'
<1> SUFFICES ASSUME EpisodeInv, [Next]_vars PROVE EpisodeInv'
  OBVIOUS
<1>1. CASE UNCHANGED vars
  BY <1>1 DEF vars, libraries, EpisodeInv, StorageOK, LibraryOK, QueueOK, HandlerOK, Jobs, Running, Queued
<1>2. ASSUME NEW k \in Jobs, Claim(k) \/ BackoffOver(k) \/ Sweep(k) PROVE EpisodeInv'
  <2>1. QueueOK'
    BY <1>2, ClaimKeepsQueue, RequeueFacts DEF EpisodeInv
  <2>2. UNCHANGED <<stored, entry, folder>>
    BY <1>2 DEF Claim, BackoffOver, Sweep, libraries
  <2>3. QED
    BY <2>1, <2>2 DEF EpisodeInv, StorageOK, LibraryOK
<1>3. CASE Crash
  <2>1. UNCHANGED <<stored, entry, folder>>
    BY <1>3 DEF Crash, libraries
  <2>2. QED
    BY <1>3, <2>1, CrashFacts DEF EpisodeInv, StorageOK, LibraryOK
<1>4. ASSUME NEW k \in Jobs, Handler(k) PROVE EpisodeInv'
  BY <1>4, HandlerKeepsQueue, HandlerKeepsLibrary DEF EpisodeInv
<1>5. QED
  BY <1>1, <1>2, <1>3, <1>4, SonarrSteps DEF Next

(* With any number of workers, links and folders, jobs and their handlers    *)
(* keep their types: a folder that has entries exists whatever prunes run    *)
(* beside the imports (link/mod.rs), and never more handlers run than        *)
(* queue_concurrency.                                                        *)
THEOREM EpisodeTypeCorrect == Spec => []TypeOK
<1>1. EpisodeInv => TypeOK
  <2> SUFFICES ASSUME EpisodeInv PROVE TypeOK
    OBVIOUS
  <2>1. DOMAIN run = Jobs
    BY LenProperties DEF EpisodeInv, QueueOK, Jobs
  <2>2. QED
    BY <2>1 DEF EpisodeInv, TypeOK, StorageOK, LibraryOK, QueueOK, Queued
<1>2. QED
  BY <1>1, EpisodeInit, EpisodeStep, PTL DEF Spec

-----------------------------------------------------------------------------
(* What each call of a handler does, field by field.                         *)

(* It goes on to another call.                                               *)
Goes(k, pc) ==
  /\ job' = job /\ run'[k].pc = pc /\ run'[k].todo = run[k].todo /\ run'[k].why = run[k].why
  /\ run'[k].victim = run[k].victim /\ run'[k].langs = run[k].langs /\ run'[k].failed = run[k].failed

(* It goes on to the next library.                                           *)
Moves(k, failure) ==
  /\ job' = job /\ run'[k].todo = Tail(run[k].todo)
  /\ run'[k].pc = IF run'[k].todo = <<>> THEN "finish" ELSE "find"
  /\ failure = "no" => run'[k].failed = run[k].failed
  /\ run'[k].failed = "permanent" => run[k].failed = "permanent" \/ failure = "permanent"

(* It begins to link.                                                        *)
Begins(k, langs) ==
  /\ job' = job /\ run'[k].todo = LinkTargets(job[k].at, langs)
  /\ run'[k].pc = IF run'[k].todo = <<>> THEN "finish" ELSE "find"
  /\ run'[k].failed = run[k].failed

(* It returns, and its job's state is s.                                     *)
Ends(k, s) == run'[k] = Idle /\ job'[k].state = s

(* It leaves an unlink.                                                      *)
Leaves(k) ==
  \/ /\ job[k].op = "import" /\ run[k].why = "evict" /\ job' = job
     /\ run'[k].pc = "prepare" /\ run'[k].todo = run[k].todo /\ run'[k].failed = run[k].failed
  \/ /\ job[k].op = "import" /\ run[k].why = "upgrade" /\ job' = job /\ run'[k].pc = "stat"
     /\ run'[k].todo = Tail(run[k].todo) /\ run'[k].todo # <<>>
     /\ run'[k].why = "upgrade" /\ run'[k].victim = run[k].victim
     /\ run'[k].langs = run[k].langs /\ run'[k].failed = run[k].failed
  \/ job[k].op = "import" /\ run[k].why = "upgrade" /\ Begins(k, run[k].langs)
  \/ job[k].op = "delete" /\ Tail(run[k].todo) = <<>> /\ Ends(k, "done")
  \/ /\ job[k].op = "delete" /\ job' = job /\ run'[k].pc = "check"
     /\ run'[k].todo = Tail(run[k].todo) /\ run'[k].todo # <<>>

(* The libraries are as they were.                                           *)
Same == entry' = entry /\ folder' = folder

(* The steps a handler ends its calls with are these.                        *)
LEMMA GoesOn ==
  ASSUME QueueOK, NEW k \in Jobs, NEW pc \in Pcs, Goto(k, pc)
  PROVE  Local(k) /\ Goes(k, pc)
BY GotoFacts DEF Goes

LEMMA MovesOn ==
  ASSUME QueueOK, NEW k \in Jobs, run[k].todo # <<>>,
         NEW failure \in {"no", "permanent", "transient"}, NextLibrary(k, failure)
  PROVE  Local(k) /\ Moves(k, failure)
BY NextLibraryFacts DEF Moves

LEMMA BeginsOn ==
  ASSUME QueueOK, NEW k \in Jobs, NEW langs \in SUBSET Languages, Links(k, langs), UNCHANGED job
  PROVE  Local(k) /\ Begins(k, langs)
BY LinksFacts DEF Begins

LEMMA LeavesOn ==
  ASSUME QueueOK, NEW k \in Jobs, run[k].pc \in Unlinking \cup {"check"}, Unlinked(k)
  PROVE  Local(k) /\ Leaves(k)
BY UnlinkedFacts DEF Leaves, Begins, Ends

LEMMA EndsOn ==
  ASSUME QueueOK, NEW k \in Jobs, NEW s \in States, Return(k, s)
  PROVE  Local(k) /\ Ends(k, s)
BY ReturnFacts DEF Ends

(* Where a handler is.                                                       *)
LEMMA HandlerTyped ==
  ASSUME EpisodeInv, NEW k \in Running
  PROVE  /\ QueueOK /\ k \in Jobs /\ job[k].state = "running" /\ job[k].at \in Instances
         /\ HandlerOK(job[k], "running", run[k]) /\ run[k].langs \in SUBSET Languages
         /\ job[k].op \in Ops /\ (job[k].op \in {"import", "delete"} => job[k].name \in Names)
         /\ run[k].todo \in Seq(Instances)
         /\ run[k].pc \in Linking \cup Unlinking \cup {"check", "clear"} =>
              /\ run[k].todo # <<>> /\ Here(k) \in Instances
              /\ Elements(run[k].todo) = {Here(k)} \cup Elements(Tail(run[k].todo))
<1>1. QueueOK /\ k \in Jobs /\ run[k] \in Handlers /\ job[k] \in JobRecord /\ job[k].state = "running"
      /\ HandlerOK(job[k], "running", run[k])
  BY JobTyped DEF EpisodeInv, Running, QueueOK
<1>2. run[k].pc \in Linking \cup Unlinking \cup {"check", "clear"} =>
              /\ run[k].todo # <<>> /\ Here(k) \in Instances
              /\ Elements(run[k].todo) = {Here(k)} \cup Elements(Tail(run[k].todo))
  BY <1>1, HereTyped
<1>3. QED
  BY <1>1, <1>2 DEF JobRecord, Handlers

(* And so each call does the following.                                      *)
LEMMA DetectEffect ==
  ASSUME EpisodeInv, NEW k \in Jobs, Detect(k) \/ DetectFails(k)
  PROVE  /\ k \in Running /\ run[k].pc = "detect" /\ job[k].op = "import" /\ Local(k) /\ Same
         /\ \/ Ends(k, "failed") /\ (~Present(job[k].at, job[k].name) \/ outages' = outages + 1)
            \/ /\ Present(job[k].at, job[k].name) /\ Heard(job[k].at, job[k].name) \in SUBSET Languages
               /\ \/ Begins(k, Heard(job[k].at, job[k].name))
                  \/ /\ job[k].upgrade /\ job' = job /\ run'[k].pc = "stat" /\ run'[k].why = "upgrade"
                     /\ run'[k].victim = job[k].name /\ run'[k].langs = Heard(job[k].at, job[k].name)
                     /\ run'[k].todo = UpgradeTargets(job[k].at, Heard(job[k].at, job[k].name))
                     /\ run'[k].failed = run[k].failed
<1>1. k \in Running /\ run[k].pc = "detect" /\ Same
  BY DEF Detect, DetectFails, At, Same, libraries
<1>2. QueueOK /\ job[k].op = "import" /\ job[k].at \in Instances
  BY <1>1, HandlerTyped DEF HandlerOK
<1>3. CASE DetectFails(k)
  BY <1>1, <1>2, <1>3, EndsOn DEF DetectFails, States
<1>4. CASE Detect(k) /\ ~Present(job[k].at, job[k].name)
  BY <1>1, <1>2, <1>4, EndsOn DEF Detect, States
<1>5. CASE Detect(k) /\ Present(job[k].at, job[k].name)
  <2>1. Heard(job[k].at, job[k].name) \in SUBSET Languages
    BY <1>2, <1>5, HeardTyped DEF EpisodeInv
  <2>2. PICK langs \in SUBSET Languages : langs = Heard(job[k].at, job[k].name)
    BY <2>1
  <2>3. /\ UNCHANGED job
        /\ (job[k].upgrade /\ Unlinks(k, langs, UpgradeTargets(job[k].at, langs))) \/ Links(k, langs)
    BY <1>5, <2>2 DEF Detect
  <2>4. UpgradeTargets(job[k].at, langs) \in Seq(Instances)
    BY <1>2, UpgradeTargetsTyped
  <2>5. CASE Links(k, langs)
    BY <1>1, <1>2, <1>5, <2>2, <2>3, <2>5, BeginsOn
  <2>6. CASE job[k].upgrade /\ Unlinks(k, langs, UpgradeTargets(job[k].at, langs))
    <3>1. /\ Local(k) /\ run'[k].pc = "stat" /\ run'[k].why = "upgrade" /\ run'[k].victim = job[k].name
          /\ run'[k].todo = UpgradeTargets(job[k].at, langs) /\ run'[k].langs = langs
          /\ run'[k].failed = run[k].failed
      BY <1>2, <2>3, <2>4, <2>6, UnlinksFacts
    <3>2. QED
      BY <1>1, <1>2, <1>5, <2>2, <2>3, <2>6, <3>1
  <2>7. QED
    BY <2>3, <2>5, <2>6
<1>6. QED
  BY <1>3, <1>4, <1>5

LEMMA StatEffect ==
  ASSUME EpisodeInv, NEW k \in Jobs, Stat(k)
  PROVE  /\ k \in Running /\ run[k].pc = "stat" /\ Local(k) /\ Same
         /\ \/ entry[Here(k)][run[k].victim] = None /\ Leaves(k)
            \/ entry[Here(k)][run[k].victim] # None /\ Goes(k, "remove")
<1>1. k \in Running /\ run[k].pc = "stat" /\ Same
  BY DEF Stat, At, Same, libraries
<1>2. QED
  BY <1>1, HandlerTyped, LeavesOn, GoesOn DEF Stat, Unlinking, Pcs

LEMMA RemoveEffect ==
  ASSUME EpisodeInv, NEW k \in Jobs, Remove(k)
  PROVE  /\ k \in Running /\ run[k].pc = "remove" /\ Local(k) /\ folder' = folder
         /\ \/ /\ entry[Here(k)][run[k].victim] = None /\ entry' = entry
               /\ (run[k].why = "evict" /\ Moves(k, "permanent")) \/ Ends(k, "failed")
            \/ /\ entry[Here(k)][run[k].victim] # None /\ Goes(k, "prune")
               /\ entry' = [entry EXCEPT ![Here(k)][run[k].victim] = None]
<1>1. k \in Running /\ run[k].pc = "remove" /\ folder' = folder
  BY DEF Remove, At
<1>2. QueueOK /\ run[k].todo # <<>>
  BY <1>1, HandlerTyped DEF Unlinking
<1>3. CASE entry[Here(k)][run[k].victim] = None
  <2>1. entry' = entry /\ IF run[k].why = "evict" THEN NextLibrary(k, "permanent") ELSE Return(k, "failed")
    BY <1>3 DEF Remove
  <2>2. QED
    BY <1>1, <1>2, <1>3, <2>1, MovesOn, EndsOn DEF States
<1>4. CASE entry[Here(k)][run[k].victim] # None
  <2>1. Goto(k, "prune") /\ entry' = [entry EXCEPT ![Here(k)][run[k].victim] = None]
    BY <1>4 DEF Remove
  <2>2. Local(k) /\ Goes(k, "prune")
    BY <1>2, <2>1, GoesOn DEF Pcs, Unlinking
  <2>3. QED
    BY <1>1, <1>4, <2>1, <2>2
<1>5. QED
  BY <1>3, <1>4

LEMMA PruneEffect ==
  ASSUME EpisodeInv, NEW k \in Jobs, Prune(k)
  PROVE  /\ k \in Running /\ run[k].pc = "prune" /\ Local(k) /\ entry' = entry /\ Leaves(k)
<1>1. k \in Running /\ run[k].pc = "prune" /\ entry' = entry /\ Unlinked(k)
  BY DEF Prune, At
<1>2. QED
  BY <1>1, HandlerTyped, LeavesOn DEF Unlinking

LEMMA FindEffect ==
  ASSUME EpisodeInv, NEW k \in Jobs, Find(k)
  PROVE  /\ k \in Running /\ run[k].pc = "find" /\ job[k].op = "import" /\ Local(k) /\ Same
         /\ \/ /\ Conflicts(Here(k), job[k].at, job[k].name, Episode[job[k].name]) = {}
               /\ Goes(k, "prepare")
            \/ /\ run'[k].victim \in Conflicts(Here(k), job[k].at, job[k].name, Episode[job[k].name])
               /\ job' = job /\ run'[k].pc = "judge"
               /\ run'[k].todo = run[k].todo /\ run'[k].failed = run[k].failed
<1> DEFINE found == Conflicts(Here(k), job[k].at, job[k].name, Episode[job[k].name])
<1>1. k \in Running /\ run[k].pc = "find" /\ Same
  BY DEF Find, At, Same, libraries
<1>2. QueueOK /\ job[k].op = "import" /\ job[k].name \in Names
  BY <1>1, HandlerTyped DEF Linking, HandlerOK
<1>3. found \subseteq Names
  BY <1>2 DEF Conflicts
<1>4. \/ found = {} /\ Goto(k, "prepare")
      \/ \E m \in found : run' = [run EXCEPT ![k] = [@ EXCEPT !.pc = "judge", !.victim = m]] /\ UNCHANGED job
  BY DEF Find
<1> HIDE DEF found
<1>5. CASE found = {} /\ Goto(k, "prepare")
  <2>1. Local(k) /\ Goes(k, "prepare")
    BY <1>2, <1>5, GoesOn DEF Pcs, Linking
  <2>2. QED
    BY <1>1, <1>2, <1>5, <2>1 DEF found
<1>6. CASE \E m \in found : run' = [run EXCEPT ![k] = [@ EXCEPT !.pc = "judge", !.victim = m]] /\ UNCHANGED job
  <2>1. PICK m \in found : run' = [run EXCEPT ![k] = [@ EXCEPT !.pc = "judge", !.victim = m]] /\ UNCHANGED job
    BY <1>6
  <2>2. /\ Local(k) /\ run'[k].pc = "judge" /\ run'[k].victim = m
        /\ run'[k].todo = run[k].todo /\ run'[k].failed = run[k].failed
    BY <1>2, <1>3, <2>1, JudgingFacts
  <2>3. QED
    BY <1>1, <1>2, <2>1, <2>2 DEF found
<1>7. QED
  BY <1>4, <1>5, <1>6

LEMMA JudgeEffect ==
  ASSUME EpisodeInv, NEW k \in Jobs, Judge(k)
  PROVE  /\ k \in Running /\ run[k].pc = "judge" /\ job[k].op = "import" /\ Local(k) /\ Same
         /\ \/ /\ Verdict(entry[Here(k)][run[k].victim], job[k].at, Here(k)) = "skip"
               /\ Moves(k, "no")
            \/ entry[Here(k)][run[k].victim] = None /\ Goes(k, "prepare")
            \/ /\ Verdict(entry[Here(k)][run[k].victim], job[k].at, Here(k)) = "replace"
               /\ job' = job /\ run'[k].pc = "stat" /\ run'[k].why = "evict" /\ run'[k].victim = run[k].victim
               /\ run'[k].todo = run[k].todo /\ run'[k].failed = run[k].failed
<1>1. k \in Running /\ run[k].pc = "judge" /\ Same
  BY DEF Judge, At, Same, libraries
<1>2. QueueOK /\ job[k].op = "import" /\ run[k].todo # <<>>
  BY <1>1, HandlerTyped DEF Linking, HandlerOK
<1>3. \/ /\ Verdict(entry[Here(k)][run[k].victim], job[k].at, Here(k)) = "skip"
         /\ NextLibrary(k, "no")
      \/ entry[Here(k)][run[k].victim] = None /\ Goto(k, "prepare")
      \/ /\ Verdict(entry[Here(k)][run[k].victim], job[k].at, Here(k)) = "replace"
         /\ run' = [run EXCEPT ![k] = [@ EXCEPT !.pc = "stat", !.why = "evict"]] /\ UNCHANGED job
  BY DEF Judge, Verdict
<1>4. CASE /\ Verdict(entry[Here(k)][run[k].victim], job[k].at, Here(k)) = "skip"
           /\ NextLibrary(k, "no")
  BY <1>1, <1>2, <1>4, MovesOn
<1>5. CASE entry[Here(k)][run[k].victim] = None /\ Goto(k, "prepare")
  BY <1>1, <1>2, <1>5, GoesOn DEF Pcs, Linking
<1>6. CASE /\ Verdict(entry[Here(k)][run[k].victim], job[k].at, Here(k)) = "replace"
           /\ run' = [run EXCEPT ![k] = [@ EXCEPT !.pc = "stat", !.why = "evict"]] /\ UNCHANGED job
  BY <1>1, <1>2, <1>6, EvictingFacts
<1>7. QED
  BY <1>3, <1>4, <1>5, <1>6

LEMMA PrepareEffect ==
  ASSUME EpisodeInv, NEW k \in Jobs, Prepare(k)
  PROVE  /\ k \in Running /\ run[k].pc = "prepare" /\ job[k].op = "import" /\ Local(k) /\ entry' = entry
         /\ \/ /\ Present(job[k].at, job[k].name) /\ Goes(k, "probe")
               /\ folder' = [folder EXCEPT ![Here(k)] = TRUE]
            \/ ~Present(job[k].at, job[k].name) /\ Moves(k, "permanent") /\ folder' = folder
<1>1. k \in Running /\ run[k].pc = "prepare" /\ entry' = entry
  BY DEF Prepare, At
<1>2. QueueOK /\ job[k].op = "import" /\ run[k].todo # <<>>
  BY <1>1, HandlerTyped DEF Linking, HandlerOK
<1>3. CASE Present(job[k].at, job[k].name)
  BY <1>1, <1>2, <1>3, GoesOn DEF Pcs, Linking, Prepare
<1>4. CASE ~Present(job[k].at, job[k].name)
  BY <1>1, <1>2, <1>4, MovesOn DEF Prepare
<1>5. QED
  BY <1>3, <1>4

LEMMA ProbeEffect ==
  ASSUME EpisodeInv, NEW k \in Jobs, Probe(k)
  PROVE  /\ k \in Running /\ run[k].pc = "probe" /\ job[k].op = "import" /\ Local(k)
         /\ entry' = entry /\ folder' = [folder EXCEPT ![Here(k)] = TRUE]
         /\ \/ entry[Here(k)][job[k].name] = None /\ Goes(k, "create")
            \/ entry[Here(k)][job[k].name] = job[k].at /\ Moves(k, "no")
            \/ entry[Here(k)][job[k].name] \notin {None, job[k].at} /\ Moves(k, "permanent")
<1>1. k \in Running /\ run[k].pc = "probe" /\ entry' = entry /\ folder' = [folder EXCEPT ![Here(k)] = TRUE]
  BY DEF Probe, At
<1>2. QueueOK /\ job[k].op = "import" /\ run[k].todo # <<>>
  BY <1>1, HandlerTyped DEF Linking, HandlerOK
<1>3. \/ entry[Here(k)][job[k].name] = None /\ Goto(k, "create")
      \/ entry[Here(k)][job[k].name] = job[k].at /\ NextLibrary(k, "no")
      \/ entry[Here(k)][job[k].name] \notin {None, job[k].at} /\ NextLibrary(k, "permanent")
  BY DEF Probe
<1>4. QED
  BY <1>1, <1>2, <1>3, MovesOn, GoesOn DEF Pcs, Linking

LEMMA CreateEffect ==
  ASSUME EpisodeInv, NEW k \in Jobs, Create(k)
  PROVE  /\ k \in Running /\ run[k].pc = "create" /\ job[k].op = "import" /\ Local(k) /\ folder' = folder
         /\ \/ /\ folder[Here(k)] /\ entry[Here(k)][job[k].name] = None /\ Moves(k, "no")
               /\ entry' = [entry EXCEPT ![Here(k)][job[k].name] = job[k].at]
            \/ entry' = entry /\ entry[Here(k)][job[k].name] # None /\ Moves(k, "transient")
            \/ entry' = entry /\ ~folder[Here(k)] /\ Moves(k, "permanent")
<1>1. k \in Running /\ run[k].pc = "create" /\ folder' = folder
  BY DEF Create, At
<1>2. QueueOK /\ job[k].op = "import" /\ run[k].todo # <<>>
  BY <1>1, HandlerTyped DEF Linking, HandlerOK
<1>3. \/ /\ folder[Here(k)] /\ entry[Here(k)][job[k].name] = None /\ NextLibrary(k, "no")
         /\ entry' = [entry EXCEPT ![Here(k)][job[k].name] = job[k].at]
      \/ entry' = entry /\ entry[Here(k)][job[k].name] # None /\ NextLibrary(k, "transient")
      \/ entry' = entry /\ ~folder[Here(k)] /\ NextLibrary(k, "permanent")
  BY DEF Create
<1>4. QED
  BY <1>1, <1>2, <1>3, MovesOn

LEMMA FinishEffect ==
  ASSUME EpisodeInv, NEW k \in Jobs, Finish(k)
  PROVE  /\ k \in Running /\ run[k].pc = "finish" /\ Local(k) /\ Same
         /\ \/ Ends(k, "done")
            \/ Ends(k, "backoff") /\ (run[k].failed = "transient" \/ outages' = outages + 1)
            \/ Ends(k, "failed") /\ (run[k].failed = "permanent" \/ outages' = outages + 1)
<1>1. k \in Running /\ run[k].pc = "finish" /\ Same
  BY DEF Finish, At, Same, libraries
<1>2. \/ Return(k, "done")
      \/ Return(k, "backoff") /\ (run[k].failed = "transient" \/ outages' = outages + 1)
      \/ Return(k, "failed") /\ (run[k].failed = "permanent" \/ outages' = outages + 1)
  BY DEF Finish
<1>3. QED
  BY <1>1, <1>2, HandlerTyped, EndsOn DEF States

LEMMA CheckEffect ==
  ASSUME EpisodeInv, NEW k \in Jobs, Check(k)
  PROVE  /\ k \in Running /\ run[k].pc = "check" /\ job[k].op = "delete" /\ Local(k) /\ Same
         /\ \/ ~MayRemove(job[k].at, Here(k), entry[Here(k)][job[k].name]) /\ Leaves(k)
            \/ /\ MayRemove(job[k].at, Here(k), entry[Here(k)][job[k].name])
               /\ job' = job /\ run'[k].pc = "stat" /\ run'[k].why = "delete" /\ run'[k].victim = job[k].name
               /\ run'[k].todo = run[k].todo
<1>1. k \in Running /\ run[k].pc = "check" /\ Same
  BY DEF Check, At, Same, libraries
<1>2. QueueOK /\ job[k].op = "delete" /\ job[k].name \in Names /\ k \in Jobs
  BY <1>1, HandlerTyped DEF HandlerOK
<1>3. \/ ~MayRemove(job[k].at, Here(k), entry[Here(k)][job[k].name]) /\ Unlinked(k)
      \/ /\ MayRemove(job[k].at, Here(k), entry[Here(k)][job[k].name])
         /\ run' = [run EXCEPT ![k] = [@ EXCEPT !.pc = "stat", !.why = "delete", !.victim = job[k].name]]
         /\ UNCHANGED job
  BY DEF Check
<1>4. CASE ~MayRemove(job[k].at, Here(k), entry[Here(k)][job[k].name]) /\ Unlinked(k)
  BY <1>1, <1>2, <1>4, LeavesOn
<1>5. CASE /\ MayRemove(job[k].at, Here(k), entry[Here(k)][job[k].name])
           /\ run' = [run EXCEPT ![k] = [@ EXCEPT !.pc = "stat", !.why = "delete", !.victim = job[k].name]]
           /\ UNCHANGED job
  BY <1>1, <1>2, <1>5, DeletingFacts
<1>6. QED
  BY <1>3, <1>4, <1>5

(* The links that a series' delete removes from library lib.                 *)
Doomed(k, lib) == {n \in Names : entry[lib][n] # None /\ ~Keeps(job[k].at, lib, entry[lib][n])}

LEMMA ClearEffect ==
  ASSUME EpisodeInv, NEW k \in Jobs, Clear(k)
  PROVE  /\ k \in Running /\ run[k].pc = "clear" /\ job[k].op = "seriesDelete" /\ job' = job
         /\ \/ /\ UNCHANGED <<folder, run>>
               /\ \E n \in Doomed(k, Here(k)) : entry' = [entry EXCEPT ![Here(k)][n] = None]
            \/ /\ Doomed(k, Here(k)) = {} /\ entry' = entry /\ Local(k)
               /\ run'[k].todo = Tail(run[k].todo) /\ run'[k].failed = run[k].failed
               /\ run'[k].pc = IF run'[k].todo = <<>> THEN "finish" ELSE "clear"
<1>1. k \in Running /\ run[k].pc = "clear" /\ job' = job
  BY DEF Clear, At
<1>2. QueueOK /\ job[k].op = "seriesDelete" /\ run[k].todo # <<>>
  BY <1>1, HandlerTyped DEF HandlerOK
<1>0. IF Doomed(k, Here(k)) # {}
      THEN /\ \E n \in Doomed(k, Here(k)) : entry' = [entry EXCEPT ![Here(k)][n] = None]
           /\ UNCHANGED <<folder, run>>
      ELSE /\ entry' = entry
           /\ run' = [run EXCEPT ![k] = [@ EXCEPT !.todo = Tail(run[k].todo),
                        !.pc = IF Tail(run[k].todo) = <<>> THEN "finish" ELSE "clear"]]
  BY Zenon DEF Clear, Doomed
<1>3. CASE Doomed(k, Here(k)) # {}
  BY <1>0, <1>1, <1>2, <1>3
<1>4. CASE Doomed(k, Here(k)) = {}
  <2>1. /\ entry' = entry
        /\ run' = [run EXCEPT ![k] = [@ EXCEPT !.todo = Tail(run[k].todo),
                     !.pc = IF Tail(run[k].todo) = <<>> THEN "finish" ELSE "clear"]]
    BY <1>0, <1>4
  <2>2. /\ Local(k) /\ run'[k].todo = Tail(run[k].todo) /\ run'[k].failed = run[k].failed
        /\ run'[k].pc = IF run'[k].todo = <<>> THEN "finish" ELSE "clear"
    BY <1>1, <1>2, <2>1, ClearedFacts
  <2>3. QED
    BY <1>1, <1>2, <1>4, <2>1, <2>2
<1>5. QED
  BY <1>3, <1>4

-----------------------------------------------------------------------------
(* One worker: no other handler changes a library between two calls.         *)

(* The entry an import is judging, or removing because it lost.              *)
Evicting(k) == run[k].pc = "judge" \/ (run[k].pc \in Unlinking /\ run[k].why = "evict")

(* What a handler has seen in its library still holds.                       *)
SerialOK(k) ==
  /\ run[k].pc = "remove" => entry[Here(k)][run[k].victim] # None
  /\ run[k].pc = "prune" => entry[Here(k)][run[k].victim] = None
  /\ run[k].pc = "create" => folder[Here(k)]
  /\ run[k].pc \in {"prepare", "probe", "create"} => entry[Here(k)][job[k].name] \in {None, job[k].at}
  /\ Evicting(k) => run[k].victim = job[k].name \/ entry[Here(k)][job[k].name] \in {None, job[k].at}

(* The inductive invariant of one worker.                                    *)
SerialInv == EpisodeInv /\ \A k \in Running : SerialOK(k)

(* With one worker, one handler runs.                                        *)
LEMMA OneAtATime ==
  ASSUME QueueOK, Concurrency = 1, NEW j \in Running, NEW k \in Running
  PROVE  j = k
<1>1. IsFiniteSet(Running) /\ Cardinality(Running) <= 1
  BY RunningIsFinite DEF QueueOK
<1>2. SUFFICES ASSUME j # k PROVE FALSE
  OBVIOUS
<1>3. IsFiniteSet({}) /\ Cardinality({}) = 0
  BY FS_EmptySet
<1>4. IsFiniteSet({j}) /\ Cardinality({j}) = 1
  BY FS_Singleton
<1>5. IsFiniteSet({j} \cup {k}) /\ Cardinality({j} \cup {k}) = 2
  BY <1>2, <1>4, FS_AddElement
<1>6. {j} \cup {k} \in SUBSET Running
  OBVIOUS
<1>7. Cardinality({j} \cup {k}) <= Cardinality(Running) /\ Cardinality(Running) \in Nat
  BY <1>1, <1>6, FS_Subset, FS_CardinalityType
<1>8. QED
  BY <1>1, <1>5, <1>7

(* What runs after the step of a handler is that handler, if any.            *)
LEMMA StillAlone ==
  ASSUME QueueOK, Concurrency = 1, NEW k \in Running, Local(k)
  PROVE  Running' \subseteq {k}
<1>1. ASSUME NEW j \in Running', j # k PROVE FALSE
  <2>1. j \in Running
    BY <1>1 DEF Running, Local, SameHooks
  <2>2. QED
    BY <1>1, <2>1, OneAtATime
<1>2. QED
  BY <1>1

(* A handler whose next call depends on nothing it has seen.                 *)
Fresh(r) ==
  /\ r.pc \notin {"remove", "prune", "create", "prepare", "probe", "judge"}
  /\ r.pc = "stat" => r.why # "evict"

(* It has nothing to hold on to.                                             *)
LEMMA FreshIsFine == ASSUME NEW k, Fresh(run'[k]) PROVE SerialOK(k)'
BY DEF Fresh, SerialOK, Evicting, Unlinking

LEMMA StepsAreFresh ==
  ASSUME NEW k
  PROVE  /\ \A f : Moves(k, f) => Fresh(run'[k])
         /\ \A l : Begins(k, l) => Fresh(run'[k])
         /\ \A s : Ends(k, s) => Fresh(run'[k])
BY DEF Moves, Begins, Ends, Fresh, Idle

LEMMA LeavesFresh ==
  ASSUME NEW k, Leaves(k)
  PROVE  \/ Fresh(run'[k])
         \/ /\ job[k].op = "import" /\ run[k].why = "evict" /\ job' = job
            /\ run'[k].pc = "prepare" /\ run'[k].todo = run[k].todo
<1>1. ASSUME Begins(k, run[k].langs) \/ Ends(k, "done") PROVE Fresh(run'[k])
  BY <1>1, StepsAreFresh
<1>2. QED
  BY <1>1 DEF Leaves, Fresh

(* A handler's own calls keep what it has seen up to date.                   *)
LEMMA HandlerKeepsSerial ==
  ASSUME EpisodeInv, NEW k \in Jobs, k \in Running => SerialOK(k), Handler(k), ~Clear(k)
  PROVE  k \in Running /\ Local(k) /\ SerialOK(k)'
<1>1. CASE Detect(k) \/ DetectFails(k)
  <2>1. Fresh(run'[k])
    BY <1>1, DetectEffect, StepsAreFresh DEF Fresh
  <2>2. QED
    BY <1>1, <2>1, DetectEffect, FreshIsFine
<1>2. CASE Stat(k)
  <2>0. SerialOK(k) /\ k \in Running /\ run[k].pc = "stat" /\ Local(k) /\ Same
    BY <1>2, StatEffect
  <2>1. CASE Fresh(run'[k])
    BY <2>0, <2>1, FreshIsFine
  <2>2. CASE /\ entry[Here(k)][run[k].victim] = None /\ run[k].why = "evict"
             /\ job' = job /\ run'[k].pc = "prepare" /\ run'[k].todo = run[k].todo
    BY <2>0, <2>2 DEF SerialOK, Same, Evicting, Unlinking, Here
  <2>3. CASE entry[Here(k)][run[k].victim] # None /\ Goes(k, "remove")
    BY <2>0, <2>3 DEF SerialOK, Same, Goes, Evicting, Unlinking, Here
  <2>4. QED
    BY <1>2, <2>1, <2>2, <2>3, StatEffect, LeavesFresh
<1>3. CASE Remove(k)
  <2>0. SerialOK(k) /\ k \in Running /\ run[k].pc = "remove" /\ Local(k) /\ folder' = folder
    BY <1>3, RemoveEffect
  <2>1. CASE \E s : Moves(k, s) \/ Ends(k, s)
    BY <2>0, <2>1, FreshIsFine, StepsAreFresh
  <2>2. CASE Goes(k, "prune") /\ entry' = [entry EXCEPT ![Here(k)][run[k].victim] = None]
    <3>1. Here(k) \in Instances /\ run[k].victim \in Names
      BY <2>0, HandlerTyped DEF HandlerOK, Unlinking
    <3>2. entry'[Here(k)][run[k].victim] = None
          /\ \A n \in Names \ {run[k].victim} : entry'[Here(k)][n] = entry[Here(k)][n]
      BY <2>2, <3>1 DEF EpisodeInv, LibraryOK
    <3>3. job[k].op = "import" => job[k].name \in Names
      BY <2>0, HandlerTyped
    <3>4. Evicting(k) => job[k].op = "import"
      BY <2>0, HandlerTyped DEF HandlerOK, Evicting, Unlinking
    <3>5. QED
      BY <2>0, <2>2, <3>2, <3>3, <3>4 DEF SerialOK, Goes, Evicting, Unlinking, Here
  <2>3. QED
    BY <1>3, <2>1, <2>2, RemoveEffect
<1>4. CASE Prune(k)
  <2>0. SerialOK(k) /\ k \in Running /\ run[k].pc = "prune" /\ Local(k) /\ entry' = entry
    BY <1>4, PruneEffect
  <2>1. CASE Fresh(run'[k])
    BY <2>0, <2>1, FreshIsFine
  <2>2. CASE run[k].why = "evict" /\ job' = job /\ run'[k].pc = "prepare" /\ run'[k].todo = run[k].todo
    BY <2>0, <2>2 DEF SerialOK, Evicting, Unlinking, Here
  <2>3. QED
    BY <1>4, <2>1, <2>2, PruneEffect, LeavesFresh
<1>5. CASE Find(k)
  <2>0. k \in Running /\ Local(k) /\ Same /\ job'[k].at = job[k].at /\ job'[k].name = job[k].name
    BY <1>5, FindEffect DEF Local, SameHooks
  <2>1. CASE Conflicts(Here(k), job[k].at, job[k].name, Episode[job[k].name]) = {} /\ Goes(k, "prepare")
    <3>1. entry[Here(k)][job[k].name] \in {None, job[k].at}
      BY <2>1 DEF Conflicts
    <3>2. QED
      BY <2>0, <2>1, <3>1 DEF SerialOK, Same, Goes, Evicting, Unlinking, Here
  <2>2. CASE /\ run'[k].victim \in Conflicts(Here(k), job[k].at, job[k].name, Episode[job[k].name])
             /\ run'[k].pc = "judge" /\ run'[k].todo = run[k].todo
    <3>1. run'[k].victim = job[k].name \/ entry[Here(k)][job[k].name] \in {None, job[k].at}
      BY <2>2 DEF Conflicts
    <3>2. QED
      BY <2>0, <2>2, <3>1 DEF SerialOK, Same, Here
  <2>3. QED
    BY <1>5, <2>1, <2>2, FindEffect
<1>6. CASE Judge(k)
  <2>0. /\ SerialOK(k) /\ k \in Running /\ run[k].pc = "judge" /\ Local(k) /\ Same
        /\ job'[k].at = job[k].at /\ job'[k].name = job[k].name
    BY <1>6, JudgeEffect DEF Local, SameHooks
  <2>1. CASE Moves(k, "no")
    BY <2>0, <2>1, FreshIsFine, StepsAreFresh
  <2>2. CASE entry[Here(k)][run[k].victim] = None /\ Goes(k, "prepare")
    BY <2>0, <2>2 DEF SerialOK, Same, Goes, Evicting, Unlinking, Here
  <2>3. CASE run'[k].pc = "stat" /\ run'[k].victim = run[k].victim /\ run'[k].todo = run[k].todo
    BY <2>0, <2>3 DEF SerialOK, Same, Evicting, Unlinking, Here
  <2>4. QED
    BY <1>6, <2>1, <2>2, <2>3, JudgeEffect
<1>7. CASE Prepare(k)
  <2>0. SerialOK(k) /\ k \in Running /\ run[k].pc = "prepare" /\ Local(k) /\ entry' = entry
    BY <1>7, PrepareEffect
  <2>1. CASE Moves(k, "permanent")
    BY <2>0, <2>1, FreshIsFine, StepsAreFresh
  <2>2. CASE Goes(k, "probe")
    BY <2>0, <2>2 DEF SerialOK, Goes, Evicting, Unlinking, Here
  <2>3. QED
    BY <1>7, <2>1, <2>2, PrepareEffect
<1>8. CASE Probe(k)
  <2>0. /\ SerialOK(k) /\ k \in Running /\ run[k].pc = "probe" /\ Local(k) /\ entry' = entry
        /\ folder' = [folder EXCEPT ![Here(k)] = TRUE]
    BY <1>8, ProbeEffect
  <2>1. CASE \E f : Moves(k, f)
    BY <2>0, <2>1, FreshIsFine, StepsAreFresh
  <2>2. CASE Goes(k, "create")
    <3>1. Here(k) \in Instances
      BY <2>0, HandlerTyped DEF Linking
    <3>2. folder'[Here(k)]
      BY <2>0, <3>1 DEF EpisodeInv, LibraryOK
    <3>3. QED
      BY <2>0, <2>2, <3>2 DEF SerialOK, Goes, Evicting, Unlinking, Here
  <2>3. QED
    BY <1>8, <2>1, <2>2, ProbeEffect
<1>9. CASE Create(k)
  <2>1. k \in Running /\ Local(k) /\ \E f : Moves(k, f)
    BY <1>9, CreateEffect
  <2>2. QED
    BY <2>1, FreshIsFine, StepsAreFresh
<1>10. CASE Finish(k)
  <2>1. k \in Running /\ Local(k) /\ \E s : Ends(k, s)
    BY <1>10, FinishEffect
  <2>2. QED
    BY <2>1, FreshIsFine, StepsAreFresh
<1>11. CASE Check(k)
  <2>0. k \in Running /\ Local(k) /\ job[k].op = "delete"
    BY <1>11, CheckEffect
  <2>1. Fresh(run'[k])
    BY <1>11, <2>0, CheckEffect, LeavesFresh DEF Fresh
  <2>2. QED
    BY <2>0, <2>1, FreshIsFine
<1>12. QED
  BY <1>1, <1>2, <1>3, <1>4, <1>5, <1>6, <1>7, <1>8, <1>9, <1>10, <1>11 DEF Handler

(* Each change in Sonarr sends webhooks.                                     *)
LEMMA SonarrEnqueues ==
  ASSUME EpisodeInv,
         \/ \E i \in Instances, n \in Names : Delete(i, n) \/ \E a \in Audio[i][n] : Download(i, n, a)
         \/ \E i \in Instances : DeleteSeries(i, TRUE) \/ DeleteSeries(i, FALSE)
  PROVE  \E hooks \in Seq(JobRecord) : Enqueue(hooks) /\ \A x \in 1 .. Len(hooks) : hooks[x].state = "queued"
<1>1. ASSUME NEW i \in Instances, NEW n \in Names, NEW a \in Audio[i][n], Download(i, n, a)
      PROVE  \E hooks \in Seq(JobRecord) : Enqueue(hooks) /\ \A x \in 1 .. Len(hooks) : hooks[x].state = "queued"
  BY <1>1, DownloadFacts, HooksTyped DEF EpisodeInv
<1>2. ASSUME NEW hook \in JobRecord, hook.state = "queued", Enqueue(<<hook>>)
      PROVE  \E hooks \in Seq(JobRecord) : Enqueue(hooks) /\ \A x \in 1 .. Len(hooks) : hooks[x].state = "queued"
  <2>1. <<hook>> \in Seq(JobRecord) /\ \A x \in 1 .. Len(<<hook>>) : <<hook>>[x].state = "queued"
    BY <1>2
  <2>2. QED
    BY <1>2, <2>1
<1>3. ASSUME NEW i \in Instances, NEW op \in {"delete", "seriesDelete", "recordDelete"}, NEW n \in Names \cup {None},
             op = "delete" => n \in Names
      PROVE  Webhook(op, i, n, FALSE) \in JobRecord /\ Webhook(op, i, n, FALSE).state = "queued"
  BY <1>3 DEF Webhook, JobRecord, Ops, States
<1>4. ASSUME NEW i \in Instances, NEW n \in Names, Delete(i, n)
      PROVE  \E hook \in JobRecord : hook.state = "queued" /\ Enqueue(<<hook>>)
  BY <1>3, <1>4 DEF Delete
<1>5. ASSUME NEW i \in Instances, NEW files \in BOOLEAN, DeleteSeries(i, files)
      PROVE  \E hook \in JobRecord : hook.state = "queued" /\ Enqueue(<<hook>>)
  <2>1. PICK op \in {"seriesDelete", "recordDelete"} : Enqueue(<<Webhook(op, i, None, FALSE)>>)
    BY <1>5 DEF DeleteSeries
  <2>2. QED
    BY <1>3, <2>1
<1>6. QED
  BY <1>1, <1>2, <1>4, <1>5

(* The steps of Sonarr and of the queue leave the libraries alone, and the   *)
(* handlers where they are or at their beginning.                            *)
LEMMA OtherSteps ==
  ASSUME EpisodeInv, [Next]_vars, ~ \E k \in Jobs : Handler(k)
  PROVE  /\ Same
         /\ \A k \in Running' : \/ k \in Running /\ job'[k] = job[k] /\ run'[k] = run[k]
                                \/ Fresh(run'[k])
<1>0. QueueOK /\ StorageOK
  BY DEF EpisodeInv
<1>1. CASE UNCHANGED vars
  BY <1>1 DEF vars, libraries, Same, Running, Jobs
<1>2. ASSUME \/ \E i \in Instances, n \in Names : Delete(i, n) \/ \E a \in Audio[i][n] : Download(i, n, a)
             \/ \E i \in Instances : DeleteSeries(i, TRUE) \/ DeleteSeries(i, FALSE)
      PROVE  /\ Same /\ Running' = Running
             /\ \A k \in Jobs : job'[k] = job[k] /\ run'[k] = run[k]
  <2>1. PICK hooks \in Seq(JobRecord) : Enqueue(hooks) /\ \A x \in 1 .. Len(hooks) : hooks[x].state = "queued"
    BY <1>2, SonarrEnqueues
  <2>2. Same
    BY <1>2 DEF Download, Delete, DeleteSeries, libraries, Same
  <2>3. QED
    BY <1>0, <2>1, <2>2, EnqueueExtends
<1>3. ASSUME NEW j \in Jobs, Claim(j)
      PROVE  Same /\ \A k \in Running' : (k \in Running /\ job'[k] = job[k] /\ run'[k] = run[k]) \/ Fresh(run'[k])
  <2>1. Same /\ Local(j) /\ Running' = Running \cup {j}
    BY <1>0, <1>3, ClaimFacts, ClaimKeepsQueue DEF Claim, libraries, Same
  <2>2. Fresh(run'[j])
    <3>1. run'[j].pc = CASE job[j].op = "import" -> "detect" [] job[j].op = "delete" -> "check"
                         [] job[j].op = "seriesDelete" -> "clear" [] OTHER -> "finish"
      BY <1>0, <1>3, ClaimFacts
    <3>2. QED
      BY <3>1 DEF Fresh
  <2>3. QED
    BY <2>1, <2>2 DEF Local, Running
<1>4. ASSUME NEW j \in Jobs, BackoffOver(j) \/ Sweep(j)
      PROVE  Same /\ \A k \in Running' : k \in Running /\ job'[k] = job[k] /\ run'[k] = run[k]
  BY <1>0, <1>4, RequeueFacts DEF BackoffOver, Sweep, libraries, Same, Local, Running
<1>5. CASE Crash
  BY <1>0, <1>5, CrashFacts DEF Crash, libraries, Same
<1>6. Running \subseteq Jobs
  BY DEF Running
<1>7. QED
  BY <1>1, <1>2, <1>3, <1>4, <1>5, <1>6 DEF Next

(* With one worker it stays so.                                              *)
LEMMA SerialStep == Concurrency = 1 /\ SerialInv /\ [Next]_vars => SerialInv'
<1> SUFFICES ASSUME Concurrency = 1, SerialInv, [Next]_vars PROVE SerialInv'
  OBVIOUS
<1>0. EpisodeInv /\ QueueOK /\ EpisodeInv' /\ \A k \in Running : SerialOK(k)
  BY EpisodeStep DEF SerialInv, EpisodeInv
<1>1. CASE ~ \E k \in Jobs : Handler(k)
  <2>1. ASSUME NEW k \in Running' PROVE SerialOK(k)'
    <3>1. CASE Fresh(run'[k])
      BY <3>1, FreshIsFine
    <3>2. CASE k \in Running /\ job'[k] = job[k] /\ run'[k] = run[k]
      BY <1>0, <1>1, <3>2, OtherSteps DEF Same, SerialOK, Evicting, Here
    <3>3. QED
      BY <1>0, <1>1, <3>1, <3>2, OtherSteps
  <2>2. QED
    BY <1>0, <2>1 DEF SerialInv
<1>2. CASE \E k \in Jobs : Handler(k)
  <2>1. PICK k \in Jobs : Handler(k)
    BY <1>2
  <2>2. CASE ~Clear(k)
    <3>1. k \in Running /\ Local(k) /\ SerialOK(k)'
      BY <1>0, <2>1, <2>2, HandlerKeepsSerial
    <3>2. Running' \subseteq {k}
      BY <1>0, <3>1, StillAlone
    <3>3. QED
      BY <1>0, <3>1, <3>2 DEF SerialInv
  <2>3. CASE Clear(k)
    <3>1. k \in Running /\ run[k].pc = "clear" /\ job' = job /\ (run' = run \/ (Local(k) /\ run'[k].pc \in {"finish", "clear"}))
      BY <1>0, <2>3, ClearEffect
    <3>2. Fresh(run'[k])
      BY <3>1 DEF Fresh
    <3>3. Running' = Running
      BY <3>1 DEF Running, Jobs
    <3>4. SerialOK(k)'
      BY <3>2, FreshIsFine
    <3>5. QED
      BY <1>0, <3>1, <3>3, <3>4, OneAtATime DEF SerialInv
  <2>4. QED
    BY <2>2, <2>3
<1>3. QED
  BY <1>1, <1>2

LEMMA SerialInit == Init => SerialInv
<1> SUFFICES ASSUME Init PROVE SerialInv
  OBVIOUS
<1>1. Running = {}
  BY DEF Init, Jobs, Running
<1>2. QED
  BY <1>1, EpisodeInit DEF SerialInv

(* With one worker, an import gives up only what has no file.                *)
LEMMA HandlerGivesUp ==
  ASSUME EpisodeInv, outages \in Nat, NEW k \in Jobs, k \in Running => SerialOK(k), Handler(k),
         job[k].op = "import", ~GivenUp(k), GivenUp(k)'
  PROVE  outages' # outages \/ ~Present(job[k].at, job[k].name)
<1>0. outages' = outages + 1 => outages' # outages
  OBVIOUS
<1>1. ASSUME job' = job, run'[k].failed = run[k].failed PROVE FALSE
  BY <1>1 DEF GivenUp
<1>2. ASSUME Ends(k, "done") \/ Ends(k, "backoff") PROVE FALSE
  BY <1>2 DEF GivenUp, Ends, Idle
<1>3. ~Leaves(k)
  BY <1>1, <1>2 DEF Leaves, Begins
<1>4. ASSUME Moves(k, "no") \/ Moves(k, "transient") PROVE FALSE
  BY <1>4 DEF Moves, GivenUp
<1>5. ASSUME NEW pc, Goes(k, pc) PROVE FALSE
  BY <1>1, <1>5 DEF Goes
<1>6. CASE Detect(k) \/ DetectFails(k)
  BY <1>0, <1>1, <1>6, DetectEffect DEF Begins
<1>7. CASE Stat(k) \/ Prune(k)
  BY <1>3, <1>5, <1>7, StatEffect, PruneEffect
<1>8. CASE Remove(k)
  BY <1>5, <1>8, RemoveEffect DEF SerialOK
<1>9. CASE Find(k) \/ Judge(k)
  BY <1>1, <1>4, <1>5, <1>9, FindEffect, JudgeEffect
<1>10. CASE Prepare(k)
  BY <1>5, <1>10, PrepareEffect
<1>11. CASE Probe(k)
  BY <1>4, <1>5, <1>11, ProbeEffect DEF SerialOK
<1>12. CASE Create(k)
  BY <1>4, <1>12, CreateEffect DEF SerialOK
<1>13. CASE Finish(k)
  BY <1>0, <1>2, <1>13, FinishEffect DEF GivenUp
<1>14. CASE Check(k) \/ Clear(k)
  <2>1. job[k].op # "import"
    BY <1>14, CheckEffect, ClearEffect
  <2>2. QED
    BY <2>1
<1>15. QED
  BY <1>6, <1>7, <1>8, <1>9, <1>10, <1>11, <1>12, <1>13, <1>14 DEF Handler

(* With one worker, whatever crashes, retries and changes in the storages    *)
(* there are, an import gives up on a library, or altogether, only where its *)
(* file is gone or an external call failed (job_error, handler/error.rs:79). *)
THEOREM GivesUpOnlyForGood == Concurrency = 1 => (Spec => GivesUpOnlyWithoutFile)
<1> DEFINE Counted == outages \in Nat
           GivesUp(k) == job[k].op = "import" /\ ~GivenUp(k) /\ GivenUp(k)' =>
                            outages' # outages \/ ~Present(job[k].at, job[k].name)
           Step == \A k \in Jobs : GivesUp(k)
<1> SUFFICES ASSUME Concurrency = 1 PROVE Spec => GivesUpOnlyWithoutFile
  OBVIOUS
<1>1. Init => Counted
  BY DEF Init
<1>2. Counted /\ [Next]_vars => Counted'
  <2> SUFFICES ASSUME Counted, [Next]_vars PROVE Counted'
    OBVIOUS
  <2>1. outages' = outages \/ outages' = outages + 1
    BY DEF Next, vars, budgets, Download, Delete, DeleteSeries, Claim, BackoffOver, Sweep, Crash,
       Handler, Detect, DetectFails, Stat, Remove, Prune, Find, Judge, Prepare, Probe, Create, Finish, Check, Clear
  <2>2. QED
    BY <2>1
<1>3. SerialInv /\ Counted /\ [Next]_vars => [Step]_vars
  <2> SUFFICES ASSUME SerialInv, Counted, [Next]_vars, NEW k \in Jobs,
                      job[k].op = "import", ~GivenUp(k), GivenUp(k)'
               PROVE  outages' # outages \/ ~Present(job[k].at, job[k].name)
    OBVIOUS
  <2>0. EpisodeInv /\ QueueOK /\ StorageOK /\ \A j \in Running : SerialOK(j)
    BY DEF SerialInv, EpisodeInv
  <2>1. ASSUME job'[k] = job[k], run'[k] = run[k] PROVE FALSE
    BY <2>1 DEF GivenUp
  <2>2. CASE UNCHANGED vars
    BY <2>1, <2>2 DEF vars
  <2>3. ASSUME NEW hooks \in Seq(JobRecord), \A x \in 1 .. Len(hooks) : hooks[x].state = "queued", Enqueue(hooks)
        PROVE  FALSE
    BY <2>0, <2>1, <2>3, EnqueueExtends
  <2>5. ASSUME NEW j \in Jobs, Local(j), j # k PROVE FALSE
    BY <2>1, <2>5 DEF Local
  <2>6. ASSUME NEW j \in Jobs, Claim(j) PROVE FALSE
    <3>1. Local(j) /\ run'[j].failed = "no" /\ job'[j].state = "running"
      BY <2>0, <2>6, ClaimFacts
    <3>2. QED
      BY <2>5, <3>1 DEF GivenUp
  <2>7. ASSUME NEW j \in Jobs, BackoffOver(j) \/ Sweep(j) PROVE FALSE
    <3>1. Local(j) /\ run' = run /\ job'[j].state = "queued"
      BY <2>0, <2>7, RequeueFacts
    <3>2. QED
      BY <2>5, <3>1 DEF GivenUp
  <2>8. ASSUME Crash PROVE FALSE
    <3>1. run'[k] = Idle
      BY <2>8 DEF Crash
    <3>2. job'[k].state = "orphaned" \/ job'[k].state = job[k].state
      BY <2>0, <2>8, CrashFacts
    <3>3. QED
      BY <3>1, <3>2 DEF GivenUp, Idle
  <2>9. ASSUME NEW j \in Jobs, Handler(j) PROVE outages' # outages \/ ~Present(job[k].at, job[k].name)
    <3>1. CASE j = k
      BY <2>0, <2>9, <3>1, HandlerGivesUp
    <3>2. CASE j # k /\ ~Clear(j)
      BY <2>0, <2>5, <2>9, <3>2, HandlerKeepsSerial
    <3>3. CASE j # k /\ Clear(j)
      BY <2>0, <2>1, <2>5, <3>3, ClearEffect
    <3>4. QED
      BY <3>1, <3>2, <3>3
  <2>4. ASSUME \/ \E i \in Instances, n \in Names : Delete(i, n) \/ \E a \in Audio[i][n] : Download(i, n, a)
               \/ \E i \in Instances : DeleteSeries(i, TRUE) \/ DeleteSeries(i, FALSE)
        PROVE  FALSE
    BY <2>0, <2>3, <2>4, SonarrEnqueues
  <2>10. QED
    BY <2>2, <2>4, <2>6, <2>7, <2>8, <2>9 DEF Next
<1>4. GivesUpOnlyWithoutFile <=> [][Step]_vars
  BY DEF GivesUpOnlyWithoutFile
<1> HIDE DEF Counted, Step
<1>5. QED
  BY <1>1, <1>2, <1>3, <1>4, SerialInit, SerialStep, PTL DEF Spec

-----------------------------------------------------------------------------
(* One link per episode, where every name carries its episode's marker.      *)

(* The library has no other release of v's episode.                          *)
Alone(lib, v) == \A m \in Names \ {v} : Episode[m] = Episode[v] => entry[lib][m] = None

(* An import's conflict is the one release of its episode; past it, none is. *)
OneOK(k) ==
  /\ run[k].pc \in {"prepare", "probe", "create"} => Alone(Here(k), job[k].name)
  /\ Evicting(k) => Episode[run[k].victim] = Episode[job[k].name] /\ Alone(Here(k), run[k].victim)

(* The inductive invariant of one link per episode.                          *)
OneInv == OneLinkPerEpisode /\ \A k \in Running : OneOK(k)

(* A handler at its beginning has judged nothing.                            *)
LEMMA FreshIsAlone == ASSUME NEW k, Fresh(run'[k]) PROVE OneOK(k)'
BY DEF Fresh, OneOK, Evicting, Unlinking

(* Where neither v nor another release of its episode is, none is.           *)
LEMMA NoneIsAlone ==
  ASSUME NEW lib, NEW v, NEW n, Alone(lib, v), entry[lib][v] = None, Episode[v] = Episode[n]
  PROVE  Alone(lib, n)
BY DEF Alone

(* An import removes the release in the way before it links its own.         *)
LEMMA HandlerKeepsOne ==
  ASSUME EpisodeInv, \A n \in Names : Marker[n] = Episode[n], OneLinkPerEpisode,
         NEW k \in Jobs, k \in Running => SerialOK(k) /\ OneOK(k), Handler(k), ~Clear(k)
  PROVE  OneOK(k)' /\ OneLinkPerEpisode'
<1>0. entry' = entry => OneLinkPerEpisode'
  BY DEF OneLinkPerEpisode
<1>1. CASE Detect(k) \/ DetectFails(k)
  <2>1. Fresh(run'[k]) /\ Same
    BY <1>1, DetectEffect, StepsAreFresh DEF Fresh
  <2>2. QED
    BY <1>0, <2>1, FreshIsAlone DEF Same
<1>2. CASE Stat(k)
  <2>0. OneOK(k) /\ k \in Running /\ run[k].pc = "stat" /\ Local(k) /\ Same
    BY <1>2, StatEffect
  <2>1. CASE Fresh(run'[k])
    BY <1>0, <2>0, <2>1, FreshIsAlone DEF Same
  <2>2. CASE /\ entry[Here(k)][run[k].victim] = None /\ run[k].why = "evict"
             /\ job' = job /\ run'[k].pc = "prepare" /\ run'[k].todo = run[k].todo
    <3>1. Alone(Here(k), job[k].name)
      BY <2>0, <2>2, NoneIsAlone DEF OneOK, Evicting, Unlinking
    <3>2. QED
      BY <1>0, <2>0, <2>2, <3>1 DEF OneOK, Same, Evicting, Unlinking, Here, Alone
  <2>3. CASE entry[Here(k)][run[k].victim] # None /\ Goes(k, "remove")
    BY <1>0, <2>0, <2>3 DEF OneOK, Same, Goes, Evicting, Unlinking, Here, Alone
  <2>4. QED
    BY <1>2, <2>1, <2>2, <2>3, StatEffect, LeavesFresh
<1>3. CASE Remove(k)
  <2>0. OneOK(k) /\ k \in Running /\ run[k].pc = "remove" /\ Local(k)
    BY <1>3, RemoveEffect
  <2>1. CASE entry' = entry /\ \E s : Moves(k, s) \/ Ends(k, s)
    BY <1>0, <2>0, <2>1, FreshIsAlone, StepsAreFresh
  <2>2. CASE Goes(k, "prune") /\ entry' = [entry EXCEPT ![Here(k)][run[k].victim] = None]
    <3>1. Here(k) \in Instances /\ run[k].victim \in Names
      BY <2>0, HandlerTyped DEF HandlerOK, Unlinking
    <3>2. \A i \in Instances : \A n \in Names : entry'[i][n] = None \/ entry'[i][n] = entry[i][n]
      BY <2>2, <3>1 DEF EpisodeInv, LibraryOK
    <3>3. OneLinkPerEpisode'
      BY <3>2 DEF OneLinkPerEpisode
    <3>4. Alone(Here(k), run[k].victim) => Alone(Here(k), run[k].victim)'
      BY <2>2, <3>1, <3>2 DEF Alone, Goes, Here
    <3>5. QED
      BY <2>0, <2>2, <3>3, <3>4 DEF OneOK, Goes, Evicting, Unlinking, Here
  <2>3. QED
    BY <1>3, <2>1, <2>2, RemoveEffect
<1>4. CASE Prune(k)
  <2>0. OneOK(k) /\ SerialOK(k) /\ k \in Running /\ run[k].pc = "prune" /\ Local(k) /\ entry' = entry
    BY <1>4, PruneEffect
  <2>1. CASE Fresh(run'[k])
    BY <1>0, <2>0, <2>1, FreshIsAlone
  <2>2. CASE run[k].why = "evict" /\ job' = job /\ run'[k].pc = "prepare" /\ run'[k].todo = run[k].todo
    <3>1. Alone(Here(k), job[k].name)
      BY <2>0, <2>2, NoneIsAlone DEF OneOK, SerialOK, Evicting, Unlinking
    <3>2. QED
      BY <1>0, <2>0, <2>2, <3>1 DEF OneOK, Evicting, Unlinking, Here, Alone
  <2>3. QED
    BY <1>4, <2>1, <2>2, PruneEffect, LeavesFresh
<1>5. CASE Find(k)
  <2> DEFINE n == job[k].name
             lib == Here(k)
             found == Conflicts(lib, job[k].at, n, Episode[n])
  <2>0. /\ k \in Running /\ Local(k) /\ Same /\ job'[k].name = job[k].name
        /\ lib \in Instances /\ n \in Names /\ run[k].pc = "find"
    BY <1>5, FindEffect, HandlerTyped DEF Local, SameHooks, Linking
  <2>1. CASE found = {} /\ Goes(k, "prepare")
    <3>1. Alone(lib, n)
      <4>1. entry[lib][n] \in {None, job[k].at}
        BY <2>1 DEF Conflicts
      <4>2. ASSUME NEW m \in Names \ {n}, Episode[m] = Episode[n], entry[lib][m] # None PROVE FALSE
        <5>1. m \in found
          BY <4>1, <4>2 DEF Conflicts
        <5>2. QED
          BY <2>1, <5>1
      <4>3. QED
        BY <4>2 DEF Alone
    <3>2. QED
      BY <1>0, <2>0, <2>1, <3>1 DEF OneOK, Same, Goes, Evicting, Unlinking, Here, Alone
  <2>2. CASE /\ run'[k].victim \in found
             /\ run'[k].pc = "judge" /\ run'[k].todo = run[k].todo
    <3>1. PICK v : v = run'[k].victim
      OBVIOUS
    <3>2. v \in Names /\ Episode[v] = Episode[n] /\ entry[lib][v] # None
      BY <2>0, <2>2, <3>1 DEF Conflicts
    <3>3. Alone(lib, v)
      BY <2>0, <3>2 DEF Alone, OneLinkPerEpisode
    <3>4. QED
      BY <1>0, <2>0, <2>2, <3>1, <3>2, <3>3 DEF OneOK, Same, Here, Alone
  <2>3. QED
    BY <1>5, <2>1, <2>2, FindEffect
<1>6. CASE Judge(k)
  <2>0. /\ OneOK(k) /\ k \in Running /\ run[k].pc = "judge" /\ Local(k) /\ Same
        /\ job'[k].name = job[k].name
    BY <1>6, JudgeEffect DEF Local, SameHooks
  <2>1. CASE Moves(k, "no")
    BY <1>0, <2>0, <2>1, FreshIsAlone, StepsAreFresh DEF Same
  <2>2. CASE entry[Here(k)][run[k].victim] = None /\ Goes(k, "prepare")
    <3>1. Alone(Here(k), job[k].name)
      BY <2>0, <2>2, NoneIsAlone DEF OneOK, Evicting, Unlinking
    <3>2. QED
      BY <1>0, <2>0, <2>2, <3>1 DEF OneOK, Same, Goes, Evicting, Unlinking, Here, Alone
  <2>3. CASE run'[k].pc = "stat" /\ run'[k].victim = run[k].victim /\ run'[k].todo = run[k].todo
    BY <1>0, <2>0, <2>3 DEF OneOK, Same, Evicting, Unlinking, Here, Alone
  <2>4. QED
    BY <1>6, <2>1, <2>2, <2>3, JudgeEffect
<1>7. CASE Prepare(k)
  <2>0. OneOK(k) /\ k \in Running /\ run[k].pc = "prepare" /\ Local(k) /\ entry' = entry
    BY <1>7, PrepareEffect
  <2>1. CASE Moves(k, "permanent")
    BY <1>0, <2>0, <2>1, FreshIsAlone, StepsAreFresh
  <2>2. CASE Goes(k, "probe")
    BY <1>0, <2>0, <2>2 DEF OneOK, Goes, Evicting, Unlinking, Here, Alone
  <2>3. QED
    BY <1>7, <2>1, <2>2, PrepareEffect
<1>8. CASE Probe(k)
  <2>0. OneOK(k) /\ k \in Running /\ run[k].pc = "probe" /\ Local(k) /\ entry' = entry
    BY <1>8, ProbeEffect
  <2>1. CASE \E f : Moves(k, f)
    BY <1>0, <2>0, <2>1, FreshIsAlone, StepsAreFresh
  <2>2. CASE Goes(k, "create")
    BY <1>0, <2>0, <2>2 DEF OneOK, Goes, Evicting, Unlinking, Here, Alone
  <2>3. QED
    BY <1>8, <2>1, <2>2, ProbeEffect
<1>9. CASE Create(k)
  <2>0. OneOK(k) /\ k \in Running /\ run[k].pc = "create" /\ \E f : Moves(k, f)
    BY <1>9, CreateEffect
  <2>1. OneOK(k)'
    BY <2>0, FreshIsAlone, StepsAreFresh
  <2>2. CASE entry' = [entry EXCEPT ![Here(k)][job[k].name] = job[k].at]
    <3>1. PICK lib \in Instances, n \in Names : lib = Here(k) /\ n = job[k].name
      BY <1>9, <2>0, CreateEffect, HandlerTyped DEF Linking
    <3>2. Alone(lib, n)
      BY <2>0, <3>1 DEF OneOK
    <3>3. \A i \in Instances : \A m \in Names : (i = lib /\ m = n) \/ entry'[i][m] = entry[i][m]
      BY <2>2, <3>1 DEF EpisodeInv, LibraryOK
    <3>4. OneLinkPerEpisode'
      BY <3>2, <3>3 DEF OneLinkPerEpisode, Alone
    <3>5. QED
      BY <2>1, <3>4
  <2>3. QED
    BY <1>0, <1>9, <2>1, <2>2, CreateEffect
<1>10. CASE Finish(k)
  <2>1. Same /\ \E s : Ends(k, s)
    BY <1>10, FinishEffect
  <2>2. QED
    BY <1>0, <2>1, FreshIsAlone, StepsAreFresh DEF Same
<1>11. CASE Check(k)
  <2>0. k \in Running /\ Same /\ job[k].op = "delete"
    BY <1>11, CheckEffect
  <2>1. Fresh(run'[k])
    BY <1>11, <2>0, CheckEffect, LeavesFresh DEF Fresh
  <2>2. QED
    BY <1>0, <2>0, <2>1, FreshIsAlone DEF Same
<1>12. QED
  BY <1>1, <1>2, <1>3, <1>4, <1>5, <1>6, <1>7, <1>8, <1>9, <1>10, <1>11 DEF Handler

(* A series' delete goes on, and removes links only.                         *)
LEMMA ClearOnly ==
  ASSUME EpisodeInv, NEW k \in Jobs, Clear(k)
  PROVE  /\ k \in Running /\ Running' = Running /\ Fresh(run'[k])
         /\ \A i \in Instances : \A n \in Names : entry'[i][n] = None \/ entry'[i][n] = entry[i][n]
<1>1. k \in Running /\ run[k].pc = "clear" /\ job' = job /\ (run' = run \/ (Local(k) /\ run'[k].pc \in {"finish", "clear"}))
  BY ClearEffect
<1>2. Fresh(run'[k]) /\ Running' = Running
  BY <1>1 DEF Fresh, Running, Jobs
<1>3. Here(k) \in Instances
  BY <1>1, HandlerTyped
<1>4. entry' = entry \/ \E n \in Names : entry' = [entry EXCEPT ![Here(k)][n] = None]
  BY ClearEffect DEF Doomed
<1>5. \A i \in Instances : \A n \in Names : entry'[i][n] = None \/ entry'[i][n] = entry[i][n]
  BY <1>3, <1>4 DEF EpisodeInv, LibraryOK
<1>6. QED
  BY <1>1, <1>2, <1>5

(* With one worker it stays so.                                              *)
LEMMA OneStep ==
  Concurrency = 1 /\ (\A n \in Names : Marker[n] = Episode[n]) /\ SerialInv /\ OneInv /\ [Next]_vars => OneInv'
<1> SUFFICES ASSUME Concurrency = 1, \A n \in Names : Marker[n] = Episode[n], SerialInv, OneInv, [Next]_vars
             PROVE  OneInv'
  OBVIOUS
<1>0. EpisodeInv /\ QueueOK /\ OneLinkPerEpisode /\ \A k \in Running : SerialOK(k) /\ OneOK(k)
  BY DEF SerialInv, EpisodeInv, OneInv
<1>1. CASE ~ \E k \in Jobs : Handler(k)
  <2>1. ASSUME NEW k \in Running' PROVE OneOK(k)'
    <3>1. CASE Fresh(run'[k])
      BY <3>1, FreshIsAlone
    <3>2. CASE k \in Running /\ job'[k] = job[k] /\ run'[k] = run[k]
      BY <1>0, <1>1, <3>2, OtherSteps DEF Same, OneOK, Evicting, Here, Alone
    <3>3. QED
      BY <1>0, <1>1, <3>1, <3>2, OtherSteps
  <2>2. OneLinkPerEpisode'
    BY <1>0, <1>1, OtherSteps DEF Same, OneLinkPerEpisode
  <2>3. QED
    BY <2>1, <2>2 DEF OneInv
<1>2. CASE \E k \in Jobs : Handler(k)
  <2>1. PICK k \in Jobs : Handler(k)
    BY <1>2
  <2>2. CASE ~Clear(k)
    <3>1. k \in Running /\ Local(k)
      BY <1>0, <2>1, <2>2, HandlerKeepsSerial
    <3>2. OneOK(k)' /\ OneLinkPerEpisode'
      BY <1>0, <2>1, <2>2, HandlerKeepsOne
    <3>3. Running' \subseteq {k}
      BY <1>0, <3>1, StillAlone
    <3>4. QED
      BY <3>2, <3>3 DEF OneInv
  <2>3. CASE Clear(k)
    <3>1. OneOK(k)' /\ k \in Running /\ Running' = Running
      BY <1>0, <2>3, ClearOnly, FreshIsAlone
    <3>2. OneLinkPerEpisode'
      BY <1>0, <2>3, ClearOnly DEF OneLinkPerEpisode
    <3>3. QED
      BY <1>0, <3>1, <3>2, OneAtATime DEF OneInv
  <2>4. QED
    BY <2>2, <2>3
<1>3. QED
  BY <1>1, <1>2

(* With one worker, and names that carry the marker of their episode, a      *)
(* library never links two releases of one episode (import.rs:538).          *)
THEOREM OneReleasePerEpisode ==
  Concurrency = 1 /\ (\A n \in Names : Marker[n] = Episode[n]) => (Spec => []OneLinkPerEpisode)
<1> SUFFICES ASSUME Concurrency = 1, \A n \in Names : Marker[n] = Episode[n] PROVE Spec => []OneLinkPerEpisode
  OBVIOUS
<1>1. Init => OneInv
  <2> SUFFICES ASSUME Init PROVE OneInv
    OBVIOUS
  <2>1. Running = {} /\ OneLinkPerEpisode
    BY DEF Init, Jobs, Running, OneLinkPerEpisode
  <2>2. QED
    BY <2>1 DEF OneInv
<1>2. SerialInv /\ OneInv /\ [Next]_vars => OneInv'
  BY OneStep
<1>3. SerialInv /\ [Next]_vars => SerialInv'
  BY SerialStep
<1>4. OneInv => OneLinkPerEpisode
  BY DEF OneInv
<1>5. QED
  BY <1>1, <1>2, <1>3, <1>4, SerialInit, PTL DEF Spec

-----------------------------------------------------------------------------
(* Every link fits its file, or a delete that will remove it is on its way.  *)

(* Where the jobs that remove the links to o's file n still will.            *)
Waiting == {"queued", "backoff", "orphaned"}
Pending(o, n, i) ==
  \E d \in Jobs : /\ Removes(d, o, n)
                  /\ job[d].state \in Waiting \/ (d \in Running /\ i \in Elements(run[d].todo))

Fits(o, n, i) == For(o, n, i) \/ Pending(o, n, i)

(* The libraries whose links instance o makes and removes.                   *)
Reaches(o, i) == IsPrimary(o) \/ o = i

(* The libraries an import has still to link.                                *)
Targets(k) ==
  IF run[k].pc \in Unlinking /\ run[k].why = "upgrade"
  THEN Elements(LinkTargets(job[k].at, run[k].langs)) ELSE Elements(run[k].todo)

(* A handler's work: it stays with the libraries its instance reaches, ends  *)
(* when all are visited, and links a file only where it fits.                *)
WorkFits(k) ==
  /\ \A i \in Elements(run[k].todo) : Reaches(job[k].at, i)
  /\ run[k].pc = "finish" => run[k].todo = <<>>
  /\ job[k].op = "import" /\ run[k].pc \in Linking \cup Unlinking =>
       \A i \in Targets(k) : Fits(job[k].at, job[k].name, i)

(* The links that are there.                                                 *)
LinksFit ==
  \A i \in Instances, n \in Names :
    entry[i][n] # None => Reaches(entry[i][n], i) /\ Fits(entry[i][n], n, i)

(* Sonarr keeps one file of an episode.                                      *)
OneFile == \A i \in Instances : \A m, n \in DOMAIN stored[i] : Episode[m] = Episode[n] => m = n

(* The inductive invariant of the links.                                     *)
FitInv == LinksFit /\ OneFile /\ \A k \in Running : WorkFits(k)

(* The libraries an import links are those its file is for.                  *)
LEMMA TargetsFit ==
  ASSUME NEW o \in Instances, NEW langs \in SUBSET Languages, NEW i \in Elements(LinkTargets(o, langs))
  PROVE  Reaches(o, i) /\ \A n : Present(o, n) /\ Heard(o, n) = langs => For(o, n, i)
<1>1. /\ Speaking(langs) \in Seq(Instances)
      /\ Elements(Speaking(langs)) = Instances \cap {j \in Instances : Language[j] \in langs}
  BY EpisodeLibraryAssumption, FilterElements DEF Speaking, Instances
<1>2. Elements(Append(Speaking(langs), o)) = Elements(Speaking(langs)) \cup {o}
  BY <1>1, AppendElements
<1>3. Elements(<<o>>) = {o} /\ Elements(<<>>) = {}
  BY SingleDistinct DEF Elements
<1>4. CASE Language[o] \in langs /\ IsPrimary(o)
  BY <1>1, <1>4 DEF LinkTargets, Reaches, For
<1>5. CASE Language[o] \in langs /\ ~IsPrimary(o)
  BY <1>3, <1>5 DEF LinkTargets, Reaches, For
<1>6. CASE Language[o] \notin langs /\ IsPrimary(o)
  BY <1>1, <1>2, <1>6 DEF LinkTargets, Reaches, For
<1>7. CASE Language[o] \notin langs /\ ~IsPrimary(o)
  BY <1>3, <1>7 DEF LinkTargets
<1>8. QED
  BY <1>4, <1>5, <1>6, <1>7

(* An upgrade clears libraries its instance reaches.                         *)
LEMMA UpgradeReaches ==
  ASSUME NEW o \in Instances, NEW langs, NEW i \in Elements(UpgradeTargets(o, langs))
  PROVE  Reaches(o, i)
<1>1. Elements(<<o>>) = {o}
  BY SingleDistinct
<1>2. QED
  BY <1>1 DEF UpgradeTargets, Reaches

LEMMA NothingTodo == Elements(<<>>) = {}
BY DEF Elements

(* A removal that waits, waits on.                                           *)
LEMMA PendingStays ==
  ASSUME NEW o, NEW n, NEW i,
         \A d \in Jobs : /\ d \in Jobs' /\ job'[d].at = job[d].at /\ job'[d].op = job[d].op /\ job'[d].name = job[d].name
                         /\ job[d].state \in Waiting => job'[d].state \in Waiting
                         /\ d \in Running /\ i \in Elements(run[d].todo) /\ Removes(d, o, n) =>
                              job'[d].state \in Waiting \/ (d \in Running' /\ i \in Elements(run'[d].todo)),
         Pending(o, n, i)
  PROVE  Pending(o, n, i)'
<1>1. PICK d \in Jobs : /\ Removes(d, o, n)
                        /\ job[d].state \in Waiting \/ (d \in Running /\ i \in Elements(run[d].todo))
  BY DEF Pending
<1>2. Removes(d, o, n)'
  BY <1>1 DEF Removes
<1>3. QED
  BY <1>1, <1>2 DEF Pending

(* What Sonarr changes, it announces.                                        *)
LEMMA SonarrKeepsFits ==
  ASSUME EpisodeInv, UpgradeDeletes, OneFile,
         \/ \E i \in Instances, n \in Names : Delete(i, n) \/ \E a \in Audio[i][n] : Download(i, n, a)
         \/ \E i \in Instances : DeleteSeries(i, TRUE) \/ DeleteSeries(i, FALSE),
         NEW o \in Instances, NEW m \in Names, NEW lib, Fits(o, m, lib)
  PROVE  Fits(o, m, lib)'
<1>0. QueueOK /\ StorageOK
  BY DEF EpisodeInv
<1>1. CASE Pending(o, m, lib)
  <2>1. PICK hooks \in Seq(JobRecord) : Enqueue(hooks) /\ \A x \in 1 .. Len(hooks) : hooks[x].state = "queued"
    BY SonarrEnqueues
  <2>2. Jobs \subseteq Jobs' /\ Running' = Running /\ \A k \in Jobs : job'[k] = job[k] /\ run'[k] = run[k]
    BY <1>0, <2>1, EnqueueExtends
  <2>3. Pending(o, m, lib)'
    BY <1>1, <2>2, PendingStays
  <2>4. QED
    BY <2>3 DEF Fits
<1>2. CASE For(o, m, lib)
  <2>0. m \in DOMAIN stored[o]
    BY <1>2 DEF For, Present
  <2>1. ASSUME m \in DOMAIN stored'[o], stored'[o][m] = stored[o][m] PROVE Fits(o, m, lib)'
    BY <1>2, <2>1 DEF Fits, For, Present, Heard
  <2>2. ASSUME NEW hooks \in Seq(JobRecord), \A x \in 1 .. Len(hooks) : hooks[x].state = "queued", Enqueue(hooks),
               NEW x \in 1 .. Len(hooks), hooks[x].at = o,
               hooks[x].op = "seriesDelete" \/ (hooks[x].op = "delete" /\ hooks[x].name = m)
        PROVE  Fits(o, m, lib)'
    <3>1. Len(job) + x \in Jobs' /\ job'[Len(job) + x] = hooks[x]
      BY <1>0, <2>2, EnqueueExtends
    <3>2. Pending(o, m, lib)'
      BY <2>2, <3>1 DEF Pending, Removes, Waiting
    <3>3. QED
      BY <3>2 DEF Fits
  <2>3. ASSUME NEW hook \in JobRecord, hook.state = "queued", Enqueue(<<hook>>), hook.at = o,
               hook.op = "seriesDelete" \/ (hook.op = "delete" /\ hook.name = m)
        PROVE  Fits(o, m, lib)'
    <3>1. <<hook>> \in Seq(JobRecord) /\ 1 \in 1 .. Len(<<hook>>) /\ \A x \in 1 .. Len(<<hook>>) : <<hook>>[x] = hook
      BY <2>3
    <3>2. QED
      BY <2>2, <2>3, <3>1
  <2>4. ASSUME NEW i \in Instances, NEW n \in Names, Delete(i, n) PROVE Fits(o, m, lib)'
    <3>1. stored' = [stored EXCEPT ![i] = [f \in DOMAIN stored[i] \ {n} |-> stored[i][f]]]
          /\ Enqueue(<<Webhook("delete", i, n, FALSE)>>)
      BY <2>4 DEF Delete
    <3>2. CASE i = o /\ n = m
      <4>1. PICK hook : hook = Webhook("delete", i, n, FALSE)
        OBVIOUS
      <4>2. hook \in JobRecord /\ hook.state = "queued" /\ hook.at = o /\ hook.op = "delete" /\ hook.name = m
        BY <3>2, <4>1 DEF Webhook, JobRecord, Ops, States
      <4>3. QED
        BY <2>3, <3>1, <4>1, <4>2
    <3>3. CASE ~(i = o /\ n = m)
      BY <1>0, <2>0, <2>1, <3>1, <3>3 DEF StorageOK
    <3>4. QED
      BY <3>2, <3>3
  <2>5. ASSUME NEW i \in Instances, NEW n \in Names, NEW a \in Audio[i][n], Download(i, n, a) PROVE Fits(o, m, lib)'
    <3>1. CASE i = o /\ m \in Releases(i, Episode[n])
      <4>1. PICK hooks \in Seq(JobRecord) : /\ hooks = Hooks(i, n) /\ Enqueue(hooks)
                                            /\ \A x \in 1 .. Len(hooks) : hooks[x].state = "queued"
        BY <1>0, <2>5, HooksTyped, DownloadFacts
      <4>2. PICK x \in 1 .. Len(hooks) : /\ hooks[x].op = "delete" /\ hooks[x].at = i
                                         /\ hooks[x].name \in Releases(i, Episode[n])
        BY <1>0, <3>1, <4>1, HooksTyped
      <4>3. hooks[x].name = m
        BY <3>1, <4>2 DEF OneFile, Releases
      <4>4. QED
        BY <2>2, <3>1, <4>1, <4>2, <4>3
    <3>2. CASE i = o /\ m \notin Releases(i, Episode[n])
      <4>1. m # n
        BY <2>0, <3>2 DEF Releases
      <4>2. m \in DOMAIN stored'[o] /\ stored'[o][m] = stored[o][m]
        BY <2>0, <2>5, <3>2, <4>1, DownloadFacts
      <4>3. QED
        BY <2>1, <4>2
    <3>3. CASE i # o
      BY <2>0, <2>1, <2>5, <3>3, DownloadFacts
    <3>4. QED
      BY <3>1, <3>2, <3>3
  <2>6. ASSUME NEW i \in Instances, NEW files \in BOOLEAN, DeleteSeries(i, files) PROVE Fits(o, m, lib)'
    <3>1. /\ stored' = IF files THEN [stored EXCEPT ![i] = << >>] ELSE stored
          /\ Enqueue(<<Webhook(IF files THEN "seriesDelete" ELSE "recordDelete", i, None, FALSE)>>)
      BY <2>6 DEF DeleteSeries
    <3>2. CASE i = o /\ files
      <4>1. PICK hook : hook = Webhook("seriesDelete", i, None, FALSE)
        OBVIOUS
      <4>2. hook \in JobRecord /\ hook.state = "queued" /\ hook.at = o /\ hook.op = "seriesDelete"
        BY <3>2, <4>1 DEF Webhook, JobRecord, Ops, States
      <4>3. QED
        BY <2>3, <3>1, <3>2, <4>1, <4>2
    <3>3. CASE i # o \/ ~files
      BY <1>0, <2>0, <2>1, <3>1, <3>3 DEF StorageOK
    <3>4. QED
      BY <3>2, <3>3
  <2>7. QED
    BY <2>4, <2>5, <2>6
<1>3. QED
  BY <1>1, <1>2 DEF Fits

(* A download replaces the other file of its episode.                        *)
LEMMA SonarrKeepsOneFile ==
  ASSUME EpisodeInv, OneFile,
         \/ \E i \in Instances, n \in Names : Delete(i, n) \/ \E a \in Audio[i][n] : Download(i, n, a)
         \/ \E i \in Instances : DeleteSeries(i, TRUE) \/ DeleteSeries(i, FALSE)
  PROVE  OneFile'
<1>0. StorageOK
  BY DEF EpisodeInv
<1>1. ASSUME NEW i \in Instances, NEW n \in Names, NEW a \in Audio[i][n], Download(i, n, a) PROVE OneFile'
  BY <1>1, DownloadFacts DEF OneFile, Releases
<1>2. ASSUME NEW i \in Instances, NEW n \in Names, Delete(i, n) PROVE OneFile'
  BY <1>0, <1>2 DEF Delete, OneFile, StorageOK
<1>3. ASSUME NEW i \in Instances, NEW files \in BOOLEAN, DeleteSeries(i, files) PROVE OneFile'
  BY <1>0, <1>3 DEF DeleteSeries, OneFile, StorageOK
<1>4. QED
  BY <1>1, <1>2, <1>3

LEMMA ElementsTyped == ASSUME NEW X, NEW s \in Seq(X) PROVE Elements(s) \subseteq X
<1>1. \A x \in DOMAIN s : s[x] \in X
  BY ElementOfSeq, LenProperties
<1>2. QED
  BY <1>1 DEF Elements

LEMMA LinkTargetsTyped ==
  ASSUME NEW o \in Instances, NEW langs \in SUBSET Languages
  PROVE  LinkTargets(o, langs) \in Seq(Instances)
<1>1. Speaking(langs) \in Seq(Instances)
  BY EpisodeLibraryAssumption, FilterElements DEF Speaking
<1>2. Append(Speaking(langs), o) \in Seq(Instances) /\ <<o>> \in Seq(Instances) /\ <<>> \in Seq(Instances)
  BY <1>1, AppendElements, SingleDistinct, EmptySeq
<1>3. QED
  BY <1>1, <1>2 DEF LinkTargets

(* An import links only libraries its instance reaches.                      *)
LEMMA TargetsReached ==
  ASSUME EpisodeInv, NEW k \in Running, WorkFits(k), NEW i \in Targets(k)
  PROVE  Reaches(job[k].at, i) /\ i \in Instances
<1>1. job[k].at \in Instances /\ run[k].langs \in SUBSET Languages /\ run[k].todo \in Seq(Instances)
  BY HandlerTyped
<1>2. CASE i \in Elements(LinkTargets(job[k].at, run[k].langs))
  BY <1>1, <1>2, TargetsFit, LinkTargetsTyped, ElementsTyped
<1>3. CASE i \in Elements(run[k].todo)
  BY <1>1, <1>3, ElementsTyped DEF WorkFits
<1>4. QED
  BY <1>2, <1>3 DEF Targets

(* If fits stay, links fit and the work of an untouched handler does.        *)
LEMMA LinksStayFit ==
  ASSUME EpisodeInv, LinksFit, entry' = entry,
         \A o, i \in Instances, n \in Names : Reaches(o, i) /\ Fits(o, n, i) => Fits(o, n, i)'
  PROVE  LinksFit'
<1>1. \A i \in Instances, n \in Names : entry[i][n] # None => entry[i][n] \in Instances
  BY DEF EpisodeInv, LibraryOK
<1>2. QED
  BY <1>1 DEF LinksFit, Reaches

LEMMA WorkStaysFit ==
  ASSUME EpisodeInv, NEW k \in Running, WorkFits(k), job'[k] = job[k], run'[k] = run[k],
         \A o, i \in Instances, n \in Names : Reaches(o, i) /\ Fits(o, n, i) => Fits(o, n, i)'
  PROVE  WorkFits(k)'
<1>1. Targets(k)' = Targets(k)
  BY DEF Targets
<1>2. ASSUME job[k].op = "import", run[k].pc \in Linking \cup Unlinking, NEW i \in Targets(k)
      PROVE  Fits(job[k].at, job[k].name, i)'
  <2>1. Reaches(job[k].at, i) /\ i \in Instances /\ job[k].at \in Instances /\ job[k].name \in Names
    BY <1>2, TargetsReached, HandlerTyped
  <2>2. PICK o \in Instances, n \in Names : o = job[k].at /\ n = job[k].name
    BY <2>1
  <2>3. Fits(o, n, i)
    BY <1>2, <2>2 DEF WorkFits
  <2>4. Fits(o, n, i)'
    BY <2>1, <2>2, <2>3
  <2>5. job'[k].at = o /\ job'[k].name = n
    BY <2>2
  <2>6. QED
    BY <2>2, <2>4
<1>3. QED
  BY <1>1, <1>2 DEF WorkFits, Reaches

(* A claimed delete visits every library its instance reaches.               *)
LEMMA ClaimKeepsFits ==
  ASSUME EpisodeInv, NEW j \in Jobs, Claim(j),
         NEW o \in Instances, NEW i \in Instances, NEW n \in Names, Reaches(o, i), Fits(o, n, i)
  PROVE  Fits(o, n, i)'
<1>0. QueueOK /\ stored' = stored
  BY DEF EpisodeInv, Claim
<1>1. CASE For(o, n, i)
  BY <1>0, <1>1 DEF Fits, For, Present, Heard
<1>2. CASE Pending(o, n, i)
  <2>1. /\ Local(j) /\ Running' = Running \cup {j} /\ job[j].state = "queued"
        /\ run'[j].todo = IF job[j].op \in {"import", "recordDelete"} THEN <<>>
                          ELSE IF IsPrimary(job[j].at) THEN Config ELSE <<job[j].at>>
    BY <1>0, ClaimFacts, ClaimKeepsQueue
  <2>2. PICK d \in Jobs : /\ Removes(d, o, n)
                          /\ job[d].state \in Waiting \/ (d \in Running /\ i \in Elements(run[d].todo))
    BY <1>2 DEF Pending
  <2>3. Removes(d, o, n)' /\ d \in Jobs'
    BY <2>1, <2>2 DEF Removes, Local, SameHooks
  <2>4. CASE d = j
    <3>1. job[j].op \notin {"import", "recordDelete"} /\ job[j].at = o
      BY <2>2, <2>4 DEF Removes
    <3>2. i \in Elements(Config) /\ Elements(<<o>>) = {o}
      BY SingleDistinct DEF Instances
    <3>3. i \in Elements(run'[j].todo)
      BY <2>1, <3>1, <3>2 DEF Reaches
    <3>4. QED
      BY <2>1, <2>3, <2>4, <3>3 DEF Fits, Pending
  <2>5. CASE d # j
    BY <2>1, <2>2, <2>3, <2>5 DEF Fits, Pending, Local
  <2>6. QED
    BY <2>4, <2>5
<1>3. QED
  BY <1>1, <1>2 DEF Fits

LEMMA ClaimFits ==
  ASSUME EpisodeInv, NEW j \in Jobs, Claim(j)
  PROVE  WorkFits(j)'
<1>0. QueueOK
  BY DEF EpisodeInv
<1>1. /\ Local(j)
      /\ run'[j].pc = CASE job[j].op = "import" -> "detect" [] job[j].op = "delete" -> "check"
                        [] job[j].op = "seriesDelete" -> "clear" [] OTHER -> "finish"
      /\ run'[j].todo = IF job[j].op \in {"import", "recordDelete"} THEN <<>>
                        ELSE IF IsPrimary(job[j].at) THEN Config ELSE <<job[j].at>>
  BY <1>0, ClaimFacts
<1>2. job[j].op \in Ops /\ job'[j].op = job[j].op /\ job'[j].at = job[j].at
  BY <1>0, <1>1, JobTyped DEF JobRecord, Local, SameHooks
<1>3. run'[j].pc = "finish" => run'[j].todo = <<>>
  BY <1>1, <1>2 DEF Ops
<1>4. job[j].op = "import" => run'[j].pc \notin Linking \cup Unlinking
  BY <1>1 DEF Linking, Unlinking
<1>5. \A i \in Elements(run'[j].todo) : Reaches(job[j].at, i)
  <2>1. Elements(<<>>) = {} /\ Elements(<<job[j].at>>) = {job[j].at}
    BY NothingTodo, SingleDistinct
  <2>2. QED
    BY <1>1, <2>1 DEF Reaches
<1>6. QED
  BY <1>2, <1>3, <1>4, <1>5 DEF WorkFits, Reaches

(* A delete that crashed, or is retried, begins anew.                        *)
LEMMA CrashKeepsFits ==
  ASSUME EpisodeInv, Crash, NEW o, NEW n, NEW i, Fits(o, n, i)
  PROVE  Fits(o, n, i)'
<1>0. QueueOK /\ stored' = stored
  BY DEF EpisodeInv, Crash
<1>1. CASE For(o, n, i)
  BY <1>0, <1>1 DEF Fits, For, Present, Heard
<1>2. CASE Pending(o, n, i)
  <2>1. /\ SameHooks /\ Running' = {}
        /\ \A k \in Jobs : job'[k].state = IF k \in Running THEN "orphaned" ELSE job[k].state
    BY <1>0, CrashFacts
  <2>2. PICK d \in Jobs : /\ Removes(d, o, n)
                          /\ job[d].state \in Waiting \/ (d \in Running /\ i \in Elements(run[d].todo))
    BY <1>2 DEF Pending
  <2>3. Removes(d, o, n)' /\ d \in Jobs' /\ job'[d].state \in Waiting
    BY <2>1, <2>2 DEF Removes, SameHooks, Waiting
  <2>4. QED
    BY <2>3 DEF Fits, Pending
<1>3. QED
  BY <1>1, <1>2 DEF Fits

LEMMA RequeueKeepsFits ==
  ASSUME EpisodeInv, NEW j \in Jobs, BackoffOver(j) \/ Sweep(j), NEW o, NEW n, NEW i, Fits(o, n, i)
  PROVE  Fits(o, n, i)'
<1>0. QueueOK /\ stored' = stored
  BY DEF EpisodeInv, BackoffOver, Sweep
<1>1. CASE For(o, n, i)
  BY <1>0, <1>1 DEF Fits, For, Present, Heard
<1>2. CASE Pending(o, n, i)
  <2>1. Local(j) /\ job'[j].state = "queued" /\ run' = run /\ Running' = Running /\ j \notin Running
    BY <1>0, RequeueFacts
  <2>2. Pending(o, n, i)'
    BY <1>2, <2>1, PendingStays DEF Local, SameHooks, Waiting
  <2>3. QED
    BY <2>2 DEF Fits
<1>3. QED
  BY <1>1, <1>2 DEF Fits

(* So Sonarr and the queue keep the links fitting.                           *)
LEMMA OthersKeepFit ==
  ASSUME Concurrency = 1, UpgradeDeletes, EpisodeInv, FitInv, [Next]_vars, ~ \E k \in Jobs : Handler(k)
  PROVE  FitInv'
<1>0. QueueOK /\ LinksFit /\ OneFile /\ \A k \in Running : WorkFits(k)
  BY DEF EpisodeInv, FitInv
<1>1. CASE UNCHANGED vars
  <2>1. stored' = stored /\ entry' = entry /\ job' = job /\ run' = run
    BY <1>1 DEF vars, libraries
  <2>2. Jobs' = Jobs /\ Running' = Running
    BY <2>1 DEF Jobs, Running
  <2>3. \A o, i \in Instances, n \in Names : Reaches(o, i) /\ Fits(o, n, i) => Fits(o, n, i)'
    BY <2>1, <2>2 DEF Fits, For, Present, Heard, Pending, Removes
  <2>4. QED
    BY <1>0, <2>1, <2>2, <2>3, LinksStayFit, WorkStaysFit DEF FitInv, OneFile
<1>2. CASE \/ \E i \in Instances, n \in Names : Delete(i, n) \/ \E a \in Audio[i][n] : Download(i, n, a)
           \/ \E i \in Instances : DeleteSeries(i, TRUE) \/ DeleteSeries(i, FALSE)
  <2>1. \A o, i \in Instances, n \in Names : Reaches(o, i) /\ Fits(o, n, i) => Fits(o, n, i)'
    BY <1>0, <1>2, SonarrKeepsFits
  <2>2. PICK hooks \in Seq(JobRecord) : Enqueue(hooks) /\ \A x \in 1 .. Len(hooks) : hooks[x].state = "queued"
    BY <1>2, SonarrEnqueues
  <2>3. Running' = Running /\ \A k \in Running : job'[k] = job[k] /\ run'[k] = run[k]
    BY <1>0, <2>2, EnqueueExtends DEF Running
  <2>4. entry' = entry
    BY <1>0, <1>1, OtherSteps DEF Same
  <2>5. OneFile'
    BY <1>0, <1>2, SonarrKeepsOneFile
  <2>6. LinksFit'
    BY <1>0, <2>1, <2>4, LinksStayFit
  <2>7. \A k \in Running' : WorkFits(k)'
    BY <1>0, <2>1, <2>3, WorkStaysFit
  <2>8. QED
    BY <2>5, <2>6, <2>7 DEF FitInv
<1>3. ASSUME NEW j \in Jobs, Claim(j) PROVE FitInv'
  <2>1. \A o, i \in Instances, n \in Names : Reaches(o, i) /\ Fits(o, n, i) => Fits(o, n, i)'
    BY <1>3, ClaimKeepsFits
  <2>2. LinksFit' /\ OneFile'
    <3>1. entry' = entry /\ stored' = stored
      BY <1>3 DEF Claim, libraries
    <3>2. QED
      BY <1>0, <2>1, <3>1, LinksStayFit DEF OneFile
  <2>3. Running' \subseteq {j}
    <3>1. QueueOK' /\ j \in Running'
      BY <1>0, <1>3, ClaimKeepsQueue
    <3>2. \A k \in Running' : k = j
      <4>1. ASSUME NEW k \in Running, k # j PROVE FALSE
        <5>1. Cardinality(Running) < 1 /\ IsFiniteSet(Running)
          BY <1>0, <1>3, RunningIsFinite DEF Claim
        <5>2. Cardinality(Running) \in Nat /\ (Cardinality(Running) = 0 <=> Running = {})
          BY <5>1, FS_CardinalityType, FS_EmptySet
        <5>3. QED
          BY <4>1, <5>1, <5>2
      <4>2. Running' = Running \cup {j}
        BY <1>0, <1>3, ClaimKeepsQueue
      <4>3. QED
        BY <4>1, <4>2
    <3>3. QED
      BY <3>2
  <2>4. QED
    BY <1>3, <2>2, <2>3, ClaimFits DEF FitInv
<1>4. ASSUME NEW j \in Jobs, BackoffOver(j) \/ Sweep(j) PROVE FitInv'
  <2>1. \A o, i \in Instances, n \in Names : Reaches(o, i) /\ Fits(o, n, i) => Fits(o, n, i)'
    BY <1>4, RequeueKeepsFits
  <2>2. entry' = entry /\ stored' = stored /\ run' = run
    BY <1>4 DEF BackoffOver, Sweep, libraries
  <2>3. Running' = Running /\ \A k \in Running : job'[k] = job[k]
    BY <1>0, <1>4, RequeueFacts DEF Local, Running
  <2>4. QED
    BY <1>0, <2>1, <2>2, <2>3, LinksStayFit, WorkStaysFit DEF FitInv, OneFile
<1>5. CASE Crash
  <2>1. \A o, i \in Instances, n \in Names : Reaches(o, i) /\ Fits(o, n, i) => Fits(o, n, i)'
    BY <1>5, CrashKeepsFits
  <2>2. entry' = entry /\ stored' = stored
    BY <1>5 DEF Crash, libraries
  <2>3. Running' = {}
    BY <1>0, <1>5, CrashFacts
  <2>4. QED
    BY <1>0, <2>1, <2>2, <2>3, LinksStayFit DEF FitInv, OneFile
<1>6. QED
  BY <1>1, <1>2, <1>3, <1>4, <1>5 DEF Next

(* A handler's step keeps what fits, but for what its own job has yet to do. *)
LEMMA HandlerKeepsFits ==
  ASSUME NEW k \in Running, Local(k), stored' = stored, NEW o, NEW n, NEW i, Fits(o, n, i),
         Removes(k, o, n) /\ i \in Elements(run[k].todo) =>
           job'[k].state \in Waiting \/ (k \in Running' /\ i \in Elements(run'[k].todo))
  PROVE  Fits(o, n, i)'
<1>1. CASE For(o, n, i)
  BY <1>1 DEF Fits, For, Present, Heard
<1>2. CASE Pending(o, n, i)
  <2>1. k \in Jobs /\ job[k].state \notin Waiting
    BY DEF Running, Waiting
  <2>2. Pending(o, n, i)'
    BY <1>2, <2>1, PendingStays DEF Local, SameHooks, Running
  <2>3. QED
    BY <2>2 DEF Fits
<1>3. QED
  BY <1>1, <1>2 DEF Fits

(* Links that only go, unless their delete has passed.                       *)
LEMMA LinksKeepFit ==
  ASSUME EpisodeInv, NEW k \in Running, Local(k), stored' = stored, LinksFit,
         \A i \in Instances, n \in Names : entry'[i][n] \in {None, entry[i][n]},
         \A i \in Instances, n \in Names :
           entry'[i][n] # None /\ Removes(k, entry[i][n], n) /\ i \in Elements(run[k].todo) =>
             job'[k].state \in Waiting \/ (k \in Running' /\ i \in Elements(run'[k].todo))
  PROVE  LinksFit'
<1>1. ASSUME NEW i \in Instances, NEW n \in Names, entry'[i][n] # None
      PROVE  (Reaches(entry[i][n], i) /\ Fits(entry[i][n], n, i))'
  <2>1. PICK o : o = entry[i][n]
    OBVIOUS
  <2>2. PICK p : p = entry'[i][n]
    OBVIOUS
  <2>6. p = o /\ o # None
    BY <1>1, <2>1, <2>2
  <2>3. Reaches(o, i) /\ Fits(o, n, i)
    BY <2>1, <2>6 DEF LinksFit
  <2>4. Fits(o, n, i)'
    BY <1>1, <2>1, <2>2, <2>6, <2>3, HandlerKeepsFits
  <2>5. QED
    BY <2>2, <2>6, <2>3, <2>4 DEF Reaches, IsPrimary
<1>2. QED
  BY <1>1 DEF LinksFit

(* The work of an import, after each of its calls.                           *)
LEMMA ImportWorkFits ==
  ASSUME EpisodeInv, NEW k \in Jobs, k \in Running => WorkFits(k), Handler(k), job[k].op = "import"
  PROVE  /\ k \in Running /\ Local(k) /\ stored' = stored
         /\ \A i \in Elements(run'[k].todo) : Reaches(job[k].at, i)
         /\ run'[k].pc = "finish" => run'[k].todo = <<>>
         /\ run'[k].pc \in Linking \cup Unlinking =>
              \A i \in Targets(k)' : Fits(job[k].at, job[k].name, i)
<1>0. k \in Running /\ stored' = stored /\ WorkFits(k) /\ Elements(<<>>) = {}
  BY NothingTodo DEF Handler, At, Detect, DetectFails, Stat, Remove, Prune, Find, Judge,
     Prepare, Probe, Create, Finish, Check, Clear
<1>1. job[k].at \in Instances /\ run[k].langs \in SUBSET Languages /\ HandlerOK(job[k], "running", run[k])
  BY <1>0, HandlerTyped
<1> DEFINE Fine == /\ \A i \in Elements(run'[k].todo) : Reaches(job[k].at, i)
                   /\ run'[k].pc = "finish" => run'[k].todo = <<>>
                   /\ run'[k].pc \in Linking \cup Unlinking =>
                        \A i \in Targets(k)' : Fits(job[k].at, job[k].name, i)
<1>2. ASSUME NEW s, Ends(k, s) PROVE Fine
  BY <1>0, <1>2 DEF Ends, Idle, Linking, Unlinking
<1>3. ASSUME NEW f, Moves(k, f), run[k].pc \in Linking \cup Unlinking, ~(run[k].pc \in Unlinking /\ run[k].why = "upgrade")
      PROVE  Fine
  <2>1. Elements(run'[k].todo) \subseteq Elements(run[k].todo)
    BY <1>0, <1>3, HandlerTyped DEF Moves
  <2>2. Targets(k) = Elements(run[k].todo) /\ Targets(k)' = Elements(run'[k].todo)
    BY <1>3 DEF Targets, Moves, Unlinking
  <2>3. QED
    BY <1>0, <1>3, <2>1, <2>2 DEF Moves, WorkFits
<1>4. ASSUME run'[k].todo = run[k].todo, run'[k].pc \in Linking \cup Unlinking,
             run'[k].pc \in Unlinking => run'[k].why # "upgrade",
             run[k].pc \in Linking \cup Unlinking, ~(run[k].pc \in Unlinking /\ run[k].why = "upgrade")
      PROVE  Fine
  <2>1. Targets(k) = Elements(run[k].todo) /\ Targets(k)' = Elements(run[k].todo)
    BY <1>4 DEF Targets
  <2>2. QED
    BY <1>0, <1>4, <2>1 DEF WorkFits, Linking, Unlinking
<1>5. ASSUME NEW pc \in Linking, Goes(k, pc), run[k].pc \in Linking PROVE Fine
  BY <1>4, <1>5 DEF Goes, Linking, Unlinking
<1>6. ASSUME NEW pc \in Unlinking, Goes(k, pc), run[k].pc \in Unlinking PROVE Fine
  <2>1. Targets(k)' = Targets(k)
    BY <1>6 DEF Goes, Targets, Local, SameHooks
  <2>2. QED
    BY <1>0, <1>6, <2>1 DEF Goes, WorkFits, Linking, Unlinking
<1>7. ASSUME NEW langs \in SUBSET Languages, Begins(k, langs),
             \A i \in Elements(LinkTargets(job[k].at, langs)) : Fits(job[k].at, job[k].name, i)
      PROVE  Fine
  <2>1. Targets(k)' = Elements(LinkTargets(job[k].at, langs))
    BY <1>7 DEF Begins, Targets, Unlinking
  <2>2. \A i \in Elements(LinkTargets(job[k].at, langs)) : Reaches(job[k].at, i)
    BY <1>1, TargetsFit
  <2>3. QED
    BY <1>7, <2>1, <2>2 DEF Begins
<1>8. ASSUME Leaves(k), run[k].pc \in Unlinking PROVE Fine
  <2>1. CASE run[k].why = "evict" /\ run'[k].pc = "prepare" /\ run'[k].todo = run[k].todo
    BY <1>4, <1>8, <2>1 DEF Linking, Unlinking
  <2>2. CASE /\ run[k].why = "upgrade" /\ job' = job /\ run'[k].pc = "stat" /\ run'[k].todo = Tail(run[k].todo)
             /\ run'[k].why = "upgrade" /\ run'[k].langs = run[k].langs
    <3>1. Targets(k)' = Targets(k)
      BY <1>8, <2>2 DEF Targets, Unlinking
    <3>2. Elements(run'[k].todo) \subseteq Elements(run[k].todo)
      BY <1>0, <1>8, <2>2, HandlerTyped
    <3>3. QED
      BY <1>0, <1>8, <2>2, <3>1, <3>2 DEF WorkFits, Linking, Unlinking
  <2>3. CASE run[k].why = "upgrade" /\ Begins(k, run[k].langs)
    <3>1. \A i \in Elements(LinkTargets(job[k].at, run[k].langs)) : Fits(job[k].at, job[k].name, i)
      BY <1>0, <1>8, <2>3 DEF WorkFits, Targets
    <3>2. QED
      BY <1>1, <1>7, <2>3, <3>1
  <2>4. QED
    BY <1>8, <2>1, <2>2, <2>3 DEF Leaves
<1>9. CASE Detect(k) \/ DetectFails(k)
  <2>1. CASE Ends(k, "failed")
    BY <1>0, <1>2, <1>9, <2>1, DetectEffect
  <2>2. CASE Present(job[k].at, job[k].name) /\ Heard(job[k].at, job[k].name) \in SUBSET Languages
    <3>1. PICK langs \in SUBSET Languages : langs = Heard(job[k].at, job[k].name)
      BY <2>2
    <3>2. \A i \in Elements(LinkTargets(job[k].at, langs)) : Fits(job[k].at, job[k].name, i)
      BY <1>1, <2>2, <3>1, TargetsFit DEF Fits
    <3>3. CASE Begins(k, langs)
      BY <1>0, <1>7, <1>9, <3>2, <3>3, DetectEffect
    <3>4. CASE /\ job' = job /\ run'[k].pc = "stat" /\ run'[k].why = "upgrade" /\ run'[k].langs = langs
               /\ run'[k].todo = UpgradeTargets(job[k].at, langs)
      <4>1. Targets(k)' = Elements(LinkTargets(job[k].at, langs))
        BY <3>4 DEF Targets, Unlinking
      <4>2. \A i \in Elements(run'[k].todo) : Reaches(job[k].at, i)
        BY <1>1, <3>4, UpgradeReaches
      <4>3. Fine
        BY <3>2, <3>4, <4>1, <4>2
      <4>4. QED
        BY <1>0, <1>9, <4>3, DetectEffect
    <3>5. QED
      BY <1>9, <3>1, <3>3, <3>4, <1>2, <1>0, DetectEffect
  <2>3. QED
    BY <1>9, <2>1, <2>2, DetectEffect
<1>10. CASE Stat(k) \/ Prune(k)
  <2>1. Fine
    BY <1>6, <1>8, <1>10, StatEffect, PruneEffect DEF Unlinking
  <2>2. QED
    BY <1>0, <1>10, <2>1, StatEffect, PruneEffect
<1>11. CASE Remove(k)
  <2>1. Fine
    BY <1>2, <1>3, <1>6, <1>11, RemoveEffect DEF Unlinking
  <2>2. QED
    BY <1>0, <1>11, <2>1, RemoveEffect
<1>12. CASE Find(k)
  <2>1. Fine
    BY <1>4, <1>5, <1>12, FindEffect DEF Linking, Unlinking
  <2>2. QED
    BY <1>0, <1>12, <2>1, FindEffect
<1>13. CASE Judge(k)
  <2>1. Fine
    BY <1>3, <1>4, <1>5, <1>13, JudgeEffect DEF Linking, Unlinking
  <2>2. QED
    BY <1>0, <1>13, <2>1, JudgeEffect
<1>14. CASE Prepare(k)
  <2>1. Fine
    BY <1>3, <1>5, <1>14, PrepareEffect DEF Linking, Unlinking
  <2>2. QED
    BY <1>0, <1>14, <2>1, PrepareEffect
<1>15. CASE Probe(k)
  <2>1. Fine
    BY <1>3, <1>5, <1>15, ProbeEffect DEF Linking, Unlinking
  <2>2. QED
    BY <1>0, <1>15, <2>1, ProbeEffect
<1>16. CASE Create(k)
  <2>1. Fine
    BY <1>3, <1>16, CreateEffect DEF Linking, Unlinking
  <2>2. QED
    BY <1>0, <1>16, <2>1, CreateEffect
<1>17. CASE Finish(k)
  <2>1. Fine
    BY <1>2, <1>17, FinishEffect
  <2>2. QED
    BY <1>0, <1>17, <2>1, FinishEffect
<1>18. QED
  BY <1>9, <1>10, <1>11, <1>12, <1>13, <1>14, <1>15, <1>16, <1>17, CheckEffect, ClearEffect DEF Handler

(* An import makes links that fit.                                           *)
LEMMA ImportKeepsFit ==
  ASSUME EpisodeInv, NEW k \in Jobs, Handler(k), job[k].op = "import", LinksFit, k \in Running => WorkFits(k)
  PROVE  k \in Running /\ Local(k) /\ WorkFits(k)' /\ LinksFit'
<1>0. /\ k \in Running /\ Local(k) /\ stored' = stored /\ WorkFits(k) /\ QueueOK
      /\ job'[k].op = job[k].op /\ job'[k].at = job[k].at /\ job'[k].name = job[k].name
  BY ImportWorkFits DEF Local, SameHooks, EpisodeInv
<1>1. job[k].at \in Instances /\ job[k].name \in Names
  BY <1>0, HandlerTyped
<1>2. ASSUME NEW o, NEW n, NEW i, Fits(o, n, i) PROVE Fits(o, n, i)'
  <2>1. ~Removes(k, o, n)
    BY DEF Removes
  <2>2. QED
    BY <1>0, <1>2, <2>1, HandlerKeepsFits
<1>3. WorkFits(k)'
  <2>1. /\ \A i \in Elements(run'[k].todo) : Reaches(job[k].at, i)
        /\ run'[k].pc = "finish" => run'[k].todo = <<>>
    BY ImportWorkFits
  <2>2. ASSUME run'[k].pc \in Linking \cup Unlinking, NEW i, i \in Targets(k)'
        PROVE  Fits(job[k].at, job[k].name, i)'
    <3>1. PICK o, n : o = job[k].at /\ n = job[k].name
      OBVIOUS
    <3>2. Fits(o, n, i)
      BY <2>2, <3>1, ImportWorkFits
    <3>3. Fits(o, n, i)'
      BY <1>2, <3>2
    <3>4. QED
      BY <1>0, <3>1, <3>3
  <2>3. QED
    BY <1>0, <2>1, <2>2 DEF WorkFits, Reaches
<1>4. LinksFit'
  <2>1. CASE \A i \in Instances, n \in Names : entry'[i][n] \in {None, entry[i][n]}
    <3>1. \A o, n : ~Removes(k, o, n)
      BY DEF Removes
    <3>2. QED
      BY <1>0, <2>1, <3>1, LinksKeepFit
  <2>2. CASE Create(k) /\ entry' = [entry EXCEPT ![Here(k)][job[k].name] = job[k].at]
    <3>1. run[k].pc = "create"
      BY <2>2, CreateEffect
    <3>2. PICK lib \in Instances, n \in Names, o \in Instances : lib = Here(k) /\ n = job[k].name /\ o = job[k].at
      BY <1>0, <1>1, <3>1, HandlerTyped DEF Linking
    <3>3. lib \in Elements(run[k].todo)
      BY <1>0, <3>1, <3>2, HandlerTyped DEF Linking
    <3>4. Reaches(o, lib) /\ Fits(o, n, lib)
      BY <1>0, <3>1, <3>2, <3>3 DEF WorkFits, Targets, Linking, Unlinking
    <3>5. Fits(o, n, lib)'
      BY <1>2, <3>4
    <3>6. entry' = [entry EXCEPT ![lib][n] = o]
      BY <2>2, <3>2
    <3>7. ASSUME NEW i \in Instances, NEW m \in Names, entry'[i][m] # None
          PROVE  (Reaches(entry[i][m], i) /\ Fits(entry[i][m], m, i))'
      <4>1. PICK p : p = entry'[i][m]
        OBVIOUS
      <4>2. CASE i = lib /\ m = n
        <5>1. p = o
          BY <3>6, <4>1, <4>2 DEF EpisodeInv, LibraryOK
        <5>2. QED
          BY <3>4, <3>5, <4>1, <4>2, <5>1 DEF Reaches, IsPrimary
      <4>3. CASE ~(i = lib /\ m = n)
        <5>1. p = entry[i][m] /\ p # None
          BY <3>6, <3>7, <4>1, <4>3 DEF EpisodeInv, LibraryOK
        <5>2. Reaches(p, i) /\ Fits(p, m, i)
          BY <5>1 DEF LinksFit
        <5>3. Fits(p, m, i)'
          BY <1>2, <5>2
        <5>4. QED
          BY <4>1, <5>2, <5>3 DEF Reaches, IsPrimary
      <4>4. QED
        BY <4>2, <4>3
    <3>8. QED
      BY <3>7 DEF LinksFit
  <2>3. CASE Remove(k)
    <3>1. run[k].pc = "remove" /\ (entry' = entry \/ entry' = [entry EXCEPT ![Here(k)][run[k].victim] = None])
      BY <2>3, RemoveEffect
    <3>2. Here(k) \in Instances /\ run[k].victim \in Names
      BY <1>0, <3>1, HandlerTyped DEF HandlerOK, Unlinking
    <3>3. \A i \in Instances, n \in Names : entry'[i][n] \in {None, entry[i][n]}
      BY <3>1, <3>2 DEF EpisodeInv, LibraryOK
    <3>4. QED
      BY <2>1, <3>3
  <2>4. CASE entry' = entry
    BY <2>1, <2>4
  <2>5. QED
    BY <2>2, <2>3, <2>4, DetectEffect, StatEffect, PruneEffect, FindEffect, JudgeEffect, PrepareEffect,
       ProbeEffect, CreateEffect, FinishEffect, CheckEffect, ClearEffect DEF Handler, Same
<1>5. QED
  BY <1>0, <1>3, <1>4

(* A delete goes through its libraries, and leaves each without what it      *)
(* removes.                                                                  *)
LEMMA DeleteSteps ==
  ASSUME EpisodeInv, NEW k \in Jobs, Handler(k), job[k].op # "import", k \in Running => SerialOK(k) /\ WorkFits(k)
  PROVE  /\ k \in Running /\ Local(k) /\ stored' = stored
         /\ \A i \in Instances, n \in Names : entry'[i][n] \in {None, entry[i][n]}
         /\ \/ job'[k].state = "running" /\ run'[k].todo = run[k].todo /\ run'[k].pc # "finish"
            \/ /\ \/ /\ job'[k].state = "running" /\ run'[k].todo = Tail(run[k].todo)
                     /\ run'[k].pc = "finish" => run'[k].todo = <<>>
                  \/ Tail(run[k].todo) = <<>> /\ run'[k].todo = <<>> /\ run'[k].pc = "idle"
               /\ run[k].pc \in Unlinking \cup {"check", "clear"}
               /\ \A n \in Names : Removes(k, job[k].at, n) => entry'[Here(k)][n] # job[k].at
            \/ run[k].todo = <<>> /\ run'[k].todo = <<>> /\ run'[k].pc = "idle"
<1>0. k \in Running /\ QueueOK /\ SerialOK(k) /\ WorkFits(k)
  BY DEF Handler, At, EpisodeInv, Detect, DetectFails, Stat, Remove, Prune, Find, Judge,
     Prepare, Probe, Create, Finish, Check, Clear
<1>1. /\ job[k].at \in Instances /\ HandlerOK(job[k], "running", run[k]) /\ job[k].state = "running"
      /\ run[k].pc \in Unlinking \cup {"check", "clear"} => Here(k) \in Instances
      /\ None \notin Instances
  BY <1>0, HandlerTyped, EpisodeLibraryAssumption
<1>2. entry' = entry => \A i \in Instances, n \in Names : entry'[i][n] \in {None, entry[i][n]}
  OBVIOUS
<1>3. stored' = stored
  BY DEF Handler, Detect, DetectFails, Stat, Remove, Prune, Find, Judge,
     Prepare, Probe, Create, Finish, Check, Clear
<1>4. \A n \in Names : Removes(k, job[k].at, n) => job[k].op = "seriesDelete" \/ (job[k].op = "delete" /\ job[k].name = n)
  BY DEF Removes
<1>5. ASSUME Leaves(k), Local(k), entry' = entry, run[k].pc \in Unlinking \cup {"check"}, job[k].op = "delete",
             entry[Here(k)][job[k].name] # job[k].at
      PROVE  /\ \/ job'[k].state = "running" /\ run'[k].todo = Tail(run[k].todo) /\ run'[k].pc # "finish"
                \/ Tail(run[k].todo) = <<>> /\ run'[k].todo = <<>> /\ run'[k].pc = "idle"
             /\ \A n \in Names : Removes(k, job[k].at, n) => entry'[Here(k)][n] # job[k].at
  BY <1>1, <1>4, <1>5 DEF Leaves, Ends, Idle
<1>6. run[k].pc \in Unlinking => job[k].op = "delete" /\ run[k].victim = job[k].name
  BY <1>1 DEF HandlerOK
<1>7. CASE Stat(k)
  <2>1. Local(k) /\ Same /\ run[k].pc = "stat"
    BY <1>7, StatEffect
  <2>2. CASE entry[Here(k)][run[k].victim] = None /\ Leaves(k)
    BY <1>0, <1>1, <1>2, <1>3, <1>5, <1>6, <2>1, <2>2 DEF Same, Unlinking
  <2>3. CASE Goes(k, "remove")
    BY <1>0, <1>1, <1>2, <1>3, <2>1, <2>3 DEF Same, Goes
  <2>4. QED
    BY <1>7, <2>2, <2>3, StatEffect
<1>8. CASE Remove(k)
  <2>1. /\ Local(k) /\ run[k].pc = "remove" /\ Goes(k, "prune")
        /\ entry' = [entry EXCEPT ![Here(k)][run[k].victim] = None]
    BY <1>0, <1>8, RemoveEffect DEF SerialOK
  <2>2. Here(k) \in Instances /\ run[k].victim \in Names
    BY <1>1, <2>1 DEF HandlerOK, Unlinking
  <2>3. \A i \in Instances, n \in Names : entry'[i][n] \in {None, entry[i][n]}
    BY <2>1, <2>2 DEF EpisodeInv, LibraryOK
  <2>4. QED
    BY <1>0, <1>1, <1>3, <2>1, <2>3 DEF Goes
<1>9. CASE Prune(k)
  <2>1. Local(k) /\ entry' = entry /\ run[k].pc = "prune" /\ Leaves(k)
    BY <1>9, PruneEffect
  <2>2. entry[Here(k)][run[k].victim] = None
    BY <1>0, <2>1 DEF SerialOK
  <2>3. QED
    BY <1>0, <1>1, <1>2, <1>3, <1>5, <1>6, <2>1, <2>2 DEF Unlinking
<1>10. CASE Check(k)
  <2>1. Local(k) /\ Same /\ run[k].pc = "check" /\ job[k].op = "delete"
    BY <1>10, CheckEffect
  <2>2. CASE ~MayRemove(job[k].at, Here(k), entry[Here(k)][job[k].name]) /\ Leaves(k)
    <3>1. entry[Here(k)][job[k].name] # job[k].at
      BY <2>2 DEF MayRemove
    <3>2. QED
      BY <1>0, <1>1, <1>2, <1>3, <1>5, <2>1, <2>2, <3>1 DEF Same
  <2>3. CASE job' = job /\ run'[k].pc = "stat" /\ run'[k].todo = run[k].todo
    BY <1>0, <1>1, <1>2, <1>3, <2>1, <2>3 DEF Same
  <2>4. QED
    BY <1>10, <2>2, <2>3, CheckEffect
<1>11. CASE Clear(k)
  <2>1. run[k].pc = "clear" /\ job' = job /\ job[k].op = "seriesDelete"
    BY <1>11, ClearEffect
  <2>2. \A i \in Instances, n \in Names : entry'[i][n] \in {None, entry[i][n]}
    BY <1>11, ClearOnly
  <2>3. CASE UNCHANGED <<folder, run>>
    <3>1. Local(k)
      BY <1>0, <2>1, <2>3 DEF Local, SameHooks, QueueOK, Jobs
    <3>2. QED
      BY <1>0, <1>1, <1>3, <2>1, <2>2, <2>3, <3>1
  <2>4. CASE /\ Doomed(k, Here(k)) = {} /\ entry' = entry /\ Local(k)
             /\ run'[k].todo = Tail(run[k].todo)
             /\ run'[k].pc = IF run'[k].todo = <<>> THEN "finish" ELSE "clear"
    <3>1. \A n \in Names : entry'[Here(k)][n] # job[k].at
      BY <1>1, <2>4 DEF Doomed, Keeps
    <3>2. QED
      BY <1>0, <1>1, <1>3, <2>1, <2>2, <2>4, <3>1
  <2>5. QED
    BY <1>11, <2>3, <2>4, ClearEffect
<1>12. CASE Finish(k)
  <2>1. Local(k) /\ Same /\ run[k].pc = "finish" /\ \E s : Ends(k, s)
    BY <1>12, FinishEffect
  <2>2. QED
    BY <1>0, <1>2, <1>3, <2>1 DEF Same, Ends, Idle, WorkFits
<1>13. QED
  BY <1>7, <1>8, <1>9, <1>10, <1>11, <1>12, DetectEffect, FindEffect, JudgeEffect, PrepareEffect,
     ProbeEffect, CreateEffect DEF Handler

LEMMA DeleteKeepsFit ==
  ASSUME EpisodeInv, NEW k \in Jobs, Handler(k), job[k].op # "import", LinksFit,
         k \in Running => SerialOK(k) /\ WorkFits(k)
  PROVE  k \in Running /\ Local(k) /\ WorkFits(k)' /\ LinksFit'
<1>0. /\ k \in Running /\ Local(k) /\ stored' = stored /\ WorkFits(k)
      /\ \A i \in Instances, n \in Names : entry'[i][n] \in {None, entry[i][n]}
      /\ job'[k].op = job[k].op /\ job'[k].at = job[k].at /\ k \in Jobs'
  BY DeleteSteps DEF Local, SameHooks
<1>1. run[k].pc \in Unlinking \cup {"check", "clear"} => Elements(run[k].todo) = {Here(k)} \cup Elements(Tail(run[k].todo))
  BY <1>0, HandlerTyped
<1>2. WorkFits(k)'
  <2>1. Elements(run'[k].todo) \subseteq Elements(run[k].todo)
    BY <1>1, DeleteSteps, NothingTodo
  <2>2. run'[k].pc = "finish" => run'[k].todo = <<>>
    BY DeleteSteps
  <2>3. QED
    BY <1>0, <2>1, <2>2 DEF WorkFits, Reaches
<1>3. LinksFit'
  <2>1. ASSUME NEW i \in Instances, NEW n \in Names, entry'[i][n] # None, Removes(k, entry[i][n], n),
               i \in Elements(run[k].todo)
        PROVE  k \in Running' /\ i \in Elements(run'[k].todo)
    <3>1. entry'[i][n] = entry[i][n] /\ entry[i][n] = job[k].at /\ Removes(k, job[k].at, n)
      BY <1>0, <2>1 DEF Removes
    <3>2. CASE job'[k].state = "running" /\ run'[k].todo = run[k].todo
      BY <1>0, <2>1, <3>2 DEF Running
    <3>3. CASE /\ \/ job'[k].state = "running" /\ run'[k].todo = Tail(run[k].todo)
                  \/ Tail(run[k].todo) = <<>>
               /\ run[k].pc \in Unlinking \cup {"check", "clear"}
               /\ \A m \in Names : Removes(k, job[k].at, m) => entry'[Here(k)][m] # job[k].at
      <4>1. i # Here(k)
        BY <3>1, <3>3
      <4>2. i \in Elements(Tail(run[k].todo))
        BY <1>1, <2>1, <3>3, <4>1
      <4>3. QED
        BY <1>0, <3>3, <4>2, NothingTodo DEF Running
    <3>4. CASE run[k].todo = <<>>
      BY <2>1, <3>4, NothingTodo
    <3>5. QED
      BY <3>2, <3>3, <3>4, DeleteSteps
  <2>2. QED
    BY <1>0, <2>1, LinksKeepFit
<1>4. QED
  BY <1>0, <1>2, <1>3

(* With one worker, and an upgrade that announces the file it replaces,      *)
(* links fit.                                                                *)
LEMMA FitStep == Concurrency = 1 /\ UpgradeDeletes /\ SerialInv /\ FitInv /\ [Next]_vars => FitInv'
<1> SUFFICES ASSUME Concurrency = 1, UpgradeDeletes, SerialInv, FitInv, [Next]_vars PROVE FitInv'
  OBVIOUS
<1>0. /\ EpisodeInv /\ QueueOK /\ LinksFit /\ OneFile
      /\ \A k \in Running : SerialOK(k) /\ WorkFits(k)
  BY DEF SerialInv, EpisodeInv, FitInv
<1>1. CASE ~ \E k \in Jobs : Handler(k)
  BY <1>0, <1>1, OthersKeepFit
<1>2. CASE \E k \in Jobs : Handler(k)
  <2>1. PICK k \in Jobs : Handler(k)
    BY <1>2
  <2>2. k \in Running /\ Local(k) /\ WorkFits(k)' /\ LinksFit'
    <3>1. CASE job[k].op = "import"
      BY <1>0, <2>1, <3>1, ImportKeepsFit
    <3>2. CASE job[k].op # "import"
      BY <1>0, <2>1, <3>2, DeleteKeepsFit
    <3>3. QED
      BY <3>1, <3>2
  <2>3. Running' \subseteq {k}
    BY <1>0, <2>2, StillAlone
  <2>4. OneFile'
    <3>1. stored' = stored
      BY <2>1 DEF Handler, Detect, DetectFails, Stat, Remove, Prune, Find, Judge,
         Prepare, Probe, Create, Finish, Check, Clear
    <3>2. QED
      BY <1>0, <3>1 DEF OneFile
  <2>5. QED
    BY <2>2, <2>3, <2>4 DEF FitInv
<1>3. QED
  BY <1>1, <1>2

LEMMA FitInit == Init => FitInv
<1> SUFFICES ASSUME Init PROVE FitInv
  OBVIOUS
<1>1. Running = {} /\ LinksFit /\ OneFile
  BY DEF Init, Jobs, Running, LinksFit, OneFile
<1>2. QED
  BY <1>1 DEF FitInv

(* When all jobs are settled, no delete is on its way.                       *)
LEMMA SettledFits ==
  ASSUME EpisodeInv, FitInv, Settled, NEW i \in Instances, NEW n \in Names, entry[i][n] # None
  PROVE  For(entry[i][n], n, i)
<1>1. \A o : ~Pending(o, n, i)
  BY DEF Settled, Pending, Waiting, Running
<1>2. QED
  BY <1>1 DEF FitInv, LinksFit, Fits

(* With one worker, and Sonarr reporting the files upgrades replace, no link *)
(* dangles once every webhook is dealt with (how-it-works.md:39), whatever   *)
(* crashes, retries, re-downloads and series deletes there were.             *)
THEOREM NoLinkDangles == Concurrency = 1 /\ UpgradeDeletes => (Spec => []NoDanglingLink)
<1> SUFFICES ASSUME Concurrency = 1, UpgradeDeletes PROVE Spec => []NoDanglingLink
  OBVIOUS
<1>1. SerialInv /\ FitInv /\ [Next]_vars => FitInv'
  BY FitStep
<1>2. SerialInv /\ [Next]_vars => SerialInv'
  BY SerialStep
<1>3. SerialInv /\ FitInv => NoDanglingLink
  BY SettledFits DEF NoDanglingLink, For, SerialInv
<1>4. QED
  BY <1>1, <1>2, <1>3, SerialInit, FitInit, PTL DEF Spec

(* With one worker, and Sonarr reporting the files upgrades replace, every   *)
(* library shows only files in its language besides what the primary's own   *)
(* gets, once every webhook is dealt with (introduction.md:11): also files   *)
(* that changed under their names.                                           *)
THEOREM LibrariesKeepTheirLanguage == Concurrency = 1 /\ UpgradeDeletes => (Spec => []LanguagesFit)
<1> SUFFICES ASSUME Concurrency = 1, UpgradeDeletes PROVE Spec => []LanguagesFit
  OBVIOUS
<1>1. SerialInv /\ FitInv /\ [Next]_vars => FitInv'
  BY FitStep
<1>2. SerialInv /\ [Next]_vars => SerialInv'
  BY SerialStep
<1>3. SerialInv /\ FitInv => LanguagesFit
  BY SettledFits DEF LanguagesFit, SerialInv
<1>4. QED
  BY <1>1, <1>2, <1>3, SerialInit, FitInit, PTL DEF Spec

-----------------------------------------------------------------------------
(* OwnFileShown, with one worker.  A link that goes does so for a reason: a  *)
(* delete of the file, which ran before the last import of the file began    *)
(* (InFront, Succeeds); an import of that very file, which puts the link     *)
(* back (OwnWork); or another primary, which takes the library over.         *)

(* Job k is the last import of i's file n, which is there.                   *)
Owned(k, i, n) ==
  Imports(k, i, n) /\ (\A l \in Jobs : Imports(l, i, n) => l <= k) /\ Present(i, n)

(* What Sonarr changes.                                                      *)
Changes ==
  \/ \E i \in Instances, n \in Names : Delete(i, n) \/ \E a \in Audio[i][n] : Download(i, n, a)
  \/ \E i \in Instances : DeleteSeries(i, TRUE) \/ DeleteSeries(i, FALSE)

(* The jobs that a change adds.                                              *)
New == Jobs' \ Jobs

(* A change and o's file n: it leaves it alone, deletes or downloads it.     *)
Untouched(o, n) ==
  /\ \A y \in New : ~Removes(y, o, n)' /\ ~Imports(y, o, n)'
  /\ Present(o, n)' <=> Present(o, n)
  /\ Present(o, n) => stored'[o][n] = stored[o][n]

Lost(o, n) ==
  /\ ~Present(o, n)' /\ \E y \in New : Removes(y, o, n)'
  /\ \A y \in New : ~Imports(y, o, n)'

Got(o, n) ==
  /\ Present(o, n)' /\ (Present(o, n) => \E y \in New : Removes(y, o, n)')
  /\ \E y \in New : /\ Imports(y, o, n)' /\ \A x \in Jobs' : x <= y
                    /\ \A z \in New : Imports(z, o, n)' => z = y

(* The webhooks of a download: of the file it replaces, and then of its own. *)
LEMMA HooksAre ==
  ASSUME StorageOK, NEW i \in Instances, NEW n \in Names
  PROVE  /\ Len(Hooks(i, n)) \in Nat \ {0}
         /\ Hooks(i, n)[Len(Hooks(i, n))].op = "import" /\ Hooks(i, n)[Len(Hooks(i, n))].at = i
         /\ Hooks(i, n)[Len(Hooks(i, n))].name = n
         /\ \A x \in 1 .. Len(Hooks(i, n)) : x # Len(Hooks(i, n)) =>
              Hooks(i, n)[x].op = "delete" /\ Hooks(i, n)[x].at = i /\ Hooks(i, n)[x].name \in Releases(i, Episode[n])
         /\ UpgradeDeletes /\ Releases(i, Episode[n]) # {} => Len(Hooks(i, n)) = 2
<1> DEFINE old == Releases(i, Episode[n])
           upgrade == old # {}
           del == Webhook("delete", i, CHOOSE m \in old : TRUE, FALSE)
           imp == Webhook("import", i, n, upgrade)
           gone == IF UpgradeDeletes /\ upgrade THEN <<del>> ELSE <<>>
<1>1. imp \in JobRecord /\ imp.op = "import" /\ imp.at = i /\ imp.name = n
  BY DEF Webhook, JobRecord, Ops, States
<1>2. upgrade => (CHOOSE m \in old : TRUE) \in old /\ old \subseteq Names
  BY DEF Releases, StorageOK
<1>3. upgrade => del \in JobRecord /\ del.op = "delete" /\ del.at = i /\ del.name \in old
  BY <1>2 DEF Webhook, JobRecord, Ops, States
<1>4. Hooks(i, n) = Append(gone, imp)
  BY DEF Hooks
<1> HIDE DEF imp, del, old
<1>5. CASE UpgradeDeletes /\ upgrade
  <2>1. Hooks(i, n) = Append(<<del>>, imp)
    <3>1. gone = <<del>>
      BY <1>5
    <3> HIDE DEF gone
    <3>2. QED
      BY <1>4, <3>1
  <2>2. <<del>> \in Seq(JobRecord) /\ Len(<<del>>) = 1 /\ <<del>>[1] = del
    BY <1>3, <1>5
  <2>3. Len(Hooks(i, n)) = 2 /\ Hooks(i, n)[1] = del /\ Hooks(i, n)[2] = imp
    BY <1>1, <2>1, <2>2, AppendProperties, LenProperties
  <2>4. QED
    BY <1>1, <1>3, <1>5, <2>3 DEF old
<1>6. CASE ~(UpgradeDeletes /\ upgrade)
  <2>1. Hooks(i, n) = <<imp>>
    <3>1. gone = <<>>
      BY <1>6
    <3>2. Append(<<>>, imp) = <<imp>>
      OBVIOUS
    <3> HIDE DEF gone
    <3>3. QED
      BY <1>4, <3>1, <3>2
  <2>2. Len(<<imp>>) = 1 /\ <<imp>>[1] = imp
    BY <1>1
  <2>3. QED
    BY <1>1, <1>6, <2>1, <2>2 DEF old
<1>7. QED
  BY <1>5, <1>6

(* Each change adds its jobs behind the others, and its webhooks tell what   *)
(* became of the files.                                                      *)
LEMMA ChangesTell ==
  ASSUME EpisodeInv, OneFile, UpgradeDeletes, Changes
  PROVE  /\ Same /\ UNCHANGED budgets /\ Jobs \subseteq Jobs' /\ Running' = Running
         /\ \A k \in Jobs : job'[k] = job[k] /\ run'[k] = run[k]
         /\ \A y \in New : job'[y].state = "queued" /\ \A x \in Jobs : x < y
         /\ \A o \in Instances, n \in Names : Untouched(o, n) \/ Lost(o, n) \/ Got(o, n)
<1>0. QueueOK /\ StorageOK /\ Jobs = 1 .. Len(job) /\ Len(job) \in Nat
  BY LenProperties DEF EpisodeInv, QueueOK, Jobs
<1>1. PICK hooks \in Seq(JobRecord) : Enqueue(hooks) /\ \A x \in 1 .. Len(hooks) : hooks[x].state = "queued"
  BY SonarrEnqueues DEF Changes
<1>2. Same /\ UNCHANGED budgets
  BY DEF Changes, Download, Delete, DeleteSeries, libraries, Same
<1>3. /\ Jobs \subseteq Jobs' /\ Running' = Running
      /\ \A k \in Jobs : job'[k] = job[k] /\ run'[k] = run[k]
  BY <1>0, <1>1, EnqueueExtends
<1>n. Jobs' \subseteq Nat
  <2>1. job' \in Seq(JobRecord)
    BY <1>0, <1>1, EnqueueExtends DEF QueueOK
  <2>2. DOMAIN job' = 1 .. Len(job') /\ Len(job') \in Nat
    BY <2>1, LenProperties
  <2>3. QED
    BY <2>2 DEF Jobs
<1>4. ASSUME NEW y \in New PROVE job'[y].state = "queued" /\ \A x \in Jobs : x < y
  <2>1. y - Len(job) \in 1 .. Len(hooks) /\ job'[y] = hooks[y - Len(job)] /\ y \in Nat
    <3>1. y \in Jobs' \ Jobs
      BY DEF New
    <3>2. QED
      BY <1>0, <1>1, <1>n, <3>1, EnqueueExtends
  <2>2. Len(hooks) \in Nat
    BY <1>1, LenProperties
  <2>3. QED
    BY <1>0, <1>1, <2>1, <2>2
<1>5. ASSUME NEW o \in Instances, NEW n \in Names PROVE Untouched(o, n) \/ Lost(o, n) \/ Got(o, n)
  <2>1. ASSUME NEW hook \in JobRecord, hook.state = "queued", Enqueue(<<hook>>)
        PROVE  /\ \A y \in New : job'[y] = hook
               /\ \E y \in New : job'[y] = hook
    <3>1. /\ <<hook>> \in Seq(JobRecord) /\ Len(<<hook>>) = 1
          /\ \A x \in 1 .. Len(<<hook>>) : <<hook>>[x] = hook /\ <<hook>>[x].state = "queued"
      BY <2>1
    <3>2. PICK hs \in Seq(JobRecord) : hs = <<hook>>
      BY <3>1
    <3>3. Enqueue(hs) /\ Len(hs) = 1 /\ \A x \in 1 .. Len(hs) : hs[x] = hook /\ hs[x].state = "queued"
      BY <2>1, <3>1, <3>2
    <3>4. /\ \A k \in Jobs' \ Jobs : k - Len(job) \in 1 .. Len(hs) /\ job'[k] = hs[k - Len(job)]
          /\ \A x \in 1 .. Len(hs) : Len(job) + x \in Jobs' /\ job'[Len(job) + x] = hs[x]
      BY <1>0, <3>3, EnqueueExtends
    <3>5. Len(job) + 1 \in New /\ job'[Len(job) + 1] = hook
      BY <1>0, <3>3, <3>4 DEF New
    <3>6. QED
      BY <3>3, <3>4, <3>5 DEF New
  <2>2. ASSUME NEW i \in Instances, NEW m \in Names, Delete(i, m) PROVE Untouched(o, n) \/ Lost(o, n)
    <3>1. PICK hook : hook = Webhook("delete", i, m, FALSE)
      OBVIOUS
    <3>2. hook \in JobRecord /\ hook.state = "queued" /\ hook.op = "delete" /\ hook.at = i /\ hook.name = m
      BY <3>1 DEF Webhook, JobRecord, Ops, States
    <3>3. Enqueue(<<hook>>) /\ stored' = [stored EXCEPT ![i] = [f \in DOMAIN stored[i] \ {m} |-> stored[i][f]]]
      BY <2>2, <3>1 DEF Delete
    <3>4. (\A y \in New : job'[y] = hook) /\ \E y \in New : job'[y] = hook
      BY <2>1, <3>2, <3>3
    <3>5. CASE o = i /\ n = m
      BY <1>0, <3>2, <3>3, <3>4, <3>5 DEF Lost, Present, Removes, Imports, StorageOK
    <3>6. CASE ~(o = i /\ n = m)
      BY <1>0, <3>2, <3>3, <3>4, <3>6 DEF Untouched, Present, Removes, Imports, StorageOK
    <3>7. QED
      BY <3>5, <3>6
  <2>3. ASSUME NEW i \in Instances, NEW files \in BOOLEAN, DeleteSeries(i, files) PROVE Untouched(o, n) \/ Lost(o, n)
    <3>1. PICK hook : hook = Webhook(IF files THEN "seriesDelete" ELSE "recordDelete", i, None, FALSE)
      OBVIOUS
    <3>2. /\ hook \in JobRecord /\ hook.state = "queued" /\ hook.at = i
          /\ hook.op = IF files THEN "seriesDelete" ELSE "recordDelete"
      BY <3>1 DEF Webhook, JobRecord, Ops, States
    <3>3. Enqueue(<<hook>>) /\ stored' = IF files THEN [stored EXCEPT ![i] = << >>] ELSE stored
      BY <2>3, <3>1 DEF DeleteSeries
    <3>4. (\A y \in New : job'[y] = hook) /\ \E y \in New : job'[y] = hook
      BY <2>1, <3>2, <3>3
    <3>5. CASE o = i /\ files
      BY <1>0, <3>2, <3>3, <3>4, <3>5 DEF Lost, Present, Removes, Imports, StorageOK
    <3>6. CASE ~(o = i /\ files)
      BY <1>0, <3>2, <3>3, <3>4, <3>6 DEF Untouched, Present, Removes, Imports, StorageOK
    <3>7. QED
      BY <3>5, <3>6
  <2>4. ASSUME NEW i \in Instances, NEW m \in Names, NEW a \in Audio[i][m], Download(i, m, a)
        PROVE  Untouched(o, n) \/ Lost(o, n) \/ Got(o, n)
    <3>1. PICK hs \in Seq(JobRecord) : hs = Hooks(i, m)
      BY <1>0, HooksTyped
    <3>h. Enqueue(hs) /\ \A x \in 1 .. Len(hs) : hs[x].state = "queued"
      BY <1>0, <2>4, <3>1, HooksTyped, DownloadFacts
    <3>2. /\ Len(hs) \in Nat \ {0} /\ hs[Len(hs)].op = "import" /\ hs[Len(hs)].at = i /\ hs[Len(hs)].name = m
          /\ \A x \in 1 .. Len(hs) : x # Len(hs) =>
               hs[x].op = "delete" /\ hs[x].at = i /\ hs[x].name \in Releases(i, Episode[m])
          /\ Releases(i, Episode[m]) # {} => Len(hs) = 2
      <4>1. /\ Len(Hooks(i, m)) \in Nat \ {0}
            /\ Hooks(i, m)[Len(Hooks(i, m))].op = "import" /\ Hooks(i, m)[Len(Hooks(i, m))].at = i
            /\ Hooks(i, m)[Len(Hooks(i, m))].name = m
        BY <1>0, HooksAre
      <4>2. \A x \in 1 .. Len(Hooks(i, m)) : x # Len(Hooks(i, m)) =>
              Hooks(i, m)[x].op = "delete" /\ Hooks(i, m)[x].at = i /\ Hooks(i, m)[x].name \in Releases(i, Episode[m])
        BY <1>0, HooksAre
      <4>3. Releases(i, Episode[m]) # {} => Len(Hooks(i, m)) = 2
        BY <1>0, HooksAre
      <4>4. QED
        BY <3>1, <4>1, <4>2, <4>3
    <3>3. /\ \A k \in Jobs' \ Jobs : k - Len(job) \in 1 .. Len(hs) /\ job'[k] = hs[k - Len(job)]
          /\ \A x \in 1 .. Len(hs) : Len(job) + x \in Jobs' /\ job'[Len(job) + x] = hs[x]
      BY <1>0, <3>h, EnqueueExtends
    <3>4. /\ \A j \in Instances \ {i} : stored'[j] = stored[j]
          /\ DOMAIN stored'[i] = (DOMAIN stored[i] \ Releases(i, Episode[m])) \cup {m}
          /\ \A f \in DOMAIN stored[i] \ (Releases(i, Episode[m]) \cup {m}) : stored'[i][f] = stored[i][f]
      BY <2>4, DownloadFacts
    <3>5. New \subseteq Nat
      BY <1>n DEF New
    <3>6. PICK y : y = Len(job) + Len(hs)
      OBVIOUS
    <3>7. /\ y \in New /\ job'[y] = hs[Len(hs)]
          /\ \A z \in New : z # y => /\ job'[z].op = "delete" /\ job'[z].at = i
                                     /\ job'[z].name \in Releases(i, Episode[m])
          /\ \A x \in Jobs' : x <= y
      <4>1. Len(hs) \in 1 .. Len(hs) /\ y \notin Jobs
        BY <1>0, <3>2, <3>6
      <4>2. y \in New /\ job'[y] = hs[Len(hs)]
        BY <3>3, <3>6, <4>1 DEF New
      <4>3. ASSUME NEW z \in New, z # y
            PROVE  job'[z].op = "delete" /\ job'[z].at = i /\ job'[z].name \in Releases(i, Episode[m])
        <5>1. z - Len(job) \in 1 .. Len(hs) /\ z - Len(job) # Len(hs) /\ job'[z] = hs[z - Len(job)]
          BY <1>0, <3>2, <3>3, <3>5, <3>6, <4>3 DEF New
        <5>2. QED
          BY <3>2, <5>1
      <4>4. ASSUME NEW x \in Jobs' PROVE x <= y
        <5>1. CASE x \in Jobs
          BY <1>0, <3>2, <3>6, <5>1
        <5>2. CASE x \notin Jobs
          BY <1>0, <1>n, <3>2, <3>3, <3>6, <5>2
        <5>3. QED
          BY <5>1, <5>2
      <4>5. QED
        BY <4>2, <4>3, <4>4
    <3>8. Releases(i, Episode[m]) # {} => \E z \in New : z # y
      <4>1. ASSUME Releases(i, Episode[m]) # {} PROVE Len(job) + 1 \in New /\ Len(job) + 1 # y
        <5>1. Len(hs) = 2 /\ 1 \in 1 .. Len(hs) /\ Len(job) + 1 \notin Jobs
          BY <1>0, <3>2, <4>1
        <5>2. QED
          BY <1>0, <3>3, <3>6, <5>1 DEF New
      <4>2. QED
        BY <4>1
    <3>9. \A f \in Releases(i, Episode[m]) : \A z \in New : z # y => job'[z].name = f
      BY <3>7 DEF OneFile, Releases
    <3>10. CASE o = i /\ n = m
      <4>1. Present(o, n) => n \in Releases(i, Episode[m])
        BY <3>10 DEF Present, Releases
      <4>2. Present(o, n)' /\ Imports(y, o, n)'
        BY <3>2, <3>4, <3>7, <3>10 DEF Present, Imports
      <4>3. \A z \in New : z # y => ~Imports(z, o, n)'
        BY <3>7 DEF Imports
      <4>4. Present(o, n) => \E z \in New : Removes(z, o, n)'
        BY <3>7, <3>8, <3>9, <3>10, <4>1 DEF Removes
      <4>5. QED
        BY <3>7, <4>2, <4>3, <4>4 DEF Got
    <3>11. CASE o = i /\ n # m /\ n \in Releases(i, Episode[m])
      BY <3>2, <3>4, <3>7, <3>8, <3>9, <3>11 DEF Lost, Present, Removes, Imports
    <3>12. CASE o # i \/ (n # m /\ n \notin Releases(i, Episode[m]))
      BY <3>2, <3>4, <3>7, <3>12 DEF Untouched, Present, Removes, Imports
    <3>13. QED
      BY <3>10, <3>11, <3>12
  <2>5. QED
    BY <2>2, <2>3, <2>4 DEF Changes
<1>6. QED
  BY <1>2, <1>3, <1>4, <1>5

-----------------------------------------------------------------------------
(* What the jobs tell of the files and of the links.                         *)

Counted == outages \in Nat /\ crashes \in Nat

(* The deletes of a file come before its last import.                        *)
Succeeds ==
  \A k \in Jobs, i \in Instances, n \in Names :
    Owned(k, i, n) => \A d \in Jobs : Removes(d, i, n) => d < k

(* A file that has been imported and is gone, or was imported twice, has     *)
(* been deleted.                                                             *)
Gone ==
  \A k \in Jobs, i \in Instances, n \in Names :
    Imports(k, i, n) /\ ~Present(i, n) => \E d \in Jobs : Removes(d, i, n)

Twice ==
  \A k, r \in Jobs, i \in Instances, n \in Names :
    Imports(k, i, n) /\ Imports(r, i, n) /\ k # r => \E d \in Jobs : Removes(d, i, n)

(* A link was made by an import of its file.                                 *)
Linked ==
  \A i \in Instances, n \in Names :
    entry[i][n] # None => \E k \in Jobs : Imports(k, entry[i][n], n)

History == Succeeds /\ Gone /\ Twice /\ Linked

(* Without a change in Sonarr, the webhooks and the files are the same.      *)
LEMMA SameHistory ==
  ASSUME EpisodeInv, SameHooks, stored' = stored
  PROVE  /\ \A k \in Jobs : \A i, n :
              /\ Imports(k, i, n)' <=> Imports(k, i, n)
              /\ Removes(k, i, n)' <=> Removes(k, i, n)
              /\ Owned(k, i, n)' <=> Owned(k, i, n)
         /\ \A i, n : Present(i, n)' <=> Present(i, n)
         /\ Succeeds /\ Gone /\ Twice => Succeeds' /\ Gone' /\ Twice'
<1>1. \A k \in Jobs : \A i, n : (Imports(k, i, n)' <=> Imports(k, i, n)) /\ (Removes(k, i, n)' <=> Removes(k, i, n))
  BY DEF SameHooks, Imports, Removes
<1>2. (\A i, n : Present(i, n)' <=> Present(i, n)) /\ Jobs' = Jobs
  BY DEF Present, SameHooks
<1>3. \A k \in Jobs : \A i, n : Owned(k, i, n)' <=> Owned(k, i, n)
  BY <1>1, <1>2 DEF Owned
<1>4. Succeeds => Succeeds'
  BY <1>1, <1>2, <1>3 DEF Succeeds
<1>5. Gone => Gone'
  BY <1>1, <1>2 DEF Gone
<1>6. Twice => Twice'
  BY <1>1, <1>2 DEF Twice
<1>7. QED
  BY <1>1, <1>2, <1>3, <1>4, <1>5, <1>6

LEMMA ChangesKeepHistory ==
  ASSUME EpisodeInv, OneFile, UpgradeDeletes, Changes, History
  PROVE  History'
<1>0. /\ Succeeds /\ Gone /\ Twice /\ Linked /\ Jobs \subseteq Jobs' /\ entry' = entry
      /\ \A k \in Jobs : job'[k] = job[k]
      /\ \A y \in New, x \in Jobs : x < y
      /\ \A o \in Instances, n \in Names : Untouched(o, n) \/ Lost(o, n) \/ Got(o, n)
  BY ChangesTell DEF History, Same
<1>j. Jobs' = Jobs \cup New /\ New \subseteq Jobs'
  BY <1>0 DEF New
<1>n. Jobs' \subseteq Nat
  <2>1. EpisodeInv'
    BY SonarrSteps DEF Changes
  <2>2. job' \in Seq(JobRecord)
    BY <2>1 DEF EpisodeInv, QueueOK
  <2>3. DOMAIN job' = 1 .. Len(job') /\ Len(job') \in Nat
    BY <2>2, LenProperties
  <2>4. QED
    BY <2>3 DEF Jobs
<1>1. \A k \in Jobs : \A i, n : (Imports(k, i, n)' <=> Imports(k, i, n)) /\ (Removes(k, i, n)' <=> Removes(k, i, n))
  BY <1>0 DEF Imports, Removes
<1>2. ASSUME NEW k \in Jobs', NEW i \in Instances, NEW n \in Names, Owned(k, i, n)',
             NEW d \in Jobs', Removes(d, i, n)'
      PROVE  d < k
  <2>0. Imports(k, i, n)' /\ (\A l \in Jobs' : Imports(l, i, n)' => l <= k) /\ Present(i, n)' /\ d # k
    BY <1>2 DEF Owned, Imports, Removes
  <2>1. CASE Untouched(i, n)
    <3>1. k \in Jobs /\ d \in Jobs
      BY <1>2, <1>j, <2>0, <2>1 DEF Untouched
    <3>2. Owned(k, i, n) /\ Removes(d, i, n)
      BY <1>0, <1>1, <1>2, <2>0, <2>1, <3>1 DEF Owned, Untouched
    <3>3. QED
      BY <1>0, <3>1, <3>2 DEF Succeeds
  <2>2. CASE Lost(i, n)
    BY <2>0, <2>2 DEF Lost
  <2>3. CASE Got(i, n)
    <3>1. PICK y \in New : Imports(y, i, n)' /\ \A x \in Jobs' : x <= y
      BY <2>3 DEF Got
    <3>2. y <= k /\ k <= y /\ d <= y
      BY <1>j, <2>0, <3>1
    <3>3. QED
      BY <1>j, <1>n, <2>0, <3>2
  <2>4. QED
    BY <1>0, <2>1, <2>2, <2>3
<1>3. ASSUME NEW k \in Jobs', NEW i \in Instances, NEW n \in Names, Imports(k, i, n)', ~Present(i, n)'
      PROVE  \E d \in Jobs' : Removes(d, i, n)'
  <2>1. CASE Untouched(i, n)
    <3>1. k \in Jobs /\ Imports(k, i, n) /\ ~Present(i, n)
      BY <1>1, <1>3, <1>j, <2>1 DEF Untouched
    <3>2. QED
      BY <1>0, <1>1, <3>1 DEF Gone
  <2>2. CASE Lost(i, n)
    BY <1>j, <2>2 DEF Lost
  <2>3. CASE Got(i, n)
    BY <1>3, <2>3 DEF Got
  <2>4. QED
    BY <1>0, <2>1, <2>2, <2>3
<1>4. ASSUME NEW k \in Jobs', NEW r \in Jobs', NEW i \in Instances, NEW n \in Names,
             Imports(k, i, n)', Imports(r, i, n)', k # r
      PROVE  \E d \in Jobs' : Removes(d, i, n)'
  <2>1. CASE Untouched(i, n)
    <3>1. k \in Jobs /\ r \in Jobs /\ Imports(k, i, n) /\ Imports(r, i, n)
      BY <1>1, <1>4, <1>j, <2>1 DEF Untouched
    <3>2. QED
      BY <1>0, <1>1, <1>4, <3>1 DEF Twice
  <2>2. CASE Lost(i, n)
    BY <1>j, <2>2 DEF Lost
  <2>3. CASE Got(i, n) /\ Present(i, n)
    BY <1>j, <2>3 DEF Got
  <2>4. CASE Got(i, n) /\ ~Present(i, n)
    <3>1. \E x \in Jobs : Imports(x, i, n)
      BY <1>1, <1>4, <1>j, <2>4 DEF Got
    <3>2. QED
      BY <1>0, <1>1, <2>4, <3>1 DEF Gone
  <2>5. QED
    BY <1>0, <2>1, <2>2, <2>3, <2>4
<1>5. Linked'
  BY <1>0, <1>1 DEF Linked
<1>6. Succeeds' /\ Gone' /\ Twice'
  BY <1>2, <1>3, <1>4 DEF Succeeds, Gone, Twice
<1>7. QED
  BY <1>5, <1>6 DEF History

(* A handler's step changes its own job, and one entry at most.              *)
LEMMA HandlerIsLocal ==
  ASSUME EpisodeInv, NEW k \in Jobs, Handler(k)
  PROVE  /\ k \in Running /\ Local(k) /\ stored' = stored /\ ready' = ready /\ crashes' = crashes
         /\ outages' = outages \/ outages' = outages + 1
<1>1. /\ k \in Running /\ stored' = stored /\ ready' = ready /\ crashes' = crashes
      /\ outages' = outages \/ outages' = outages + 1
  BY DEF Handler, At, Detect, DetectFails, Stat, Remove, Prune, Find, Judge,
     Prepare, Probe, Create, Finish, Check, Clear, budgets
<1>2. CASE Clear(k)
  <2>1. job' = job /\ (run' = run \/ Local(k))
    BY <1>2, ClearEffect
  <2>2. run' = run => Local(k)
    BY <2>1 DEF Local, SameHooks, EpisodeInv, QueueOK, Jobs
  <2>3. QED
    BY <1>1, <2>1, <2>2
<1>3. CASE ~Clear(k)
  BY <1>1, <1>3, DetectEffect, StatEffect, RemoveEffect, PruneEffect, FindEffect, JudgeEffect, PrepareEffect,
     ProbeEffect, CreateEffect, FinishEffect, CheckEffect DEF Handler
<1>4. QED
  BY <1>2, <1>3

LEMMA EntryEffect ==
  ASSUME EpisodeInv, NEW k \in Jobs, Handler(k)
  PROVE  \/ entry' = entry
         \/ /\ job[k].op = "import" /\ run[k].pc = "create"
            /\ Here(k) \in Instances /\ job[k].name \in Names /\ job[k].at \in Instances
            /\ entry[Here(k)][job[k].name] = None
            /\ entry' = [entry EXCEPT ![Here(k)][job[k].name] = job[k].at]
         \/ /\ Remove(k) /\ run[k].pc = "remove" /\ Goes(k, "prune")
            /\ Here(k) \in Instances /\ run[k].victim \in Names
            /\ entry' = [entry EXCEPT ![Here(k)][run[k].victim] = None]
         \/ /\ job[k].op = "seriesDelete" /\ Here(k) \in Instances
            /\ \E n \in Doomed(k, Here(k)) : entry' = [entry EXCEPT ![Here(k)][n] = None]
<1>0. k \in Running
  BY HandlerIsLocal
<1>1. CASE Create(k)
  BY <1>0, <1>1, CreateEffect, HandlerTyped DEF Linking
<1>2. CASE Remove(k)
  BY <1>0, <1>2, RemoveEffect, HandlerTyped DEF Unlinking, HandlerOK
<1>3. CASE Clear(k)
  BY <1>0, <1>3, ClearEffect, HandlerTyped
<1>4. CASE ~Create(k) /\ ~Remove(k) /\ ~Clear(k)
  BY <1>4, DetectEffect, StatEffect, PruneEffect, FindEffect, JudgeEffect, PrepareEffect,
     ProbeEffect, FinishEffect, CheckEffect DEF Handler, Same
<1>5. QED
  BY <1>1, <1>2, <1>3, <1>4

(* The steps of the queue and of the handlers leave the webhooks and the     *)
(* files as they are.                                                        *)
LEMMA QuietSteps ==
  ASSUME EpisodeInv, [Next]_vars, ~Changes
  PROVE  SameHooks /\ stored' = stored
<1>0. QueueOK
  BY DEF EpisodeInv
<1>1. CASE UNCHANGED vars
  BY <1>1 DEF vars, SameHooks, Jobs
<1>2. ASSUME NEW k \in Jobs, Claim(k) \/ BackoffOver(k) \/ Sweep(k) PROVE SameHooks /\ stored' = stored
  <2>1. stored' = stored
    BY <1>2 DEF Claim, BackoffOver, Sweep
  <2>2. SameHooks
    BY <1>0, <1>2, ClaimFacts, RequeueFacts DEF Local
  <2>3. QED
    BY <2>1, <2>2
<1>3. ASSUME NEW k \in Jobs, Handler(k) PROVE SameHooks /\ stored' = stored
  BY <1>3, HandlerIsLocal DEF Local
<1>4. CASE Crash
  BY <1>0, <1>4, CrashFacts DEF Crash
<1>5. QED
  BY <1>1, <1>2, <1>3, <1>4 DEF Next, Changes

LEMMA CountedStep == EpisodeInv /\ Counted /\ [Next]_vars => Counted' /\ outages <= outages' /\ crashes <= crashes'
<1> SUFFICES ASSUME EpisodeInv, Counted, [Next]_vars
             PROVE  Counted' /\ outages <= outages' /\ crashes <= crashes'
  OBVIOUS
<1>1. outages' = outages \/ outages' = outages + 1
  <2>1. ASSUME NEW k \in Jobs, Handler(k) PROVE outages' = outages \/ outages' = outages + 1
    BY <2>1, HandlerIsLocal
  <2>2. ASSUME ~ \E k \in Jobs : Handler(k) PROVE outages' = outages
    BY <2>2 DEF Next, vars, budgets, Download, Delete, DeleteSeries, Claim, BackoffOver, Sweep, Crash
  <2>3. QED
    BY <2>1, <2>2
<1>2. crashes' = crashes \/ crashes' = crashes + 1
  <2>1. ASSUME NEW k \in Jobs, Handler(k) PROVE crashes' = crashes
    BY <2>1, HandlerIsLocal
  <2>2. ASSUME ~ \E k \in Jobs : Handler(k) PROVE crashes' = crashes \/ crashes' = crashes + 1
    BY <2>2 DEF Next, vars, budgets, Download, Delete, DeleteSeries, Claim, BackoffOver, Sweep, Crash
  <2>3. QED
    BY <2>1, <2>2
<1>3. QED
  BY <1>1, <1>2 DEF Counted

(* The history stays true.                                                   *)
LEMMA HistoryStep == UpgradeDeletes /\ EpisodeInv /\ OneFile /\ History /\ [Next]_vars => History'
<1> SUFFICES ASSUME UpgradeDeletes, EpisodeInv, OneFile, History, [Next]_vars PROVE History'
  OBVIOUS
<1>1. CASE Changes
  BY <1>1, ChangesKeepHistory
<1>2. CASE ~Changes
  <2>1. SameHooks /\ stored' = stored
    BY <1>2, QuietSteps
  <2>2. Succeeds' /\ Gone' /\ Twice'
    BY <2>1, SameHistory DEF History
  <2>3. \A k \in Jobs : \A i, n : Imports(k, i, n)' <=> Imports(k, i, n)
    BY <2>1, SameHistory
  <2>4. Jobs' = Jobs
    BY <2>1 DEF SameHooks
  <2>5. ASSUME NEW i \in Instances, NEW n \in Names, entry'[i][n] # None
        PROVE  \E k \in Jobs : Imports(k, entry'[i][n], n)
    <3>1. CASE entry'[i][n] = entry[i][n]
      BY <2>5, <3>1 DEF History, Linked
    <3>2. CASE entry'[i][n] # entry[i][n]
      <4>1. PICK k \in Jobs : Handler(k)
        BY <3>2, OtherSteps DEF Same
      <4>2. ~(Remove(k) /\ entry' = [entry EXCEPT ![Here(k)][run[k].victim] = None])
        BY <2>5, <3>2 DEF EpisodeInv, LibraryOK
      <4>3. ~ \E m \in Doomed(k, Here(k)) : entry' = [entry EXCEPT ![Here(k)][m] = None]
        BY <2>5, <3>2 DEF EpisodeInv, LibraryOK
      <4>4. /\ job[k].op = "import" /\ Here(k) \in Instances /\ job[k].name \in Names
            /\ entry' = [entry EXCEPT ![Here(k)][job[k].name] = job[k].at]
        BY <3>2, <4>1, <4>2, <4>3, EntryEffect
      <4>5. n = job[k].name /\ entry'[i][n] = job[k].at
        BY <3>2, <4>4 DEF EpisodeInv, LibraryOK
      <4>6. QED
        BY <4>4, <4>5 DEF Imports
    <3>3. QED
      BY <3>1, <3>2
  <2>6. Linked'
    BY <2>3, <2>4, <2>5 DEF Linked
  <2>7. QED
    BY <2>2, <2>6 DEF History
<1>3. QED
  BY <1>1, <1>2

-----------------------------------------------------------------------------
(* What a handler is about to remove, it may remove.                         *)

HandOK(r) ==
  /\ run[r].pc \in {"stat", "remove"} /\ run[r].why = "evict" =>
       Verdict(entry[Here(r)][run[r].victim], job[r].at, Here(r)) = "replace"
  /\ run[r].pc \in {"stat", "remove"} /\ run[r].why = "delete" =>
       MayRemove(job[r].at, Here(r), entry[Here(r)][run[r].victim])
  /\ run[r].pc \in Unlinking /\ run[r].why = "upgrade" => job[r].upgrade
  /\ job[r].op = "delete" => run[r].pc \in Unlinking \cup {"check"}
  /\ job[r].op = "seriesDelete" => run[r].pc \in {"clear", "finish"} /\ run[r].failed = "no"

(* It has the deletes where they belong, and nothing in its hand.            *)
LEMMA EmptyHand ==
  ASSUME NEW k, run'[k].pc \notin {"stat", "remove", "prune"},
         job'[k].op = "delete" => run'[k].pc = "check",
         job'[k].op = "seriesDelete" => run'[k].pc \in {"clear", "finish"} /\ run'[k].failed = "no"
  PROVE  HandOK(k)'
BY DEF HandOK, Unlinking

LEMMA HandlerKeepsHand ==
  ASSUME EpisodeInv, NEW k \in Jobs, Handler(k), k \in Running => HandOK(k), k \in Running'
  PROVE  HandOK(k)'
<1>0. /\ k \in Running /\ Local(k) /\ HandOK(k) /\ HandlerOK(job[k], "running", run[k])
      /\ job'[k].op = job[k].op /\ job'[k].at = job[k].at /\ job'[k].name = job[k].name
      /\ job'[k].upgrade = job[k].upgrade /\ job'[k].state = "running"
  BY HandlerIsLocal, HandlerTyped DEF Local, SameHooks, Running
<1>1. ASSUME NEW s, Ends(k, s) PROVE s = "running"
  BY <1>0, <1>1 DEF Ends
<1>2. ASSUME job[k].op = "import", run'[k].pc \notin {"stat", "remove", "prune"} PROVE HandOK(k)'
  BY <1>0, <1>2, EmptyHand
<1>3. ASSUME NEW f, Moves(k, f) \/ Begins(k, f), job[k].op = "import" PROVE HandOK(k)'
  BY <1>2, <1>3 DEF Moves, Begins
<1>4. ASSUME Leaves(k), run[k].pc \in Unlinking \/ job[k].op = "delete" PROVE HandOK(k)'
  <2>1. CASE job[k].op = "import" /\ run'[k].pc = "prepare"
    BY <1>2, <2>1
  <2>2. CASE job[k].op = "import" /\ run[k].why = "upgrade" /\ run'[k].pc = "stat" /\ run'[k].why = "upgrade" /\ job[k].upgrade
    BY <1>0, <2>2 DEF HandOK
  <2>3. CASE job[k].op = "import" /\ Begins(k, run[k].langs)
    BY <1>3, <2>3
  <2>4. CASE job[k].op = "delete" /\ run'[k].pc = "check"
    BY <1>0, <2>4, EmptyHand
  <2>5. job[k].op = "import" /\ run[k].why = "upgrade" /\ run[k].pc \in Unlinking => job[k].upgrade
    BY <1>0 DEF HandOK
  <2>6. QED
    BY <1>1, <1>4, <2>1, <2>2, <2>3, <2>4, <2>5 DEF Leaves
<1>5. CASE Detect(k) \/ DetectFails(k)
  <2>1. job[k].op = "import"
    BY <1>5, DetectEffect
  <2>2. \/ Ends(k, "failed") \/ Begins(k, Heard(job[k].at, job[k].name))
        \/ job[k].upgrade /\ run'[k].pc = "stat" /\ run'[k].why = "upgrade"
    BY <1>5, DetectEffect
  <2>3. CASE job[k].upgrade /\ run'[k].pc = "stat" /\ run'[k].why = "upgrade"
    BY <1>0, <2>1, <2>3 DEF HandOK
  <2>4. QED
    BY <1>1, <1>3, <2>1, <2>2, <2>3
<1>6. CASE Stat(k) \/ Prune(k)
  <2>1. entry' = entry /\ run[k].pc \in {"stat", "prune"} /\ (Leaves(k) \/ (run[k].pc = "stat" /\ Goes(k, "remove")))
    BY <1>6, StatEffect, PruneEffect DEF Same
  <2>2. CASE run[k].pc = "stat" /\ Goes(k, "remove")
    BY <1>0, <2>1, <2>2 DEF HandOK, Goes, Unlinking, Here
  <2>3. QED
    BY <1>4, <2>1, <2>2 DEF Unlinking
<1>7. CASE Remove(k)
  <2>1. run[k].pc = "remove"
    BY <1>7, RemoveEffect
  <2>2. (run[k].why = "evict" /\ Moves(k, "permanent")) \/ Ends(k, "failed") \/ Goes(k, "prune")
    BY <1>7, RemoveEffect
  <2>3. run[k].why = "evict" => job[k].op = "import"
    BY <1>0, <2>1 DEF HandlerOK, Unlinking
  <2>4. CASE Goes(k, "prune")
    BY <1>0, <2>1, <2>4 DEF HandOK, Goes, Unlinking
  <2>5. QED
    BY <1>1, <1>3, <2>2, <2>3, <2>4
<1>8. CASE Judge(k)
  <2>1. job[k].op = "import" /\ Same
    BY <1>8, JudgeEffect
  <2>2. CASE /\ Verdict(entry[Here(k)][run[k].victim], job[k].at, Here(k)) = "replace"
             /\ run'[k].pc = "stat" /\ run'[k].why = "evict" /\ run'[k].victim = run[k].victim
             /\ run'[k].todo = run[k].todo
    BY <1>0, <2>1, <2>2 DEF HandOK, Same, Here, Unlinking
  <2>3. CASE Moves(k, "no") \/ Goes(k, "prepare")
    BY <1>2, <1>3, <2>1, <2>3 DEF Goes
  <2>4. QED
    BY <1>8, <2>2, <2>3, JudgeEffect
<1>9. CASE Find(k) \/ Prepare(k) \/ Probe(k) \/ Create(k)
  <2>1. /\ job[k].op = "import"
        /\ \/ \E pc \in {"prepare", "probe", "create"} : Goes(k, pc)
           \/ run'[k].pc = "judge"
           \/ \E f : Moves(k, f)
    BY <1>9, FindEffect, PrepareEffect, ProbeEffect, CreateEffect
  <2>2. QED
    BY <1>2, <1>3, <2>1 DEF Goes
<1>10. CASE Finish(k)
  BY <1>1, <1>10, FinishEffect
<1>11. CASE Check(k)
  <2>1. job[k].op = "delete" /\ Same
    BY <1>11, CheckEffect
  <2>2. CASE /\ MayRemove(job[k].at, Here(k), entry[Here(k)][job[k].name])
             /\ run'[k].pc = "stat" /\ run'[k].why = "delete" /\ run'[k].victim = job[k].name
             /\ run'[k].todo = run[k].todo
    BY <1>0, <2>1, <2>2 DEF HandOK, Same, Here, Unlinking
  <2>3. QED
    BY <1>4, <1>11, <2>1, <2>2, CheckEffect
<1>12. CASE Clear(k)
  <2>1. /\ job[k].op = "seriesDelete" /\ run[k].pc = "clear"
        /\ run' = run \/ (run'[k].pc \in {"clear", "finish"} /\ run'[k].failed = run[k].failed)
    BY <1>12, ClearEffect
  <2>2. run[k].failed = "no"
    BY <1>0, <2>1 DEF HandOK
  <2>3. QED
    BY <1>0, <2>1, <2>2, EmptyHand
<1>13. QED
  BY <1>5, <1>6, <1>7, <1>8, <1>9, <1>10, <1>11, <1>12 DEF Handler

HandsOK == \A r \in Running : HandOK(r)

(* A claimed job has its hands free.                                         *)
LEMMA ClaimEmpty ==
  ASSUME QueueOK, NEW j \in Jobs, Claim(j)
  PROVE  HandOK(j)' /\ run'[j].pc \notin Linking \cup Unlinking
<1>1. /\ run'[j].pc = CASE job[j].op = "import" -> "detect" [] job[j].op = "delete" -> "check"
                        [] job[j].op = "seriesDelete" -> "clear" [] OTHER -> "finish"
      /\ run'[j].failed = "no" /\ job'[j].op = job[j].op
  BY ClaimFacts DEF Local, SameHooks
<1>2. run'[j].pc \notin Linking \cup Unlinking
  BY <1>1 DEF Linking, Unlinking
<1>3. HandOK(j)'
  BY <1>1, EmptyHand
<1>4. QED
  BY <1>2, <1>3

(* Where no handler moves, those that run keep what they have; a claimed one *)
(* begins.                                                                   *)
LEMMA HandlersWait ==
  ASSUME EpisodeInv, [Next]_vars, ~ \E k \in Jobs : Handler(k), NEW r \in Running'
  PROVE  \/ r \in Running /\ job'[r] = job[r] /\ run'[r] = run[r]
         \/ HandOK(r)' /\ run'[r].pc \notin Linking \cup Unlinking
<1>0. QueueOK
  BY DEF EpisodeInv
<1>1. CASE UNCHANGED vars
  BY <1>1 DEF vars, Running, Jobs
<1>2. CASE Changes
  <2>1. PICK hooks \in Seq(JobRecord) : Enqueue(hooks) /\ \A x \in 1 .. Len(hooks) : hooks[x].state = "queued"
    BY <1>2, SonarrEnqueues DEF Changes
  <2>2. QED
    BY <1>0, <2>1, EnqueueExtends DEF Running
<1>3. ASSUME NEW j \in Jobs, Claim(j)
      PROVE  \/ r \in Running /\ job'[r] = job[r] /\ run'[r] = run[r]
             \/ HandOK(r)' /\ run'[r].pc \notin Linking \cup Unlinking
  <2>1. Local(j) /\ Running' = Running \cup {j}
    BY <1>0, <1>3, ClaimFacts, ClaimKeepsQueue
  <2>2. QED
    BY <1>0, <1>3, <2>1, ClaimEmpty DEF Local, Running
<1>4. ASSUME NEW j \in Jobs, BackoffOver(j) \/ Sweep(j)
      PROVE  r \in Running /\ job'[r] = job[r] /\ run'[r] = run[r]
  BY <1>0, <1>4, RequeueFacts DEF Local, Running
<1>5. ~Crash
  BY <1>0, CrashFacts
<1>6. QED
  BY <1>1, <1>2, <1>3, <1>4, <1>5 DEF Next, Changes

LEMMA HandsStep == Concurrency = 1 /\ EpisodeInv /\ HandsOK /\ [Next]_vars => HandsOK'
<1> SUFFICES ASSUME Concurrency = 1, EpisodeInv, HandsOK, [Next]_vars, NEW r \in Running' PROVE HandOK(r)'
  BY DEF HandsOK
<1>0. QueueOK
  BY DEF EpisodeInv
<1>1. CASE ~ \E k \in Jobs : Handler(k)
  <2>1. CASE HandOK(r)'
    BY <2>1
  <2>2. CASE r \in Running /\ job'[r] = job[r] /\ run'[r] = run[r]
    <3>1. entry' = entry /\ HandOK(r)
      BY <1>1, <2>2, OtherSteps DEF Same, HandsOK
    <3>2. QED
      BY <2>2, <3>1 DEF HandOK, Here
  <2>3. QED
    BY <1>1, <2>1, <2>2, HandlersWait
<1>2. ASSUME NEW k \in Jobs, Handler(k) PROVE HandOK(r)'
  <2>1. r = k
    BY <1>0, <1>2, HandlerIsLocal, StillAlone
  <2>2. QED
    BY <1>2, <2>1, HandlerKeepsHand DEF HandsOK
<1>3. QED
  BY <1>1, <1>2

-----------------------------------------------------------------------------
(* Deletes run when their turn comes, before what was sent after them.       *)

(* A removal that is never put off, unless the process crashes.              *)
Timely(d) == job[d].op = "delete" \/ (job[d].op = "seriesDelete" /\ outages = 0)

(* Until d has run, no later job begins.                                     *)
FirstUp(d) ==
  /\ job[d].state \in {"queued", "running"} => \A l \in Jobs : l > d => job[l].state = "queued"
  /\ \A x, y \in DOMAIN ready : ready[y] = d /\ ready[x] > d => x > y

InFront ==
  crashes = 0 =>
    /\ \A k \in Jobs : job[k].state # "orphaned"
    /\ \A d \in Jobs : Timely(d) => job[d].state # "backoff" /\ FirstUp(d)

(* The queue's order.                                                        *)
LEMMA ReadyTyped ==
  ASSUME QueueOK
  PROVE  /\ DOMAIN ready = 1 .. Len(ready) /\ Len(ready) \in Nat /\ Jobs \subseteq Nat
         /\ \A x \in DOMAIN ready : ready[x] \in Jobs /\ job[ready[x]].state = "queued"
         /\ \A k \in Jobs : job[k].state = "queued" => \E x \in DOMAIN ready : ready[x] = k
<1>1. /\ DOMAIN ready = 1 .. Len(ready) /\ Len(ready) \in Nat
      /\ DOMAIN job = 1 .. Len(job) /\ Len(job) \in Nat
  BY LenProperties DEF QueueOK
<1>2. {ready[x] : x \in DOMAIN ready} = {k \in Jobs : job[k].state = "queued"}
  BY DEF QueueOK, Elements, Queued
<1>3. QED
  BY <1>1, <1>2 DEF Jobs

LEMMA ClaimKeepsFront ==
  ASSUME Concurrency = 1, QueueOK, InFront, NEW j \in Jobs, Claim(j)
  PROVE  InFront'
<1>1. /\ Local(j) /\ job[j].state = "queued" /\ job'[j].state = "running" /\ Jobs' = Jobs
      /\ \A d \in Jobs : job'[d].op = job[d].op
      /\ \A x \in Jobs \ {j} : job'[x] = job[x]
  BY ClaimFacts DEF Local, SameHooks
<1>2. ready # <<>> /\ j = Head(ready) /\ ready' = Tail(ready) /\ crashes' = crashes /\ outages' = outages
  BY DEF Claim, budgets
<1>3. \A k \in Jobs : job[k].state # "running"
  <2>1. Cardinality(Running) < 1 /\ IsFiniteSet(Running)
    BY RunningIsFinite DEF Claim
  <2>2. Cardinality(Running) \in Nat /\ (Cardinality(Running) = 0 <=> Running = {})
    BY <2>1, FS_CardinalityType, FS_EmptySet
  <2>3. QED
    BY <2>1, <2>2 DEF Running
<1>4. /\ DOMAIN ready = 1 .. Len(ready) /\ Len(ready) \in Nat \ {0} /\ Head(ready) = ready[1]
      /\ DOMAIN ready' = 1 .. Len(ready) - 1
      /\ \A x \in DOMAIN ready' : ready'[x] = ready[x + 1]
  BY <1>2, HeadTailProperties, LenProperties, EmptySeq DEF QueueOK
<1>5. Jobs \subseteq Nat /\ \A k \in Jobs : job[k].state = "queued" => \E x \in DOMAIN ready : ready[x] = k
  BY ReadyTyped
<1>6. SUFFICES ASSUME crashes = 0 PROVE InFront'
  BY <1>2 DEF InFront
<1>7. ASSUME NEW d \in Jobs, Timely(d) PROVE job'[d].state # "backoff" /\ FirstUp(d)'
  <2>1. job[d].state # "backoff" /\ FirstUp(d)
    BY <1>6, <1>7 DEF InFront
  <2>2. job[d].state = "queued" => ~(j > d)
    <3>1. SUFFICES ASSUME job[d].state = "queued", j > d PROVE FALSE
      OBVIOUS
    <3>2. PICK y \in DOMAIN ready : ready[y] = d
      BY <1>5, <3>1
    <3>3. 1 \in DOMAIN ready /\ ready[1] = j /\ 1 > y
      BY <1>2, <1>4, <2>1, <3>1, <3>2 DEF FirstUp
    <3>4. QED
      BY <1>4, <3>2, <3>3
  <2>3. job'[d].state \in {"queued", "running"} => \A l \in Jobs : l > d => job'[l].state = "queued"
    <3>1. job'[d].state \in {"queued", "running"} => job[d].state = "queued"
      BY <1>1, <1>3
    <3>2. QED
      BY <1>1, <2>1, <2>2, <3>1 DEF FirstUp
  <2>4. ASSUME NEW x \in DOMAIN ready', NEW y \in DOMAIN ready', ready'[y] = d, ready'[x] > d PROVE x > y
    <3>1. x + 1 \in DOMAIN ready /\ y + 1 \in DOMAIN ready /\ ready[y + 1] = d /\ ready[x + 1] > d
      BY <1>4, <2>4
    <3>2. x + 1 > y + 1
      BY <2>1, <3>1 DEF FirstUp
    <3>3. QED
      BY <1>4, <3>2
  <2>5. job'[d].state # "backoff"
    BY <1>1, <2>1
  <2>6. QED
    BY <1>1, <2>3, <2>4, <2>5 DEF FirstUp
<1>8. \A k \in Jobs : job'[k].state # "orphaned"
  BY <1>1, <1>6 DEF InFront
<1>9. \A d \in Jobs : Timely(d)' => Timely(d)
  BY <1>1, <1>2 DEF Timely
<1>10. QED
  BY <1>1, <1>7, <1>8, <1>9 DEF InFront

LEMMA BackoffKeepsFront ==
  ASSUME QueueOK, Counted, InFront, NEW j \in Jobs, BackoffOver(j) \/ Sweep(j)
  PROVE  InFront'
<1>1. /\ Local(j) /\ job[j].state \in {"backoff", "orphaned"} /\ job'[j].state = "queued" /\ Jobs' = Jobs
      /\ \A d \in Jobs : job'[d].op = job[d].op
      /\ \A x \in Jobs \ {j} : job'[x] = job[x]
  BY RequeueFacts DEF Local, SameHooks
<1>2. crashes' = crashes /\ outages' = outages
  BY DEF BackoffOver, Sweep, budgets
<1>3. SUFFICES ASSUME crashes = 0 PROVE InFront'
  BY <1>2 DEF InFront
<1>4. job[j].state # "orphaned" /\ ~Timely(j)
  BY <1>1, <1>3 DEF InFront
<1>5. ready' = Append(ready, j)
  BY <1>4 DEF BackoffOver, Sweep
<1>6. /\ DOMAIN ready = 1 .. Len(ready) /\ Len(ready) \in Nat
      /\ DOMAIN ready' = 1 .. Len(ready) + 1 /\ ready'[Len(ready) + 1] = j
      /\ \A x \in DOMAIN ready : ready'[x] = ready[x]
  <2>1. ready \in Seq(Nat) /\ j \in Nat
    BY JobTyped DEF QueueOK
  <2>2. QED
    BY <1>5, <2>1, AppendProperties, LenProperties
<1>7. ASSUME NEW d \in Jobs, Timely(d) PROVE job'[d].state # "backoff" /\ FirstUp(d)'
  <2>1. job[d].state # "backoff" /\ FirstUp(d) /\ d # j
    BY <1>3, <1>4, <1>7 DEF InFront
  <2>2. job'[d].state \in {"queued", "running"} => \A l \in Jobs : l > d => job'[l].state = "queued"
    BY <1>1, <2>1 DEF FirstUp
  <2>3. ASSUME NEW x \in DOMAIN ready', NEW y \in DOMAIN ready', ready'[y] = d, ready'[x] > d PROVE x > y
    <3>1. y \in DOMAIN ready /\ ready[y] = d
      BY <1>6, <2>1, <2>3
    <3>2. CASE x \in DOMAIN ready
      BY <1>6, <2>1, <2>3, <3>1, <3>2 DEF FirstUp
    <3>3. CASE x = Len(ready) + 1
      BY <1>6, <3>1, <3>3
    <3>4. QED
      BY <1>6, <3>2, <3>3
  <2>4. QED
    BY <1>1, <2>1, <2>2, <2>3 DEF FirstUp
<1>8. \A k \in Jobs : job'[k].state # "orphaned"
  BY <1>1, <1>3 DEF InFront
<1>9. \A d \in Jobs : Timely(d)' => Timely(d)
  BY <1>1, <1>2 DEF Timely
<1>10. QED
  BY <1>1, <1>7, <1>8, <1>9 DEF InFront

LEMMA ChangesKeepFront ==
  ASSUME EpisodeInv, OneFile, UpgradeDeletes, Changes, InFront
  PROVE  InFront'
<1>0. /\ QueueOK /\ Jobs = 1 .. Len(job) /\ Len(job) \in Nat /\ ready \in Seq(Nat)
      /\ DOMAIN ready = 1 .. Len(ready) /\ Len(ready) \in Nat
      /\ \A x \in DOMAIN ready : ready[x] \in Jobs
  BY LenProperties, ReadyTyped DEF EpisodeInv, QueueOK, Jobs
<1>1. PICK hooks \in Seq(JobRecord) : Enqueue(hooks) /\ \A x \in 1 .. Len(hooks) : hooks[x].state = "queued"
  BY SonarrEnqueues DEF Changes
<1>2. /\ UNCHANGED budgets /\ Jobs' = Jobs \cup New /\ New \cap Jobs = {}
      /\ \A k \in Jobs : job'[k] = job[k]
      /\ \A y \in New : job'[y].state = "queued" /\ \A x \in Jobs : x < y
  BY ChangesTell DEF New
<1>3. /\ DOMAIN ready' = 1 .. Len(ready) + Len(hooks) /\ Len(hooks) \in Nat
      /\ \A x \in 1 .. Len(ready) + Len(hooks) :
           ready'[x] = IF x <= Len(ready) THEN ready[x] ELSE Len(job) + (x - Len(ready))
  <2>1. Len(hooks) \in Nat
    BY LenProperties
  <2>2. PICK fresh : fresh = [x \in 1 .. Len(hooks) |-> Len(job) + x]
    OBVIOUS
  <2>3. fresh \in Seq(Nat) /\ Len(fresh) = Len(hooks) /\ \A x \in 1 .. Len(hooks) : fresh[x] = Len(job) + x
    <3>1. fresh \in [1 .. Len(hooks) -> Nat]
      BY <1>0, <2>1, <2>2
    <3>2. fresh \in Seq(Nat)
      BY <2>1, <3>1, SeqDef
    <3>3. QED
      BY <2>1, <2>2, <3>1, <3>2, LenProperties
  <2>4. ready' = ready \o fresh
    BY <1>1, <2>2 DEF Enqueue
  <2>5. /\ ready \o fresh \in Seq(Nat) /\ Len(ready \o fresh) = Len(ready) + Len(fresh)
        /\ \A x \in 1 .. Len(ready) + Len(fresh) :
             (ready \o fresh)[x] = IF x <= Len(ready) THEN ready[x] ELSE fresh[x - Len(ready)]
    BY <1>0, <2>3, ConcatItems
  <2>6. DOMAIN ready' = 1 .. Len(ready) + Len(hooks)
    BY <2>3, <2>4, <2>5, LenProperties
  <2>7. ASSUME NEW x \in 1 .. Len(ready) + Len(hooks)
        PROVE  ready'[x] = IF x <= Len(ready) THEN ready[x] ELSE Len(job) + (x - Len(ready))
    <3>1. ready'[x] = IF x <= Len(ready) THEN ready[x] ELSE fresh[x - Len(ready)]
      BY <2>3, <2>4, <2>5
    <3>2. ~(x <= Len(ready)) => x - Len(ready) \in 1 .. Len(hooks)
      BY <1>0, <2>1
    <3>3. QED
      BY <2>3, <3>1, <3>2
  <2>8. QED
    BY <2>1, <2>6, <2>7
<1>4. SUFFICES ASSUME crashes = 0 PROVE InFront'
  BY <1>2 DEF InFront, budgets
<1>5. \A k \in Jobs' : job'[k].state # "orphaned"
  BY <1>2, <1>4 DEF InFront
<1>6. ASSUME NEW d \in Jobs', NEW x \in DOMAIN ready', NEW y \in DOMAIN ready', ready'[y] = d, ready'[x] > d,
             d \in Jobs => FirstUp(d)
      PROVE  x > y
  <2>1. CASE d \in Jobs
    <3>1. y <= Len(ready) /\ ready[y] = d
      BY <1>0, <1>3, <1>6, <2>1
    <3>2. CASE x <= Len(ready)
      BY <1>0, <1>3, <1>6, <2>1, <3>1, <3>2 DEF FirstUp
    <3>3. CASE ~(x <= Len(ready))
      BY <1>0, <1>3, <3>1, <3>3
    <3>4. QED
      BY <3>2, <3>3
  <2>2. CASE d \notin Jobs
    <3>1. d \in New
      BY <1>2, <2>2
    <3>2. ~(y <= Len(ready))
      BY <1>0, <1>3, <1>6, <2>2
    <3>3. d = Len(job) + (y - Len(ready))
      BY <1>3, <1>6, <3>2
    <3>4. ~(x <= Len(ready))
      BY <1>0, <1>3, <1>6, <3>2, <3>3
    <3>5. ready'[x] = Len(job) + (x - Len(ready))
      BY <1>3, <1>6, <3>4
    <3>6. QED
      BY <1>0, <1>3, <1>6, <3>3, <3>5
  <2>3. QED
    BY <2>1, <2>2
<1>7. ASSUME NEW d \in Jobs', Timely(d)' PROVE job'[d].state # "backoff" /\ FirstUp(d)'
  <2>1. CASE d \in Jobs
    <3>1. Timely(d)
      BY <1>2, <1>7, <2>1 DEF Timely, budgets
    <3>2. job[d].state # "backoff" /\ FirstUp(d)
      BY <1>4, <2>1, <3>1 DEF InFront
    <3>3. job'[d].state \in {"queued", "running"} => \A l \in Jobs' : l > d => job'[l].state = "queued"
      BY <1>2, <2>1, <3>2 DEF FirstUp
    <3>4. \A x, y \in DOMAIN ready' : ready'[y] = d /\ ready'[x] > d => x > y
      BY <1>6, <3>2
    <3>5. QED
      BY <1>2, <2>1, <3>2, <3>3, <3>4 DEF FirstUp
  <2>2. CASE d \in New
    <3>1. \A x, y \in DOMAIN ready' : ready'[y] = d /\ ready'[x] > d => x > y
      BY <1>2, <1>6, <2>2
    <3>2. \A l \in Jobs' : l > d => job'[l].state = "queued"
      <4>1. ASSUME NEW l \in Jobs', l > d PROVE l \in New
        <5>1. d \in Nat /\ l \in Nat
          <6>1. job' \in Seq(JobRecord)
            BY <1>0, <1>1, EnqueueExtends DEF QueueOK
          <6>2. DOMAIN job' = 1 .. Len(job') /\ Len(job') \in Nat
            BY <6>1, LenProperties
          <6>3. QED
            BY <6>2 DEF Jobs
        <5>2. QED
          BY <1>2, <2>2, <4>1, <5>1
      <4>2. QED
        BY <1>2, <4>1
    <3>3. QED
      BY <1>2, <2>2, <3>1, <3>2 DEF FirstUp
  <2>3. QED
    BY <1>2, <2>1, <2>2
<1>8. QED
  BY <1>5, <1>7 DEF InFront

LEMMA HandlerKeepsFront ==
  ASSUME EpisodeInv, Counted, InFront, NEW k \in Jobs, k \in Running => HandOK(k), Handler(k)
  PROVE  InFront'
<1>1. /\ k \in Running /\ job[k].state = "running" /\ Local(k) /\ ready' = ready /\ crashes' = crashes
      /\ Jobs' = Jobs /\ HandOK(k)
      /\ \A d \in Jobs : job'[d].op = job[d].op
      /\ \A x \in Jobs \ {k} : job'[x] = job[x]
      /\ outages' = outages \/ outages' = outages + 1
  BY HandlerIsLocal DEF Local, SameHooks, Running
<1>2. \/ job'[k].state \in {"running", "done", "failed"}
      \/ Finish(k) /\ job'[k].state = "backoff"
  <2>1. ASSUME job' = job PROVE job'[k].state = "running"
    BY <1>1, <2>1
  <2>2. CASE Finish(k)
    BY <2>2, FinishEffect DEF Ends
  <2>3. CASE ~Finish(k)
    <3>1. \/ job' = job \/ Ends(k, "done") \/ Ends(k, "failed")
      BY <2>3, DetectEffect, StatEffect, RemoveEffect, PruneEffect, FindEffect, JudgeEffect, PrepareEffect,
         ProbeEffect, CreateEffect, CheckEffect, ClearEffect DEF Handler, Goes, Moves, Begins, Leaves
    <3>2. QED
      BY <2>1, <3>1 DEF Ends
  <2>4. QED
    BY <2>2, <2>3
<1>3. Timely(k)' => job'[k].state # "backoff"
  <2>1. SUFFICES ASSUME Timely(k)', Finish(k), job'[k].state = "backoff" PROVE FALSE
    BY <1>2
  <2>2. run[k].pc = "finish" /\ (run[k].failed = "transient" \/ outages' = outages + 1)
    BY <2>1, FinishEffect DEF Ends
  <2>3. job[k].op # "delete"
    BY <1>1, <2>2 DEF HandOK, Unlinking
  <2>4. job[k].op = "seriesDelete" /\ outages' = 0
    BY <1>1, <2>1, <2>3 DEF Timely
  <2>5. QED
    BY <1>1, <2>2, <2>4 DEF HandOK, Counted
<1>4. SUFFICES ASSUME crashes = 0 PROVE InFront'
  BY <1>1 DEF InFront
<1>5. \A d \in Jobs : Timely(d)' => Timely(d)
  BY <1>1 DEF Timely, Counted
<1>6. ASSUME NEW d \in Jobs, Timely(d)' PROVE job'[d].state # "backoff" /\ FirstUp(d)'
  <2>1. job[d].state # "backoff" /\ FirstUp(d)
    BY <1>4, <1>5, <1>6 DEF InFront
  <2>2. job'[d].state # "backoff"
    BY <1>1, <1>3, <1>6, <2>1
  <2>3. job'[d].state \in {"queued", "running"} => \A l \in Jobs : l > d => job'[l].state = "queued"
    <3>1. SUFFICES ASSUME job'[d].state \in {"queued", "running"}, NEW l \in Jobs, l > d PROVE job'[l].state = "queued"
      OBVIOUS
    <3>2. job[d].state \in {"queued", "running"}
      BY <1>1, <3>1
    <3>3. job[l].state = "queued"
      BY <2>1, <3>1, <3>2 DEF FirstUp
    <3>4. QED
      BY <1>1, <3>3
  <2>4. QED
    BY <1>1, <2>1, <2>2, <2>3 DEF FirstUp
<1>7. \A x \in Jobs : job'[x].state # "orphaned"
  BY <1>1, <1>2, <1>4 DEF InFront
<1>8. QED
  BY <1>1, <1>6, <1>7 DEF InFront

LEMMA FrontStep ==
  Concurrency = 1 /\ UpgradeDeletes /\ EpisodeInv /\ OneFile /\ Counted /\ HandsOK /\ InFront /\ [Next]_vars => InFront'
<1> SUFFICES ASSUME Concurrency = 1, UpgradeDeletes, EpisodeInv, OneFile, Counted, HandsOK, InFront, [Next]_vars
             PROVE  InFront'
  OBVIOUS
<1>0. QueueOK
  BY DEF EpisodeInv
<1>1. CASE UNCHANGED vars
  BY <1>1 DEF vars, budgets, InFront, Jobs, Timely, FirstUp
<1>2. CASE Crash
  BY <1>2 DEF Crash, Counted, InFront
<1>3. ASSUME NEW k \in Jobs, Handler(k) PROVE InFront'
  BY <1>3, HandlerKeepsFront DEF HandsOK
<1>4. CASE Changes
  BY <1>4, ChangesKeepFront
<1>5. ASSUME NEW k \in Jobs, Claim(k) \/ BackoffOver(k) \/ Sweep(k) PROVE InFront'
  BY <1>0, <1>5, ClaimKeepsFront, BackoffKeepsFront
<1>6. QED
  BY <1>1, <1>2, <1>3, <1>4, <1>5 DEF Next, Changes

-----------------------------------------------------------------------------
(* Once the last import of a file is under way, only it works on that        *)
(* episode for its instance.                                                 *)

(* The import has seen its file, at least.                                   *)
Due(k) == job[k].state = "done" \/ (k \in Running /\ run[k].pc # "detect")

Clearing(r) == run[r].pc \in Unlinking /\ run[r].why = "upgrade"

OwnWork(r) ==
  job[r].op = "import" /\ run[r].pc \in Linking \cup Unlinking =>
    \A k \in Jobs, n \in Names :
      Owned(k, job[r].at, n) /\ Due(k) /\ Episode[job[r].name] = Episode[n] =>
        /\ job[r].name = n
        /\ Clearing(r) => run[r].langs = Heard(job[r].at, n)

(* How an import's call leads to the next.                                   *)
LEMMA ImportGoesOn ==
  ASSUME EpisodeInv, NEW k \in Jobs, Handler(k), job[k].op = "import"
  PROVE  /\ run'[k].pc # "detect"
         /\ run[k].pc # "detect" /\ run'[k].pc \in Linking \cup Unlinking =>
              /\ run[k].pc \in Linking \cup Unlinking
              /\ Clearing(k)' => Clearing(k) /\ run'[k].langs = run[k].langs
         /\ run[k].pc = "detect" /\ run'[k].pc \in Linking \cup Unlinking =>
              /\ Present(job[k].at, job[k].name)
              /\ Clearing(k)' => run'[k].langs = Heard(job[k].at, job[k].name)
<1>0. k \in Running /\ HandlerOK(job[k], "running", run[k])
  BY HandlerIsLocal, HandlerTyped
<1>1. ASSUME NEW s, Ends(k, s) PROVE run'[k].pc = "idle"
  BY <1>1 DEF Ends, Idle
<1>2. ASSUME NEW f, Moves(k, f) PROVE run'[k].pc \in {"finish", "find"}
  BY <1>2 DEF Moves
<1>3. ASSUME NEW f, Begins(k, f) PROVE run'[k].pc \in {"finish", "find"}
  BY <1>3 DEF Begins
<1>4. CASE Detect(k) \/ DetectFails(k)
  <2>1. run[k].pc = "detect"
    BY <1>4, DetectEffect
  <2>2. \/ Ends(k, "failed")
        \/ /\ Present(job[k].at, job[k].name)
           /\ \/ Begins(k, Heard(job[k].at, job[k].name))
              \/ run'[k].pc = "stat" /\ run'[k].langs = Heard(job[k].at, job[k].name)
    BY <1>4, DetectEffect
  <2>3. QED
    BY <1>1, <1>3, <2>1, <2>2 DEF Clearing, Linking, Unlinking
<1>5. CASE Stat(k) \/ Prune(k)
  <2>1. run[k].pc \in {"stat", "prune"} /\ (Leaves(k) \/ Goes(k, "remove"))
    BY <1>5, StatEffect, PruneEffect
  <2>2. CASE Goes(k, "remove")
    BY <2>1, <2>2 DEF Goes, Clearing, Linking, Unlinking
  <2>3. CASE Leaves(k)
    <3>1. \/ run'[k].pc = "prepare"
          \/ run[k].why = "upgrade" /\ run'[k].pc = "stat" /\ run'[k].langs = run[k].langs
          \/ Begins(k, run[k].langs)
      BY <2>3 DEF Leaves
    <3>2. QED
      BY <1>3, <2>1, <3>1 DEF Clearing, Linking, Unlinking
  <2>4. QED
    BY <2>1, <2>2, <2>3
<1>6. CASE Remove(k)
  <2>1. run[k].pc = "remove" /\ (Moves(k, "permanent") \/ Ends(k, "failed") \/ Goes(k, "prune"))
    BY <1>6, RemoveEffect
  <2>2. QED
    BY <1>1, <1>2, <2>1 DEF Goes, Clearing, Linking, Unlinking
<1>7. CASE Find(k) \/ Judge(k)
  <2>1. /\ run[k].pc \in {"find", "judge"}
        /\ Moves(k, "no") \/ Goes(k, "prepare") \/ run'[k].pc = "judge" \/ (run'[k].pc = "stat" /\ run'[k].why = "evict")
    BY <1>7, FindEffect, JudgeEffect
  <2>2. QED
    BY <1>2, <2>1 DEF Goes, Clearing, Linking, Unlinking
<1>8. CASE Prepare(k) \/ Probe(k) \/ Create(k)
  <2>1. /\ run[k].pc \in {"prepare", "probe", "create"}
        /\ (\E f : Moves(k, f)) \/ Goes(k, "probe") \/ Goes(k, "create")
    BY <1>8, PrepareEffect, ProbeEffect, CreateEffect
  <2>2. QED
    BY <1>2, <2>1 DEF Goes, Clearing, Linking, Unlinking
<1>9. CASE Finish(k)
  <2>1. run'[k].pc = "idle"
    BY <1>1, <1>9, FinishEffect
  <2>2. QED
    BY <2>1 DEF Linking, Unlinking
<1>10. QED
  BY <1>4, <1>5, <1>6, <1>7, <1>8, <1>9, CheckEffect, ClearEffect DEF Handler

(* The imports that were due, and those that become due.                     *)
LEMMA DueBefore ==
  ASSUME EpisodeInv, [Next]_vars, ~ \E h \in Jobs : Handler(h), NEW k \in Jobs, job[k].op = "import", Due(k)'
  PROVE  Due(k) /\ job'[k].state = job[k].state
<1>0. QueueOK
  BY DEF EpisodeInv
<1>1. CASE UNCHANGED vars
  BY <1>1 DEF vars, Due, Running, Jobs
<1>2. CASE Changes
  <2>1. PICK hooks \in Seq(JobRecord) : Enqueue(hooks) /\ \A x \in 1 .. Len(hooks) : hooks[x].state = "queued"
    BY <1>2, SonarrEnqueues DEF Changes
  <2>2. QED
    BY <1>0, <2>1, EnqueueExtends DEF Due
<1>3. ASSUME NEW j \in Jobs, Claim(j) PROVE Due(k) /\ job'[k].state = job[k].state
  <2>1. /\ Local(j) /\ Running' = Running \cup {j} /\ job'[j].state = "running"
        /\ job[j].op = "import" => run'[j].pc = "detect"
    BY <1>0, <1>3, ClaimFacts, ClaimKeepsQueue
  <2>2. k # j
    BY <2>1 DEF Due
  <2>3. QED
    BY <2>1, <2>2 DEF Due, Local
<1>4. ASSUME NEW j \in Jobs, BackoffOver(j) \/ Sweep(j) PROVE Due(k) /\ job'[k].state = job[k].state
  <2>1. Local(j) /\ Running' = Running /\ j \notin Running /\ job'[j].state = "queued"
    BY <1>0, <1>4, RequeueFacts
  <2>2. k # j
    BY <2>1 DEF Due
  <2>3. QED
    BY <2>1, <2>2 DEF Due, Local
<1>5. CASE Crash
  <2>1. Running' = {} /\ job'[k].state = IF k \in Running THEN "orphaned" ELSE job[k].state
    BY <1>0, <1>5, CrashFacts
  <2>2. QED
    BY <2>1 DEF Due
<1>6. QED
  BY <1>1, <1>2, <1>3, <1>4, <1>5 DEF Next, Changes

(* What is owned after a change of Sonarr's, by a job that was there, was    *)
(* so before, and the file is the same.                                      *)
LEMMA OwnedBefore ==
  ASSUME UpgradeDeletes, EpisodeInv, OneFile, [Next]_vars,
         NEW k \in Jobs, NEW i \in Instances, NEW n \in Names, Owned(k, i, n)'
  PROVE  Owned(k, i, n) /\ stored'[i][n] = stored[i][n]
<1>1. CASE Changes
  <2>1. /\ Jobs \subseteq Jobs' /\ (\A x \in Jobs : job'[x] = job[x])
        /\ \A y \in New, x \in Jobs : x < y
        /\ Untouched(i, n) \/ Lost(i, n) \/ Got(i, n)
    BY <1>1, ChangesTell
  <2>2. Imports(k, i, n)' /\ (\A l \in Jobs' : Imports(l, i, n)' => l <= k) /\ Present(i, n)'
    BY DEF Owned
  <2>3. \A l \in Jobs : Imports(l, i, n)' <=> Imports(l, i, n)
    BY <2>1 DEF Imports
  <2>4. ~Lost(i, n)
    BY <2>2 DEF Lost
  <2>5. ~Got(i, n)
    <3>1. SUFFICES ASSUME Got(i, n) PROVE FALSE
      OBVIOUS
    <3>2. PICK y \in New : Imports(y, i, n)'
      BY <3>1 DEF Got
    <3>3. y <= k /\ k < y /\ y \in Nat /\ k \in Nat
      <4>1. EpisodeInv'
        BY <1>1, SonarrSteps DEF Changes
      <4>2. job' \in Seq(JobRecord)
        BY <4>1 DEF EpisodeInv, QueueOK
      <4>3. DOMAIN job' = 1 .. Len(job') /\ Len(job') \in Nat
        BY <4>2, LenProperties
      <4>4. QED
        BY <2>1, <2>2, <3>2, <4>3 DEF Jobs, New
    <3>4. QED
      BY <3>3
  <2>6. Untouched(i, n)
    BY <2>1, <2>4, <2>5
  <2>7. QED
    BY <2>1, <2>2, <2>3, <2>6 DEF Owned, Untouched
<1>2. CASE ~Changes
  <2>1. SameHooks /\ stored' = stored
    BY <1>2, QuietSteps
  <2>2. QED
    BY <2>1, SameHistory
<1>3. QED
  BY <1>1, <1>2

WorkOwn == \A r \in Running : OwnWork(r)

LEMMA WorkStep ==
  Concurrency = 1 /\ UpgradeDeletes /\ EpisodeInv /\ OneFile /\ WorkOwn /\ [Next]_vars => WorkOwn'
<1> SUFFICES ASSUME Concurrency = 1, UpgradeDeletes, EpisodeInv, OneFile, WorkOwn, [Next]_vars,
                    NEW r \in Running', job'[r].op = "import", run'[r].pc \in Linking \cup Unlinking,
                    NEW k \in Jobs', NEW n \in Names,
                    Owned(k, job[r].at, n)', Due(k)', Episode[job'[r].name] = Episode[n]
             PROVE  /\ job'[r].name = n
                    /\ Clearing(r)' => run'[r].langs = Heard(job[r].at, n)'
  BY DEF WorkOwn, OwnWork
<1>0. QueueOK
  BY DEF EpisodeInv
<1>1. CASE ~ \E h \in Jobs : Handler(h)
  <2>1. r \in Running /\ job'[r] = job[r] /\ run'[r] = run[r] /\ r \in Jobs
    BY <1>1, HandlersWait DEF Running
  <2>2. k \in Jobs /\ job'[k].op = job[k].op
    <3>1. CASE Changes
      <4>1. /\ \A y \in New : job'[y].state = "queued"
            /\ \A x \in Jobs : job'[x] = job[x]
        BY <3>1, ChangesTell
      <4>2. QED
        BY <4>1 DEF Due, New, Running
    <3>2. CASE ~Changes
      BY <3>2, QuietSteps DEF SameHooks
    <3>3. QED
      BY <3>1, <3>2
  <2>3. PICK i \in Instances : i = job[r].at
    BY <2>1, HandlerTyped
  <2>4. Owned(k, i, n)' /\ job'[r].at = i
    BY <2>1, <2>3 DEF Owned, Imports, Present
  <2>5. Owned(k, i, n) /\ stored'[i][n] = stored[i][n]
    BY <2>2, <2>4, OwnedBefore
  <2>6. Due(k)
    BY <1>1, <2>2, <2>5, DueBefore DEF Owned, Imports
  <2>7. job[r].name = n /\ (Clearing(r) => run[r].langs = Heard(i, n))
    BY <2>1, <2>2, <2>3, <2>5, <2>6 DEF WorkOwn, OwnWork
  <2>8. Heard(i, n)' = Heard(i, n)
    BY <2>5 DEF Heard
  <2>9. QED
    BY <2>1, <2>3, <2>7, <2>8 DEF Clearing, Heard
<1>2. ASSUME NEW h \in Jobs, Handler(h)
      PROVE  job'[r].name = n /\ (Clearing(r)' => run'[r].langs = Heard(job[r].at, n)')
  <2>1. /\ r = h /\ h \in Running /\ Local(h) /\ stored' = stored /\ SameHooks /\ k \in Jobs
        /\ job'[r].name = job[r].name /\ job'[r].at = job[r].at /\ job[r].op = "import"
    BY <1>0, <1>2, HandlerIsLocal, StillAlone DEF Local, SameHooks
  <2>2. PICK i \in Instances : i = job[r].at
    BY <2>1, HandlerTyped
  <2>3. Owned(k, i, n)
    <3>1. Owned(k, i, n)'
      BY <2>1, <2>2 DEF Owned, Imports, Present
    <3>2. QED
      BY <2>1, <3>1, SameHistory
  <2>4. Heard(job[r].at, n)' = Heard(i, n)
    BY <2>1, <2>2 DEF Heard
  <2>5. CASE run[r].pc = "detect"
    <3>1. Present(i, job[r].name) /\ (Clearing(r)' => run'[r].langs = Heard(i, job[r].name))
      BY <1>2, <2>1, <2>2, <2>5, ImportGoesOn
    <3>2. job[r].name = n
      BY <2>1, <2>2, <2>3, <3>1 DEF OneFile, Owned, Present
    <3>3. QED
      BY <2>1, <2>4, <3>1, <3>2
  <2>6. CASE run[r].pc # "detect"
    <3>1. /\ run[r].pc \in Linking \cup Unlinking
          /\ Clearing(r)' => Clearing(r) /\ run'[r].langs = run[r].langs
      BY <1>2, <2>1, <2>6, ImportGoesOn
    <3>2. Due(k)
      <4>1. CASE k = r
        BY <2>1, <2>6, <4>1 DEF Due
      <4>2. CASE k # r
        BY <1>0, <2>1, <4>2, StillAlone DEF Due, Local
      <4>3. QED
        BY <4>1, <4>2
    <3>3. job[r].name = n /\ (Clearing(r) => run[r].langs = Heard(i, n))
      BY <2>1, <2>2, <2>3, <3>1, <3>2 DEF WorkOwn, OwnWork
    <3>4. QED
      BY <2>1, <2>4, <3>1, <3>3
  <2>7. QED
    BY <2>5, <2>6
<1>3. QED
  BY <1>1, <1>2

-----------------------------------------------------------------------------
(* The own file is shown, or its import is about to link it.                 *)

Ahead(r, i) ==
  run[r].pc \in Linking \cup Unlinking /\ (Clearing(r) \/ i \in Elements(run[r].todo))

Shown(i, n) == entry[i][n] = i \/ \E r \in Running : Imports(r, i, n) /\ Ahead(r, i)

OwnShown ==
  \A k \in Jobs, i \in Instances, n \in Names :
    Owned(k, i, n) /\ Due(k) /\ For(i, n, i) /\ ~TakenOver(i, n) /\ ~Delayed(i, n) => Shown(i, n)

(* A file is linked into the libraries it is for.                            *)
LEMMA ForTargets ==
  ASSUME NEW o \in Instances, NEW i \in Instances, NEW n, For(o, n, i),
         NEW langs \in SUBSET Languages, langs = Heard(o, n)
  PROVE  i \in Elements(LinkTargets(o, langs))
<1>1. /\ Speaking(langs) \in Seq(Instances)
      /\ Elements(Speaking(langs)) = Instances \cap {j \in Instances : Language[j] \in langs}
  BY EpisodeLibraryAssumption, FilterElements DEF Speaking, Instances
<1>2. Elements(Append(Speaking(langs), o)) = Elements(Speaking(langs)) \cup {o}
  BY <1>1, AppendElements
<1>3. Elements(<<o>>) = {o}
  BY SingleDistinct
<1>4. (IsPrimary(o) \/ o = i) /\ (Language[i] \in langs \/ (o = i /\ IsPrimary(i)))
  BY DEF For
<1>5. CASE Language[o] \in langs /\ IsPrimary(o)
  BY <1>1, <1>4, <1>5 DEF LinkTargets
<1>6. CASE Language[o] \in langs /\ ~IsPrimary(o)
  BY <1>3, <1>4, <1>6 DEF LinkTargets
<1>7. CASE Language[o] \notin langs /\ IsPrimary(o)
  BY <1>1, <1>2, <1>4, <1>7 DEF LinkTargets
<1>8. QED
  BY <1>4, <1>5, <1>6, <1>7

(* An import that begins to link has every library its file is for ahead.    *)
LEMMA BeginsAhead ==
  ASSUME NEW k \in Running, NEW o \in Instances, NEW i \in Instances, NEW n, For(o, n, i), job[k].at = o,
         NEW langs \in SUBSET Languages, langs = Heard(o, n), Begins(k, langs)
  PROVE  k \in Running' /\ Ahead(k, i)'
<1>1. i \in Elements(run'[k].todo)
  BY ForTargets DEF Begins
<1>2. run'[k].todo # <<>>
  BY <1>1, NothingTodo
<1>3. run'[k].pc = "find" /\ job' = job
  BY <1>2 DEF Begins
<1>4. QED
  BY <1>1, <1>3 DEF Ahead, Linking, Running, Jobs

(* The library i keeps another release of n's episode against o's.           *)
Rival(o, n, i) ==
  \E v \in Names : /\ Episode[v] = Episode[n] /\ entry[i][v] # None /\ entry[i][v] # o
                   /\ Language[entry[i][v]] = Language[i] \/ Language[o] # Language[i]

(* An import that has a library ahead links it, unless the library keeps     *)
(* another release.                                                          *)
LEMMA ImportLinks ==
  ASSUME SerialInv, OneInv, NEW o \in Instances, NEW i \in Instances, NEW n \in Names, For(o, n, i),
         NEW h \in Jobs, Handler(h), Imports(h, o, n), Ahead(h, i), Clearing(h) => run[h].langs = Heard(o, n)
  PROVE  entry'[i][n] = o \/ (h \in Running' /\ Ahead(h, i)') \/ Rival(o, n, i)
<1> SUFFICES ASSUME ~Rival(o, n, i) PROVE entry'[i][n] = o \/ (h \in Running' /\ Ahead(h, i)')
  OBVIOUS
<1>0. /\ EpisodeInv /\ h \in Running /\ SerialOK(h) /\ OneOK(h)
      /\ job[h].op = "import" /\ job[h].at = o /\ job[h].name = n
      /\ run[h].pc \in Linking \cup Unlinking /\ (Clearing(h) \/ i \in Elements(run[h].todo))
  BY HandlerIsLocal DEF SerialInv, OneInv, Imports, Ahead
<1>1. /\ Here(h) \in Instances /\ run[h].todo # <<>>
      /\ Elements(run[h].todo) = {Here(h)} \cup Elements(Tail(run[h].todo))
      /\ run[h].langs \in SUBSET Languages /\ Present(o, n)
  BY <1>0, HandlerTyped DEF For
<1>2. job' = job => h \in Running'
  BY <1>0 DEF Running, Jobs
<1>3. ASSUME job' = job, run'[h].pc \in Linking \cup Unlinking, run'[h].todo = run[h].todo,
             ~Clearing(h) \/ Clearing(h)'
      PROVE  h \in Running' /\ Ahead(h, i)'
  BY <1>0, <1>2, <1>3 DEF Ahead
<1>4. ASSUME NEW pc \in Linking, Goes(h, pc), run[h].pc \in Linking PROVE h \in Running' /\ Ahead(h, i)'
  BY <1>3, <1>4 DEF Goes, Clearing, Linking, Unlinking
<1>5. ASSUME NEW pc \in Unlinking, Goes(h, pc), run[h].pc \in Unlinking PROVE h \in Running' /\ Ahead(h, i)'
  BY <1>3, <1>5 DEF Goes, Clearing
<1>6. ASSUME Moves(h, "no") \/ Moves(h, "transient") \/ Moves(h, "permanent"), Here(h) # i, ~Clearing(h)
      PROVE  h \in Running' /\ Ahead(h, i)'
  <2>1. job' = job /\ run'[h].todo = Tail(run[h].todo) /\ i \in Elements(run'[h].todo)
    BY <1>0, <1>1, <1>6 DEF Moves
  <2>2. run'[h].pc = "find"
    BY <1>6, <2>1, NothingTodo DEF Moves
  <2>3. QED
    BY <1>2, <2>1, <2>2 DEF Ahead, Linking
<1>7. ASSUME Leaves(h), run[h].pc \in Unlinking PROVE h \in Running' /\ Ahead(h, i)'
  <2>1. CASE job' = job /\ run[h].why = "evict" /\ run'[h].pc = "prepare" /\ run'[h].todo = run[h].todo
    BY <1>3, <2>1 DEF Clearing, Linking
  <2>2. CASE job' = job /\ run'[h].pc = "stat" /\ run'[h].why = "upgrade"
    BY <1>2, <2>2 DEF Ahead, Clearing, Unlinking
  <2>3. CASE run[h].why = "upgrade" /\ Begins(h, run[h].langs)
    <3>1. run[h].langs = Heard(o, n)
      BY <1>7, <2>3 DEF Clearing
    <3>2. QED
      BY <1>0, <1>1, <2>3, <3>1, BeginsAhead
  <2>4. QED
    BY <1>0, <1>7, <2>1, <2>2, <2>3 DEF Leaves
<1>8. CASE Stat(h) \/ Prune(h)
  BY <1>0, <1>5, <1>7, <1>8, StatEffect, PruneEffect DEF Unlinking
<1>9. CASE Remove(h)
  BY <1>0, <1>5, <1>9, RemoveEffect DEF SerialOK, Unlinking
<1>10. CASE Find(h)
  BY <1>0, <1>3, <1>4, <1>10, FindEffect DEF Clearing, Linking, Unlinking
<1>11. CASE Judge(h)
  <2>1. run[h].pc = "judge" /\ ~Clearing(h)
    BY <1>0, <1>11, JudgeEffect DEF Clearing, Unlinking
  <2>2. CASE Verdict(entry[Here(h)][run[h].victim], job[h].at, Here(h)) = "skip" /\ Moves(h, "no")
    <3>1. Here(h) # i
      <4>1. SUFFICES ASSUME Here(h) = i PROVE FALSE
        OBVIOUS
      <4>2. PICK v \in Names : v = run[h].victim
        BY <1>0, <2>1, HandlerTyped DEF HandlerOK
      <4>3. PICK p : p = entry[i][v]
        OBVIOUS
      <4>4. p # None /\ p # o /\ (Language[p] = Language[i] \/ Language[o] # Language[i])
        BY <1>0, <2>2, <4>1, <4>2, <4>3 DEF Verdict
      <4>5. Episode[v] = Episode[n]
        BY <1>0, <2>1, <4>2 DEF OneOK, Evicting
      <4>6. QED
        BY <4>2, <4>3, <4>4, <4>5 DEF Rival
    <3>2. QED
      BY <1>6, <2>1, <2>2, <3>1
  <2>3. CASE Goes(h, "prepare")
    BY <1>4, <2>1, <2>3 DEF Linking
  <2>4. CASE job' = job /\ run'[h].pc = "stat" /\ run'[h].todo = run[h].todo
    BY <1>3, <2>1, <2>4 DEF Unlinking
  <2>5. QED
    BY <1>0, <1>11, <2>2, <2>3, <2>4, JudgeEffect
<1>12. CASE Prepare(h)
  BY <1>0, <1>1, <1>4, <1>12, PrepareEffect DEF Linking
<1>13. CASE Probe(h)
  <2>1. run[h].pc = "probe" /\ ~Clearing(h) /\ entry' = entry
    BY <1>0, <1>13, ProbeEffect DEF Clearing, Unlinking
  <2>2. CASE Goes(h, "create")
    BY <1>4, <2>1, <2>2 DEF Linking
  <2>3. CASE entry[Here(h)][n] = o /\ Moves(h, "no")
    BY <1>6, <2>1, <2>3
  <2>4. QED
    BY <1>0, <1>13, <2>1, <2>2, <2>3, ProbeEffect DEF SerialOK
<1>14. CASE Create(h)
  <2>1. run[h].pc = "create" /\ ~Clearing(h)
    BY <1>0, <1>14, CreateEffect DEF Clearing, Unlinking
  <2>2. CASE Moves(h, "no") /\ entry' = [entry EXCEPT ![Here(h)][n] = o]
    <3>1. Here(h) = i => entry'[i][n] = o
      BY <1>0, <2>2 DEF EpisodeInv, LibraryOK
    <3>2. QED
      BY <1>6, <2>1, <2>2, <3>1
  <2>3. CASE entry' = entry /\ entry[Here(h)][n] # None /\ Moves(h, "transient")
    <3>1. entry[Here(h)][n] = o
      BY <1>0, <2>1, <2>3 DEF SerialOK
    <3>2. QED
      BY <1>6, <2>1, <2>3, <3>1
  <2>4. QED
    BY <1>0, <1>14, <2>1, <2>2, <2>3, CreateEffect DEF SerialOK
<1>15. ~(Detect(h) \/ DetectFails(h) \/ Finish(h) \/ Check(h) \/ Clear(h))
  BY <1>0, DetectEffect, FinishEffect, CheckEffect, ClearEffect DEF Linking, Unlinking
<1>16. QED
  BY <1>8, <1>9, <1>10, <1>11, <1>12, <1>13, <1>14, <1>15 DEF Handler

(* An import that has its own library ahead links it, unless another primary *)
(* has taken it.                                                             *)
LEMMA ImportShows ==
  ASSUME SerialInv, OneInv, FitInv, Linked, WorkOwn,
         NEW k \in Jobs, NEW i \in Instances, NEW n \in Names, Owned(k, i, n), Due(k), For(i, n, i), ~TakenOver(i, n),
         NEW h \in Jobs, Handler(h), Imports(h, i, n), Ahead(h, i)
  PROVE  entry'[i][n] = i \/ (h \in Running' /\ Ahead(h, i)')
<1>1. OwnWork(h) /\ LinksFit
  BY HandlerIsLocal DEF SerialInv, FitInv, WorkOwn
<1>2. Clearing(h) => run[h].langs = Heard(i, n)
  BY <1>1 DEF OwnWork, Imports, Ahead
<1>3. ~Rival(i, n, i)
  <2>1. SUFFICES ASSUME NEW v \in Names, NEW p, p = entry[i][v], Episode[v] = Episode[n], p # None, p # i,
                        Language[p] = Language[i]
                 PROVE  FALSE
    BY DEF Rival
  <2>2. IsPrimary(p)
    BY <1>1, <2>1 DEF LinksFit, Reaches
  <2>3. PICK l \in Jobs : Imports(l, p, v)
    BY <2>1 DEF Linked
  <2>4. QED
    BY <2>1, <2>2, <2>3 DEF TakenOver, Imports
<1>4. QED
  BY <1>2, <1>3, ImportLinks

(* A delete of the file has run when the last import of it is due.           *)
LEMMA NoneRemoves ==
  ASSUME EpisodeInv, Counted, Succeeds, InFront,
         NEW k \in Jobs, NEW i \in Instances, NEW n \in Names, Owned(k, i, n), Due(k), ~Delayed(i, n),
         NEW h \in Running, Removes(h, i, n)
  PROVE  FALSE
<1>1. h \in Jobs /\ job[h].state = "running" /\ Jobs \subseteq Nat
  BY ReadyTyped DEF Running, EpisodeInv
<1>2. crashes = 0 /\ Timely(h)
  <2>1. ~(crashes > 0) /\ (job[h].op = "seriesDelete" => ~(outages > 0))
    BY <1>1 DEF Delayed
  <2>2. QED
    BY <2>1 DEF Counted, Timely, Removes
<1>3. k > h
  BY <1>1 DEF Succeeds
<1>4. job[k].state = "queued"
  BY <1>1, <1>2, <1>3 DEF InFront, FirstUp
<1>5. QED
  BY <1>4 DEF Due, Running

(* A library's own link goes only to be made again.                          *)
LEMMA OwnStays ==
  ASSUME SerialInv, OneInv, FitInv, Counted, Succeeds, InFront, HandsOK, WorkOwn,
         NEW k \in Jobs, NEW i \in Instances, NEW n \in Names, Owned(k, i, n), Due(k),
         ~TakenOver(i, n), ~Delayed(i, n), entry[i][n] = i, NEW h \in Jobs, Handler(h)
  PROVE  entry'[i][n] = i \/ (h \in Running' /\ Imports(h, i, n) /\ Ahead(h, i)')
<1>0. /\ EpisodeInv /\ h \in Running /\ SerialOK(h) /\ OneOK(h) /\ HandOK(h) /\ WorkFits(h) /\ OwnWork(h)
      /\ None \notin Instances /\ i # None
  BY HandlerIsLocal, EpisodeLibraryAssumption DEF SerialInv, OneInv, FitInv, HandsOK, WorkOwn
<1>1. ~Removes(h, i, n)
  BY <1>0, NoneRemoves
<1>2. CASE entry' = entry
  BY <1>2
<1>3. CASE /\ Here(h) \in Instances /\ job[h].name \in Names /\ entry[Here(h)][job[h].name] = None
           /\ entry' = [entry EXCEPT ![Here(h)][job[h].name] = job[h].at]
  BY <1>0, <1>3 DEF EpisodeInv, LibraryOK
<1>4. CASE /\ job[h].op = "seriesDelete" /\ Here(h) \in Instances
           /\ \E m \in Doomed(h, Here(h)) : entry' = [entry EXCEPT ![Here(h)][m] = None]
  <2>1. PICK m \in Doomed(h, Here(h)) : entry' = [entry EXCEPT ![Here(h)][m] = None]
    BY <1>4
  <2>2. CASE Here(h) = i /\ m = n
    <3>1. job[h].at = i
      BY <1>0, <2>1, <2>2 DEF Doomed, Keeps
    <3>2. QED
      BY <1>1, <1>4, <3>1 DEF Removes
  <2>3. CASE ~(Here(h) = i /\ m = n)
    BY <1>0, <1>4, <2>1, <2>3 DEF EpisodeInv, LibraryOK
  <2>4. QED
    BY <2>2, <2>3
<1>5. CASE /\ run[h].pc = "remove" /\ Goes(h, "prune") /\ Here(h) \in Instances /\ run[h].victim \in Names
           /\ entry' = [entry EXCEPT ![Here(h)][run[h].victim] = None]
  <2>1. CASE ~(Here(h) = i /\ run[h].victim = n)
    BY <1>0, <1>5, <2>1 DEF EpisodeInv, LibraryOK
  <2>2. CASE Here(h) = i /\ run[h].victim = n
    <3>1. HandlerOK(job[h], "running", run[h]) /\ i \in Elements(run[h].todo)
      BY <1>0, <1>5, <2>2, HandlerTyped DEF Unlinking
    <3>2. h \in Running' /\ (job[h].op = "import" /\ Clearing(h) => Ahead(h, i)')
          /\ (run[h].why = "evict" => Ahead(h, i)')
      BY <1>0, <1>5, <3>1 DEF Goes, Running, Jobs, Ahead, Clearing, Unlinking
    <3>3. CASE job[h].op = "delete" /\ run[h].why = "delete" /\ run[h].victim = job[h].name
      <4>1. job[h].at = i
        BY <1>0, <1>5, <2>2, <3>3 DEF HandOK, MayRemove
      <4>2. QED
        BY <1>1, <2>2, <3>3, <4>1 DEF Removes
    <3>4. CASE job[h].op = "import" /\ run[h].why = "upgrade" /\ run[h].victim = job[h].name
      <4>1. job[h].upgrade
        BY <1>0, <1>5, <3>4 DEF HandOK, Unlinking
      <4>2. job[h].at # i => IsPrimary(job[h].at)
        BY <1>0, <3>1 DEF WorkFits, Reaches
      <4>3. job[h].at = i
        BY <2>2, <3>4, <4>1, <4>2 DEF TakenOver
      <4>4. Clearing(h)
        BY <1>5, <3>4 DEF Clearing, Unlinking
      <4>5. QED
        BY <2>2, <3>2, <3>4, <4>3, <4>4 DEF Imports
    <3>5. CASE job[h].op = "import" /\ run[h].why = "evict"
      <4>1. job[h].at = i
        BY <1>0, <1>5, <2>2, <3>5 DEF HandOK, Verdict
      <4>2. Episode[n] = Episode[job[h].name]
        BY <1>0, <1>5, <2>2, <3>5 DEF OneOK, Evicting, Unlinking
      <4>3. job[h].name = n
        BY <1>0, <1>5, <3>5, <4>1, <4>2 DEF OwnWork, Unlinking
      <4>4. QED
        BY <3>2, <3>5, <4>1, <4>3 DEF Imports
    <3>6. QED
      BY <1>5, <3>1, <3>3, <3>4, <3>5 DEF HandlerOK, Unlinking
  <2>3. QED
    BY <2>1, <2>2
<1>6. QED
  BY <1>0, <1>2, <1>3, <1>4, <1>5, EntryEffect

(* What took a file over, or put its delete off, has done so for good.       *)
LEMMA ForGood ==
  ASSUME EpisodeInv, Counted, [Next]_vars, NEW i \in Instances, NEW n \in Names,
         Jobs \subseteq Jobs',
         \A k \in Jobs : /\ job'[k].op = job[k].op /\ job'[k].at = job[k].at
                         /\ job'[k].name = job[k].name /\ job'[k].upgrade = job[k].upgrade
  PROVE  (TakenOver(i, n) => TakenOver(i, n)') /\ (Delayed(i, n) => Delayed(i, n)')
<1>1. outages <= outages' /\ crashes <= crashes' /\ outages' \in Nat /\ crashes' \in Nat
  BY CountedStep DEF Counted
<1>2. TakenOver(i, n) => TakenOver(i, n)'
  BY DEF TakenOver, IsPrimary
<1>3. ASSUME Delayed(i, n) PROVE Delayed(i, n)'
  <2>1. PICK d \in Jobs : Removes(d, i, n) /\ (crashes > 0 \/ (job[d].op = "seriesDelete" /\ outages > 0))
    BY <1>3 DEF Delayed
  <2>2. d \in Jobs' /\ Removes(d, i, n)' /\ job'[d].op = job[d].op
    BY <2>1 DEF Removes
  <2>3. crashes' > 0 \/ (job'[d].op = "seriesDelete" /\ outages' > 0)
    BY <1>1, <2>1, <2>2 DEF Counted
  <2>4. QED
    BY <2>2, <2>3 DEF Delayed
<1>4. QED
  BY <1>2, <1>3

(* A running handler that does not move stays as it is, unless the process   *)
(* crashes.                                                                  *)
LEMMA HandlersStay ==
  ASSUME EpisodeInv, [Next]_vars, ~ \E k \in Jobs : Handler(k), ~Crash, NEW r \in Running
  PROVE  r \in Running' /\ run'[r] = run[r] /\ r \in Jobs
<1>0. QueueOK /\ r \in Jobs
  BY DEF EpisodeInv, Running
<1>1. CASE UNCHANGED vars
  BY <1>0, <1>1 DEF vars, Running, Jobs
<1>2. CASE Changes
  <2>1. PICK hooks \in Seq(JobRecord) : Enqueue(hooks) /\ \A x \in 1 .. Len(hooks) : hooks[x].state = "queued"
    BY <1>2, SonarrEnqueues DEF Changes
  <2>2. QED
    BY <1>0, <2>1, EnqueueExtends
<1>3. ASSUME NEW j \in Jobs, Claim(j) PROVE r \in Running' /\ run'[r] = run[r]
  <2>1. Local(j) /\ Running' = Running \cup {j} /\ job[j].state = "queued"
    BY <1>0, <1>3, ClaimFacts, ClaimKeepsQueue
  <2>2. QED
    BY <1>0, <2>1 DEF Local, Running
<1>4. ASSUME NEW j \in Jobs, BackoffOver(j) \/ Sweep(j) PROVE r \in Running' /\ run'[r] = run[r]
  BY <1>0, <1>4, RequeueFacts
<1>5. QED
  BY <1>0, <1>1, <1>2, <1>3, <1>4 DEF Next, Changes

(* The inductive invariant of the own files.                                 *)
OwnInv == Counted /\ History /\ HandsOK /\ InFront /\ WorkOwn /\ OwnShown

LEMMA ShownStep ==
  Concurrency = 1 /\ UpgradeDeletes /\ SerialInv /\ OneInv /\ FitInv /\ OwnInv /\ [Next]_vars => OwnShown'
<1> SUFFICES ASSUME Concurrency = 1, UpgradeDeletes, SerialInv, OneInv, FitInv, OwnInv, [Next]_vars,
                    NEW k \in Jobs', NEW i \in Instances, NEW n \in Names,
                    Owned(k, i, n)', Due(k)', For(i, n, i)', ~TakenOver(i, n)', ~Delayed(i, n)'
             PROVE  Shown(i, n)'
  BY DEF OwnShown
<1>0. /\ EpisodeInv /\ QueueOK /\ OneFile /\ Counted /\ Succeeds /\ Twice /\ Linked /\ HandsOK /\ InFront
      /\ WorkOwn /\ OwnShown
  BY DEF SerialInv, EpisodeInv, FitInv, OwnInv, History
<1>1. /\ Jobs \subseteq Jobs' /\ k \in Jobs
      /\ \A x \in Jobs : /\ job'[x].op = job[x].op /\ job'[x].at = job[x].at
                         /\ job'[x].name = job[x].name /\ job'[x].upgrade = job[x].upgrade
  <2>1. CASE Changes
    <3>1. /\ \A y \in New : job'[y].state = "queued"
          /\ \A x \in Jobs : job'[x] = job[x]
          /\ Jobs \subseteq Jobs'
      BY <1>0, <2>1, ChangesTell
    <3>2. QED
      BY <3>1 DEF Due, New, Running
  <2>2. CASE ~Changes
    BY <1>0, <2>2, QuietSteps DEF SameHooks
  <2>3. QED
    BY <2>1, <2>2
<1>2. Owned(k, i, n) /\ stored'[i][n] = stored[i][n]
  BY <1>0, <1>1, OwnedBefore
<1>3. For(i, n, i)
  BY <1>2 DEF For, Owned, Heard
<1>4. ~TakenOver(i, n) /\ ~Delayed(i, n)
  BY <1>0, <1>1, ForGood
<1>5. \A x \in Jobs : Imports(x, i, n)' <=> Imports(x, i, n)
  BY <1>1 DEF Imports
<1>6. CASE ~ \E h \in Jobs : Handler(h)
  <2>1. Due(k) /\ job'[k].state = job[k].state
    BY <1>0, <1>1, <1>2, <1>6, DueBefore DEF Owned, Imports
  <2>2. Shown(i, n) /\ entry' = entry
    <3>1. Shown(i, n)
      BY <1>0, <1>1, <1>2, <1>3, <1>4, <2>1 DEF OwnShown
    <3>2. entry' = entry
      BY <1>0, <1>6, OtherSteps DEF Same
    <3>3. QED
      BY <3>1, <3>2
  <2>3. CASE entry[i][n] = i
    BY <2>2, <2>3 DEF Shown
  <2>4. ASSUME NEW r \in Running, Imports(r, i, n), Ahead(r, i) PROVE Shown(i, n)'
    <3>1. CASE Crash
      <4>1. crashes' > 0 /\ Jobs' = Jobs /\ job'[k].state # "running"
        BY <1>0, <3>1, CrashFacts DEF Crash, Counted, SameHooks, Running
      <4>2. ~ \E d \in Jobs : Removes(d, i, n)
        BY <1>1, <4>1 DEF Delayed, Removes
      <4>3. r = k
        BY <1>0, <1>1, <1>2, <2>4, <4>2 DEF Twice, Owned, Running
      <4>4. QED
        BY <2>1, <2>4, <4>1, <4>3 DEF Running
    <3>2. CASE ~Crash
      <4>1. r \in Running' /\ run'[r] = run[r] /\ r \in Jobs
        BY <1>0, <1>6, <2>4, <3>2, HandlersStay
      <4>2. Imports(r, i, n)' /\ Ahead(r, i)'
        BY <1>5, <2>4, <4>1 DEF Ahead, Clearing
      <4>3. QED
        BY <4>1, <4>2 DEF Shown
    <3>3. QED
      BY <3>1, <3>2
  <2>5. QED
    BY <2>2, <2>3, <2>4 DEF Shown
<1>7. ASSUME NEW h \in Jobs, Handler(h) PROVE Shown(i, n)'
  <2>1. h \in Running /\ Local(h) /\ stored' = stored /\ \A r \in Running : r = h
    BY <1>0, <1>7, HandlerIsLocal, OneAtATime
  <2>2. CASE Due(k)
    <3>1. Shown(i, n)
      BY <1>0, <1>1, <1>2, <1>3, <1>4, <2>2 DEF OwnShown
    <3>2. entry'[i][n] = i \/ (h \in Running' /\ Imports(h, i, n) /\ Ahead(h, i)')
      <4>1. CASE entry[i][n] = i
        BY <1>0, <1>1, <1>2, <1>4, <1>7, <2>2, <4>1, OwnStays
      <4>2. CASE Imports(h, i, n) /\ Ahead(h, i)
        BY <1>0, <1>1, <1>2, <1>3, <1>4, <1>7, <2>2, <4>2, ImportShows
      <4>3. QED
        BY <2>1, <3>1, <4>1, <4>2 DEF Shown
    <3>3. QED
      BY <1>5, <3>2 DEF Shown
  <2>3. CASE ~Due(k)
    <3>1. k = h
      BY <1>1, <2>1, <2>3 DEF Due, Local, Running
    <3>2. job[h].op = "import" /\ job[h].at = i /\ job[h].name = n /\ run[h].pc = "detect"
      BY <1>2, <2>1, <2>3, <3>1 DEF Owned, Imports, Due
    <3>3. /\ Detect(h) \/ DetectFails(h)
      BY <1>0, <1>7, <3>2, StatEffect, RemoveEffect, PruneEffect, FindEffect, JudgeEffect, PrepareEffect,
         ProbeEffect, CreateEffect, FinishEffect, CheckEffect, ClearEffect DEF Handler
    <3>4. ~Ends(h, "failed")
      BY <3>1 DEF Ends, Due, Running
    <3>5. PICK langs \in SUBSET Languages : langs = Heard(i, n)
      BY <1>0, <3>2, <3>3, <3>4, DetectEffect
    <3>6. \/ Begins(h, langs)
          \/ job' = job /\ run'[h].pc = "stat" /\ run'[h].why = "upgrade"
      BY <1>0, <3>2, <3>3, <3>4, <3>5, DetectEffect
    <3>7. h \in Running' /\ Ahead(h, i)'
      <4>1. CASE Begins(h, langs)
        BY <1>3, <2>1, <3>2, <3>5, <4>1, BeginsAhead
      <4>2. CASE job' = job /\ run'[h].pc = "stat" /\ run'[h].why = "upgrade"
        BY <2>1, <4>2 DEF Running, Jobs, Ahead, Clearing, Unlinking
      <4>3. QED
        BY <3>6, <4>1, <4>2
    <3>8. Imports(h, i, n)'
      BY <1>1, <1>2, <1>5, <3>1 DEF Owned
    <3>9. QED
      BY <3>7, <3>8 DEF Shown
  <2>4. QED
    BY <2>2, <2>3
<1>8. QED
  BY <1>6, <1>7

LEMMA OwnStep ==
  Concurrency = 1 /\ UpgradeDeletes /\ SerialInv /\ OneInv /\ FitInv /\ OwnInv /\ [Next]_vars => OwnInv'
<1> SUFFICES ASSUME Concurrency = 1, UpgradeDeletes, SerialInv, OneInv, FitInv, OwnInv, [Next]_vars PROVE OwnInv'
  OBVIOUS
<1>0. EpisodeInv /\ OneFile /\ Counted /\ History /\ HandsOK /\ InFront /\ WorkOwn
  BY DEF SerialInv, FitInv, OwnInv
<1>1. Counted' /\ History'
  BY <1>0, CountedStep, HistoryStep
<1>2. HandsOK' /\ InFront'
  BY <1>0, HandsStep, FrontStep
<1>3. WorkOwn' /\ OwnShown'
  BY <1>0, WorkStep, ShownStep
<1>4. QED
  BY <1>1, <1>2, <1>3 DEF OwnInv

LEMMA OwnInit == Init => OwnInv
<1> SUFFICES ASSUME Init PROVE OwnInv
  OBVIOUS
<1>1. Jobs = {} /\ Running = {}
  BY DEF Init, Jobs, Running
<1>2. Linked /\ Counted
  BY DEF Init, Linked, Counted
<1>3. History
  BY <1>1, <1>2 DEF History, Succeeds, Gone, Twice
<1>4. QED
  BY <1>1, <1>2, <1>3 DEF OwnInv, HandsOK, InFront, WorkOwn, OwnShown

(* The invariants of one worker, together.                                   *)
LEMMA OwnInvariant ==
  Concurrency = 1 /\ UpgradeDeletes /\ (\A n \in Names : Marker[n] = Episode[n])
    => (Spec => [](SerialInv /\ OneInv /\ FitInv /\ OwnInv))
<1> SUFFICES ASSUME Concurrency = 1, UpgradeDeletes, \A n \in Names : Marker[n] = Episode[n]
             PROVE  Spec => [](SerialInv /\ OneInv /\ FitInv /\ OwnInv)
  OBVIOUS
<1>1. Init => OneInv
  <2> SUFFICES ASSUME Init PROVE OneInv
    OBVIOUS
  <2>1. Running = {} /\ OneLinkPerEpisode
    BY DEF Init, Jobs, Running, OneLinkPerEpisode
  <2>2. QED
    BY <2>1 DEF OneInv
<1>2. SerialInv /\ OneInv /\ [Next]_vars => OneInv'
  BY OneStep
<1>3. SerialInv /\ [Next]_vars => SerialInv'
  BY SerialStep
<1>4. SerialInv /\ FitInv /\ [Next]_vars => FitInv'
  BY FitStep
<1>5. SerialInv /\ OneInv /\ FitInv /\ OwnInv /\ [Next]_vars => OwnInv'
  BY OwnStep
<1>6. QED
  BY <1>1, <1>2, <1>3, <1>4, <1>5, SerialInit, FitInit, OwnInit, PTL DEF Spec

(* With one worker, names that carry the marker of their episode, and Sonarr *)
(* reporting the files upgrades replace, a stored file that its last import  *)
(* linked stays what its own library shows (import.rs:548), unless another   *)
(* primary takes the library over or a delete of the file was put off by a   *)
(* crash or an outage.                                                       *)
THEOREM OwnEpisodesAreShown ==
  Concurrency = 1 /\ UpgradeDeletes /\ (\A n \in Names : Marker[n] = Episode[n]) => (Spec => []OwnFileShown)
<1> SUFFICES ASSUME Concurrency = 1, UpgradeDeletes, \A n \in Names : Marker[n] = Episode[n]
             PROVE  Spec => []OwnFileShown
  OBVIOUS
<1>1. SerialInv /\ OwnInv => OwnFileShown
  <2> SUFFICES ASSUME SerialInv, OwnInv, NEW i \in Instances, NEW n \in DOMAIN stored[i],
                      Imported(i, n), For(i, n, i), \A k \in Running : ~Imports(k, i, n)
               PROVE  entry[i][n] = i \/ TakenOver(i, n) \/ Delayed(i, n)
    BY DEF OwnFileShown
  <2>1. n \in Names /\ Present(i, n)
    BY DEF SerialInv, EpisodeInv, StorageOK, Present
  <2>2. PICK k \in Jobs : Imports(k, i, n) /\ job[k].state = "done" /\ \A l \in Jobs : Imports(l, i, n) => l <= k
    BY DEF Imported, Imports
  <2>3. Owned(k, i, n) /\ Due(k)
    BY <2>1, <2>2 DEF Owned, Due
  <2>4. ~TakenOver(i, n) /\ ~Delayed(i, n) => Shown(i, n)
    BY <2>1, <2>3 DEF OwnInv, OwnShown
  <2>5. QED
    BY <2>4 DEF Shown
<1>2. QED
  BY <1>1, OwnInvariant, PTL

-----------------------------------------------------------------------------
(* The order of the imports does not matter, as long as nothing is deleted   *)
(* or upgraded: what decides between two releases is whose they are.         *)

Early == \A k \in Jobs : job[k].op = "import" /\ ~job[k].upgrade

(* No two instances serve one language.                                      *)
NoTies == \A i, j \in Instances : Language[i] = Language[j] => i = j

(* The library's own instance has a release of n's episode for it.           *)
Native(i, n) == \E m \in Names : Episode[m] = Episode[n] /\ For(i, m, i)

(* A stored file was imported.                                               *)
Reported == \A i \in Instances, n \in Names : Present(i, n) => \E k \in Jobs : Imports(k, i, n)

(* The library shows o's file, or its own instance's, or the import of the   *)
(* file is about to link it.                                                 *)
Reached(o, n, i) ==
  entry[i][n] = o \/ Native(i, n) \/ \E r \in Running : Imports(r, o, n) /\ Ahead(r, i)

OthersShown ==
  Early => \A k \in Jobs, o, i \in Instances, n \in Names :
             Imports(k, o, n) /\ Due(k) /\ For(o, n, i) => Reached(o, n, i)

OrderInv == Reported /\ OthersShown

(* Nothing is removed then, and a link fits its file.                        *)
LEMMA EarlyFits ==
  ASSUME Early, NEW o \in Instances, NEW n, NEW i
  PROVE  (\A d \in Jobs : ~Removes(d, o, n)) /\ (Fits(o, n, i) => For(o, n, i))
BY DEF Early, Removes, Fits, Pending

(* What comes early comes after the early, and leaves the files that were    *)
(* imported alone.                                                           *)
LEMMA EarlyBefore ==
  ASSUME UpgradeDeletes, EpisodeInv, OneFile, History, [Next]_vars, Early'
  PROVE  /\ Early /\ Jobs \subseteq Jobs'
         /\ \A k \in Jobs : \A i, n : Imports(k, i, n)' <=> Imports(k, i, n)
         /\ \A o \in Instances, n \in Names :
              /\ Present(o, n) => Present(o, n)' /\ stored'[o][n] = stored[o][n]
              /\ Present(o, n)' /\ ~Present(o, n) => \A k \in Jobs : ~Imports(k, o, n)
<1>1. CASE Changes
  <2>1. /\ Jobs \subseteq Jobs' /\ \A k \in Jobs : job'[k] = job[k]
        /\ \A o \in Instances, n \in Names : Untouched(o, n) \/ Lost(o, n) \/ Got(o, n)
    BY <1>1, ChangesTell
  <2>2. Early
    BY <2>1 DEF Early
  <2>3. \A y \in New : \A o, n : ~Removes(y, o, n)'
    BY DEF Early, Removes, New
  <2>4. ASSUME NEW o \in Instances, NEW n \in Names
        PROVE  /\ Present(o, n) => Present(o, n)' /\ stored'[o][n] = stored[o][n]
               /\ Present(o, n)' /\ ~Present(o, n) => \A k \in Jobs : ~Imports(k, o, n)
    <3>1. Untouched(o, n) \/ (Present(o, n)' /\ ~Present(o, n))
      BY <2>1, <2>3 DEF Lost, Got
    <3>2. ~Present(o, n) => \A k \in Jobs : ~Imports(k, o, n)
      BY <2>2 DEF History, Gone, Early, Removes
    <3>3. QED
      BY <3>1, <3>2 DEF Untouched
  <2>5. QED
    BY <2>1, <2>2, <2>4 DEF Imports
<1>2. CASE ~Changes
  <2>1. SameHooks /\ stored' = stored
    BY <1>2, QuietSteps
  <2>2. QED
    BY <2>1 DEF SameHooks, Early, Imports, Present
<1>3. QED
  BY <1>1, <1>2

(* And what a file is for, once it has been imported, does not change.       *)
LEMMA ForStays ==
  ASSUME UpgradeDeletes, EpisodeInv, OneFile, History, [Next]_vars, Early',
         NEW o \in Instances, NEW i \in Instances, NEW n \in Names
  PROVE  /\ For(o, n, i) => For(o, n, i)'
         /\ (\E k \in Jobs : Imports(k, o, n)) /\ For(o, n, i)' => For(o, n, i)
BY EarlyBefore DEF For, Heard, IsPrimary, Present

LEMMA NativeStays ==
  ASSUME UpgradeDeletes, EpisodeInv, OneFile, History, [Next]_vars, Early',
         NEW i \in Instances, NEW n, Native(i, n)
  PROVE  Native(i, n)'
BY ForStays DEF Native

LEMMA ReportedStep ==
  UpgradeDeletes /\ EpisodeInv /\ OneFile /\ Reported /\ [Next]_vars => Reported'
<1> SUFFICES ASSUME UpgradeDeletes, EpisodeInv, OneFile, Reported, [Next]_vars,
                    NEW i \in Instances, NEW n \in Names, Present(i, n)'
             PROVE  \E k \in Jobs' : Imports(k, i, n)'
  BY DEF Reported
<1>1. CASE Changes
  <2>1. /\ Jobs \subseteq Jobs' /\ \A k \in Jobs : job'[k] = job[k]
        /\ Untouched(i, n) \/ Lost(i, n) \/ Got(i, n)
    BY <1>1, ChangesTell
  <2>2. CASE Got(i, n)
    BY <2>2 DEF Got, New
  <2>3. CASE Untouched(i, n)
    <3>1. PICK k \in Jobs : Imports(k, i, n)
      BY <2>3 DEF Untouched, Reported
    <3>2. k \in Jobs' /\ Imports(k, i, n)'
      BY <2>1, <3>1 DEF Imports
    <3>3. QED
      BY <3>2
  <2>4. QED
    BY <2>1, <2>2, <2>3 DEF Lost
<1>2. CASE ~Changes
  BY <1>2, QuietSteps DEF SameHooks, Present, Reported, Imports
<1>3. QED
  BY <1>1, <1>2

(* The release a library keeps against another's is its own instance's.      *)
LEMMA RivalIsNative ==
  ASSUME NoTies, FitInv, EpisodeInv, Early,
         NEW o \in Instances, NEW i \in Instances, NEW n \in Names, For(o, n, i), Rival(o, n, i)
  PROVE  Native(i, n)
<1>1. PICK v \in Names : /\ Episode[v] = Episode[n] /\ entry[i][v] # None /\ entry[i][v] # o
                         /\ Language[entry[i][v]] = Language[i] \/ Language[o] # Language[i]
  BY DEF Rival
<1>0. PICK p : p = entry[i][v]
  OBVIOUS
<1>2. p \in Instances
  BY <1>1, <1>0 DEF EpisodeInv, LibraryOK
<1>3. Reaches(p, i) /\ For(p, v, i)
  BY <1>1, <1>2, <1>0, EarlyFits DEF FitInv, LinksFit
<1>4. p = i
  <2>1. SUFFICES ASSUME p # i PROVE FALSE
    OBVIOUS
  <2>2. IsPrimary(p) /\ Language[o] # Language[i]
    BY <1>1, <1>2, <1>3, <1>0, <2>1 DEF Reaches, NoTies
  <2>3. IsPrimary(o)
    BY <2>2 DEF For
  <2>4. QED
    BY <1>1, <1>2, <1>3, <1>0, <2>1, <2>2, <2>3 DEF IsPrimary, NoTies, Reaches
<1>5. QED
  BY <1>1, <1>3, <1>4 DEF Native

(* A link goes for its own instance's release, or to be made again.          *)
LEMMA LinkStays ==
  ASSUME NoTies, SerialInv, OneInv, FitInv, HandsOK, Early,
         NEW o \in Instances, NEW i \in Instances, NEW n \in Names, For(o, n, i), entry[i][n] = o,
         NEW h \in Jobs, Handler(h)
  PROVE  entry'[i][n] = o \/ Native(i, n) \/ (h \in Running' /\ Imports(h, o, n) /\ Ahead(h, i)')
<1>0. /\ EpisodeInv /\ h \in Running /\ OneOK(h) /\ HandOK(h) /\ WorkFits(h) /\ OneFile
      /\ None \notin Instances /\ o # None
      /\ job[h].op = "import" /\ ~job[h].upgrade
  BY HandlerIsLocal, EpisodeLibraryAssumption DEF SerialInv, OneInv, FitInv, HandsOK, Early
<1>1. CASE entry' = entry
  BY <1>1
<1>2. CASE /\ Here(h) \in Instances /\ job[h].name \in Names /\ entry[Here(h)][job[h].name] = None
           /\ entry' = [entry EXCEPT ![Here(h)][job[h].name] = job[h].at]
  BY <1>0, <1>2 DEF EpisodeInv, LibraryOK
<1>3. CASE /\ run[h].pc = "remove" /\ Goes(h, "prune") /\ Here(h) \in Instances /\ run[h].victim \in Names
           /\ entry' = [entry EXCEPT ![Here(h)][run[h].victim] = None]
  <2>1. CASE ~(Here(h) = i /\ run[h].victim = n)
    BY <1>0, <1>3, <2>1 DEF EpisodeInv, LibraryOK
  <2>2. CASE Here(h) = i /\ run[h].victim = n
    <3>1. HandlerOK(job[h], "running", run[h]) /\ i \in Elements(run[h].todo)
          /\ job[h].at \in Instances /\ job[h].name \in Names
      BY <1>0, <1>3, <2>2, HandlerTyped DEF Unlinking
    <3>2. run[h].why = "evict"
      BY <1>0, <1>3, <3>1 DEF HandlerOK, HandOK, Unlinking
    <3>3. h \in Running' /\ Ahead(h, i)'
      BY <1>0, <1>3, <3>1 DEF Goes, Running, Jobs, Ahead, Unlinking
    <3>4. job[h].at = o \/ Language[job[h].at] = Language[i]
      BY <1>0, <1>3, <2>2, <3>2 DEF HandOK, Verdict
    <3>5. Episode[n] = Episode[job[h].name]
      BY <1>0, <1>3, <2>2, <3>2 DEF OneOK, Evicting, Unlinking
    <3>6. For(job[h].at, job[h].name, i)
      BY <1>0, <1>3, <3>1, <3>2, EarlyFits DEF WorkFits, Targets, Unlinking
    <3>7. CASE job[h].at = o
      <4>1. job[h].name = n
        BY <1>0, <3>5, <3>6, <3>7 DEF OneFile, For, Present
      <4>2. QED
        BY <1>0, <3>3, <3>7, <4>1 DEF Imports
    <3>8. CASE Language[job[h].at] = Language[i]
      BY <3>1, <3>5, <3>6, <3>8 DEF NoTies, Native
    <3>9. QED
      BY <3>4, <3>7, <3>8
  <2>3. QED
    BY <2>1, <2>2
<1>4. QED
  BY <1>0, <1>1, <1>2, <1>3, EntryEffect

LEMMA OthersStep ==
  Concurrency = 1 /\ UpgradeDeletes /\ NoTies /\ SerialInv /\ OneInv /\ FitInv /\ OwnInv /\ OrderInv
  /\ [Next]_vars => OthersShown'
<1> SUFFICES ASSUME Concurrency = 1, UpgradeDeletes, NoTies, SerialInv, OneInv, FitInv, OwnInv, OrderInv,
                    [Next]_vars, Early', NEW k \in Jobs', NEW o \in Instances, NEW i \in Instances, NEW n \in Names,
                    Imports(k, o, n)', Due(k)', For(o, n, i)'
             PROVE  Reached(o, n, i)'
  BY DEF OthersShown
<1>0. /\ EpisodeInv /\ QueueOK /\ OneFile /\ History /\ Twice /\ HandsOK /\ OthersShown
  BY DEF SerialInv, EpisodeInv, FitInv, OwnInv, History, OrderInv
<1>1. /\ Early /\ Jobs \subseteq Jobs'
      /\ \A x \in Jobs : Imports(x, o, n)' <=> Imports(x, o, n)
  BY <1>0, EarlyBefore
<1>2. k \in Jobs
  <2>1. CASE Changes
    BY <1>0, <2>1, ChangesTell DEF Due, New, Running
  <2>2. CASE ~Changes
    BY <1>0, <2>2, QuietSteps DEF SameHooks
  <2>3. QED
    BY <2>1, <2>2
<1>3. Imports(k, o, n) /\ For(o, n, i)
  BY <1>0, <1>1, <1>2, ForStays
<1>4. \A r \in Jobs : Imports(r, o, n) => r = k
  BY <1>0, <1>1, <1>2, <1>3, EarlyFits DEF Twice
<1>5. Native(i, n) => Reached(o, n, i)'
  BY <1>0, NativeStays DEF Reached
<1>6. CASE ~ \E h \in Jobs : Handler(h)
  <2>1. Due(k) /\ job'[k].state = job[k].state
    BY <1>0, <1>2, <1>3, <1>6, DueBefore DEF Imports
  <2>2. Reached(o, n, i)
    BY <1>0, <1>1, <1>2, <1>3, <2>1 DEF OthersShown
  <2>3. entry' = entry
    BY <1>0, <1>6, OtherSteps DEF Same
  <2>4. ASSUME NEW r \in Running, Imports(r, o, n), Ahead(r, i) PROVE Reached(o, n, i)'
    <3>1. CASE Crash
      <4>1. Jobs' = Jobs /\ Running' = {} /\ job'[k].state = IF k \in Running THEN "orphaned" ELSE job[k].state
        BY <1>0, <1>2, <3>1, CrashFacts DEF SameHooks
      <4>2. r = k
        BY <1>4, <2>4 DEF Running
      <4>3. QED
        BY <2>4, <4>1, <4>2 DEF Due
    <3>2. CASE ~Crash
      <4>1. r \in Running' /\ run'[r] = run[r] /\ r \in Jobs
        BY <1>0, <1>6, <2>4, <3>2, HandlersStay
      <4>2. Imports(r, o, n)' /\ Ahead(r, i)'
        BY <1>1, <2>4, <4>1 DEF Ahead, Clearing
      <4>3. QED
        BY <4>1, <4>2 DEF Reached
    <3>3. QED
      BY <3>1, <3>2
  <2>5. QED
    BY <1>5, <2>2, <2>3, <2>4 DEF Reached
<1>7. ASSUME NEW h \in Jobs, Handler(h) PROVE Reached(o, n, i)'
  <2>1. h \in Running /\ Local(h) /\ stored' = stored /\ \A r \in Running : r = h
    BY <1>0, <1>7, HandlerIsLocal, OneAtATime
  <2>2. ~Clearing(h)
    BY <1>0, <1>1, <2>1 DEF HandsOK, HandOK, Clearing, Early
  <2>3. CASE Due(k)
    <3>1. Reached(o, n, i)
      BY <1>0, <1>1, <1>2, <1>3, <2>3 DEF OthersShown
    <3>2. CASE entry[i][n] = o
      BY <1>0, <1>1, <1>3, <1>5, <1>7, <3>2, LinkStays DEF Reached
    <3>3. CASE Imports(h, o, n) /\ Ahead(h, i)
      <4>1. entry'[i][n] = o \/ (h \in Running' /\ Ahead(h, i)') \/ Rival(o, n, i)
        BY <1>3, <1>7, <2>2, <3>3, ImportLinks
      <4>2. Rival(o, n, i) => Native(i, n)
        BY <1>0, <1>1, <1>3, RivalIsNative
      <4>3. QED
        BY <1>1, <1>5, <3>3, <4>1, <4>2 DEF Reached
    <3>4. QED
      BY <1>5, <2>1, <3>1, <3>2, <3>3 DEF Reached
  <2>4. CASE ~Due(k)
    <3>1. k = h
      BY <1>2, <2>1, <2>4 DEF Due, Local, Running
    <3>2. job[h].op = "import" /\ job[h].at = o /\ job[h].name = n /\ ~job[h].upgrade /\ run[h].pc = "detect"
      BY <1>1, <1>3, <2>1, <2>4, <3>1 DEF Imports, Due, Early
    <3>3. Detect(h) \/ DetectFails(h)
      BY <1>0, <1>7, <3>2, StatEffect, RemoveEffect, PruneEffect, FindEffect, JudgeEffect, PrepareEffect,
         ProbeEffect, CreateEffect, FinishEffect, CheckEffect, ClearEffect DEF Handler
    <3>4. ~Ends(h, "failed")
      BY <3>1 DEF Ends, Due, Running
    <3>5. PICK langs \in SUBSET Languages : langs = Heard(o, n)
      BY <1>0, <3>2, <3>3, <3>4, DetectEffect
    <3>6. Begins(h, langs)
      BY <1>0, <3>2, <3>3, <3>4, <3>5, DetectEffect
    <3>7. h \in Running' /\ Ahead(h, i)'
      BY <1>3, <2>1, <3>2, <3>5, <3>6, BeginsAhead
    <3>8. QED
      BY <1>1, <1>3, <3>1, <3>7 DEF Reached
  <2>5. QED
    BY <2>3, <2>4
<1>8. QED
  BY <1>6, <1>7

(* When all imports are done, a library shows its own instance's files,      *)
(* else the primary's, and nothing else.                                     *)
LEMMA EarlyLinks ==
  ASSUME NoTies, SerialInv, OneInv, FitInv, OwnInv, OrderInv, Early,
         \A k \in Jobs : job[k].state = "done", NEW i \in Instances
  PROVE  /\ \A n \in Names : entry[i][n] # None => entry[i][n] \in Instances /\ For(entry[i][n], n, i)
         /\ \A n \in Names : For(i, n, i) => entry[i][n] = i
         /\ \A o \in Instances, n \in Names : For(o, n, i) => entry[i][n] = o \/ Native(i, n)
<1>0. EpisodeInv /\ Running = {} /\ Jobs \subseteq Nat
  BY ReadyTyped DEF SerialInv, EpisodeInv, Running
<1>1. ASSUME NEW n \in Names, entry[i][n] # None PROVE entry[i][n] \in Instances /\ For(entry[i][n], n, i)
  BY <1>0, <1>1, EarlyFits DEF FitInv, LinksFit, EpisodeInv, LibraryOK
<1>2. ASSUME NEW n \in Names, For(i, n, i) PROVE entry[i][n] = i
  <2>1. PICK k \in Jobs : Imports(k, i, n)
    BY <1>2 DEF OrderInv, Reported, For
  <2>2. \A l \in Jobs : Imports(l, i, n) => l = k
    BY <2>1, EarlyFits DEF OwnInv, History, Twice
  <2>3. Owned(k, i, n) /\ Due(k)
    BY <1>0, <1>2, <2>1, <2>2 DEF Owned, Due, For
  <2>4. ~Delayed(i, n)
    BY EarlyFits DEF Delayed
  <2>5. ~TakenOver(i, n)
    <3>1. \A l \in Jobs : job[l].at \in Instances
      BY <1>0, JobTyped DEF EpisodeInv, JobRecord
    <3>2. QED
      BY <3>1 DEF TakenOver, Early, NoTies
  <2>6. QED
    BY <1>0, <1>2, <2>3, <2>4, <2>5 DEF OwnInv, OwnShown, Shown
<1>3. ASSUME NEW o \in Instances, NEW n \in Names, For(o, n, i) PROVE entry[i][n] = o \/ Native(i, n)
  <2>1. PICK k \in Jobs : Imports(k, o, n)
    BY <1>3 DEF OrderInv, Reported, For
  <2>2. QED
    BY <1>0, <1>3, <2>1 DEF OrderInv, OthersShown, Due, Reached
<1>4. QED
  BY <1>1, <1>2, <1>3

LEMMA EarlyIsHealthy ==
  ASSUME NoTies, SerialInv, OneInv, FitInv, OwnInv, OrderInv, Early, \A k \in Jobs : job[k].state = "done"
  PROVE  Healthy
<1> DEFINE files(owners, i, e) == {f \in owners \X Names : Episode[f[2]] = e /\ For(f[1], f[2], i)}
           shown(i, e) == {f \in Instances \X Names : Episode[f[2]] = e /\ entry[i][f[2]] = f[1]}
<1>0. None \notin Instances
  BY EpisodeLibraryAssumption
<1>1. ASSUME NEW i \in Instances, NEW e
      PROVE  shown(i, e) = IF files({i}, i, e) # {} THEN files({i}, i, e) ELSE files(Instances, i, e)
  <2>1. /\ \A n \in Names : entry[i][n] # None => entry[i][n] \in Instances /\ For(entry[i][n], n, i)
        /\ \A n \in Names : For(i, n, i) => entry[i][n] = i
        /\ \A o \in Instances, n \in Names : For(o, n, i) => entry[i][n] = o \/ Native(i, n)
    BY EarlyLinks
  <2>2. \A m, n \in Names : entry[i][m] # None /\ entry[i][n] # None /\ Episode[m] = Episode[n] => m = n
    BY DEF OneInv, OneLinkPerEpisode
  <2>3. \A f \in Instances \X Names : f[1] \in Instances /\ f[2] \in Names
    OBVIOUS
  <2>4. shown(i, e) \subseteq files(Instances, i, e)
    BY <1>0, <2>1, <2>3
  <2>5. CASE files({i}, i, e) # {}
    <3>1. PICK n \in Names : Episode[n] = e /\ For(i, n, i)
      BY <2>5
    <3>2. \A f \in shown(i, e) : f[2] = n /\ f[1] = i
      BY <1>0, <2>1, <2>2, <2>3, <3>1
    <3>3. shown(i, e) \subseteq files({i}, i, e)
      BY <2>4, <3>2
    <3>4. files({i}, i, e) \subseteq shown(i, e)
      BY <2>1
    <3>5. QED
      BY <2>5, <3>3, <3>4
  <2>6. CASE files({i}, i, e) = {}
    <3>1. \A n \in Names : Episode[n] = e => ~Native(i, n)
      <4>1. SUFFICES ASSUME NEW n \in Names, Episode[n] = e, NEW m \in Names, Episode[m] = Episode[n], For(i, m, i)
                     PROVE  FALSE
        BY DEF Native
      <4>2. <<i, m>> \in files({i}, i, e)
        BY <4>1
      <4>3. QED
        BY <2>6, <4>2
    <3>2. files(Instances, i, e) \subseteq shown(i, e)
      BY <2>1, <2>3, <3>1
    <3>3. QED
      BY <2>4, <2>6, <3>2
  <2>7. QED
    BY <2>5, <2>6
<1>2. QED
  BY <1>1 DEF Healthy

(* With one worker, names that carry the marker of their episode, Sonarr     *)
(* reporting the files upgrades replace, and instances of distinct           *)
(* languages, the first imports of any files leave the same libraries, in    *)
(* whatever order they arrive, are retried or restarted: each shows its own  *)
(* instance's release of an episode where there is one, and else the         *)
(* primary's (import.rs:548).                                                *)
THEOREM AnyOrderWillDo ==
  /\ Concurrency = 1 /\ UpgradeDeletes
  /\ \A n \in Names : Marker[n] = Episode[n]
  /\ \A i, j \in Instances : Language[i] = Language[j] => i = j
  => (Spec => []OrderDoesNotMatter)
<1> SUFFICES ASSUME Concurrency = 1, UpgradeDeletes, \A n \in Names : Marker[n] = Episode[n], NoTies
             PROVE  Spec => []OrderDoesNotMatter
  BY DEF NoTies
<1>1. Init => OrderInv
  BY DEF Init, OrderInv, Reported, OthersShown, Present, Jobs
<1>2. SerialInv /\ OneInv /\ FitInv /\ OwnInv /\ OrderInv /\ [Next]_vars => OrderInv'
  <2> SUFFICES ASSUME SerialInv, OneInv, FitInv, OwnInv, OrderInv, [Next]_vars PROVE OrderInv'
    OBVIOUS
  <2>1. Reported'
    BY ReportedStep DEF SerialInv, FitInv, OrderInv
  <2>2. OthersShown'
    BY OthersStep
  <2>3. QED
    BY <2>1, <2>2 DEF OrderInv
<1>3. SerialInv /\ OneInv /\ FitInv /\ OwnInv /\ OrderInv => OrderDoesNotMatter
  <2> SUFFICES ASSUME SerialInv, OneInv, FitInv, OwnInv, OrderInv,
                      \A k \in Jobs : job[k] = [Webhook("import", job[k].at, job[k].name, FALSE) EXCEPT !.state = "done"]
               PROVE  Healthy
    BY DEF OrderDoesNotMatter
  <2>1. \A k \in Jobs : job[k].op = "import" /\ ~job[k].upgrade /\ job[k].state = "done"
    BY DEF Webhook
  <2>2. QED
    BY <2>1, EarlyIsHealthy DEF Early
<1>4. QED
  BY <1>1, <1>2, <1>3, OwnInvariant, PTL DEF Spec
=============================================================================
