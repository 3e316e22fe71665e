------------------------- MODULE CrossInstanceProofs -------------------------
(***************************************************************************)
(* Proofs about CrossInstance, for any siblings, languages, files, workers, *)
(* tries, jobs, faults and operators' acts.                                *)
(***************************************************************************)
EXTENDS CrossInstance, SelectionProofs, FiniteSetTheorems, SequenceTheorems, TLAPS

States == {"queued", "running", "done", "failed"}
JobRecord == [op : {"add", "delete"}, langs : Audio \cup {{}}, files : BOOLEAN, state : States]
Titles == [record : BOOLEAN, file : BOOLEAN, ownOriginal : BOOLEAN]
Records == [Siblings -> [state : {"absent", "waiting", "owned"}, id : Nat,
                         by : {"operator", "cascade", "nobody"}]]

(* What holds of the handler state r of a job in state s.  Its last conjunct *)
(* is what the theorem on files needs: a handler that is about to send its   *)
(* DELETE saw the record without a file.                                     *)
HandlerOK(s, r) ==
  /\ DOMAIN r = DOMAIN Idle
  /\ r.pc \in Calls \cup {"idle", "begin"}
  /\ r.pc = "idle" <=> s # "running"
  /\ r.pc \in Calls \ {"source"} => r.todo # <<>>
  /\ r.tries \in 0 .. MaxTries - 1
  /\ r.pc = "delete" => ~r.seenFile

JobsOK ==
  /\ job \in Seq(JobRecord)
  /\ DOMAIN run = Jobs
  /\ \A k \in Jobs : HandlerOK(job[k].state, run[k])

CascadeInv == title \in Titles /\ record \in Records /\ meddled \in Nat /\ JobsOK

(* One handler goes to the state r, its job to the state s.                  *)
Moves(k, s, r) ==
  /\ s \in States /\ HandlerOK(s, r)
  /\ run' = [run EXCEPT ![k] = r]
  /\ SetState(k, s) \/ (job' = job /\ job[k].state = s)

(* A job that changes its state only stays a job.                           *)
LEMMA JobUpdate ==
  ASSUME JobsOK, NEW k \in Jobs, NEW s \in States, SetState(k, s)
  PROVE  /\ job' \in Seq(JobRecord) /\ Jobs' = Jobs
         /\ job'[k].state = s
         /\ \A x \in Jobs \ {k} : job'[x] = job[x]
<1>1. DOMAIN job = 1 .. Len(job) /\ job[k] \in JobRecord
  BY ElementOfSeq, LenProperties DEF JobsOK, Jobs
<1>2. [job[k] EXCEPT !.state = s] \in JobRecord /\ [job[k] EXCEPT !.state = s].state = s
  BY <1>1 DEF JobRecord
<1>3. job' = [job EXCEPT ![k] = [job[k] EXCEPT !.state = s]]
  BY DEF SetState
<1>4. job' \in Seq(JobRecord) /\ Len(job') = Len(job)
  BY <1>1, <1>2, <1>3, ExceptSeq DEF JobsOK, Jobs
<1>5. Jobs' = Jobs
  BY <1>1, <1>3 DEF Jobs
<1>6. QED
  BY <1>1, <1>2, <1>3, <1>4, <1>5 DEF Jobs

(* A move of one handler leaves the others, and so the invariant, in place.  *)
LEMMA MovesKeepJobs ==
  ASSUME JobsOK, NEW k \in Jobs, NEW s, NEW r, Moves(k, s, r)
  PROVE  JobsOK'
<1>1. /\ job' \in Seq(JobRecord) /\ Jobs' = Jobs
      /\ job'[k].state = s
      /\ \A x \in Jobs \ {k} : job'[x] = job[x]
  <2>1. CASE SetState(k, s)
    BY <2>1, JobUpdate DEF Moves
  <2>2. CASE job' = job /\ job[k].state = s
    BY <2>2 DEF JobsOK, Jobs
  <2>3. QED
    BY <2>1, <2>2 DEF Moves
<1>2. /\ DOMAIN run' = Jobs /\ run'[k] = r
      /\ \A x \in Jobs \ {k} : run'[x] = run[x]
  BY DEF Moves, JobsOK
<1>3. ASSUME NEW x \in Jobs
      PROVE  HandlerOK(job'[x].state, run'[x])
  BY <1>1, <1>2 DEF Moves, JobsOK
<1>4. QED
  BY <1>1, <1>2, <1>3 DEF JobsOK, HandlerOK

-----------------------------------------------------------------------------
(* The ways in which a handler goes on are moves.                          *)

LEMMA TriesAreCounted == 0 \in 0 .. MaxTries - 1
  BY CrossInstanceAssumption

LEMMA IdleIsOK == ASSUME NEW s, s # "running" PROVE HandlerOK(s, Idle)
  BY TriesAreCounted DEF HandlerOK, Idle, Calls

LEMMA ReturnMoves ==
  ASSUME NEW k, NEW s \in States \ {"running"}, Return(k, s)
  PROVE  Moves(k, s, Idle)
  BY IdleIsOK DEF Return, Moves, SetState

LEMMA GotoMoves ==
  ASSUME JobsOK, NEW k \in Running, NEW pc \in Calls \ {"delete"}, Goto(k, pc),
         pc # "source" => run[k].todo # <<>>
  PROVE  \E r : Moves(k, "running", r)
<1> DEFINE r == [run[k] EXCEPT !.pc = pc, !.tries = 0]
<1>1. DOMAIN run[k] = DOMAIN Idle /\ job[k].state = "running" /\ k \in Jobs
  BY DEF JobsOK, HandlerOK, Running
<1>2. /\ DOMAIN r = DOMAIN Idle /\ r.pc = pc /\ r.tries = 0 /\ r.todo = run[k].todo
  BY <1>1 DEF Idle
<1>3. HandlerOK("running", r)
  BY <1>2, TriesAreCounted DEF HandlerOK, Calls
<1>4. run' = [run EXCEPT ![k] = r] /\ job' = job
  BY DEF Goto
<1>5. QED
  BY <1>1, <1>3, <1>4 DEF Moves, States

LEMMA VisitMoves ==
  ASSUME JobsOK, NEW k \in Running, NEW siblings, Visit(k, siblings)
  PROVE  \E s, r : Moves(k, s, r)
<1>1. CASE siblings = <<>>
  BY <1>1, ReturnMoves DEF Visit, States
<1>2. CASE siblings # <<>>
  <2> DEFINE r == [Idle EXCEPT !.pc = "look", !.todo = siblings]
  <2>1. /\ DOMAIN r = DOMAIN Idle /\ r.pc = "look" /\ r.todo = siblings /\ r.tries = 0
    BY DEF Idle
  <2>2. HandlerOK("running", r)
    BY <1>2, <2>1, TriesAreCounted DEF HandlerOK, Calls
  <2>3. run' = [run EXCEPT ![k] = r] /\ job' = job /\ job[k].state = "running"
    BY <1>2 DEF Visit, Running
  <2>4. QED
    BY <2>2, <2>3 DEF Moves, States
<1>3. QED
  BY <1>1, <1>2

(* A running handler visits siblings from the moment it has begun.          *)
LEMMA HandlerMoves ==
  ASSUME JobsOK, NEW k \in Jobs, Handler(k)
  PROVE  \E s, r : Moves(k, s, r)
<1> USE DEF At
<1>r. ASSUME k \in Running, NEW s \in {"done", "failed"}, Return(k, s)
      PROVE  \E t, r : Moves(k, t, r)
  BY <1>r, ReturnMoves DEF States
<1>n. ASSUME k \in Running, NextSibling(k)
      PROVE  \E s, r : Moves(k, s, r)
  BY <1>n, VisitMoves DEF NextSibling
<1>g. ASSUME k \in Running, NEW pc \in Calls \ {"delete"}, Goto(k, pc),
             pc = "source" \/ run[k].pc \in Calls \ {"source"}
      PROVE  \E s, r : Moves(k, s, r)
  <2>1. pc # "source" => run[k].todo # <<>>
    BY <1>g DEF JobsOK, HandlerOK
  <2>2. QED
    BY <1>g, <2>1, GotoMoves
<1>1. CASE Begin(k)
  BY <1>1, <1>r, <1>g, VisitMoves DEF Begin, BeginAdd, BeginDelete, Calls
<1>2. CASE Source(k)
  BY <1>2, <1>r, VisitMoves DEF Source
<1>3. CASE LookToAdd(k)
  BY <1>3, <1>n, <1>g DEF LookToAdd, Calls
<1>4. CASE LookToDelete(k)
  <2>1. CASE MayDrop(Here(k))
    <3> DEFINE seen == record[Here(k)].id
               file == record[Here(k)].state = "owned"
               r == [run[k] EXCEPT !.pc = "delete", !.tries = 0, !.seen = seen, !.seenFile = file]
    <3>1. DOMAIN run[k] = DOMAIN Idle /\ run[k].todo # <<>> /\ job[k].state = "running"
      BY <1>4 DEF LookToDelete, JobsOK, HandlerOK, Running, Calls
    <3>2. ~file
      BY <2>1 DEF MayDrop
    <3>3. /\ DOMAIN r = DOMAIN Idle /\ r.pc = "delete" /\ r.tries = 0
          /\ r.seenFile = file /\ r.todo = run[k].todo
      BY <3>1 DEF Idle
    <3>4. HandlerOK("running", r)
      BY <3>1, <3>2, <3>3, TriesAreCounted DEF HandlerOK, Calls
    <3>5. run' = [run EXCEPT ![k] = r] /\ job' = job
      BY <1>4, <2>1 DEF LookToDelete
    <3>6. QED
      BY <3>1, <3>4, <3>5 DEF Moves, States
  <2>2. CASE ~MayDrop(Here(k))
    BY <1>4, <2>2, <1>n DEF LookToDelete
  <2>3. QED
    BY <2>1, <2>2
<1>5. CASE Profiles(k)
  BY <1>5, <1>g DEF Profiles, Calls
<1>6. CASE Folders(k)
  BY <1>6, <1>n, <1>g DEF Folders, Calls
<1>7. CASE Post(k)
  BY <1>7, <1>r, <1>n, <1>g DEF Post, Calls
<1>8. CASE Resolve(k)
  BY <1>8, <1>r, <1>n DEF Resolve
<1>9. CASE Drop(k)
  BY <1>9, <1>r, <1>n DEF Drop
<1>10. QED
  BY <1>1, <1>2, <1>3, <1>4, <1>5, <1>6, <1>7, <1>8, <1>9 DEF Handler

(* An attempt whose answer is lost is tried again, or ends the handler.      *)
LEMMA FaultMoves ==
  ASSUME JobsOK, NEW k \in Jobs, Lost(k) \/ Refused(k)
  PROVE  \E s, r : Moves(k, s, r)
<1>1. CASE Return(k, "queued") \/ Return(k, "failed")
  BY <1>1, ReturnMoves DEF States
<1>2. CASE Lost(k) /\ run[k].tries + 1 < MaxTries
  <2> DEFINE r == [run[k] EXCEPT !.tries = run[k].tries + 1]
  <2>1. HandlerOK("running", run[k]) /\ job[k].state = "running" /\ run[k].pc \in Calls
    BY <1>2 DEF JobsOK, Lost, Running
  <2>2. /\ DOMAIN r = DOMAIN Idle /\ r.pc = run[k].pc /\ r.seenFile = run[k].seenFile
        /\ r.todo = run[k].todo /\ r.tries = run[k].tries + 1
    BY <2>1 DEF HandlerOK, Idle
  <2>3. r.tries \in 0 .. MaxTries - 1
    BY <1>2, <2>1, <2>2, CrossInstanceAssumption DEF HandlerOK
  <2>4. HandlerOK("running", r)
    BY <2>1, <2>2, <2>3 DEF HandlerOK
  <2>5. run' = [run EXCEPT ![k] = r] /\ job' = job
    BY <1>2 DEF Lost
  <2>6. QED
    BY <2>1, <2>4, <2>5 DEF Moves, States
<1>3. QED
  BY <1>1, <1>2 DEF Lost, Refused

-----------------------------------------------------------------------------
(* Jobs that arrive, are claimed, or lose their process.                    *)

LEMMA EnqueueKeepsJobs ==
  ASSUME JobsOK, NEW hook \in JobRecord, hook.state = "queued", Enqueue(hook)
  PROVE  JobsOK'
<1>1. job \in Seq(JobRecord) /\ DOMAIN job = 1 .. Len(job) /\ Len(job) \in Nat
  BY LenProperties DEF JobsOK
<1>2. /\ job' \in Seq(JobRecord) /\ DOMAIN job' = 1 .. Len(job) + 1
      /\ \A k \in Jobs : job'[k] = job[k]
      /\ job'[Len(job) + 1] = hook
  BY <1>1, AppendProperties, LenProperties DEF Enqueue, Jobs
<1>3. ASSUME NEW k \in Jobs'
      PROVE  HandlerOK(job'[k].state, run'[k])
  <2>1. CASE k \in Jobs
    BY <1>2, <2>1 DEF Enqueue, JobsOK, Jobs
  <2>2. CASE k \notin Jobs
    <3>1. run'[k] = Idle /\ job'[k].state = "queued"
      BY <1>1, <1>2, <2>2 DEF Enqueue, Jobs
    <3>2. QED
      BY <3>1, IdleIsOK
  <2>3. QED
    BY <2>1, <2>2
<1>4. QED
  BY <1>2, <1>3 DEF JobsOK, Jobs, Enqueue, HandlerOK

LEMMA ClaimKeepsJobs ==
  ASSUME JobsOK, NEW k \in Jobs, Claim(k)
  PROVE  JobsOK'
<1> DEFINE r == [run[k] EXCEPT !.pc = "begin"]
<1>1. HandlerOK("queued", run[k]) /\ job[k].state = "queued"
  BY DEF JobsOK, Claim
<1>2. /\ DOMAIN r = DOMAIN Idle /\ r.pc = "begin" /\ r.tries = run[k].tries
  BY <1>1 DEF HandlerOK, Idle
<1>3. HandlerOK("running", r)
  BY <1>1, <1>2 DEF HandlerOK, Calls
<1>4. Moves(k, "running", r)
  BY <1>3 DEF Claim, Moves, States
<1>5. QED
  BY <1>4, MovesKeepJobs

LEMMA CrashKeepsJobs ==
  ASSUME JobsOK, Crash
  PROVE  JobsOK'
<1>1. job \in Seq(JobRecord) /\ DOMAIN job = 1 .. Len(job) /\ Len(job) \in Nat
      /\ \A k \in Jobs : job[k] \in JobRecord
  BY LenProperties, ElementOfSeq DEF JobsOK, Jobs
<1>2. ASSUME NEW k \in Jobs
      PROVE  job'[k] \in JobRecord /\ job'[k].state # "running"
  <2>1. CASE k \in Running
    <3>1. job'[k] = [job[k] EXCEPT !.state = "queued"]
      BY <2>1 DEF Crash
    <3>2. [job[k] EXCEPT !.state = "queued"] \in JobRecord
          /\ [job[k] EXCEPT !.state = "queued"].state = "queued"
      BY <1>1 DEF JobRecord, States
    <3>3. QED
      BY <3>1, <3>2
  <2>2. CASE k \notin Running
    BY <1>1, <2>2 DEF Crash, Running
  <2>3. QED
    BY <2>1, <2>2
<1>3. job' \in [1 .. Len(job) -> JobRecord] /\ Jobs' = Jobs
  BY <1>1, <1>2 DEF Crash, Jobs
<1>4. job' \in Seq(JobRecord)
  BY <1>1, <1>3, SeqDef
<1>5. ASSUME NEW k \in Jobs
      PROVE  HandlerOK(job'[k].state, run'[k])
  BY <1>2, IdleIsOK DEF Crash
<1>6. QED
  BY <1>3, <1>4, <1>5 DEF JobsOK, Crash, HandlerOK

-----------------------------------------------------------------------------
(* The titles and records keep their types.                                *)

LEMMA BecomesType ==
  ASSUME record \in Records, NEW s, NEW state \in {"absent", "waiting", "owned"},
         NEW who \in {"operator", "cascade", "nobody"}, Becomes(s, state, who)
  PROVE  record' \in Records
<1> DEFINE new == [state |-> state, by |-> who,
                   id |-> IF record[s].state = "absent" THEN record[s].id + 1 ELSE record[s].id]
<1>1. record' = [record EXCEPT ![s] = new]
  BY DEF Becomes
<1>2. ASSUME s \in Siblings
      PROVE  new \in [state : {"absent", "waiting", "owned"}, id : Nat,
                      by : {"operator", "cascade", "nobody"}]
  BY <1>2 DEF Records
<1>3. QED
  BY <1>1, <1>2 DEF Records

LEMMA DropType ==
  ASSUME record \in Records, NEW s,
         record' = [record EXCEPT ![s].state = "absent"]
  PROVE  record' \in Records
  BY DEF Records

LEMMA RemovalType ==
  ASSUME record \in Records, NEW s,
         record' = [record EXCEPT ![s].state = "absent", ![s].by = "nobody"]
  PROVE  record' \in Records
  BY DEF Records

LEMMA RecordStep ==
  ASSUME CascadeInv, [Next]_vars
  PROVE  record' \in Records
<1> USE DEF CascadeInv
<1>1. ASSUME NEW s \in Siblings, Fetch(s)
      PROVE  record' \in Records
  <2>1. record[s].by \in {"operator", "cascade", "nobody"}
    BY DEF Records
  <2>2. QED
    BY <1>1, <2>1, BecomesType DEF Fetch
<1>2. ASSUME NEW s \in Siblings, Meddle(s)
      PROVE  record' \in Records
  BY <1>2, BecomesType, RemovalType DEF Meddle
<1>3. ASSUME NEW k, Post(k) \/ Drop(k) \/ Effect(k)
      PROVE  record' \in Records
  BY <1>3, BecomesType, DropType DEF Post, Drop, Effect
<1>4. CASE UNCHANGED record
  BY <1>4
<1>5. QED
  BY <1>1, <1>2, <1>3, <1>4
     DEF Next, vars, Import, Delete, Claim, Crash, Handler, Begin, Source, LookToAdd,
         LookToDelete, Profiles, Folders, Resolve, Lost, Refused

LEMMA TitleStep ==
  ASSUME CascadeInv, [Next]_vars
  PROVE  title' \in Titles
<1>1. ASSUME NEW langs, Import(langs)
      PROVE  title' \in Titles
  BY <1>1 DEF Import, CascadeInv, Titles
<1>2. ASSUME NEW files \in BOOLEAN, Delete(files)
      PROVE  title' \in Titles
  BY <1>2 DEF Delete, CascadeInv, Titles
<1>3. CASE UNCHANGED title
  BY <1>3 DEF CascadeInv
<1>4. QED
  BY <1>1, <1>2, <1>3
     DEF Next, vars, Claim, Crash, Handler, Begin, Source, LookToAdd, LookToDelete,
         Profiles, Folders, Post, Resolve, Drop, Lost, Refused, Fetch, Meddle

LEMMA MeddledStep ==
  ASSUME CascadeInv, [Next]_vars
  PROVE  meddled' \in Nat
<1>1. ASSUME NEW s \in Siblings, Meddle(s)
      PROVE  meddled' \in Nat
  BY <1>1 DEF Meddle, CascadeInv
<1>2. CASE UNCHANGED meddled
  BY <1>2 DEF CascadeInv
<1>3. QED
  BY <1>1, <1>2
     DEF Next, vars, Import, Delete, Claim, Crash, Handler, Begin, Source, LookToAdd,
         LookToDelete, Profiles, Folders, Post, Resolve, Drop, Lost, Refused, Fetch

-----------------------------------------------------------------------------
(* The invariant.                                                          *)

LEMMA InitCascade == Init => CascadeInv
<1> SUFFICES ASSUME Init PROVE CascadeInv
  OBVIOUS
<1>1. title \in Titles /\ record \in Records /\ meddled \in Nat
  BY DEF Init, Titles, Records
<1>2. job \in Seq(JobRecord) /\ DOMAIN run = Jobs /\ Jobs = {}
  BY EmptySeq DEF Init, Jobs
<1>3. QED
  BY <1>1, <1>2 DEF CascadeInv, JobsOK

LEMMA StepCascade == CascadeInv /\ [Next]_vars => CascadeInv'
<1> SUFFICES ASSUME CascadeInv, [Next]_vars
             PROVE  JobsOK'
  BY RecordStep, TitleStep, MeddledStep DEF CascadeInv
<1>j. JobsOK
  BY DEF CascadeInv
<1>1. ASSUME NEW langs \in Audio, Import(langs)
      PROVE  JobsOK'
  <2>1. Webhook("add", langs, TRUE) \in JobRecord /\ Webhook("add", langs, TRUE).state = "queued"
    BY DEF Webhook, JobRecord, States
  <2>2. QED
    BY <1>1, <1>j, <2>1, EnqueueKeepsJobs DEF Import
<1>2. ASSUME NEW files \in BOOLEAN, Delete(files)
      PROVE  JobsOK'
  <2>1. Webhook("delete", {}, files) \in JobRecord /\ Webhook("delete", {}, files).state = "queued"
    BY DEF Webhook, JobRecord, States
  <2>2. QED
    BY <1>2, <1>j, <2>1, EnqueueKeepsJobs DEF Delete
<1>3. ASSUME NEW s \in Siblings, Fetch(s) \/ Meddle(s)
      PROVE  JobsOK'
  BY <1>3, <1>j DEF Fetch, Meddle, JobsOK, Jobs, HandlerOK
<1>4. ASSUME NEW k \in Jobs, Claim(k)
      PROVE  JobsOK'
  BY <1>4, <1>j, ClaimKeepsJobs
<1>5. ASSUME NEW k \in Jobs, Handler(k) \/ Lost(k) \/ Refused(k)
      PROVE  JobsOK'
  BY <1>5, <1>j, HandlerMoves, FaultMoves, MovesKeepJobs
<1>6. CASE Crash
  BY <1>6, <1>j, CrashKeepsJobs
<1>7. CASE UNCHANGED vars
  BY <1>7, <1>j DEF vars, JobsOK, Jobs, HandlerOK
<1>8. QED
  BY <1>1, <1>2, <1>3, <1>4, <1>5, <1>6, <1>7 DEF Next

LEMMA CascadeInvariant == Spec => []CascadeInv
  BY InitCascade, StepCascade, PTL DEF Spec

(* Every reachable state is well typed: handlers in the middle of a cascade  *)
(* always have a sibling to talk to, and never more tries than allowed.      *)
THEOREM CascadeTypeCorrect == Spec => []TypeOK
<1>1. CascadeInv => TypeOK
  <2> SUFFICES ASSUME CascadeInv PROVE TypeOK
    OBVIOUS
  <2>1. ASSUME NEW k \in Jobs
        PROVE  job[k].state \in States
    <3>1. job[k] \in JobRecord
      BY ElementOfSeq, LenProperties DEF CascadeInv, JobsOK, Jobs
    <3>2. QED
      BY <3>1 DEF JobRecord
  <2>2. QED
    BY <2>1 DEF CascadeInv, JobsOK, HandlerOK, TypeOK, Titles, Records, States, Running
<1>2. QED
  BY <1>1, CascadeInvariant, PTL

-----------------------------------------------------------------------------
(* The cascade destroys a file only if it arrived after the cascade looked.  *)

(* Only the DELETE of a handler that looked takes a record away.            *)
LEMMA DropsWhatItSaw ==
  ASSUME CascadeInv, [Next]_vars, NEW s \in Siblings,
         record[s].state # "absent", record'[s].state = "absent", meddled' = meddled
  PROVE  \E k \in Jobs : At(k, "delete") /\ Here(k) = s /\ run[k].seen = record[s].id /\ ~run[k].seenFile
<1>t. record \in Records
  BY DEF CascadeInv
<1>b. ASSUME NEW x, NEW state \in {"waiting", "owned"}, NEW who, Becomes(x, state, who)
      PROVE  FALSE
  BY <1>t, <1>b DEF Becomes, Records
<1>1. ASSUME NEW x \in Siblings, Fetch(x)
      PROVE  FALSE
  BY <1>1, <1>b DEF Fetch
<1>2. ASSUME NEW k \in Jobs, k \in Running, run[k].pc = "delete", Hit(k),
             record' = [record EXCEPT ![Here(k)].state = "absent"]
      PROVE  At(k, "delete") /\ Here(k) = s /\ run[k].seen = record[s].id /\ ~run[k].seenFile
  BY <1>2, <1>t DEF CascadeInv, JobsOK, HandlerOK, At, Hit, Records
<1>3. ASSUME NEW k \in Jobs, Post(k)
      PROVE  FALSE
  BY <1>3, <1>b DEF Post
<1>4. ASSUME NEW k \in Jobs, Drop(k)
      PROVE  At(k, "delete") /\ Here(k) = s /\ run[k].seen = record[s].id /\ ~run[k].seenFile
  BY <1>2, <1>4 DEF Drop, At
<1>5. ASSUME NEW k \in Jobs, k \in Running, Effect(k)
      PROVE  At(k, "delete") /\ Here(k) = s /\ run[k].seen = record[s].id /\ ~run[k].seenFile
  BY <1>2, <1>5, <1>b DEF Effect
<1>6. ASSUME NEW x \in Siblings, Meddle(x)
      PROVE  FALSE
  BY <1>6 DEF Meddle, CascadeInv
<1>7. QED
  BY <1>1, <1>3, <1>4, <1>5, <1>6
     DEF Next, vars, Import, Delete, Claim, Crash, Handler, Begin, Source, LookToAdd,
         LookToDelete, Profiles, Folders, Resolve, Lost, Refused

(* A record goes only by the DELETE of a handler that saw it without a file. *)
THEOREM SeenFilesAreKept == Spec => SeenFilesSurvive
<1>1. CascadeInv /\ [Next]_vars =>
        [\A s \in Siblings :
           record[s].state # "absent" /\ record'[s].state = "absent" /\ meddled' = meddled =>
             \E k \in Jobs : At(k, "delete") /\ Here(k) = s /\ run[k].seen = record[s].id /\ ~run[k].seenFile]_vars
  BY DropsWhatItSaw
<1>2. QED
  BY <1>1, CascadeInvariant, PTL DEF Spec, SeenFilesSurvive

-----------------------------------------------------------------------------
(* Whom an import asks.  It is true of the requests at any moment only       *)
(* because every handler knows it of the siblings it has still to visit, so  *)
(* the invariant has a part for the handlers at work (Asks), one for the     *)
(* imports that are done (Asked), and one for what is left of them at the    *)
(* siblings (NothingRedundant).                                              *)

(* The siblings job k is for.                                                *)
Wanted(k) == {s \in Siblings : Language[s] \notin job[k].langs \cup {SourceLanguage}}
(* The primary has deleted the title.                                        *)
Deleted == \E d \in Jobs : job[d].op = "delete"

(* Which calls the handler of job k may make, and to whom.                   *)
Shape(k) ==
  /\ run[k].todo \in Seq(Siblings)
  /\ job[k].op = "add" => run[k].pc # "delete"
  /\ job[k].op = "delete" =>
       /\ run[k].pc \in {"idle", "begin", "look", "delete"}
       /\ run[k].pc \in {"look", "delete"} => job[k].files

(* Sibling s has the title, or its operator has removed it.                  *)
Reached(s) == record[s].state # "absent" \/ record[s].by = "nobody"

(* An import at work has asked every sibling it wants but those still to do. *)
Asks(k) ==
  job[k].op = "add" /\ run[k].pc \in Calls \ {"source"} =>
    /\ Elements(run[k].todo) \subseteq Wanted(k)
    /\ title.ownOriginal => Deleted
    /\ ~Deleted /\ ~title.ownOriginal =>
         \A s \in Wanted(k) \ Unusable : s \in Elements(run[k].todo) \/ Reached(s)

(* An import that is done has asked them all.                                *)
Asked(k) ==
  job[k].op = "add" /\ job[k].state = "done" /\ ~title.ownOriginal /\ ~Deleted =>
    \A s \in Wanted(k) \ Unusable : Reached(s)

(* The title's record goes by a delete only, which excuses a request for a   *)
(* title that is at home at the primary.                                     *)
RequestInv ==
  /\ \A k \in Jobs : Shape(k) /\ Asks(k) /\ Asked(k)
  /\ NothingRedundant
  /\ (\E k \in Jobs : job[k].op = "add") /\ ~title.record => Deleted

-----------------------------------------------------------------------------
(* The webhooks stay what they are.                                          *)
SameHooks ==
  /\ Jobs' = Jobs
  /\ \A x \in Jobs : job'[x].op = job[x].op /\ job'[x].langs = job[x].langs /\ job'[x].files = job[x].files

(* The other handlers stay where they are.                                   *)
OthersRest(k) == \A x \in Jobs \ {k} : job'[x].state = job[x].state /\ run'[x] = run[x]

(* What a handler may do to the siblings' records.                           *)
RecordsGuarded(k) ==
  \A s \in Siblings :
    /\ \/ record'[s].by = record[s].by
       \/ s = Here(k) /\ job[k].op = "add" /\ run[k].pc = "post" /\ record'[s].state # "absent"
    /\ record[s].state # "absent" /\ record'[s].state = "absent" => job[k].op = "delete"

(* What the invariant says of one job.                                       *)
Own(k) == Shape(k) /\ Asks(k) /\ Asked(k)

LEMMA JobIsTyped ==
  ASSUME JobsOK, NEW k \in Jobs
  PROVE  job[k] \in JobRecord
  BY ElementOfSeq, LenProperties DEF JobsOK, Jobs

LEMMA StateSetOnly ==
  ASSUME JobsOK, NEW k \in Jobs, NEW s \in States, SetState(k, s)
  PROVE  SameHooks /\ job'[k].state = s /\ \A x \in Jobs \ {k} : job'[x] = job[x]
<1>1. job[k] \in JobRecord
  BY ElementOfSeq, LenProperties DEF JobsOK, Jobs
<1>2. Jobs' = Jobs /\ job'[k].state = s /\ \A x \in Jobs \ {k} : job'[x] = job[x]
  BY JobUpdate
<1>3. job'[k] = [job[k] EXCEPT !.state = s]
  BY DEF SetState, Jobs
<1>4. job'[k].op = job[k].op /\ job'[k].langs = job[k].langs /\ job'[k].files = job[k].files
  BY <1>1, <1>3 DEF JobRecord
<1>5. QED
  BY <1>2, <1>4 DEF SameHooks

LEMMA StepsAreLocal ==
  ASSUME JobsOK, NEW k \in Jobs, Handler(k) \/ Lost(k) \/ Refused(k)
  PROVE  SameHooks /\ OthersRest(k) /\ DOMAIN run' = Jobs
<1>1. PICK s, r : Moves(k, s, r)
  BY HandlerMoves, FaultMoves
<1>2. SameHooks /\ \A x \in Jobs \ {k} : job'[x] = job[x]
  BY <1>1, StateSetOnly DEF Moves, SameHooks, Jobs
<1>3. DOMAIN run' = Jobs /\ \A x \in Jobs \ {k} : run'[x] = run[x]
  BY <1>1 DEF Moves, JobsOK
<1>4. QED
  BY <1>2, <1>3 DEF OthersRest

LEMMA AddTargetsElements ==
  ASSUME NEW k \in Jobs
  PROVE  AddTargets(job[k].langs) \in Seq(Siblings) /\ Elements(AddTargets(job[k].langs)) = Wanted(k)
<1>1. Config \in Seq(Siblings) /\ Elements(Config) = Siblings
  BY CrossInstanceAssumption DEF Siblings
<1>2. Elements(AddTargets(job[k].langs)) = Siblings \cap Wanted(k) /\ AddTargets(job[k].langs) \in Seq(Siblings)
  BY <1>1, FilterElements DEF AddTargets, Wanted
<1>3. QED
  BY <1>2 DEF Wanted

(* The handlers that rest keep what they know.                              *)
LEMMA OthersKeep ==
  ASSUME RequestInv, NEW k \in Jobs, SameHooks, OthersRest(k), RecordsGuarded(k),
         UNCHANGED title, NEW x \in Jobs \ {k}
  PROVE  Own(x)'
<1>1. Own(x) /\ Wanted(x)' = Wanted(x) /\ Deleted' = Deleted
  BY DEF RequestInv, Own, SameHooks, Wanted, Deleted
<1>2. \A s \in Siblings : Reached(s) /\ ~Deleted => Reached(s)'
  BY DEF RecordsGuarded, Reached, Deleted
<1>3. run'[x] = run[x] /\ job'[x].state = job[x].state /\ job'[x].op = job[x].op /\ job'[x].files = job[x].files
  BY DEF OthersRest, SameHooks
<1>4. Shape(x)'
  BY <1>1, <1>3 DEF Own, Shape
<1>5. Asks(x)'
  BY <1>1, <1>2, <1>3 DEF Own, Asks, Wanted
<1>6. Asked(x)'
  BY <1>1, <1>2, <1>3 DEF Own, Asked, Wanted
<1>7. QED
  BY <1>4, <1>5, <1>6 DEF Own

(* What the state as a whole keeps in a step of one handler.                 *)
LEMMA LocalStepKeeps ==
  ASSUME CascadeInv, RequestInv, NEW k \in Jobs, SameHooks, OthersRest(k), RecordsGuarded(k),
         UNCHANGED title, Own(k)'
  PROVE  RequestInv'
<1>1. Deleted' = Deleted /\ ((\E x \in Jobs : job[x].op = "add")' <=> \E x \in Jobs : job[x].op = "add")
  BY DEF SameHooks, Deleted
<1>2. ASSUME NEW s \in Siblings, record'[s].by = "cascade"
      PROVE  \E x \in Jobs : /\ job[x].op = "add" /\ Language[s] \notin job[x].langs \cup {SourceLanguage}
                             /\ title.ownOriginal => Deleted
  <2>1. CASE record[s].by = "cascade"
    BY <2>1 DEF RequestInv, NothingRedundant, Deleted
  <2>2. CASE s = Here(k) /\ job[k].op = "add" /\ run[k].pc = "post"
    <3>1. run[k].todo \in Seq(Siblings) /\ run[k].todo # <<>> /\ Asks(k)
      BY <2>2 DEF RequestInv, Shape, CascadeInv, JobsOK, HandlerOK, Calls
    <3>2. s \in Elements(run[k].todo)
      BY <2>2, <3>1, HeadElements DEF Here
    <3>3. s \in Wanted(k) /\ (title.ownOriginal => Deleted)
      BY <2>2, <3>1, <3>2 DEF Asks, Calls
    <3>4. QED
      BY <2>2, <3>3 DEF Wanted
  <2>3. QED
    BY <1>2, <2>1, <2>2 DEF RecordsGuarded
<1>3. NothingRedundant'
  BY <1>1, <1>2 DEF NothingRedundant, SameHooks, Deleted
<1>4. \A x \in Jobs : Own(x)'
  BY OthersKeep
<1>5. QED
  BY <1>1, <1>3, <1>4 DEF RequestInv, Own, SameHooks

-----------------------------------------------------------------------------
(* What the handler itself keeps, by the way it goes on.                    *)

(* Beyond the siblings q, the import k has nobody left to ask.               *)
Complete(k, q) ==
  ~Deleted /\ ~title.ownOriginal =>
    \A s \in Wanted(k) \ Unusable : s \in Elements(q) \/ Reached(s)'

LEMMA ReturnKeeps ==
  ASSUME JobsOK, NEW k \in Running, NEW s \in States, Return(k, s), UNCHANGED title, SameHooks,
         job[k].op = "add" /\ s = "done" => Complete(k, <<>>)
  PROVE  Own(k)'
<1>1. k \in Jobs /\ run'[k] = Idle /\ job'[k].state = s
  BY StateSetOnly DEF Return, Running, JobsOK
<1>2. Wanted(k)' = Wanted(k) /\ Deleted' = Deleted /\ job'[k].op = job[k].op
  BY <1>1 DEF SameHooks, Wanted, Deleted
<1>3. run'[k].pc = "idle" /\ run'[k].todo = <<>>
  BY <1>1 DEF Idle
<1>4. Shape(k)'
  BY <1>3 DEF Shape
<1>5. Asks(k)'
  BY <1>3 DEF Asks, Calls
<1>6. Asked(k)'
  BY <1>1, <1>2 DEF Asked, Complete, Elements
<1>7. QED
  BY <1>4, <1>5, <1>6 DEF Own

LEMMA VisitKeeps ==
  ASSUME JobsOK, NEW k \in Running, NEW q \in Seq(Siblings), Visit(k, q),
         UNCHANGED title, SameHooks,
         job[k].op \in {"add", "delete"},
         job[k].op = "delete" => job[k].files,
         job[k].op = "add" =>
           Elements(q) \subseteq Wanted(k) /\ (title.ownOriginal => Deleted) /\ Complete(k, q)
  PROVE  Own(k)'
<1>1. CASE q = <<>>
  BY <1>1, ReturnKeeps DEF Visit, States
<1>2. CASE q # <<>>
  <2>1. k \in Jobs /\ job' = job /\ run' = [run EXCEPT ![k] = [Idle EXCEPT !.pc = "look", !.todo = q]]
    BY <1>2 DEF Visit, Running
  <2>2. run'[k].pc = "look" /\ run'[k].todo = q
    BY <2>1 DEF JobsOK, Idle
  <2>3. Wanted(k)' = Wanted(k) /\ Deleted' = Deleted
    BY <2>1 DEF Wanted, Deleted, Jobs
  <2>4. Shape(k)'
    BY <2>1, <2>2 DEF Shape
  <2>5. Asks(k)'
    BY <2>1, <2>2, <2>3 DEF Asks, Complete
  <2>6. Asked(k)'
    BY <2>1 DEF Asked, Running
  <2>7. QED
    BY <2>4, <2>5, <2>6 DEF Own
<1>3. QED
  BY <1>1, <1>2

LEMMA NextSiblingKeeps ==
  ASSUME CascadeInv, RequestInv, NEW k \in Running, NextSibling(k),
         UNCHANGED title, SameHooks, RecordsGuarded(k),
         run[k].pc \in Calls \ {"source"},
         job[k].op = "add" => Here(k) \in Unusable \/ record'[Here(k)].state # "absent"
  PROVE  Own(k)'
<1> DEFINE q == run[k].todo
<1>1. k \in Jobs /\ JobsOK /\ Shape(k) /\ Asks(k) /\ q # <<>> /\ run[k].pc # "idle"
  BY DEF Running, CascadeInv, JobsOK, HandlerOK, RequestInv, Calls
<1>2. q \in Seq(Siblings) /\ Tail(q) \in Seq(Siblings) /\ Elements(q) = {Here(k)} \cup Elements(Tail(q))
  BY <1>1, HeadElements DEF Shape, Here
<1>3. job[k].op \in {"add", "delete"}
  BY <1>1, JobIsTyped DEF JobRecord
<1>4. job[k].op = "delete" => job[k].files
  BY <1>1 DEF Shape, Calls
<1>5. ASSUME job[k].op = "add"
      PROVE  Elements(Tail(q)) \subseteq Wanted(k) /\ (title.ownOriginal => Deleted) /\ Complete(k, Tail(q))
  <2>1. /\ Elements(q) \subseteq Wanted(k) /\ (title.ownOriginal => Deleted)
        /\ ~Deleted /\ ~title.ownOriginal =>
             \A s \in Wanted(k) \ Unusable : s \in Elements(q) \/ Reached(s)
    BY <1>1, <1>5 DEF Asks
  <2>2. \A s \in Siblings : Reached(s) => Reached(s)'
    BY <1>5 DEF RecordsGuarded, Reached
  <2>3. Complete(k, Tail(q))
    BY <1>2, <1>5, <2>1, <2>2 DEF Complete, Wanted, Reached
  <2>4. QED
    BY <1>2, <2>1, <2>3
<1>6. Visit(k, Tail(q))
  BY DEF NextSibling
<1>7. QED
  BY <1>1, <1>2, <1>3, <1>4, <1>5, <1>6, VisitKeeps

LEMMA GotoKeeps ==
  ASSUME CascadeInv, RequestInv, NEW k \in Running, NEW pc \in Calls \ {"delete", "look"}, Goto(k, pc),
         UNCHANGED <<title, record>>, SameHooks, job[k].op = "add",
         pc = "source" \/ run[k].pc \in Calls \ {"source"}
  PROVE  Own(k)'
<1>1. k \in Jobs /\ JobsOK /\ Shape(k) /\ Asks(k) /\ Asked(k) /\ DOMAIN run[k] = DOMAIN Idle
  BY DEF Running, CascadeInv, JobsOK, HandlerOK, RequestInv
<1>2. job' = job /\ run' = [run EXCEPT ![k] = [run[k] EXCEPT !.pc = pc, !.tries = 0]]
  BY DEF Goto
<1>3. run'[k].pc = pc /\ run'[k].todo = run[k].todo
  BY <1>1, <1>2 DEF JobsOK, Idle
<1>4. Wanted(k)' = Wanted(k) /\ Deleted' = Deleted
  BY <1>2 DEF Wanted, Deleted, Jobs
<1>5. Shape(k)'
  BY <1>1, <1>2, <1>3 DEF Shape
<1>6. Asks(k)'
  BY <1>1, <1>2, <1>3, <1>4 DEF Reached, Asks
<1>7. Asked(k)'
  BY <1>1, <1>2, <1>4 DEF Reached, Asked
<1>8. QED
  BY <1>5, <1>6, <1>7 DEF Own

-----------------------------------------------------------------------------
(* Every step of a handler, answered or not.                                *)
LEMMA GuardedUnlessCalls ==
  ASSUME NEW k, UNCHANGED record
  PROVE  RecordsGuarded(k)
  BY DEF RecordsGuarded

LEMMA PostGuarded ==
  ASSUME record \in Records, NEW k \in Jobs, run[k].pc = "post", job[k].op = "add", Becomes(Here(k), "waiting", "cascade")
  PROVE  RecordsGuarded(k) /\ (Here(k) \in Siblings => record'[Here(k)].state # "absent")
  BY DEF RecordsGuarded, Becomes, Records

LEMMA DropGuarded ==
  ASSUME record \in Records, NEW k \in Jobs, job[k].op = "delete",
         record' = [record EXCEPT ![Here(k)].state = "absent"]
  PROVE  RecordsGuarded(k)
  BY DEF RecordsGuarded, Records

LEMMA HereIsSibling ==
  ASSUME CascadeInv, RequestInv, NEW k \in Running, run[k].pc \in Calls \ {"source"}
  PROVE  Here(k) \in Siblings
<1>1. run[k].todo \in Seq(Siblings) /\ run[k].todo # <<>>
  BY DEF CascadeInv, JobsOK, HandlerOK, RequestInv, Shape, Running
<1>2. QED
  BY <1>1, HeadElements DEF Here

LEMMA OpOf ==
  ASSUME CascadeInv, RequestInv, NEW k \in Running
  PROVE  /\ k \in Jobs /\ job[k].op \in {"add", "delete"}
         /\ run[k].pc = "delete" => job[k].op = "delete"
         /\ run[k].pc \in {"source", "profiles", "folders", "post", "resolve"} => job[k].op = "add"
<1>1. k \in Jobs /\ job[k] \in JobRecord /\ Shape(k)
  BY JobIsTyped DEF Running, CascadeInv, RequestInv
<1>2. QED
  BY <1>1 DEF JobRecord, Shape

LEMMA HandlerKeeps ==
  ASSUME CascadeInv, RequestInv, NEW k \in Jobs, Handler(k)
  PROVE  Own(k)' /\ RecordsGuarded(k) /\ UNCHANGED title
<1>0. /\ SameHooks /\ JobsOK /\ k \in Running /\ UNCHANGED title
      /\ record \in Records
  BY StepsAreLocal DEF CascadeInv, Handler, At, Begin, Source, LookToAdd, LookToDelete, Profiles,
       Folders, Post, Resolve, Drop
<1> USE <1>0
<1>c. Config \in Seq(Siblings)
  BY CrossInstanceAssumption
<1>t. AddTargets(job[k].langs) \in Seq(Siblings) /\ Elements(AddTargets(job[k].langs)) = Wanted(k)
  BY AddTargetsElements
<1>o. /\ job[k].op \in {"add", "delete"}
      /\ run[k].pc = "delete" => job[k].op = "delete"
      /\ run[k].pc \in {"source", "profiles", "folders", "post", "resolve"} => job[k].op = "add"
  BY OpOf
<1>1. CASE Begin(k)
  <2>1. UNCHANGED record
    BY <1>1 DEF Begin
  <2>2. CASE job[k].op = "add"
    <3>1. CASE Return(k, "failed")
      BY <3>1, <2>1, ReturnKeeps, GuardedUnlessCalls DEF States
    <3>2. CASE AddTargets(job[k].langs) = <<>> /\ Return(k, "done")
      <4>1. Complete(k, <<>>)
        BY <1>t, <3>2 DEF Complete
      <4>2. QED
        BY <2>1, <3>2, <4>1, ReturnKeeps, GuardedUnlessCalls DEF States
    <3>3. CASE Goto(k, "source")
      BY <2>1, <2>2, <3>3, GotoKeeps, GuardedUnlessCalls DEF Calls
    <3>4. QED
      BY <1>1, <2>2, <3>1, <3>2, <3>3 DEF Begin, BeginAdd
  <2>3. CASE job[k].op = "delete"
    <3>1. CASE Return(k, "done")
      BY <2>1, <2>3, <3>1, ReturnKeeps, GuardedUnlessCalls DEF States
    <3>2. CASE Visit(k, Config) /\ job[k].files
      BY <1>c, <2>1, <2>3, <3>2, VisitKeeps, GuardedUnlessCalls
    <3>3. QED
      BY <1>1, <2>3, <3>1, <3>2 DEF Begin, BeginDelete
  <2>4. QED
    BY <1>o, <2>2, <2>3
<1>2. CASE Source(k)
  <2>1. UNCHANGED record /\ job[k].op = "add"
    BY <1>2, <1>o DEF Source, At
  <2>2. CASE title.record /\ title.ownOriginal
    <3>1. Return(k, "done") /\ Complete(k, <<>>)
      BY <1>2, <2>2 DEF Source, Complete
    <3>2. QED
      BY <2>1, <3>1, ReturnKeeps, GuardedUnlessCalls DEF States
  <2>3. CASE ~(title.record /\ title.ownOriginal)
    <3>1. Visit(k, AddTargets(job[k].langs))
      BY <1>2, <2>3 DEF Source
    <3>2. title.ownOriginal => Deleted
      BY <2>1, <2>3 DEF RequestInv
    <3>3. Complete(k, AddTargets(job[k].langs))
      BY <1>t DEF Complete
    <3>4. QED
      BY <1>t, <2>1, <3>1, <3>2, <3>3, VisitKeeps, GuardedUnlessCalls
  <2>4. QED
    BY <2>2, <2>3
<1>3. CASE LookToAdd(k)
  <2>1. UNCHANGED record /\ run[k].pc = "look" /\ job[k].op = "add" /\ RecordsGuarded(k)
    BY <1>3, GuardedUnlessCalls DEF LookToAdd, At
  <2>2. CASE record[Here(k)].state = "absent"
    <3>1. Goto(k, "profiles")
      BY <1>3, <2>2 DEF LookToAdd
    <3>2. QED
      BY <2>1, <3>1, GotoKeeps DEF Calls
  <2>3. CASE record[Here(k)].state # "absent"
    <3>1. NextSibling(k)
      BY <1>3, <2>3 DEF LookToAdd
    <3>2. QED
      BY <2>1, <2>3, <3>1, NextSiblingKeeps DEF Calls
  <2>4. QED
    BY <2>2, <2>3
<1>4. CASE LookToDelete(k)
  <2>1. UNCHANGED record /\ run[k].pc = "look" /\ job[k].op = "delete" /\ RecordsGuarded(k)
    BY <1>4, GuardedUnlessCalls DEF LookToDelete, At
  <2>2. CASE MayDrop(Here(k))
    <3> DEFINE seen == record[Here(k)].id
               file == record[Here(k)].state = "owned"
               r == [run[k] EXCEPT !.pc = "delete", !.tries = 0, !.seen = seen, !.seenFile = file]
    <3>1. run' = [run EXCEPT ![k] = r] /\ job' = job
      BY <1>4, <2>2 DEF LookToDelete
    <3>2. Shape(k) /\ DOMAIN run[k] = DOMAIN Idle
      BY DEF RequestInv, JobsOK, HandlerOK
    <3>3. r.pc = "delete" /\ r.todo = run[k].todo
      BY <3>2 DEF Idle
    <3>4. run'[k].pc = "delete" /\ run'[k].todo = run[k].todo
      BY <3>1, <3>3 DEF JobsOK
    <3>5. Own(k)'
      BY <2>1, <3>1, <3>2, <3>4 DEF Own, Shape, Asks, Asked
    <3>6. QED
      BY <2>1, <3>5
  <2>3. CASE ~MayDrop(Here(k))
    <3>1. NextSibling(k)
      BY <1>4, <2>3 DEF LookToDelete
    <3>2. QED
      BY <2>1, <3>1, NextSiblingKeeps DEF Calls
  <2>4. QED
    BY <2>2, <2>3
<1>5. CASE Profiles(k)
  <2>1. UNCHANGED record /\ run[k].pc = "profiles" /\ job[k].op = "add" /\ Goto(k, "folders")
    BY <1>5, <1>o DEF Profiles, At
  <2>2. QED
    BY <2>1, GotoKeeps, GuardedUnlessCalls DEF Calls
<1>6. CASE Folders(k)
  <2>1. UNCHANGED record /\ run[k].pc = "folders" /\ job[k].op = "add" /\ RecordsGuarded(k)
    BY <1>6, <1>o, GuardedUnlessCalls DEF Folders, At
  <2>2. CASE Here(k) \in Unusable
    <3>1. NextSibling(k)
      BY <1>6, <2>2 DEF Folders
    <3>2. QED
      BY <2>1, <2>2, <3>1, NextSiblingKeeps DEF Calls
  <2>3. CASE Here(k) \notin Unusable
    <3>1. Goto(k, "post")
      BY <1>6, <2>3 DEF Folders
    <3>2. QED
      BY <2>1, <3>1, GotoKeeps DEF Calls
  <2>4. QED
    BY <2>2, <2>3
<1>7. CASE Post(k)
  <2>1. run[k].pc = "post" /\ job[k].op = "add"
    BY <1>7, <1>o DEF Post, At
  <2>2. CASE Becomes(Here(k), "waiting", "cascade") /\ NextSibling(k)
    <3>1. Here(k) \in Siblings
      BY <2>1, HereIsSibling DEF Calls
    <3>2. RecordsGuarded(k) /\ record'[Here(k)].state # "absent"
      BY <2>1, <2>2, <3>1, PostGuarded
    <3>3. QED
      BY <2>1, <2>2, <3>2, NextSiblingKeeps DEF Calls
  <2>3. CASE Goto(k, "resolve") /\ UNCHANGED record
    BY <2>1, <2>3, GotoKeeps, GuardedUnlessCalls DEF Calls
  <2>4. CASE Return(k, "failed") /\ UNCHANGED record
    BY <2>4, ReturnKeeps, GuardedUnlessCalls DEF States
  <2>5. QED
    BY <1>7, <2>2, <2>3, <2>4 DEF Post
<1>8. CASE Resolve(k)
  <2>1. UNCHANGED record /\ run[k].pc = "resolve" /\ job[k].op = "add" /\ RecordsGuarded(k)
    BY <1>8, <1>o, GuardedUnlessCalls DEF Resolve, At
  <2>2. CASE record[Here(k)].state = "absent"
    <3>1. Return(k, "failed")
      BY <1>8, <2>2 DEF Resolve
    <3>2. QED
      BY <2>1, <3>1, ReturnKeeps DEF States
  <2>3. CASE record[Here(k)].state # "absent"
    <3>1. NextSibling(k)
      BY <1>8, <2>3 DEF Resolve
    <3>2. QED
      BY <2>1, <2>3, <3>1, NextSiblingKeeps DEF Calls
  <2>4. QED
    BY <2>2, <2>3
<1>9. CASE Drop(k)
  <2>1. run[k].pc = "delete" /\ job[k].op = "delete"
    BY <1>9, <1>o DEF Drop, At
  <2>2. CASE Hit(k)
    <3>1. record' = [record EXCEPT ![Here(k)].state = "absent"] /\ NextSibling(k)
      BY <1>9, <2>2 DEF Drop
    <3>2. RecordsGuarded(k)
      BY <2>1, <3>1, DropGuarded
    <3>3. QED
      BY <2>1, <3>1, <3>2, NextSiblingKeeps DEF Calls
  <2>3. CASE ~Hit(k)
    <3>1. UNCHANGED record /\ Return(k, "failed")
      BY <1>9, <2>3 DEF Drop
    <3>2. QED
      BY <3>1, ReturnKeeps, GuardedUnlessCalls DEF States
  <2>4. QED
    BY <2>2, <2>3
<1>10. QED
  BY <1>1, <1>2, <1>3, <1>4, <1>5, <1>6, <1>7, <1>8, <1>9 DEF Handler

LEMMA FaultKeeps ==
  ASSUME CascadeInv, RequestInv, NEW k \in Jobs, Lost(k) \/ Refused(k)
  PROVE  Own(k)' /\ RecordsGuarded(k) /\ UNCHANGED title
<1>0. /\ SameHooks /\ JobsOK /\ k \in Running /\ UNCHANGED title
      /\ record \in Records /\ Effect(k)
  BY StepsAreLocal DEF CascadeInv, Lost, Refused
<1>1. RecordsGuarded(k)
  <2>1. CASE UNCHANGED record
    BY <2>1, GuardedUnlessCalls
  <2>2. CASE run[k].pc = "post" /\ Becomes(Here(k), "waiting", "cascade")
    BY <1>0, <2>2, OpOf, PostGuarded
  <2>3. CASE run[k].pc = "delete" /\ record' = [record EXCEPT ![Here(k)].state = "absent"]
    BY <1>0, <2>3, OpOf, DropGuarded
  <2>4. QED
    BY <1>0, <2>1, <2>2, <2>3 DEF Effect
<1>2. CASE Return(k, "queued") \/ Return(k, "failed")
  BY <1>0, <1>1, <1>2, ReturnKeeps DEF States
<1>3. CASE run' = [run EXCEPT ![k].tries = @ + 1] /\ UNCHANGED job
  <2>1. Own(k) /\ DOMAIN run[k] = DOMAIN Idle /\ k \in DOMAIN run /\ job[k].state = "running"
    BY <1>0 DEF RequestInv, Own, JobsOK, HandlerOK, Running
  <2>2. run'[k].pc = run[k].pc /\ run'[k].todo = run[k].todo
    BY <1>3, <2>1 DEF Idle
  <2>3. Wanted(k)' = Wanted(k) /\ Deleted' = Deleted
    BY <1>3 DEF Wanted, Deleted, Jobs
  <2>4. Shape(k)' /\ Asked(k)'
    BY <1>3, <2>1, <2>2 DEF Own, Shape, Asked
  <2>5. Asks(k)'
    BY <1>0, <1>1, <1>3, <2>1, <2>2, <2>3 DEF Own, Reached, Asks, RecordsGuarded, Wanted
  <2>6. QED
    BY <1>0, <1>1, <2>4, <2>5 DEF Own
<1>4. QED
  BY <1>2, <1>3 DEF Lost, Refused
-----------------------------------------------------------------------------
(* The steps outside the handlers.                                          *)

(* A new webhook is queued behind the others, which keep what they have.     *)
LEMMA EnqueueExtends ==
  ASSUME JobsOK, NEW hook \in JobRecord, Enqueue(hook)
  PROVE  \E new : /\ new \notin Jobs /\ Jobs' = Jobs \cup {new}
                  /\ job'[new] = hook /\ run'[new] = Idle
                  /\ \A k \in Jobs : job'[k] = job[k] /\ run'[k] = run[k]
<1>1. job \in Seq(JobRecord) /\ DOMAIN job = 1 .. Len(job) /\ Len(job) \in Nat
  BY LenProperties DEF JobsOK
<1>2. /\ job' \in Seq(JobRecord) /\ DOMAIN job' = 1 .. Len(job) + 1
      /\ \A k \in Jobs : job'[k] = job[k]
      /\ job'[Len(job) + 1] = hook
  BY <1>1, AppendProperties, LenProperties DEF Enqueue, Jobs
<1>3. Len(job) + 1 \notin Jobs /\ Jobs' = Jobs \cup {Len(job) + 1}
  BY <1>1, <1>2 DEF Jobs
<1>4. run'[Len(job) + 1] = Idle /\ \A k \in Jobs : run'[k] = run[k]
  BY <1>3 DEF Enqueue, Jobs
<1>5. QED
  BY <1>2, <1>3, <1>4

LEMMA NewJobKeeps ==
  ASSUME CascadeInv, RequestInv, NEW hook \in JobRecord, hook.state = "queued", Enqueue(hook),
         UNCHANGED record, title'.ownOriginal = title.ownOriginal,
         hook.op = "add" => title'.record,
         hook.op = "delete" \/ title'.record \/ ~title.record
  PROVE  RequestInv'
<1>1. PICK new : /\ new \notin Jobs /\ Jobs' = Jobs \cup {new}
                 /\ job'[new] = hook /\ run'[new] = Idle
                 /\ \A k \in Jobs : job'[k] = job[k] /\ run'[k] = run[k]
  BY EnqueueExtends DEF CascadeInv
<1>2. Deleted => Deleted'
  BY <1>1 DEF Deleted
<1>3. run'[new].pc = "idle" /\ run'[new].todo = <<>> /\ job'[new].state = "queued"
  BY <1>1 DEF Idle
<1>4. (Shape(new) /\ Asks(new) /\ Asked(new))'
  BY <1>3 DEF Shape, Asks, Asked, Calls
<1>5. ASSUME NEW k \in Jobs
      PROVE  (Shape(k) /\ Asks(k) /\ Asked(k))'
  <2>1. Shape(k) /\ Asks(k) /\ Asked(k) /\ job'[k] = job[k] /\ run'[k] = run[k]
    BY <1>1 DEF RequestInv
  <2>2. QED
    BY <1>2, <2>1 DEF Shape, Reached, Asks, Asked, Wanted
<1>6. NothingRedundant'
  BY <1>1 DEF RequestInv, NothingRedundant
<1>7. ((\E k \in Jobs : job[k].op = "add") /\ ~title.record => Deleted)'
  BY <1>1, <1>2 DEF RequestInv, Deleted, JobRecord
<1>8. QED
  BY <1>1, <1>4, <1>5, <1>6, <1>7 DEF RequestInv

LEMMA SiblingStepKeeps ==
  ASSUME CascadeInv, RequestInv, NEW s \in Siblings, Fetch(s) \/ Meddle(s)
  PROVE  RequestInv'
<1>1. UNCHANGED <<title, job, run>> /\ record \in Records
  BY DEF Fetch, Meddle, CascadeInv
<1>2. \A x \in Siblings : record'[x].by \in {record[x].by, "operator", "nobody"}
  BY <1>1 DEF Fetch, Meddle, Becomes, Records
<1>3. \A x \in Siblings : Reached(x) => Reached(x)'
  BY <1>1 DEF Fetch, Meddle, Becomes, Records, Reached
<1>4. ASSUME NEW k \in Jobs
      PROVE  (Shape(k) /\ Asks(k) /\ Asked(k))'
  <2>1. Shape(k) /\ Asks(k) /\ Asked(k)
    BY DEF RequestInv
  <2>2. QED
    BY <1>1, <1>3, <2>1 DEF Shape, Asks, Asked, Wanted, Deleted, Jobs
<1>5. NothingRedundant'
  BY <1>1, <1>2 DEF RequestInv, NothingRedundant, Jobs
<1>6. QED
  BY <1>1, <1>4, <1>5 DEF RequestInv, Jobs, Deleted

LEMMA ClaimKeeps ==
  ASSUME CascadeInv, RequestInv, NEW k \in Jobs, Claim(k)
  PROVE  RequestInv'
<1>1. JobsOK /\ SetState(k, "running") /\ run' = [run EXCEPT ![k] = [run[k] EXCEPT !.pc = "begin"]]
      /\ UNCHANGED <<title, record>> /\ DOMAIN run[k] = DOMAIN Idle /\ DOMAIN run = Jobs
  BY DEF Claim, CascadeInv, JobsOK, HandlerOK
<1>2. SameHooks /\ job'[k].state = "running" /\ \A x \in Jobs \ {k} : job'[x] = job[x]
  BY <1>1, StateSetOnly DEF States
<1>3. run'[k].pc = "begin" /\ run'[k].todo = run[k].todo /\ \A x \in Jobs \ {k} : run'[x] = run[x]
  BY <1>1 DEF Idle
<1>4. OthersRest(k) /\ RecordsGuarded(k)
  BY <1>1, <1>2, <1>3 DEF OthersRest, RecordsGuarded
<1>5. Own(k)'
  BY <1>2, <1>3 DEF Own, Shape, Asks, Asked, RequestInv, Calls, SameHooks
<1>6. QED
  BY <1>1, <1>2, <1>4, <1>5, LocalStepKeeps

LEMMA CrashKeeps ==
  ASSUME CascadeInv, RequestInv, Crash
  PROVE  RequestInv'
<1>1. /\ Jobs' = Jobs /\ run' = [x \in Jobs |-> Idle] /\ UNCHANGED <<title, record>>
      /\ \A k \in Jobs : job'[k] = IF k \in Running THEN [job[k] EXCEPT !.state = "queued"] ELSE job[k]
  BY DEF Crash, Jobs
<1>2. ASSUME NEW k \in Jobs
      PROVE  /\ job'[k].op = job[k].op /\ job'[k].langs = job[k].langs /\ job'[k].files = job[k].files
             /\ job'[k].state = "done" => job[k].state = "done"
  <2>1. job[k] \in JobRecord
    BY JobIsTyped DEF CascadeInv
  <2>2. QED
    BY <1>1, <2>1 DEF JobRecord
<1>3. Deleted' = Deleted
  BY <1>1, <1>2 DEF Deleted
<1>4. ASSUME NEW k \in Jobs
      PROVE  (Shape(k) /\ Asks(k) /\ Asked(k))'
  <2>1. run'[k].pc = "idle" /\ run'[k].todo = <<>> /\ Asked(k)
    BY <1>1 DEF Idle, RequestInv
  <2>2. Shape(k)' /\ Asks(k)'
    BY <2>1 DEF Shape, Asks, Calls
  <2>3. Wanted(k)' = Wanted(k)
    BY <1>2 DEF Wanted
  <2>4. Asked(k)'
    BY <1>1, <1>2, <1>3, <2>1, <2>3 DEF Reached, Asked
  <2>5. QED
    BY <2>2, <2>4
<1>5. NothingRedundant'
  BY <1>1, <1>2 DEF RequestInv, NothingRedundant
<1>6. QED
  BY <1>1, <1>2, <1>3, <1>4, <1>5 DEF RequestInv

LEMMA InitRequests == Init => RequestInv
  BY DEF Init, RequestInv, NothingRedundant, Jobs

LEMMA StepRequests == CascadeInv /\ RequestInv /\ [Next]_vars => RequestInv'
<1> SUFFICES ASSUME CascadeInv, RequestInv, [Next]_vars
             PROVE  RequestInv'
  OBVIOUS
<1>1. ASSUME NEW langs \in Audio, Import(langs)
      PROVE  RequestInv'
  <2> DEFINE hook == Webhook("add", langs, TRUE)
  <2>1. hook \in JobRecord /\ hook.state = "queued" /\ hook.op = "add"
    BY DEF Webhook, JobRecord, States
  <2>2. Enqueue(hook) /\ UNCHANGED record
        /\ title'.record /\ title'.ownOriginal = title.ownOriginal
    BY <1>1 DEF Import, CascadeInv, Titles
  <2> HIDE DEF hook
  <2>3. QED
    BY <2>1, <2>2, NewJobKeeps
<1>2. ASSUME NEW files \in BOOLEAN, Delete(files)
      PROVE  RequestInv'
  <2> DEFINE hook == Webhook("delete", {}, files)
  <2>1. hook \in JobRecord /\ hook.state = "queued" /\ hook.op = "delete"
    BY DEF Webhook, JobRecord, States
  <2>2. Enqueue(hook) /\ UNCHANGED record /\ title'.ownOriginal = title.ownOriginal
    BY <1>2 DEF Delete, CascadeInv, Titles
  <2> HIDE DEF hook
  <2>3. QED
    BY <2>1, <2>2, NewJobKeeps
<1>3. ASSUME NEW s \in Siblings, Fetch(s) \/ Meddle(s)
      PROVE  RequestInv'
  BY <1>3, SiblingStepKeeps
<1>4. ASSUME NEW k \in Jobs, Claim(k)
      PROVE  RequestInv'
  BY <1>4, ClaimKeeps
<1>5. ASSUME NEW k \in Jobs, Handler(k) \/ Lost(k) \/ Refused(k)
      PROVE  RequestInv'
  <2>1. SameHooks /\ OthersRest(k)
    BY <1>5, StepsAreLocal DEF CascadeInv
  <2>2. Own(k)' /\ RecordsGuarded(k) /\ UNCHANGED title
    BY <1>5, HandlerKeeps, FaultKeeps
  <2>3. QED
    BY <2>1, <2>2, LocalStepKeeps
<1>6. CASE Crash
  BY <1>6, CrashKeeps
<1>7. CASE UNCHANGED vars
  BY <1>7 DEF vars, RequestInv, NothingRedundant, Shape, Reached, Asks, Asked, Wanted, Deleted, Jobs
<1>8. QED
  BY <1>1, <1>2, <1>3, <1>4, <1>5, <1>6, <1>7 DEF Next

LEMMA RequestInvariant == Spec => []RequestInv
  BY InitCascade, StepCascade, InitRequests, StepRequests, PTL DEF Spec

(* Every sibling the cascade has a request at has a language that some import *)
(* lacks, whatever was retried, lost or answered twice, and with any number  *)
(* of workers: a handler only ever talks to the siblings that its own file   *)
(* does not serve.                                                           *)
THEOREM NoRedundantRequests == Spec => []NothingRedundant
<1>1. RequestInv => NothingRedundant
  BY DEF RequestInv
<1>2. QED
  BY <1>1, RequestInvariant, PTL

(* An import that is done has left no sibling of a missing language without  *)
(* the title, though its handler may have been restarted anywhere in the     *)
(* loop, has passed over siblings that had the title when it looked, and has *)
(* met a title that an operator added after it looked.                       *)
THEOREM AllSiblingsAreAsked == Spec => []EverySiblingAsked
<1>1. RequestInv => EverySiblingAsked
  <2> SUFFICES ASSUME RequestInv, NEW k \in Jobs, job[k].op = "add", job[k].state = "done",
                      ~title.ownOriginal, \A d \in Jobs : job[d].op = "add",
                      NEW s \in Siblings \ Unusable,
                      Language[s] \notin job[k].langs \cup {SourceLanguage}
               PROVE  record[s].state # "absent" \/ record[s].by = "nobody"
    BY DEF EverySiblingAsked
  <2>1. ~Deleted /\ Asked(k) /\ s \in Wanted(k)
    BY DEF RequestInv, Deleted, Wanted
  <2>2. QED
    BY <2>1 DEF Asked, Reached
<1>2. QED
  BY <1>1, RequestInvariant, PTL

-----------------------------------------------------------------------------
(* With one worker, no request is orphaned.  Once the title's file is gone,  *)
(* each request that still waits has a delete that will come to it: one that *)
(* is queued or failed, or the running one if the sibling is still before    *)
(* it.  An import that is at work then has such a delete behind it, because  *)
(* it began while the file was there.                                        *)

(* The delete d has the sibling s before it, or has been given up.           *)
Cancels(d, s) ==
  /\ job[d].op = "delete" /\ job[d].files
  /\ \/ job[d].state \in {"queued", "failed"}
     \/ job[d].state = "running" /\ (run[d].pc = "begin" \/ s \in Elements(run[d].todo))

(* The invariant of one worker.                                              *)
OrphanInv ==
  /\ \A k, l \in Running : k = l
  /\ ~title.file =>
       /\ \A s \in Siblings \ Silent :
            record[s].state = "waiting" /\ record[s].by = "cascade" => \E d \in Jobs : Cancels(d, s)
       /\ \A k \in Running :
            job[k].op = "add" /\ run[k].pc \in Calls =>
              \E d \in Jobs : job[d].op = "delete" /\ job[d].files /\ job[d].state \in {"queued", "failed"}

(* The one worker claims a job when none runs.                               *)
LEMMA OneRuns ==
  ASSUME JobsOK, Concurrency = 1, NEW k \in Jobs, Claim(k)
  PROVE  Running = {}
<1>1. IsFiniteSet(Running)
  <2>1. job \in Seq(JobRecord) /\ Jobs = 1 .. Len(job) /\ Len(job) \in Nat
    BY LenProperties DEF JobsOK, Jobs
  <2>2. IsFiniteSet(Jobs)
    BY <2>1, FS_Interval
  <2>3. Running \subseteq Jobs
    BY DEF Running
  <2>4. QED
    BY <2>2, <2>3, FS_Subset
<1>2. Cardinality(Running) < 1 /\ Cardinality(Running) \in Nat
  BY <1>1, FS_CardinalityType DEF Claim
<1>3. Cardinality(Running) = 0
  BY <1>2
<1>4. QED
  BY <1>1, <1>3, FS_EmptySet

(* What of the deletes a step may change without losing an orphan.           *)
LEMMA OrphansKept ==
  ASSUME CascadeInv, OrphanInv, NEW k \in Jobs, ~title.file, UNCHANGED title,
         SameHooks, OthersRest(k),
         NEW s \in Siblings \ Silent,
         record[s].state = "waiting" /\ record[s].by = "cascade",
         Cancels(k, s) => Cancels(k, s)'
  PROVE  \E d \in Jobs' : Cancels(d, s)'
<1>1. PICK d \in Jobs : Cancels(d, s)
  BY DEF OrphanInv
<1>2. CASE d = k
  BY <1>1, <1>2 DEF SameHooks
<1>3. CASE d # k
  BY <1>1, <1>3 DEF SameHooks, OthersRest, Cancels
<1>4. QED
  BY <1>2, <1>3

(* A handler changes a record by an add's POST or by taking it away.         *)
LEMMA RecordMoves ==
  ASSUME CascadeInv, RequestInv, NEW k \in Jobs, Handler(k) \/ Lost(k) \/ Refused(k), NEW s \in Siblings
  PROVE  \/ record'[s] = record[s]
         \/ record'[s].state = "absent"
         \/ job[k].op = "add" /\ run[k].pc = "post"
<1>0. record \in Records
  BY DEF CascadeInv
<1>1. ASSUME k \in Running, run[k].pc = "post"
      PROVE  job[k].op = "add"
  BY <1>1, OpOf
<1>2. CASE UNCHANGED record
  BY <1>2
<1>3. CASE record' = [record EXCEPT ![Here(k)].state = "absent"]
  BY <1>0, <1>3 DEF Records
<1>4. QED
  BY <1>1, <1>2, <1>3
     DEF Handler, Begin, Source, LookToAdd, LookToDelete, Profiles, Folders, Post, Resolve, Drop,
         Lost, Refused, Effect, At

(* The jobs that wait or failed, as opposed to those a handler holds.        *)
Waits(d) == job[d].op = "delete" /\ job[d].files /\ job[d].state \in {"queued", "failed"}

LEMMA ReturnCancels ==
  ASSUME JobsOK, NEW k \in Jobs, NEW r \in {"queued", "failed"}, Return(k, r), NEW s, Cancels(k, s)
  PROVE  Cancels(k, s)'
<1>1. SameHooks /\ job'[k].state = r
  BY StateSetOnly DEF Return, States
<1>2. QED
  BY <1>1 DEF SameHooks, Cancels

LEMMA VisitCancels ==
  ASSUME JobsOK, NEW k \in Running, NEW q \in Seq(Siblings), Visit(k, q), NEW s \in Elements(q),
         NEW x, Cancels(k, x)
  PROVE  Cancels(k, s)'
<1>1. q # <<>>
  BY DEF Elements
<1>2. k \in Jobs /\ job' = job /\ run' = [run EXCEPT ![k] = [Idle EXCEPT !.pc = "look", !.todo = q]]
  BY <1>1 DEF Visit, Running
<1>3. run'[k].pc = "look" /\ run'[k].todo = q
  BY <1>2 DEF JobsOK, Idle
<1>4. QED
  BY <1>2, <1>3 DEF Cancels, Running

(* A delete passes a sibling that waits for the cascade only by dropping it. *)
LEMMA NextCancels ==
  ASSUME CascadeInv, RequestInv, NEW k \in Running, run[k].pc \in {"look", "delete"}, NextSibling(k),
         NEW s \in Siblings, Cancels(k, s), s # Here(k)
  PROVE  Cancels(k, s)'
<1>1. run[k].todo \in Seq(Siblings) /\ run[k].todo # <<>> /\ JobsOK /\ s \in Elements(run[k].todo)
  BY DEF CascadeInv, JobsOK, HandlerOK, RequestInv, Shape, Running, Cancels, Calls
<1>2. Tail(run[k].todo) \in Seq(Siblings) /\ s \in Elements(Tail(run[k].todo))
  BY <1>1, HeadElements DEF Here
<1>3. QED
  BY <1>1, <1>2, VisitCancels DEF NextSibling

(* A handler's step keeps a delete that is still to drop the sibling.        *)
LEMMA HandlerCancels ==
  ASSUME Propagate, CascadeInv, RequestInv, NEW k \in Jobs, Handler(k) \/ Lost(k) \/ Refused(k),
         NEW s \in Siblings \ Silent, record[s].state = "waiting", record'[s].state # "absent", Cancels(k, s)
  PROVE  Cancels(k, s)'
<1>0. /\ JobsOK /\ k \in Running /\ job[k].op = "delete" /\ job[k].state = "running"
      /\ DOMAIN run[k] = DOMAIN Idle /\ DOMAIN run = Jobs /\ record \in Records
  BY DEF CascadeInv, Handler, At, Begin, Source, LookToAdd, LookToDelete, Profiles,
       Folders, Post, Resolve, Drop, Lost, Refused, Cancels, JobsOK, HandlerOK, Running
<1>o. run[k].pc \in {"begin", "look", "delete"}
  BY <1>0 DEF RequestInv, Shape, JobsOK, HandlerOK
<1>1. CASE Begin(k)
  <2>1. BeginDelete(k) /\ job[k].files
    BY <1>0, <1>1 DEF Begin, Cancels
  <2>2. Visit(k, Config)
    BY <2>1 DEF BeginDelete
  <2>3. Config \in Seq(Siblings) /\ s \in Elements(Config)
    BY CrossInstanceAssumption DEF Siblings
  <2>4. QED
    BY <1>0, <2>2, <2>3, VisitCancels
<1>2. CASE LookToDelete(k)
  <2>1. CASE MayDrop(Here(k))
    <3> DEFINE seen == record[Here(k)].id
               file == record[Here(k)].state = "owned"
               r == [run[k] EXCEPT !.pc = "delete", !.tries = 0, !.seen = seen, !.seenFile = file]
    <3>1. run' = [run EXCEPT ![k] = r] /\ job' = job
      BY <1>2, <2>1 DEF LookToDelete
    <3>2. r.todo = run[k].todo
      BY <1>0 DEF Idle
    <3>3. run'[k].todo = run[k].todo
      BY <1>0, <3>1, <3>2
    <3>4. s \in Elements(run[k].todo)
      BY <1>0, <1>2 DEF Cancels, LookToDelete, At
    <3>5. QED
      BY <1>0, <3>1, <3>3, <3>4 DEF Cancels
  <2>2. CASE ~MayDrop(Here(k))
    <3>1. NextSibling(k) /\ run[k].pc = "look" /\ s # Here(k)
      BY <1>2, <2>2 DEF LookToDelete, MayDrop, At
    <3>2. QED
      BY <1>0, <3>1, NextCancels
  <2>3. QED
    BY <2>1, <2>2
<1>3. CASE Drop(k)
  <2>1. CASE Hit(k)
    <3>1. NextSibling(k) /\ run[k].pc = "delete" /\ record' = [record EXCEPT ![Here(k)].state = "absent"]
      BY <1>3, <2>1 DEF Drop, At
    <3>2. s # Here(k)
      BY <1>0, <3>1 DEF Records
    <3>3. QED
      BY <1>0, <3>1, <3>2, NextCancels
  <2>2. CASE ~Hit(k)
    BY <1>0, <1>3, <2>2, ReturnCancels DEF Drop
  <2>3. QED
    BY <2>1, <2>2
<1>4. CASE Return(k, "queued") \/ Return(k, "failed")
  BY <1>0, <1>4, ReturnCancels
<1>5. CASE run' = [run EXCEPT ![k].tries = @ + 1] /\ UNCHANGED job
  <2>1. run'[k].pc = run[k].pc /\ run'[k].todo = run[k].todo
    BY <1>0, <1>5 DEF Idle
  <2>2. QED
    BY <1>0, <1>5, <2>1 DEF Cancels
<1>6. CASE Lost(k) \/ Refused(k)
  BY <1>4, <1>5, <1>6 DEF Lost, Refused
<1>7. QED
  BY <1>0, <1>o, <1>1, <1>2, <1>3, <1>6 DEF Handler, Source, LookToAdd, Profiles, Folders, Post, Resolve, At

LEMMA HandlerOrphans ==
  ASSUME Propagate, CascadeInv, RequestInv, OrphanInv, NEW k \in Jobs, Handler(k) \/ Lost(k) \/ Refused(k)
  PROVE  OrphanInv'
<1>0. /\ SameHooks /\ OthersRest(k) /\ UNCHANGED title /\ JobsOK /\ k \in Running
      /\ DOMAIN run' = Jobs
  BY StepsAreLocal DEF CascadeInv, Handler, At, Begin, Source, LookToAdd, LookToDelete, Profiles, Folders,
       Post, Resolve, Drop, Lost, Refused
<1>1. Running' \subseteq {k}
  BY <1>0 DEF OrphanInv, OthersRest, SameHooks, Running
<1>2. ASSUME ~title.file, NEW s \in Siblings \ Silent, record'[s].state = "waiting", record'[s].by = "cascade"
      PROVE  \E d \in Jobs' : Cancels(d, s)'
  <2>1. CASE record'[s] = record[s]
    <3>1. Cancels(k, s) => Cancels(k, s)'
      BY <1>2, <2>1, HandlerCancels
    <3>2. QED
      BY <1>0, <1>2, <2>1, <3>1, OrphansKept
  <2>2. CASE job[k].op = "add" /\ run[k].pc = "post"
    <3>1. PICK d \in Jobs : Waits(d)
      BY <1>0, <1>2, <2>2 DEF OrphanInv, Calls, Waits
    <3>2. QED
      BY <1>0, <2>2, <3>1 DEF OthersRest, SameHooks, Cancels, Waits
  <2>3. QED
    BY <1>2, <2>1, <2>2, RecordMoves
<1>3. ASSUME ~title.file, k \in Running', job'[k].op = "add", run'[k].pc \in Calls
      PROVE  \E d \in Jobs' : job'[d].op = "delete" /\ job'[d].files /\ job'[d].state \in {"queued", "failed"}
  <2>1. job[k].op = "add"
    BY <1>0, <1>3 DEF SameHooks
  <2>2. run[k].pc \in Calls
    <3>1. CASE Begin(k)
      <4>1. Return(k, "failed")
        BY <1>3, <2>1, <3>1 DEF Begin, BeginAdd
      <4>2. job'[k].state = "failed"
        BY <1>0, <4>1, StateSetOnly DEF Return, States
      <4>3. QED
        BY <1>3, <4>2 DEF Running
    <3>2. QED
      BY <3>1 DEF Handler, At, Source, LookToAdd, LookToDelete, Profiles, Folders, Post, Resolve, Drop,
           Lost, Refused, Calls
  <2>3. PICK d \in Jobs : Waits(d)
    BY <1>0, <1>3, <2>1, <2>2 DEF OrphanInv, Waits
  <2>4. d # k
    BY <2>1, <2>3 DEF Waits
  <2>5. QED
    BY <1>0, <2>3, <2>4 DEF OthersRest, SameHooks, Waits
<1>4. QED
  BY <1>0, <1>1, <1>2, <1>3 DEF OrphanInv

LEMMA ClaimOrphans ==
  ASSUME Concurrency = 1, CascadeInv, OrphanInv, NEW k \in Jobs, Claim(k)
  PROVE  OrphanInv'
<1>0. JobsOK /\ Running = {} /\ UNCHANGED <<title, record>> /\ DOMAIN run[k] = DOMAIN Idle
  BY OneRuns DEF CascadeInv, Claim, JobsOK, HandlerOK
<1>1. SameHooks /\ job'[k].state = "running" /\ \A x \in Jobs \ {k} : job'[x] = job[x]
  BY <1>0, StateSetOnly DEF Claim, States
<1>2. run' = [run EXCEPT ![k] = [run[k] EXCEPT !.pc = "begin"]]
  BY DEF Claim
<1>3. run'[k].pc = "begin" /\ \A x \in Jobs \ {k} : run'[x] = run[x]
  BY <1>0, <1>2 DEF JobsOK, Idle
<1>4. Running' = {k}
  BY <1>0, <1>1 DEF Running, SameHooks
<1>5. ASSUME ~title.file, NEW s \in Siblings \ Silent, record[s].state = "waiting", record[s].by = "cascade"
      PROVE  \E d \in Jobs' : Cancels(d, s)'
  <2>1. Cancels(k, s) => Cancels(k, s)'
    BY <1>1, <1>3 DEF Cancels, SameHooks
  <2>2. OthersRest(k)
    BY <1>1, <1>3 DEF OthersRest
  <2>3. QED
    BY <1>0, <1>1, <1>5, <2>1, <2>2, OrphansKept
<1>6. QED
  BY <1>0, <1>3, <1>4, <1>5 DEF OrphanInv, Calls

LEMMA CrashOrphans ==
  ASSUME CascadeInv, OrphanInv, Crash
  PROVE  OrphanInv'
<1>1. /\ Jobs' = Jobs /\ run' = [x \in Jobs |-> Idle] /\ UNCHANGED <<title, record>>
      /\ \A k \in Jobs : job'[k] = IF k \in Running THEN [job[k] EXCEPT !.state = "queued"] ELSE job[k]
  BY DEF Crash, Jobs
<1>2. ASSUME NEW k \in Jobs
      PROVE  /\ job'[k].op = job[k].op /\ job'[k].files = job[k].files
             /\ job'[k].state = IF k \in Running THEN "queued" ELSE job[k].state
  <2>1. job[k] \in JobRecord
    BY JobIsTyped DEF CascadeInv
  <2>2. QED
    BY <1>1, <2>1 DEF JobRecord
<1>3. Running' = {}
  BY <1>1, <1>2 DEF Running
<1>4. ASSUME NEW d \in Jobs, NEW s, Cancels(d, s)
      PROVE  Cancels(d, s)'
  BY <1>2, <1>4 DEF Cancels, Running
<1>5. QED
  BY <1>1, <1>3, <1>4 DEF OrphanInv

LEMMA NewJobOrphans ==
  ASSUME CascadeInv, OrphanInv, NEW hook \in JobRecord, hook.state = "queued", Enqueue(hook),
         UNCHANGED record,
         ~title'.file => ~title.file \/ (hook.op = "delete" /\ hook.files)
  PROVE  OrphanInv'
<1>1. PICK new : /\ new \notin Jobs /\ Jobs' = Jobs \cup {new}
                 /\ job'[new] = hook /\ run'[new] = Idle
                 /\ \A k \in Jobs : job'[k] = job[k] /\ run'[k] = run[k]
  BY EnqueueExtends DEF CascadeInv
<1>2. Running' = Running
  BY <1>1 DEF Running
<1>3. ASSUME NEW d \in Jobs, NEW s, Cancels(d, s)
      PROVE  Cancels(d, s)'
  BY <1>1, <1>3 DEF Cancels
<1>4. CASE title'.file
  BY <1>2, <1>4 DEF OrphanInv
<1>5. CASE hook.op = "delete" /\ hook.files
  <2>1. Waits(new)' /\ \A s : Cancels(new, s)'
    BY <1>1, <1>5 DEF Waits, Cancels
  <2>2. QED
    BY <1>1, <1>2, <2>1 DEF OrphanInv, Waits
<1>6. CASE ~title'.file /\ ~title.file
  <2>1. \A k \in Running : job'[k] = job[k] /\ run'[k] = run[k]
    BY <1>1 DEF Running
  <2>2. \A d \in Jobs : Waits(d) => Waits(d)'
    BY <1>1 DEF Waits
  <2>3. QED
    BY <1>1, <1>2, <1>3, <1>6, <2>1, <2>2 DEF OrphanInv, Waits
<1>7. QED
  BY <1>4, <1>5, <1>6

LEMMA SiblingOrphans ==
  ASSUME CascadeInv, OrphanInv, NEW s \in Siblings, Fetch(s) \/ Meddle(s)
  PROVE  OrphanInv'
<1>1. UNCHANGED <<title, job, run>> /\ record \in Records
  BY DEF Fetch, Meddle, CascadeInv
<1>2. \A x \in Siblings : record'[x].state = "waiting" /\ record'[x].by = "cascade" =>
        record[x].state = "waiting" /\ record[x].by = "cascade"
  BY <1>1 DEF Fetch, Meddle, Becomes, Records
<1>3. QED
  BY <1>1, <1>2 DEF OrphanInv, Running, Jobs, Cancels

LEMMA StepOrphans ==
  ASSUME Concurrency = 1, Propagate
  PROVE  CascadeInv /\ RequestInv /\ OrphanInv /\ [Next]_vars => OrphanInv'
<1> SUFFICES ASSUME CascadeInv, RequestInv, OrphanInv, [Next]_vars
             PROVE  OrphanInv'
  OBVIOUS
<1>1. ASSUME NEW langs \in Audio, Import(langs)
      PROVE  OrphanInv'
  <2> DEFINE hook == Webhook("add", langs, TRUE)
  <2>1. hook \in JobRecord /\ hook.state = "queued" /\ hook.op = "add"
    BY DEF Webhook, JobRecord, States
  <2>2. Enqueue(hook) /\ UNCHANGED record /\ title'.file
    BY <1>1 DEF Import, CascadeInv, Titles
  <2> HIDE DEF hook
  <2>3. QED
    BY <2>1, <2>2, NewJobOrphans
<1>2. ASSUME NEW files \in BOOLEAN, Delete(files)
      PROVE  OrphanInv'
  <2> DEFINE hook == Webhook("delete", {}, files)
  <2>1. hook \in JobRecord /\ hook.state = "queued" /\ hook.op = "delete" /\ hook.files = files
    BY DEF Webhook, JobRecord, States
  <2>2. Enqueue(hook) /\ UNCHANGED record /\ (~title'.file => ~title.file \/ files)
    BY <1>2 DEF Delete, CascadeInv, Titles
  <2> HIDE DEF hook
  <2>3. QED
    BY <2>1, <2>2, NewJobOrphans
<1>3. ASSUME NEW s \in Siblings, Fetch(s) \/ Meddle(s)
      PROVE  OrphanInv'
  BY <1>3, SiblingOrphans
<1>4. ASSUME NEW k \in Jobs, Claim(k)
      PROVE  OrphanInv'
  BY <1>4, ClaimOrphans
<1>5. ASSUME NEW k \in Jobs, Handler(k) \/ Lost(k) \/ Refused(k)
      PROVE  OrphanInv'
  BY <1>5, HandlerOrphans
<1>6. CASE Crash
  BY <1>6, CrashOrphans
<1>7. CASE UNCHANGED vars
  BY <1>7 DEF vars, OrphanInv, Running, Jobs, Cancels
<1>8. QED
  BY <1>1, <1>2, <1>3, <1>4, <1>5, <1>6, <1>7 DEF Next

(* Where deletes propagate and one worker runs, a settled system without     *)
(* failed deletes has no sibling searching on the cascade's account for a    *)
(* title whose file is gone: no crash, retry or lost answer lets a delete    *)
(* pass a sibling that still waits.                                          *)
THEOREM NoRequestIsOrphaned == Spec => []NoOrphanRequest
<1>1. CASE Concurrency = 1 /\ Propagate
  <2>1. Init => OrphanInv
    BY DEF Init, OrphanInv, Running, Jobs
  <2>2. CascadeInv /\ RequestInv /\ OrphanInv /\ [Next]_vars => OrphanInv'
    BY <1>1, StepOrphans
  <2>3. OrphanInv => NoOrphanRequest
    BY DEF OrphanInv, NoOrphanRequest, Cancels, Settled
  <2>4. QED
    BY <2>1, <2>2, <2>3, CascadeInvariant, RequestInvariant, PTL DEF Spec
<1>2. CASE ~(Concurrency = 1 /\ Propagate)
  <2>1. NoOrphanRequest
    BY <1>2 DEF NoOrphanRequest
  <2>2. QED
    BY <2>1, PTL
<1>3. QED
  BY <1>1, <1>2
=============================================================================
