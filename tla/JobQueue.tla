------------------------------ MODULE JobQueue ------------------------------
(***************************************************************************)
(* The persistent job queue: the jobs table of src/queue/store.rs, the     *)
(* dispatcher, the detached worker tasks and the sweeper of                *)
(* src/queue/worker.rs, the admin endpoints that reopen jobs, and the      *)
(* start, crash and shutdown of the process around them (src/app/mod.rs).  *)
(*                                                                         *)
(* Every SQL statement is one atomic step, which is what SQLite gives the  *)
(* code.  Timestamps are kept relative to the present: due[j] is           *)
(* next_attempt_at - now and lease[j] is claimed_until - now, and Tick     *)
(* moves all of them together.  That keeps the state space finite with no  *)
(* horizon, so liveness is not cut off by an end of time.                  *)
(***************************************************************************)
EXTENDS Integers, FiniteSets

CONSTANTS
  MaxJobs,         \* webhooks that arrive: bounds the rows of the table
  Tasks,           \* slots for the tasks tokio::spawn creates
  Concurrency,     \* permits of the dispatcher's semaphore
  MaxAttempts,     \* the max_attempts column (5 in the code)
  Lease,           \* claim_for, in ticks
  InitialBackoff,  \* RetryPolicy.initial_backoff, in ticks
  MaxBackoff,      \* RetryPolicy.max_backoff, in ticks
  OverdueCap,      \* rows overdue by this much or more are ordered by id only
  MaxFaults,       \* bound on crashes, shutdowns, panics and lost acks
  MaxReopens,      \* bound on the calls of the retry and reprocess endpoints
  HandlersFitLease \* TRUE: a handler and its ack end before the lease does

ASSUME ConstantsAssumption ==
  /\ MaxJobs \in Nat \ {0}
  /\ IsFiniteSet(Tasks)
  /\ Concurrency \in Nat \ {0}
  /\ Concurrency <= Cardinality(Tasks)
  /\ MaxAttempts \in Nat \ {0}
  /\ Lease \in Nat \ {0}
  /\ InitialBackoff \in Nat
  /\ MaxBackoff \in Nat
  /\ OverdueCap \in Nat
  /\ MaxFaults \in Nat
  /\ MaxReopens \in Nat
  /\ HandlersFitLease \in BOOLEAN

VARIABLES
  status,       \* the status column; "absent" before the row is inserted
  attempts,     \* the attempts column
  due,          \* next_attempt_at relative to now
  lease,        \* claimed_until relative to now, or NoLease for NULL
  taskJob,      \* the job a live worker task holds, or NoJob
  taskAttempts, \* the attempts snapshot that task took of its row
  permits,      \* free permits of the semaphore
  dispatcher,   \* where the dispatcher loop is
  sweeper,      \* whether the sweeper task is "running" or "stopped"
  process,      \* "up", "stopping" once the cancel token fired, or "down"
  faults,       \* faults so far
  reopens       \* admin calls so far

rows == <<status, attempts, due, lease>>
tasks == <<taskJob, taskAttempts>>
budgets == <<faults, reopens>>
vars == <<rows, tasks, permits, dispatcher, sweeper, process, budgets>>

Jobs == 1 .. MaxJobs
NoJob == 0
NoLease == -1
Terminal == {"completed", "failed", "dead_letter"}
Statuses == {"absent", "pending", "claimed"} \cup Terminal

Live == {t \in Tasks : taskJob[t] # NoJob}
Running == process # "down"

\* One row's columns change together, as in one UPDATE ... WHERE id = ?.
Update(j, s, n, d, l) ==
  /\ status' = [status EXCEPT ![j] = s]
  /\ attempts' = [attempts EXCEPT ![j] = n]
  /\ due' = [due EXCEPT ![j] = d]
  /\ lease' = [lease EXCEPT ![j] = l]

\* Variant: the backoff forgets its cap.
BackoffUncapped(n) == InitialBackoff * 2 ^ (n - 1)

\* RetryPolicy::backoff_for: doubling, saturating at the cap.
BackoffFor(n) ==
  LET exp == InitialBackoff * 2 ^ (n - 1)
  IN  IF exp \in 0 .. MaxBackoff THEN exp ELSE MaxBackoff

-----------------------------------------------------------------------------
(* The producer: a webhook is stored and acknowledged.                     *)

\* JobStore::enqueue, called by the webhook handlers with available_at = now.
Enqueue(j) ==
  /\ Running
  /\ status[j] = "absent"
  /\ \A i \in Jobs : i < j => status[i] # "absent"
  /\ Update(j, "pending", 0, 0, NoLease)
  /\ UNCHANGED <<tasks, permits, dispatcher, sweeper, process, budgets>>

-----------------------------------------------------------------------------
(* The dispatcher loop.                                                    *)

\* The semaphore is acquired; a cancelled token wins the biased select.
AcquirePermit ==
  /\ process = "up"
  /\ dispatcher = "idle"
  /\ permits > 0
  /\ permits' = permits - 1
  /\ dispatcher' = "holding"
  /\ UNCHANGED <<rows, tasks, sweeper, process, budgets>>

Claimable(j) == status[j] = "pending" /\ due[j] <= 0

\* ORDER BY next_attempt_at, id LIMIT 1
First(j) ==
  /\ Claimable(j)
  /\ \A i \in Jobs \ {j} :
        Claimable(i) => due[j] < due[i] \/ (due[j] = due[i] /\ j < i)

\* JobStore::claim_next finds a row and the dispatcher spawns a detached task
\* that owns the permit.  The token is not looked at between permit and claim.
Claim(j, t) ==
  /\ Running
  /\ dispatcher = "holding"
  /\ t \notin Live
  /\ First(j)
  /\ Update(j, "claimed", attempts[j], due[j], Lease)
  /\ taskJob' = [taskJob EXCEPT ![t] = j]
  /\ taskAttempts' = [taskAttempts EXCEPT ![t] = attempts[j]]
  /\ dispatcher' = "idle"
  /\ UNCHANGED <<permits, sweeper, process, budgets>>

\* Variant: the empty poll sleeps with its permit in hand.
ClaimNothingKeepsPermit ==
  /\ Running
  /\ dispatcher = "holding"
  /\ \A j \in Jobs : ~Claimable(j)
  /\ dispatcher' = "sleeping"
  /\ UNCHANGED <<rows, tasks, permits, sweeper, process, budgets>>

\* claim_next returns Ok(None): the permit is dropped and the loop sleeps.
ClaimNothing ==
  /\ Running
  /\ dispatcher = "holding"
  /\ \A j \in Jobs : ~Claimable(j)
  /\ permits' = permits + 1
  /\ dispatcher' = "sleeping"
  /\ UNCHANGED <<rows, tasks, sweeper, process, budgets>>

\* claim_next returns Err (a busy or failing database): same as nothing found.
ClaimError ==
  /\ Running
  /\ dispatcher = "holding"
  /\ faults < MaxFaults
  /\ faults' = faults + 1
  /\ permits' = permits + 1
  /\ dispatcher' = "sleeping"
  /\ UNCHANGED <<rows, tasks, sweeper, process, reopens>>

\* The poll interval is over.
Wake ==
  /\ Running
  /\ dispatcher = "sleeping"
  /\ dispatcher' = "idle"
  /\ UNCHANGED <<rows, tasks, permits, sweeper, process, budgets>>

\* The loop breaks: at its top, in the wait for a permit, or in the sleep.
DispatcherStop ==
  /\ process = "stopping"
  /\ dispatcher \in {"idle", "sleeping"}
  /\ dispatcher' = "stopped"
  /\ UNCHANGED <<rows, tasks, permits, sweeper, process, budgets>>

-----------------------------------------------------------------------------
(* Worker tasks: process_one runs the handler and acks by row id alone.    *)

\* The task ends and its permit returns to the semaphore.
EndTask(t) ==
  /\ taskJob' = [taskJob EXCEPT ![t] = NoJob]
  /\ taskAttempts' = [taskAttempts EXCEPT ![t] = 0]
  /\ permits' = permits + 1
  /\ UNCHANGED <<dispatcher, sweeper, process>>

\* ProcessOutcome::Success and ack_success.
AckSuccess(t) ==
  /\ Running /\ t \in Live
  /\ LET j == taskJob[t] IN Update(j, "completed", attempts[j], due[j], NoLease)
  /\ EndTask(t)
  /\ UNCHANGED budgets

\* Variant: the retry UPDATE leaves claimed_until in place.
AckRetryKeepsLease(t) ==
  /\ Running /\ t \in Live
  /\ taskAttempts[t] + 1 < MaxAttempts
  /\ LET j == taskJob[t]
     IN  Update(j, "pending", attempts[j] + 1, BackoffFor(taskAttempts[t] + 1), lease[j])
  /\ EndTask(t)
  /\ UNCHANGED budgets

\* Variant: the attempt in progress is not counted against max_attempts.
AckRetryOneMore(t) ==
  /\ Running /\ t \in Live
  /\ taskAttempts[t] < MaxAttempts
  /\ LET j == taskJob[t]
     IN  Update(j, "pending", attempts[j] + 1, BackoffFor(taskAttempts[t] + 1), NoLease)
  /\ EndTask(t)
  /\ UNCHANGED budgets

\* ProcessOutcome::Transient with attempts left: ack_failure(Retry).
AckRetry(t) ==
  /\ Running /\ t \in Live
  /\ taskAttempts[t] + 1 < MaxAttempts
  /\ LET j == taskJob[t]
     IN  Update(j, "pending", attempts[j] + 1, BackoffFor(taskAttempts[t] + 1), NoLease)
  /\ EndTask(t)
  /\ UNCHANGED budgets

\* Variant: the comparison is one attempt short.
AckDeadLetterEarly(t) ==
  /\ Running /\ t \in Live
  /\ taskAttempts[t] + 2 >= MaxAttempts
  /\ LET j == taskJob[t] IN Update(j, "dead_letter", attempts[j] + 1, due[j], NoLease)
  /\ EndTask(t)
  /\ UNCHANGED budgets

\* ProcessOutcome::Transient on the last attempt: ack_failure(DeadLetter).
AckDeadLetter(t) ==
  /\ Running /\ t \in Live
  /\ taskAttempts[t] + 1 >= MaxAttempts
  /\ LET j == taskJob[t] IN Update(j, "dead_letter", attempts[j] + 1, due[j], NoLease)
  /\ EndTask(t)
  /\ UNCHANGED budgets

\* ProcessOutcome::Permanent: ack_failure(PermanentFailure).
AckPermanent(t) ==
  /\ Running /\ t \in Live
  /\ LET j == taskJob[t] IN Update(j, "failed", attempts[j] + 1, due[j], NoLease)
  /\ EndTask(t)
  /\ UNCHANGED budgets

\* The handler panics, or the ack statement fails and `let _ =` drops the
\* error: the permit is released and the row keeps its claim.
TaskDies(t) ==
  /\ Running /\ t \in Live
  /\ faults < MaxFaults
  /\ faults' = faults + 1
  /\ EndTask(t)
  /\ UNCHANGED <<rows, reopens>>

WorkerStep(t) ==
  AckSuccess(t) \/ AckRetry(t) \/ AckDeadLetter(t) \/ AckPermanent(t)

-----------------------------------------------------------------------------
(* The sweeper.                                                            *)

\* Variant: the sweep takes back every claim, as reset_orphaned_claims does.
ClaimedAtAll(j) == status[j] = "claimed"

\* Variant: the sweep has lost its status guard.
NotLeased(j) == status[j] # "absent" /\ lease[j] <= 0

\* Variant: the sweep looks only while the process shuts down.
ExpiredAtShutdown(j) == status[j] = "claimed" /\ lease[j] = 0 /\ process = "stopping"

Expired(j) == status[j] = "claimed" /\ lease[j] = 0

\* sweep_expired_claims: every expired claim becomes pending again, its
\* attempts and next_attempt_at untouched.
Sweep ==
  /\ Running /\ sweeper = "running"
  /\ \E j \in Jobs : Expired(j)
  /\ status' = [j \in Jobs |-> IF Expired(j) THEN "pending" ELSE status[j]]
  /\ lease' = [j \in Jobs |-> IF Expired(j) THEN NoLease ELSE lease[j]]
  /\ UNCHANGED <<attempts, due, tasks, permits, dispatcher, sweeper, process, budgets>>

SweeperStop ==
  /\ process = "stopping"
  /\ sweeper = "running"
  /\ sweeper' = "stopped"
  /\ UNCHANGED <<rows, tasks, permits, dispatcher, process, budgets>>

-----------------------------------------------------------------------------
(* The admin endpoints.                                                    *)

\* The UPDATE both endpoints run on the rows in S.
Reopen(S) ==
  /\ Running
  /\ S # {}
  /\ reopens < MaxReopens
  /\ reopens' = reopens + 1
  /\ status' = [j \in Jobs |-> IF j \in S THEN "pending" ELSE status[j]]
  /\ attempts' = [j \in Jobs |-> IF j \in S THEN 0 ELSE attempts[j]]
  /\ due' = [j \in Jobs |-> IF j \in S THEN 0 ELSE due[j]]
  /\ UNCHANGED <<lease, tasks, permits, dispatcher, sweeper, process, faults>>

\* POST /api/v1/jobs/{id}/retry: one job in any terminal state.
RetryJob(j) == status[j] \in Terminal /\ Reopen({j})

\* Variant: the bulk endpoint replays completed jobs as well.
ReprocessEverything == Reopen({j \in Jobs : status[j] \in Terminal})

\* POST /api/v1/jobs/reprocess: every failed and dead-letter job.
ReprocessAll == Reopen({j \in Jobs : status[j] \in {"failed", "dead_letter"}})

-----------------------------------------------------------------------------
(* The process.                                                            *)

\* Every tokio task is gone; the table is all that is left.
ProcessEnds ==
  /\ process' = "down"
  /\ taskJob' = [t \in Tasks |-> NoJob]
  /\ taskAttempts' = [t \in Tasks |-> 0]
  /\ permits' = 0
  /\ dispatcher' = "stopped"
  /\ sweeper' = "stopped"
  /\ UNCHANGED <<rows, reopens>>

Crash ==
  /\ Running
  /\ faults < MaxFaults
  /\ faults' = faults + 1
  /\ ProcessEnds

\* SIGINT or SIGTERM cancels the token.
Shutdown ==
  /\ process = "up"
  /\ faults < MaxFaults
  /\ faults' = faults + 1
  /\ process' = "stopping"
  /\ UNCHANGED <<rows, tasks, permits, dispatcher, sweeper, reopens>>

\* app::run joins the dispatcher and the sweeper handles, then main returns
\* and the runtime drops whatever tasks are left.
Exit ==
  /\ process = "stopping"
  /\ dispatcher = "stopped"
  /\ sweeper = "stopped"
  /\ ProcessEnds
  /\ UNCHANGED faults

\* Variant: a process that starts without its sweeper.
StartNoSweeper ==
  /\ process = "down"
  /\ process' = "up"
  /\ permits' = Concurrency
  /\ dispatcher' = "idle"
  /\ sweeper' = "stopped"
  /\ UNCHANGED <<rows, tasks, budgets>>

\* app::build: claimed rows of the previous run are left to the sweeper.
Start ==
  /\ process = "down"
  /\ process' = "up"
  /\ permits' = Concurrency
  /\ dispatcher' = "idle"
  /\ sweeper' = "running"
  /\ UNCHANGED <<rows, tasks, budgets>>

-----------------------------------------------------------------------------
(* Time.                                                                   *)

\* Under HandlersFitLease no tick may use up the lease of a row whose handler
\* is still at work.
Tick ==
  /\ HandlersFitLease => \A t \in Live : lease[taskJob[t]] # 1
  /\ due' = [j \in Jobs |-> IF status[j] # "absent" /\ due[j] > -OverdueCap
                            THEN due[j] - 1 ELSE due[j]]
  /\ lease' = [j \in Jobs |-> IF lease[j] > 0 THEN lease[j] - 1 ELSE lease[j]]
  /\ UNCHANGED <<status, attempts, tasks, permits, dispatcher, sweeper, process, budgets>>

-----------------------------------------------------------------------------
Init ==
  /\ status = [j \in Jobs |-> "absent"]
  /\ attempts = [j \in Jobs |-> 0]
  /\ due = [j \in Jobs |-> 0]
  /\ lease = [j \in Jobs |-> NoLease]
  /\ taskJob = [t \in Tasks |-> NoJob]
  /\ taskAttempts = [t \in Tasks |-> 0]
  /\ permits = 0
  /\ dispatcher = "stopped"
  /\ sweeper = "stopped"
  /\ process = "down"
  /\ faults = 0
  /\ reopens = 0

Next ==
  \/ \E j \in Jobs : Enqueue(j) \/ RetryJob(j)
  \/ \E j \in Jobs, t \in Tasks : Claim(j, t)
  \/ \E t \in Tasks : WorkerStep(t) \/ TaskDies(t)
  \/ AcquirePermit \/ ClaimNothing \/ ClaimError \/ Wake \/ DispatcherStop
  \/ Sweep \/ SweeperStop
  \/ ReprocessAll
  \/ Crash \/ Shutdown \/ Exit \/ Start
  \/ Tick

Spec == Init /\ [][Next]_vars

\* What the runtime and the environment owe the queue: scheduled tasks run,
\* handlers return, timers fire, and the container is restarted.  Webhooks,
\* admin calls and faults are never owed.
Fairness ==
  /\ WF_vars(AcquirePermit)
  /\ WF_vars(\E j \in Jobs, t \in Tasks : Claim(j, t))
  /\ WF_vars(ClaimNothing)
  /\ WF_vars(Wake)
  /\ WF_vars(DispatcherStop)
  /\ \A t \in Tasks : WF_vars(WorkerStep(t))
  /\ WF_vars(Sweep)
  /\ WF_vars(SweeperStop)
  /\ WF_vars(Exit)
  /\ WF_vars(Start)
  /\ WF_vars(Tick)

FairSpec == Spec /\ Fairness

-----------------------------------------------------------------------------
(* Properties.                                                             *)

\* Every variable has its type: the status CHECK of the migration, attempts
\* that count up from zero, timers within their caps.
TypeOK ==
  /\ status \in [Jobs -> Statuses]
  /\ attempts \in [Jobs -> Nat]
  /\ due \in [Jobs -> -OverdueCap .. MaxBackoff]
  /\ lease \in [Jobs -> NoLease .. Lease]
  /\ taskJob \in [Tasks -> Jobs \cup {NoJob}]
  /\ taskAttempts \in [Tasks -> Nat]
  /\ permits \in Nat
  /\ dispatcher \in {"idle", "holding", "sleeping", "stopped"}
  /\ sweeper \in {"running", "stopped"}
  /\ process \in {"up", "stopping", "down"}
  /\ faults \in 0 .. MaxFaults
  /\ reopens \in 0 .. MaxReopens

\* No permit leaks and none is invented, through empty polls, panics, lost
\* acks and shutdown: while the process runs, the free permits, the one in the
\* dispatcher's hand and the live tasks add up to the concurrency.
PermitsConserved ==
  Running => permits + Cardinality(Live) + (IF dispatcher = "holding" THEN 1 ELSE 0)
               = Concurrency

\* No row is stranded: a claimed row always has a deadline the sweeper can
\* compare (NULL <= now is never true in SQL), and no other row carries one.
LeaseIffClaimed ==
  \A j \in Jobs : status[j] = "claimed" <=> lease[j] # NoLease

\* While handlers fit their lease, two tasks never run the same job, and the
\* row a task will ack is still its own: claimed, with the attempts it read.
TasksOwnTheirRows ==
  HandlersFitLease =>
    \A t \in Live :
      /\ status[taskJob[t]] = "claimed"
      /\ lease[taskJob[t]] > 0
      /\ attempts[taskJob[t]] = taskAttempts[t]
      /\ \A u \in Live : taskJob[u] = taskJob[t] => u = t

\* While handlers fit their lease, the attempts column keeps the promise of
\* max_attempts: open jobs have an attempt left, dead letters used them all.
AttemptsAccounted ==
  HandlersFitLease =>
    \A j \in Jobs :
      /\ status[j] \in {"pending", "claimed"} => attempts[j] < MaxAttempts
      /\ status[j] = "dead_letter" => attempts[j] = MaxAttempts
      /\ attempts[j] <= MaxAttempts

\* A job is not buried early, even when slow handlers lose their lease: until
\* an admin reopens jobs, a dead letter has used all its attempts.
NotBuriedEarly ==
  reopens = 0 =>
    \A j \in Jobs : status[j] = "dead_letter" => attempts[j] >= MaxAttempts

\* While handlers fit their lease, a finished job stays finished unless an
\* admin call reopens it, through crashes, sweeps and lost acks.
FinishedStaysFinished ==
  [][HandlersFitLease =>
       \A j \in Jobs : status[j] \in Terminal =>
         status'[j] = status[j] \/ reopens' = reopens + 1]_vars

\* A completed job is only ever reopened by an admin call, whatever other
\* workers still hold it: the store promises "no read-modify-write races between
\* concurrent workers competing for the same row" (store.rs:7), and that
\* ack_failure will "Mark a claimed job as failed" (store.rs:161).
CompletedNeverReplayed ==
  [][\A j \in Jobs : status[j] = "completed" =>
       status'[j] = "completed" \/ reopens' = reopens + 1]_vars

\* Every stored job is eventually completed, failed or dead-lettered, whatever
\* finitely many crashes, panics, lost acks and shutdowns come in between.
EventuallySettled ==
  \A j \in Jobs : (status[j] = "pending") ~> (status[j] \in Terminal)

\* A claim whose task is gone is eventually taken back by the sweeper: "work
\* orphaned by a crashed worker is recovered" (001_jobs_table.sql:6).
OrphansRecovered ==
  \A j \in Jobs :
    (status[j] = "claimed" /\ \A t \in Live : taskJob[t] # j) ~> (status[j] # "claimed")

\* The queue as the rest of the program sees it: pending and claimed are both
\* "open", and the attempts column counts the answered attempts.
Ledger == INSTANCE JobLedger WITH
  state <- [j \in Jobs |-> IF status[j] \in {"pending", "claimed"} THEN "open" ELSE status[j]],
  tried <- attempts

\* While handlers fit their lease, table, dispatcher, workers, sweeper and
\* restarts together behave as the ledger: sweeps, claims and crashes are
\* invisible, and every other step is one entry of the ledger.
ImplementsLedger == Ledger!Spec
=============================================================================
