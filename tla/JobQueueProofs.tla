--------------------------- MODULE JobQueueProofs ---------------------------
(***************************************************************************)
(* Proofs about JobQueue, for every number of jobs, tasks, permits,        *)
(* attempts, ticks, faults and admin calls.                                *)
(***************************************************************************)
EXTENDS JobQueue, FiniteSetTheorems, TLAPS

(* The backoff is capped whatever the exponent overflows to. *)
LEMMA BackoffIsCapped ==
  ASSUME NEW n
  PROVE  BackoffFor(n) \in 0 .. MaxBackoff
  BY ConstantsAssumption DEF BackoffFor

-----------------------------------------------------------------------------
(* Type correctness.                                                       *)

LEMMA InitType == Init => TypeOK
<1>1. /\ NoLease \in NoLease .. Lease
      /\ 0 \in -OverdueCap .. MaxBackoff
      /\ 0 \in 0 .. MaxFaults /\ 0 \in 0 .. MaxReopens
  BY ConstantsAssumption DEF NoLease
<1>2. "absent" \in Statuses
  BY DEF Statuses
<1>3. ASSUME Init
      PROVE  /\ status \in [Jobs -> Statuses] /\ attempts \in [Jobs -> Nat]
             /\ due \in [Jobs -> -OverdueCap .. MaxBackoff]
             /\ lease \in [Jobs -> NoLease .. Lease]
             /\ taskJob \in [Tasks -> Jobs \cup {NoJob}]
             /\ taskAttempts \in [Tasks -> Nat]
  BY <1>1, <1>2, <1>3 DEF Init
<1>4. QED
  BY <1>1, <1>3 DEF Init, TypeOK

(* Writing well-typed columns to one row keeps the table well typed. *)
LEMMA UpdateType ==
  ASSUME TypeOK, NEW j \in Jobs, NEW s \in Statuses, NEW n \in Nat,
         NEW d \in -OverdueCap .. MaxBackoff, NEW l \in NoLease .. Lease,
         Update(j, s, n, d, l)
  PROVE  /\ status' \in [Jobs -> Statuses]
         /\ attempts' \in [Jobs -> Nat]
         /\ due' \in [Jobs -> -OverdueCap .. MaxBackoff]
         /\ lease' \in [Jobs -> NoLease .. Lease]
  BY DEF TypeOK, Update

LEMMA StepType == TypeOK /\ [Next]_vars => TypeOK'
<1> SUFFICES ASSUME TypeOK, [Next]_vars
             PROVE  TypeOK'
  OBVIOUS
<1> USE ConstantsAssumption DEF rows, tasks, budgets
<1>c. /\ NoLease \in NoLease .. Lease /\ Lease \in NoLease .. Lease
      /\ 0 \in -OverdueCap .. MaxBackoff /\ 0 .. MaxBackoff \subseteq -OverdueCap .. MaxBackoff
  BY DEF NoLease
<1>s. {"pending", "claimed", "completed", "failed", "dead_letter"} \subseteq Statuses
  BY DEF Statuses, Terminal
<1>l. ASSUME NEW t \in Live
      PROVE  taskJob[t] \in Jobs /\ taskAttempts[t] \in Nat /\ t \in Tasks
  BY <1>l DEF TypeOK, Live
<1>1. ASSUME NEW j \in Jobs, Enqueue(j) PROVE TypeOK'
  BY <1>1, <1>c, <1>s, UpdateType DEF Enqueue, TypeOK
<1>2. CASE AcquirePermit
  BY <1>2 DEF AcquirePermit, TypeOK
<1>3. ASSUME NEW j \in Jobs, NEW t \in Tasks, Claim(j, t) PROVE TypeOK'
  <2>1. attempts[j] \in Nat /\ due[j] \in -OverdueCap .. MaxBackoff
    BY DEF TypeOK
  <2>2. Update(j, "claimed", attempts[j], due[j], Lease)
    BY <1>3 DEF Claim
  <2>3. QED
    BY <1>3, <1>c, <1>s, <2>1, <2>2, UpdateType DEF Claim, TypeOK
<1>4. CASE ClaimNothing
  BY <1>4 DEF ClaimNothing, TypeOK
<1>5. CASE ClaimError
  BY <1>5 DEF ClaimError, TypeOK
<1>6. CASE Wake
  BY <1>6 DEF Wake, TypeOK
<1>7. CASE DispatcherStop
  BY <1>7 DEF DispatcherStop, TypeOK
<1>8. ASSUME NEW t \in Tasks, WorkerStep(t) PROVE TypeOK'
  <2> DEFINE j == taskJob[t]
  <2>1. t \in Live /\ EndTask(t) /\ UNCHANGED budgets
    BY <1>8 DEF WorkerStep, AckSuccess, AckRetry, AckDeadLetter, AckPermanent
  <2>2. /\ j \in Jobs /\ attempts[j] \in Nat /\ due[j] \in -OverdueCap .. MaxBackoff
        /\ BackoffFor(taskAttempts[t] + 1) \in -OverdueCap .. MaxBackoff
    BY <1>c, <1>l, <2>1, BackoffIsCapped DEF TypeOK
  <2>3. \/ Update(j, "completed", attempts[j], due[j], NoLease)
        \/ Update(j, "pending", attempts[j] + 1, BackoffFor(taskAttempts[t] + 1), NoLease)
        \/ Update(j, "dead_letter", attempts[j] + 1, due[j], NoLease)
        \/ Update(j, "failed", attempts[j] + 1, due[j], NoLease)
    BY <1>8 DEF WorkerStep, AckSuccess, AckRetry, AckDeadLetter, AckPermanent
  <2>4. /\ status' \in [Jobs -> Statuses] /\ attempts' \in [Jobs -> Nat]
        /\ due' \in [Jobs -> -OverdueCap .. MaxBackoff]
        /\ lease' \in [Jobs -> NoLease .. Lease]
    <3> HIDE DEF j
    <3>1. attempts[j] + 1 \in Nat
      BY <2>2
    <3>2. QED
      BY <1>c, <1>s, <2>2, <2>3, <3>1, UpdateType
  <2>5. QED
    BY <2>1, <2>4 DEF EndTask, TypeOK
<1>9. ASSUME NEW t \in Tasks, TaskDies(t) PROVE TypeOK'
  BY <1>9 DEF TaskDies, EndTask, TypeOK
<1>10. CASE Sweep
  BY <1>10, <1>c, <1>s DEF Sweep, TypeOK
<1>11. CASE SweeperStop
  BY <1>11 DEF SweeperStop, TypeOK
<1>12. ASSUME NEW S, Reopen(S) PROVE TypeOK'
  <2>1. reopens' \in 0 .. MaxReopens
    BY <1>12 DEF Reopen, TypeOK
  <2>2. /\ status' \in [Jobs -> Statuses] /\ attempts' \in [Jobs -> Nat]
        /\ due' \in [Jobs -> -OverdueCap .. MaxBackoff]
    <3>1. "pending" \in Statuses /\ 0 \in Nat
      BY <1>s
    <3>2. QED
      BY <1>12, <1>c, <3>1 DEF Reopen, TypeOK
  <2>3. QED
    BY <1>12, <2>1, <2>2 DEF Reopen, TypeOK
<1>13. CASE Crash
  BY <1>13 DEF Crash, ProcessEnds, TypeOK
<1>14. CASE Shutdown
  BY <1>14 DEF Shutdown, TypeOK
<1>15. CASE Exit
  BY <1>15 DEF Exit, ProcessEnds, TypeOK
<1>16. CASE Start
  BY <1>16 DEF Start, TypeOK
<1>17. CASE Tick
  BY <1>17 DEF Tick, TypeOK, NoLease
<1>18. CASE UNCHANGED vars
  BY <1>18 DEF vars, TypeOK
<1>19. QED
  BY <1>1, <1>2, <1>3, <1>4, <1>5, <1>6, <1>7, <1>8, <1>9, <1>10, <1>11, <1>12,
     <1>13, <1>14, <1>15, <1>16, <1>17, <1>18
  DEF Next, RetryJob, ReprocessAll

(* Every variable keeps its type; in particular timers stay within their caps *)
(* and counters never go negative.                                            *)
THEOREM TypeCorrect == Spec => []TypeOK
  BY InitType, StepType, PTL DEF Spec

-----------------------------------------------------------------------------
(* Which steps touch the table, and how.                                   *)

TaskStep == \E t \in Tasks : WorkerStep(t)

\* The table is left alone, and no task is any further than before.
NoRowStep ==
  /\ UNCHANGED rows
  /\ \A t \in Tasks : taskJob'[t] = NoJob \/ UNCHANGED <<taskJob[t], taskAttempts[t]>>

(* A step that writes the table is one of seven kinds; in every other step     *)
(* tasks stay as they are or end.                                              *)
LEMMA TableSteps ==
  ASSUME TypeOK, [Next]_vars
  PROVE  \/ \E j \in Jobs : Enqueue(j)
         \/ \E j \in Jobs, t \in Tasks : Claim(j, t)
         \/ TaskStep
         \/ Sweep
         \/ \E j \in Jobs : RetryJob(j)
         \/ ReprocessAll
         \/ Tick
         \/ NoRowStep
<1> USE DEF NoRowStep, tasks
<1>1. ASSUME NEW t \in Tasks, TaskDies(t) PROVE NoRowStep
  BY <1>1 DEF TaskDies, EndTask, TypeOK
<1>2. CASE AcquirePermit \/ ClaimNothing \/ ClaimError \/ Wake \/ DispatcherStop
  BY <1>2 DEF AcquirePermit, ClaimNothing, ClaimError, Wake, DispatcherStop
<1>3. CASE SweeperStop \/ Shutdown \/ Start \/ UNCHANGED vars
  BY <1>3 DEF SweeperStop, Shutdown, Start, vars
<1>4. CASE Crash \/ Exit
  BY <1>4 DEF Crash, Exit, ProcessEnds
<1>5. QED
  BY <1>1, <1>2, <1>3, <1>4 DEF Next, TaskStep

(* An admin call reopens settled jobs only. *)
LEMMA ReopenedWereSettled ==
  ASSUME (\E j \in Jobs : RetryJob(j)) \/ ReprocessAll
  PROVE  \E S \in SUBSET Jobs : Reopen(S) /\ \A j \in S : status[j] \in Terminal
<1>1. ASSUME NEW j \in Jobs, RetryJob(j) PROVE \E S \in SUBSET Jobs :
        Reopen(S) /\ \A i \in S : status[i] \in Terminal
  <2>1. {j} \in SUBSET Jobs /\ Reopen({j}) /\ \A i \in {j} : status[i] \in Terminal
    BY <1>1 DEF RetryJob
  <2>2. QED
    BY <2>1
<1>2. ASSUME ReprocessAll PROVE \E S \in SUBSET Jobs :
        Reopen(S) /\ \A i \in S : status[i] \in Terminal
  <2> DEFINE F == {j \in Jobs : status[j] \in {"failed", "dead_letter"}}
  <2>1. F \in SUBSET Jobs /\ Reopen(F) /\ \A i \in F : status[i] \in Terminal
    BY <1>2 DEF ReprocessAll, Terminal
  <2>2. QED
    BY <2>1
<1>3. QED
  BY <1>1, <1>2

(* What an ack does to its row, by the verdict of the task. *)
LEMMA AckShape ==
  ASSUME NEW t \in Tasks, WorkerStep(t)
  PROVE  /\ t \in Live
         /\ EndTask(t)
         /\ UNCHANGED budgets
         /\ \/ Update(taskJob[t], "completed", attempts[taskJob[t]], due[taskJob[t]], NoLease)
            \/ /\ taskAttempts[t] + 1 < MaxAttempts
               /\ Update(taskJob[t], "pending", attempts[taskJob[t]] + 1,
                         BackoffFor(taskAttempts[t] + 1), NoLease)
            \/ /\ taskAttempts[t] + 1 >= MaxAttempts
               /\ Update(taskJob[t], "dead_letter", attempts[taskJob[t]] + 1,
                         due[taskJob[t]], NoLease)
            \/ Update(taskJob[t], "failed", attempts[taskJob[t]] + 1, due[taskJob[t]], NoLease)
  BY DEF WorkerStep, AckSuccess, AckRetry, AckDeadLetter, AckPermanent

-----------------------------------------------------------------------------
(* No row is stranded.                                                     *)

LEMMA LeaseStep == TypeOK /\ LeaseIffClaimed /\ [Next]_vars => LeaseIffClaimed'
<1> SUFFICES ASSUME TypeOK, LeaseIffClaimed, [Next]_vars
             PROVE  LeaseIffClaimed'
  OBVIOUS
<1> USE ConstantsAssumption DEF LeaseIffClaimed, TypeOK, NoLease
<1>1. ASSUME NEW j \in Jobs, Enqueue(j) PROVE LeaseIffClaimed'
  BY <1>1 DEF Enqueue, Update
<1>2. ASSUME NEW j \in Jobs, NEW t \in Tasks, Claim(j, t) PROVE LeaseIffClaimed'
  BY <1>2 DEF Claim, Update
<1>3. ASSUME NEW t \in Tasks, WorkerStep(t) PROVE LeaseIffClaimed'
  BY <1>3, AckShape DEF Update, Live
<1>4. CASE Sweep
  BY <1>4 DEF Sweep, Expired
<1>5. ASSUME NEW S \in SUBSET Jobs, Reopen(S), \A j \in S : status[j] \in Terminal
      PROVE  LeaseIffClaimed'
  BY <1>5 DEF Reopen, Terminal
<1>6. CASE Tick
  BY <1>6 DEF Tick
<1>7. CASE NoRowStep
  BY <1>7 DEF NoRowStep, rows
<1>8. QED
  BY <1>1, <1>2, <1>3, <1>4, <1>5, <1>6, <1>7, TableSteps, ReopenedWereSettled DEF TaskStep

(* A claimed row always carries a deadline, so the sweeper can always take it *)
(* back; no row in another state carries one.                                 *)
THEOREM NoRowStranded == Spec => []LeaseIffClaimed
<1>1. Init => LeaseIffClaimed
  BY DEF Init, LeaseIffClaimed
<1>2. QED
  BY <1>1, LeaseStep, TypeCorrect, PTL DEF Spec

-----------------------------------------------------------------------------
(* No early burial, whatever handlers take: several tasks may hold one row   *)
(* then, each with its own snapshot of the attempts, but until an admin      *)
(* resets the column no snapshot is ahead of it.                             *)

LateInv ==
  reopens = 0 =>
    /\ \A t \in Live : /\ status[taskJob[t]] # "absent"
                      /\ taskAttempts[t] <= attempts[taskJob[t]]
    /\ \A j \in Jobs : status[j] = "dead_letter" => attempts[j] >= MaxAttempts

LEMMA ReopensOnlyGrow ==
  ASSUME TypeOK, [Next]_vars
  PROVE  reopens' = 0 => reopens = 0
<1>1. ASSUME NEW S, Reopen(S) PROVE reopens' # 0
  BY <1>1 DEF Reopen, TypeOK
<1>2. CASE UNCHANGED reopens
  BY <1>2
<1>3. ASSUME NEW t \in Tasks, WorkerStep(t) \/ TaskDies(t) PROVE UNCHANGED reopens
  BY <1>3, AckShape DEF TaskDies, budgets
<1>4. ASSUME NEW j \in Jobs, NEW t \in Tasks, Claim(j, t) PROVE UNCHANGED reopens
  BY <1>4 DEF Claim, budgets
<1>5. ASSUME NEW j \in Jobs, Enqueue(j) PROVE UNCHANGED reopens
  BY <1>5 DEF Enqueue, budgets
<1>6. QED
  BY <1>1, <1>2, <1>3, <1>4, <1>5
     DEF Next, vars, budgets, RetryJob, ReprocessAll, AcquirePermit, ClaimNothing, ClaimError,
         Wake, DispatcherStop, Sweep, SweeperStop, Crash, ProcessEnds, Shutdown, Exit, Start, Tick

LEMMA LateStep == TypeOK /\ LateInv /\ [Next]_vars => LateInv'
<1> SUFFICES ASSUME TypeOK, LateInv, [Next]_vars, reopens' = 0, reopens = 0
             PROVE  LateInv'
  BY ReopensOnlyGrow DEF LateInv
<1> USE ConstantsAssumption DEF LateInv, TypeOK, Live, NoJob
<1>1. ASSUME NEW j \in Jobs, Enqueue(j) PROVE LateInv'
  BY <1>1 DEF Enqueue, Update, tasks
<1>2. ASSUME NEW j \in Jobs, NEW t \in Tasks, Claim(j, t) PROVE LateInv'
  BY <1>2 DEF Claim, First, Claimable, Update
<1>3. ASSUME NEW t \in Tasks, WorkerStep(t) PROVE LateInv'
  <2> DEFINE j == taskJob[t]
  <2>1. /\ j \in Jobs /\ taskAttempts[t] <= attempts[j] /\ status[j] # "absent"
        /\ attempts[j] \in Nat /\ taskAttempts[t] \in Nat
    BY <1>3, AckShape
  <2>2. \E s \in Statuses, n \in Nat : \E d :
          /\ Update(j, s, n, d, NoLease)
          /\ n >= attempts[j] /\ s # "absent"
          /\ s = "dead_letter" => n >= MaxAttempts
    <3> HIDE DEF j
    <3>1. CASE Update(j, "completed", attempts[j], due[j], NoLease)
      BY <2>1, <3>1 DEF Statuses, Terminal
    <3>2. CASE Update(j, "pending", attempts[j] + 1, BackoffFor(taskAttempts[t] + 1), NoLease)
      BY <2>1, <3>2 DEF Statuses, Terminal
    <3>3. CASE /\ taskAttempts[t] + 1 >= MaxAttempts
               /\ Update(j, "dead_letter", attempts[j] + 1, due[j], NoLease)
      BY <2>1, <3>3 DEF Statuses, Terminal
    <3>4. CASE Update(j, "failed", attempts[j] + 1, due[j], NoLease)
      BY <2>1, <3>4 DEF Statuses, Terminal
    <3>5. QED
      BY <1>3, <3>1, <3>2, <3>3, <3>4, AckShape DEF j
  <2>3. EndTask(t)
    BY <1>3, AckShape
  <2>4. \A u \in Live' : u \in Live /\ taskJob'[u] = taskJob[u] /\ taskAttempts'[u] = taskAttempts[u]
    BY <2>3 DEF EndTask
  <2>5. QED
    BY <2>1, <2>2, <2>4 DEF Update
<1>4. CASE Sweep
  BY <1>4 DEF Sweep, Expired, tasks
<1>5. ASSUME NEW S, Reopen(S) PROVE FALSE
  BY <1>5 DEF Reopen
<1>6. CASE Tick
  BY <1>6 DEF Tick, tasks
<1>7. CASE NoRowStep
  BY <1>7 DEF NoRowStep, rows
<1>8. QED
  BY <1>1, <1>2, <1>3, <1>4, <1>5, <1>6, <1>7, TableSteps, ReopenedWereSettled DEF TaskStep

(* Until an admin reopens jobs, a dead letter has used all its attempts, even  *)
(* if slow handlers lose their leases and several tasks ack one row.           *)
THEOREM NoEarlyBurial == Spec => []NotBuriedEarly
<1>1. Init => LateInv
  BY DEF Init, LateInv, Live
<1>2. LateInv => NotBuriedEarly
  BY DEF LateInv, NotBuriedEarly
<1>3. QED
  BY <1>1, <1>2, LateStep, TypeCorrect, PTL DEF Spec

-----------------------------------------------------------------------------
(* Exclusive execution and attempt accounting while handlers fit their     *)
(* lease.  Neither is inductive alone: an ack by row id is only right      *)
(* because the row is still the task's own, and the row stays its own only *)
(* because its lease cannot have run out.                                  *)

\* A row that was never inserted has not been tried.
AbsentUntried == HandlersFitLease => \A j \in Jobs : status[j] = "absent" => attempts[j] = 0

OwnershipInv ==
  /\ TypeOK
  /\ LeaseIffClaimed
  /\ TasksOwnTheirRows
  /\ AttemptsAccounted
  /\ AbsentUntried

LEMMA OwnershipInit == Init => OwnershipInv
<1> SUFFICES ASSUME Init PROVE OwnershipInv
  OBVIOUS
<1>1. TypeOK
  BY InitType
<1>2. LeaseIffClaimed
  BY DEF Init, LeaseIffClaimed
<1>3. TasksOwnTheirRows
  BY DEF Init, TasksOwnTheirRows, Live
<1>4. AttemptsAccounted
  BY ConstantsAssumption DEF Init, AttemptsAccounted
<1>5. AbsentUntried
  BY DEF Init, AbsentUntried
<1>6. QED
  BY <1>1, <1>2, <1>3, <1>4, <1>5 DEF OwnershipInv

OwnedAndAccounted == TasksOwnTheirRows /\ AttemptsAccounted /\ AbsentUntried

LEMMA OwnershipStep == OwnershipInv /\ [Next]_vars => OwnershipInv'
<1> SUFFICES ASSUME OwnershipInv, [Next]_vars, HandlersFitLease
             PROVE  OwnedAndAccounted'
  BY StepType, LeaseStep
  DEF OwnershipInv, OwnedAndAccounted, TasksOwnTheirRows, AttemptsAccounted, AbsentUntried
<1> USE ConstantsAssumption DEF OwnershipInv, TypeOK, NoLease, Live, TasksOwnTheirRows,
                                AttemptsAccounted, AbsentUntried, OwnedAndAccounted
<1>1. ASSUME NEW j \in Jobs, Enqueue(j) PROVE OwnedAndAccounted'
  <2>1. \A t \in Live : taskJob[t] # j
    BY <1>1 DEF Enqueue
  <2>2. QED
    BY <1>1, <2>1 DEF Enqueue, Update, tasks
<1>2. ASSUME NEW j \in Jobs, NEW t \in Tasks, Claim(j, t)
      PROVE  OwnedAndAccounted'
  <2>1. status[j] = "pending" /\ \A u \in Live : taskJob[u] # j
    BY <1>2 DEF Claim, First, Claimable
  <2>2. /\ taskJob' = [taskJob EXCEPT ![t] = j]
        /\ taskAttempts' = [taskAttempts EXCEPT ![t] = attempts[j]]
        /\ Update(j, "claimed", attempts[j], due[j], Lease)
        /\ taskJob[t] = NoJob
    BY <1>2 DEF Claim
  <2>3. TasksOwnTheirRows'
    BY <2>1, <2>2 DEF Update
  <2>4. AttemptsAccounted' /\ AbsentUntried'
    BY <2>1, <2>2 DEF Update
  <2>5. QED
    BY <2>3, <2>4
<1>3. ASSUME NEW t \in Tasks, WorkerStep(t) PROVE OwnedAndAccounted'
  <2> DEFINE j == taskJob[t]
  <2>1. /\ j \in Jobs /\ status[j] = "claimed" /\ attempts[j] = taskAttempts[t]
        /\ attempts[j] < MaxAttempts /\ attempts[j] \in Nat
        /\ \A u \in Live : taskJob[u] = j => u = t
    BY <1>3, AckShape
  <2>2. \E s \in Statuses, n \in Nat : \E d :
          /\ Update(j, s, n, d, NoLease)
          /\ s \in {"pending", "claimed"} => n < MaxAttempts
          /\ s = "dead_letter" => n = MaxAttempts
          /\ n <= MaxAttempts
          /\ s # "absent"
    <3> HIDE DEF j
    <3>1. CASE Update(j, "completed", attempts[j], due[j], NoLease)
      BY <2>1, <3>1 DEF Statuses, Terminal
    <3>2. CASE /\ taskAttempts[t] + 1 < MaxAttempts
               /\ Update(j, "pending", attempts[j] + 1, BackoffFor(taskAttempts[t] + 1), NoLease)
      BY <2>1, <3>2 DEF Statuses, Terminal
    <3>3. CASE /\ taskAttempts[t] + 1 >= MaxAttempts
               /\ Update(j, "dead_letter", attempts[j] + 1, due[j], NoLease)
      BY <2>1, <3>3 DEF Statuses, Terminal
    <3>4. CASE Update(j, "failed", attempts[j] + 1, due[j], NoLease)
      BY <2>1, <3>4 DEF Statuses, Terminal
    <3>5. QED
      BY <1>3, <3>1, <3>2, <3>3, <3>4, AckShape DEF j
  <2>3. EndTask(t)
    BY <1>3, AckShape
  <2>4. AttemptsAccounted' /\ AbsentUntried'
    BY <2>1, <2>2 DEF Update
  <2>5. TasksOwnTheirRows'
    BY <2>1, <2>2, <2>3 DEF Update, EndTask
  <2>6. QED
    BY <2>4, <2>5
<1>4. CASE Sweep
  BY <1>4 DEF Sweep, Expired, tasks
<1>5. ASSUME NEW S \in SUBSET Jobs, Reopen(S), \A j \in S : status[j] \in Terminal
      PROVE  OwnedAndAccounted'
  <2>1. \A t \in Live : taskJob[t] \notin S
    BY <1>5 DEF Terminal
  <2>2. QED
    BY <1>5, <2>1 DEF Reopen, tasks
<1>6. CASE Tick
  BY <1>6 DEF Tick, tasks
<1>7. CASE NoRowStep
  BY <1>7 DEF NoRowStep, rows
<1>8. QED
  BY <1>1, <1>2, <1>3, <1>4, <1>5, <1>6, <1>7, TableSteps, ReopenedWereSettled DEF TaskStep

LEMMA OwnershipInvariant == Spec => []OwnershipInv
  BY OwnershipInit, OwnershipStep, PTL DEF Spec

(* While handlers fit their lease, no two tasks ever run the same job, and the *)
(* row a task acks is still the one it claimed: the unguarded UPDATE ... WHERE *)
(* id = ? of ack_success and ack_failure is safe.                              *)
THEOREM ExclusiveExecution == Spec => []TasksOwnTheirRows
  BY OwnershipInvariant, PTL DEF OwnershipInv

(* While handlers fit their lease, no job is tried more often than             *)
(* max_attempts allows and no dead letter has attempts left.                   *)
THEOREM AttemptsKeepTheirBudget == Spec => []AttemptsAccounted
  BY OwnershipInvariant, PTL DEF OwnershipInv

-----------------------------------------------------------------------------
(* Finished jobs.                                                          *)

LEMMA FinishedStep ==
  ASSUME OwnershipInv, [Next]_vars, HandlersFitLease,
         NEW j \in Jobs, status[j] \in Terminal
  PROVE  status'[j] = status[j] \/ reopens' = reopens + 1
<1> USE DEF OwnershipInv, TypeOK, Terminal
<1>1. ASSUME NEW i \in Jobs, Enqueue(i) PROVE status'[j] = status[j]
  BY <1>1 DEF Enqueue, Update
<1>2. ASSUME NEW i \in Jobs, NEW t \in Tasks, Claim(i, t) PROVE status'[j] = status[j]
  BY <1>2 DEF Claim, First, Claimable, Update
<1>3. ASSUME NEW t \in Tasks, WorkerStep(t) PROVE status'[j] = status[j]
  <2>1. t \in Live /\ taskJob[t] # j
    BY <1>3, AckShape DEF TasksOwnTheirRows
  <2>2. QED
    BY <1>3, <2>1, AckShape DEF Update, Live
<1>4. ASSUME Sweep PROVE status'[j] = status[j]
  BY <1>4 DEF Sweep, Expired
<1>5. ASSUME NEW S, Reopen(S) PROVE reopens' = reopens + 1
  BY <1>5 DEF Reopen
<1>6. ASSUME Tick PROVE status'[j] = status[j]
  BY <1>6 DEF Tick
<1>7. ASSUME NoRowStep PROVE status'[j] = status[j]
  BY <1>7 DEF NoRowStep, rows
<1>8. QED
  BY <1>1, <1>2, <1>3, <1>4, <1>5, <1>6, <1>7, TableSteps, ReopenedWereSettled DEF TaskStep

(* While handlers fit their lease, only an admin call takes a job out of       *)
(* completed, failed or dead_letter.                                           *)
THEOREM FinishedJobsStayFinished == Spec => FinishedStaysFinished
<1>1. OwnershipInv /\ [Next]_vars =>
        [HandlersFitLease =>
           \A j \in Jobs : status[j] \in Terminal =>
             status'[j] = status[j] \/ reopens' = reopens + 1]_vars
  BY FinishedStep
<1>2. QED
  BY <1>1, OwnershipInvariant, PTL DEF Spec, FinishedStaysFinished

-----------------------------------------------------------------------------
(* Permits.                                                                *)

PermitsInv ==
  /\ TypeOK
  /\ PermitsConserved
  /\ ~Running => Live = {}

LEMMA LiveFinite ==
  ASSUME TypeOK
  PROVE  /\ IsFiniteSet(Live)
         /\ Cardinality(Live) \in Nat
  BY ConstantsAssumption, FS_Subset, FS_CardinalityType DEF Live

(* A task that ends gives back the permit it held. *)
LEMMA EndTaskPermit ==
  ASSUME TypeOK, PermitsConserved, Running, NEW t \in Live, EndTask(t)
  PROVE  PermitsConserved' /\ Running'
<1>1. Live' = Live \ {t}
  BY DEF EndTask, Live, TypeOK
<1>2. Cardinality(Live') = Cardinality(Live) - 1
  BY <1>1, LiveFinite, FS_RemoveElement
<1>3. QED
  BY <1>2, LiveFinite DEF EndTask, PermitsConserved, Running, TypeOK

LEMMA PermitsStep == PermitsInv /\ [Next]_vars => PermitsInv'
<1> SUFFICES ASSUME PermitsInv, [Next]_vars
             PROVE  PermitsConserved' /\ (~Running => Live = {})'
  BY StepType DEF PermitsInv
<1> USE ConstantsAssumption DEF PermitsInv
<1> DEFINE Goal == PermitsConserved' /\ (~Running => Live = {})'
<1>0. Cardinality(Live) \in Nat /\ permits \in Nat /\ Concurrency \in Nat
  BY LiveFinite DEF TypeOK
<1>1. ASSUME NEW j \in Jobs, NEW t \in Tasks, Claim(j, t) PROVE Goal
  <2>1. Live' = Live \cup {t} /\ t \notin Live
    BY <1>1 DEF Claim, Live, TypeOK, Jobs, NoJob
  <2>2. Cardinality(Live') = Cardinality(Live) + 1
    BY <2>1, LiveFinite, FS_AddElement
  <2>3. QED
    BY <1>0, <1>1, <2>2 DEF Claim, PermitsConserved, Running
<1>2. ASSUME NEW t \in Tasks, WorkerStep(t) \/ TaskDies(t) PROVE Goal
  <2>1. t \in Live /\ Running /\ EndTask(t)
    BY <1>2 DEF WorkerStep, AckSuccess, AckRetry, AckDeadLetter, AckPermanent, TaskDies
  <2>2. QED
    BY <2>1, EndTaskPermit
<1>3. CASE AcquirePermit \/ ClaimNothing \/ ClaimError \/ Wake \/ DispatcherStop
  <2>1. Running /\ Running' /\ Live' = Live
    BY <1>3 DEF AcquirePermit, ClaimNothing, ClaimError, Wake, DispatcherStop, tasks, Running,
                Live
  <2>2. Cardinality(Live') = Cardinality(Live)
    BY <2>1
  <2>3. CASE AcquirePermit
    BY <1>0, <2>1, <2>2, <2>3 DEF AcquirePermit, PermitsConserved
  <2>4. CASE ClaimNothing \/ ClaimError
    BY <1>0, <2>1, <2>2, <2>4 DEF ClaimNothing, ClaimError, PermitsConserved
  <2>5. CASE Wake \/ DispatcherStop
    BY <1>0, <2>1, <2>2, <2>5 DEF Wake, DispatcherStop, PermitsConserved
  <2>6. QED
    BY <1>3, <2>3, <2>4, <2>5
<1>4. CASE Crash \/ Exit
  BY <1>4 DEF Crash, Exit, ProcessEnds, PermitsConserved, Running, Live
<1>5. CASE Start
  <2>1. Live = {} /\ Live' = {}
    BY <1>5 DEF Start, Live, Running, tasks
  <2>2. Cardinality(Live') = 0
    BY <2>1, FS_EmptySet
  <2>3. QED
    BY <1>5, <2>1, <2>2 DEF Start, PermitsConserved, Running
<1>6. CASE Shutdown
  BY <1>6 DEF Shutdown, PermitsConserved, Running, Live, tasks
<1>7. ASSUME UNCHANGED <<tasks, permits, dispatcher, process>> PROVE Goal
  BY <1>7 DEF PermitsConserved, Running, Live, tasks
<1>8. ASSUME \/ \E j \in Jobs : Enqueue(j) \/ RetryJob(j)
             \/ Sweep \/ SweeperStop \/ ReprocessAll \/ Tick \/ UNCHANGED vars
      PROVE  UNCHANGED <<tasks, permits, dispatcher, process>>
  BY <1>8 DEF Enqueue, RetryJob, Reopen, Sweep, SweeperStop, ReprocessAll, Tick, vars
<1>9. QED
  BY <1>1, <1>2, <1>3, <1>4, <1>5, <1>6, <1>7, <1>8 DEF Next

(* Whatever happens to its tasks, the semaphore neither loses nor gains a      *)
(* permit: at most Concurrency handlers run, and the pool never wears out.     *)
THEOREM PermitsNeverLeak == Spec => []PermitsConserved
<1>1. Init => PermitsInv
  BY InitType DEF Init, PermitsInv, PermitsConserved, Running, Live
<1>2. QED
  BY <1>1, PermitsStep, PTL DEF Spec, PermitsInv

-----------------------------------------------------------------------------
(* The queue implements the ledger while handlers fit their lease.         *)

LEMMA LedgerStep ==
  ASSUME OwnershipInv, [Next]_vars, HandlersFitLease
  PROVE  [Ledger!Next]_(Ledger!vars)
<1> USE ConstantsAssumption DEF OwnershipInv, TypeOK
<1>1. ASSUME NEW j \in Jobs, Enqueue(j) PROVE Ledger!Submit(j)
  <2>1. status[j] = "absent" /\ Update(j, "pending", 0, 0, NoLease)
    BY <1>1 DEF Enqueue
  <2>2. attempts[j] = 0
    BY <2>1 DEF AbsentUntried
  <2>3. attempts' = attempts
    BY <2>1, <2>2 DEF Update
  <2>4. QED
    BY <2>1, <2>3 DEF Update, Ledger!Submit
<1>2. ASSUME NEW j \in Jobs, NEW t \in Tasks, Claim(j, t) PROVE UNCHANGED Ledger!vars
  BY <1>2 DEF Claim, First, Claimable, Update, Ledger!vars
<1>3. ASSUME NEW t \in Tasks, WorkerStep(t)
      PROVE  \E j \in Jobs : \/ Ledger!FailAttempt(j) \/ Ledger!Complete(j)
                            \/ Ledger!Reject(j) \/ Ledger!Bury(j)
  <2> DEFINE j == taskJob[t]
  <2>1. /\ j \in Jobs /\ status[j] = "claimed" /\ attempts[j] = taskAttempts[t]
        /\ attempts[j] < MaxAttempts /\ attempts[j] \in Nat
    BY <1>3, AckShape DEF TasksOwnTheirRows, AttemptsAccounted, Live
  <2> HIDE DEF j
  <2> USE DEF Ledger!Settle
  <2>2. CASE Update(j, "completed", attempts[j], due[j], NoLease)
    BY <2>1, <2>2 DEF Update, Ledger!Complete
  <2>3. CASE /\ taskAttempts[t] + 1 < MaxAttempts
             /\ Update(j, "pending", attempts[j] + 1, BackoffFor(taskAttempts[t] + 1), NoLease)
    BY <2>1, <2>3 DEF Update, Ledger!FailAttempt
  <2>4. CASE /\ taskAttempts[t] + 1 >= MaxAttempts
             /\ Update(j, "dead_letter", attempts[j] + 1, due[j], NoLease)
    <3>1. attempts[j] + 1 = MaxAttempts
      BY <2>1, <2>4
    <3>2. QED
      BY <2>1, <2>4, <3>1 DEF Update, Ledger!Bury
  <2>5. CASE Update(j, "failed", attempts[j] + 1, due[j], NoLease)
    BY <2>1, <2>5 DEF Update, Ledger!Reject
  <2>6. QED
    BY <1>3, <2>1, <2>2, <2>3, <2>4, <2>5, AckShape DEF j
<1>4. ASSUME Sweep PROVE UNCHANGED Ledger!vars
  BY <1>4 DEF Sweep, Expired, Ledger!vars
<1>5. ASSUME NEW j \in Jobs, RetryJob(j) PROVE Ledger!Reopen({j})
  BY <1>5 DEF RetryJob, Reopen, Terminal, Ledger!Reopen, Ledger!Settled
<1>6. ASSUME ReprocessAll PROVE \E S \in SUBSET Jobs : Ledger!Reopen(S)
  BY <1>6 DEF ReprocessAll, Reopen, Ledger!Reopen
<1>7. ASSUME Tick \/ NoRowStep PROVE UNCHANGED Ledger!vars
  BY <1>7 DEF Tick, NoRowStep, rows, Ledger!vars
<1>8. QED
  BY <1>1, <1>2, <1>3, <1>4, <1>5, <1>6, <1>7, TableSteps DEF TaskStep, Ledger!Next

(* While handlers fit their lease, the table, its workers, sweeps and restarts *)
(* implement the ledger for any number of jobs, workers and faults.            *)
THEOREM QueueImplementsLedger ==
  ASSUME HandlersFitLease
  PROVE  Spec => ImplementsLedger
<1>1. Init => Ledger!Init
  BY DEF Init, Ledger!Init
<1>2. OwnershipInv /\ [Next]_vars => [Ledger!Next]_(Ledger!vars)
  BY LedgerStep
<1>3. QED
  BY <1>1, <1>2, OwnershipInvariant, PTL DEF Spec, ImplementsLedger, Ledger!Spec
=============================================================================
