------------------------------ MODULE JobLedger ------------------------------
(***************************************************************************)
(* What the job queue promises to the rest of the program: a ledger of     *)
(* webhooks, each open until it is settled, tried at most MaxAttempts      *)
(* times, and reopened only on an admin's request.  Workers, leases,       *)
(* timers and processes do not show.                                       *)
(***************************************************************************)
EXTENDS Integers

CONSTANTS Jobs, MaxAttempts

VARIABLES
  state, \* "absent", "open", or how the job was settled
  tried  \* attempts that were answered since the job was submitted or reopened

vars == <<state, tried>>

Settled == {"completed", "failed", "dead_letter"}

Settle(j, s, n) ==
  /\ state[j] = "open"
  /\ state' = [state EXCEPT ![j] = s]
  /\ tried' = [tried EXCEPT ![j] = n]

Submit(j) ==
  /\ state[j] = "absent"
  /\ state' = [state EXCEPT ![j] = "open"]
  /\ UNCHANGED tried

\* A transient failure that leaves attempts.
FailAttempt(j) == tried[j] + 1 < MaxAttempts /\ Settle(j, "open", tried[j] + 1)

Complete(j) == Settle(j, "completed", tried[j])

Reject(j) == Settle(j, "failed", tried[j] + 1)

\* A transient failure on the last attempt.
Bury(j) == tried[j] + 1 = MaxAttempts /\ Settle(j, "dead_letter", tried[j] + 1)

\* An admin starts jobs over: any one settled job, or unsuccessful ones in bulk.
\* Completed jobs are never reopened in bulk.
Reopen(S) ==
  /\ S # {}
  /\ \/ \E j \in S : S = {j} /\ state[j] \in Settled
     \/ \A j \in S : state[j] \in {"failed", "dead_letter"}
  /\ state' = [j \in Jobs |-> IF j \in S THEN "open" ELSE state[j]]
  /\ tried' = [j \in Jobs |-> IF j \in S THEN 0 ELSE tried[j]]

Init ==
  /\ state = [j \in Jobs |-> "absent"]
  /\ tried = [j \in Jobs |-> 0]

Next ==
  \/ \E j \in Jobs : Submit(j) \/ FailAttempt(j) \/ Complete(j) \/ Reject(j) \/ Bury(j)
  \/ \E S \in SUBSET Jobs : Reopen(S)

Spec == Init /\ [][Next]_vars
=============================================================================
