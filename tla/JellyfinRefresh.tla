---------------------------- MODULE JellyfinRefresh ----------------------------
(***************************************************************************)
(* The debounced refresh of the media server, src/jellyfin/service.rs: the *)
(* handlers change libraries and then call refresh(), which puts a signal  *)
(* into a bounded channel; the debounce pump takes signals out, waits for  *)
(* the channel to stay quiet for a window, and asks Jellyfin to refresh.   *)
(*                                                                         *)
(* The signals carry nothing: whether Jellyfin ends up seeing a change     *)
(* depends on a signal, a window or a request still being on its way.      *)
(***************************************************************************)
EXTENDS Integers

CONSTANTS
  Jobs,     \* the queue's jobs whose handlers change libraries
  Capacity, \* of the mpsc channel (32 in the code)
  Window,   \* the debounce window, in ticks
  MaxFaults \* bound on failed requests, retried jobs and restarts

ASSUME JellyfinAssumption ==
  /\ Capacity \in Nat \ {0}
  /\ Window \in Nat
  /\ MaxFaults \in Nat

VARIABLES
  job,       \* where each job's handler is
  unseen,    \* the jobs whose changes Jellyfin has not been asked to look at
  owed,      \* those that called refresh() since a request was last sent
  signals,   \* signals in the channel
  closed,    \* whether every sender of the channel has been dropped
  pump,      \* where the debounce pump is
  quiet,     \* ticks until its window has elapsed
  sinceSent, \* ticks since the last request was sent, up to Window
  covered,   \* the changes made before the request under way was sent
  cancelled, \* whether the process is shutting down
  faults     \* faults so far

handlers == <<job, unseen, owed>>
channel == <<signals, closed>>
clock == <<quiet, sinceSent>>
vars == <<handlers, channel, pump, clock, covered, cancelled, faults>>

-----------------------------------------------------------------------------
(* The handlers, of which only the changes and the call of refresh() show. *)

\* A handler has made or removed its first link.
Change(j) ==
  /\ job[j] = "waiting" /\ ~closed
  /\ job' = [job EXCEPT ![j] = "changing"]
  /\ unseen' = unseen \cup {j}
  /\ UNCHANGED <<owed, channel, pump, clock, covered, cancelled, faults>>

\* Variant: a signal that does not fit displaces those that wait.
RefreshDisplacing(j) ==
  /\ job[j] = "changing"
  /\ job' = [job EXCEPT ![j] = "done"]
  /\ owed' = owed \cup {j}
  /\ signals' = (signals + 1) % (Capacity + 1)
  /\ UNCHANGED <<unseen, closed, pump, clock, covered, cancelled, faults>>

\* The handler has succeeded and calls refresh() last; a signal that does not
\* fit into the channel is dropped (try_send).
Refresh(j) ==
  /\ job[j] = "changing"
  /\ job' = [job EXCEPT ![j] = "done"]
  /\ owed' = owed \cup {j}
  /\ signals' = IF signals < Capacity THEN signals + 1 ELSE signals
  /\ UNCHANGED <<unseen, closed, pump, clock, covered, cancelled, faults>>

\* The handler fails after some of its changes and returns before refresh():
\* for good, or to be tried again.
Fail(j) ==
  /\ job[j] = "changing"
  /\ \/ job' = [job EXCEPT ![j] = "failed"] /\ UNCHANGED faults
     \/ /\ job' = [job EXCEPT ![j] = "waiting"]
        /\ faults < MaxFaults /\ faults' = faults + 1
  /\ UNCHANGED <<unseen, owed, channel, pump, clock, covered, cancelled>>

-----------------------------------------------------------------------------
(* debounce_pump                                                           *)

\* Variant: the first signal of a burst is served at once.
ReceiveEager ==
  /\ pump = "waiting" /\ signals > 0
  /\ pump' = "window" /\ quiet' = 0
  /\ signals' = signals - 1
  /\ UNCHANGED <<handlers, closed, sinceSent, covered, cancelled, faults>>

\* The outer select: a signal opens the window.
Receive ==
  /\ pump = "waiting" /\ signals > 0
  /\ pump' = "window" /\ quiet' = Window
  /\ signals' = signals - 1
  /\ UNCHANGED <<handlers, closed, sinceSent, covered, cancelled, faults>>

\* The inner select: one more signal starts the window again.
Postpone ==
  /\ pump = "window" /\ signals > 0
  /\ quiet' = Window
  /\ signals' = signals - 1
  /\ UNCHANGED <<handlers, closed, pump, sinceSent, covered, cancelled, faults>>

\* The window has elapsed, and the request is sent.  The select picks either
\* branch if a signal is there as well.
Fire ==
  /\ pump = "window" /\ quiet = 0
  /\ pump' = "firing"
  /\ covered' = unseen /\ owed' = {}
  /\ sinceSent' = 0
  /\ UNCHANGED <<job, unseen, channel, quiet, cancelled, faults>>

\* Variant: the signals that came in during the request are thrown away.
AnsweredDraining ==
  /\ pump = "firing"
  /\ pump' = "waiting" /\ covered' = {} /\ signals' = 0
  /\ unseen' = unseen \ covered
  /\ UNCHANGED <<job, owed, closed, clock, cancelled, faults>>

\* The request is answered, fails or times out: a failure is logged, and that
\* is all.
Answered ==
  /\ pump = "firing"
  /\ pump' = "waiting" /\ covered' = {}
  /\ \/ unseen' = unseen \ covered /\ UNCHANGED faults
     \/ UNCHANGED unseen /\ faults < MaxFaults /\ faults' = faults + 1
  /\ UNCHANGED <<job, owed, channel, clock, cancelled>>

\* Both selects end the pump when the token fires or the channel is closed and
\* empty, with whatever they had pending.  The request itself is not cut short.
Stop ==
  /\ pump \in {"waiting", "window"}
  /\ cancelled \/ (closed /\ signals = 0)
  /\ pump' = "stopped"
  /\ UNCHANGED <<handlers, channel, clock, covered, cancelled, faults>>

-----------------------------------------------------------------------------
(* Time and the process.                                                   *)

Tick ==
  /\ quiet > 0 \/ sinceSent < Window
  /\ quiet' = IF quiet > 0 THEN quiet - 1 ELSE 0
  /\ sinceSent' = IF sinceSent < Window THEN sinceSent + 1 ELSE Window
  /\ UNCHANGED <<handlers, channel, pump, covered, cancelled, faults>>

\* A signal to the process: the token fires.  Handlers run on.
Cancel ==
  /\ ~cancelled /\ cancelled' = TRUE
  /\ UNCHANGED <<handlers, channel, pump, clock, covered, faults>>

\* The last handler is over and the registry that holds the sender is dropped.
Close ==
  /\ cancelled /\ ~closed
  /\ \A j \in Jobs : job[j] # "changing"
  /\ closed' = TRUE
  /\ UNCHANGED <<handlers, signals, pump, clock, covered, cancelled, faults>>

\* The process starts again, after a crash or a shutdown: the channel is empty,
\* the jobs that were running will run again, those that were done will not.
Restart ==
  /\ faults < MaxFaults /\ faults' = faults + 1
  /\ job' = [j \in Jobs |-> IF job[j] = "changing" THEN "waiting" ELSE job[j]]
  /\ owed' = {}
  /\ signals' = 0 /\ closed' = FALSE
  /\ pump' = "waiting" /\ covered' = {}
  /\ quiet' = 0 /\ sinceSent' = Window
  /\ cancelled' = FALSE
  /\ UNCHANGED unseen

Pump == Receive \/ Postpone \/ Fire \/ Answered \/ Stop

Init ==
  /\ job = [j \in Jobs |-> "waiting"]
  /\ unseen = {} /\ owed = {}
  /\ signals = 0 /\ closed = FALSE
  /\ pump = "waiting" /\ covered = {}
  /\ quiet = 0 /\ sinceSent = Window
  /\ cancelled = FALSE /\ faults = 0

Next ==
  \/ \E j \in Jobs : Change(j) \/ Refresh(j) \/ Fail(j)
  \/ Pump
  \/ Tick \/ Cancel \/ Close \/ Restart

Spec == Init /\ [][Next]_vars

\* The runtime polls the pump, time passes, and a request ends: its client has
\* a timeout.
FairSpec == Spec /\ WF_vars(Pump) /\ WF_vars(Tick)

-----------------------------------------------------------------------------
(* Properties.                                                             *)

\* Every variable has its type.
TypeOK ==
  /\ job \in [Jobs -> {"waiting", "changing", "done", "failed"}]
  /\ unseen \subseteq Jobs /\ owed \subseteq Jobs /\ covered \subseteq Jobs
  /\ signals \in 0 .. Capacity
  /\ pump \in {"waiting", "window", "firing", "stopped"}
  /\ quiet \in 0 .. Window /\ sinceSent \in 0 .. Window
  /\ closed \in BOOLEAN /\ cancelled \in BOOLEAN
  /\ faults \in Nat

\* "the channel already holds a pending refresh and any additional trigger would
\* coalesce anyway" (service.rs:121): dropping a signal, or serving many with one
\* request, never leaves a handler that called refresh() without a request to come.
NoSignalLost ==
  pump # "stopped" /\ owed # {} => signals > 0 \/ pump = "window"

\* When the pump has nothing left to do and nothing has failed, Jellyfin has been
\* asked after every change whose handler succeeded; also after those of a
\* handler that changed libraries during the request of another.
UpToDateWhenQuiet ==
  pump = "waiting" /\ signals = 0 /\ faults = 0 =>
    \A j \in unseen : job[j] \in {"changing", "failed"}

\* "Multiple refresh() calls within a short window collapse into a single HTTP
\* call" (service.rs:11): two requests are never sent within one window.
RequestsAreSpaced ==
  [][pump = "window" /\ pump' = "firing" => sinceSent = Window]_vars

\* The pump serves every call of refresh() unless it is stopped first.  Here the
\* calls are finitely many: each starts the window again, so a stream of them
\* that never pauses would keep the pump from firing.
EveryCallIsServed == \A j \in Jobs : j \in owed ~> (j \notin owed \/ pump = "stopped")
=============================================================================
