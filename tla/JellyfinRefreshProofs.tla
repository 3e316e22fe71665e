------------------------- MODULE JellyfinRefreshProofs -------------------------
(***************************************************************************)
(* Proofs about JellyfinRefresh, for any jobs, channel capacity, window    *)
(* and number of faults.                                                   *)
(***************************************************************************)
EXTENDS JellyfinRefresh, TLAPS

(* A handler that called refresh() and whose change is still unseen is owed  *)
(* a request, is covered by the one under way, or met a fault.               *)
Announced ==
  faults = 0 =>
    \A j \in unseen : job[j] \in {"changing", "failed"} \/ j \in owed
                      \/ (pump = "firing" /\ j \in covered)

(* The window runs for as long as the last request is ago, at least: what is *)
(* left of the one never exceeds what is left of the other to count.         *)
WindowCovers == pump = "window" => Window - sinceSent <= quiet

RefreshInv == TypeOK /\ NoSignalLost /\ Announced /\ WindowCovers

(* Every state of the program has the types of the model's variables, and no *)
(* dropped signal leaves a call of refresh() without a request to come; the  *)
(* invariant also says which changes a request has covered.                  *)
LEMMA InitInv == Init => RefreshInv
<1> SUFFICES ASSUME Init PROVE RefreshInv
  OBVIOUS
<1>1. closed \in BOOLEAN /\ cancelled \in BOOLEAN
  BY Zenon DEF Init
<1>2. TypeOK
  BY <1>1, JellyfinAssumption DEF Init, TypeOK
<1>3. NoSignalLost /\ Announced /\ WindowCovers
  BY DEF Init, NoSignalLost, Announced, WindowCovers
<1>4. QED
  BY <1>2, <1>3 DEF RefreshInv

LEMMA StepInv == RefreshInv /\ [Next]_vars => RefreshInv'
<1> SUFFICES ASSUME RefreshInv, [Next]_vars PROVE RefreshInv'
  OBVIOUS
<1> USE JellyfinAssumption DEF RefreshInv, TypeOK, handlers, channel, clock
<1>1. ASSUME NEW j \in Jobs, Change(j) PROVE RefreshInv'
  BY <1>1 DEF Change, NoSignalLost, Announced, WindowCovers
<1>2. ASSUME NEW j \in Jobs, Refresh(j) PROVE RefreshInv'
  <2>1. TypeOK'
    BY <1>2 DEF Refresh
  <2>2. signals' > 0
    BY <1>2 DEF Refresh
  <2>3. Announced'
    BY <1>2 DEF Refresh, Announced
  <2>4. QED
    BY <1>2, <2>1, <2>2, <2>3 DEF Refresh, NoSignalLost, WindowCovers
<1>3. ASSUME NEW j \in Jobs, Fail(j) PROVE RefreshInv'
  <2>1. TypeOK' /\ NoSignalLost' /\ WindowCovers'
    BY <1>3 DEF Fail, NoSignalLost, WindowCovers
  <2>2. Announced'
    BY <1>3 DEF Fail, Announced
  <2>3. QED
    BY <2>1, <2>2
<1>4. CASE Receive
  BY <1>4 DEF Receive, NoSignalLost, Announced, WindowCovers
<1>5. CASE Postpone
  BY <1>5 DEF Postpone, NoSignalLost, Announced, WindowCovers
<1>6. CASE Fire
  BY <1>6 DEF Fire, NoSignalLost, Announced, WindowCovers
<1>7. CASE Answered
  BY <1>7 DEF Answered, NoSignalLost, Announced, WindowCovers
<1>8. CASE Stop
  BY <1>8 DEF Stop, NoSignalLost, Announced, WindowCovers
<1>9. CASE Tick
  BY <1>9 DEF Tick, NoSignalLost, Announced, WindowCovers
<1>10. CASE Cancel
  BY <1>10 DEF Cancel, NoSignalLost, Announced, WindowCovers
<1>11. CASE Close
  BY <1>11 DEF Close, NoSignalLost, Announced, WindowCovers
<1>12. CASE Restart
  <2>1. closed' \in BOOLEAN /\ cancelled' \in BOOLEAN
    BY <1>12, Zenon DEF Restart
  <2>2. TypeOK'
    BY <1>12, <2>1 DEF Restart
  <2>3. NoSignalLost' /\ Announced' /\ WindowCovers'
    BY <1>12 DEF Restart, NoSignalLost, Announced, WindowCovers
  <2>4. QED
    BY <2>2, <2>3
<1>13. CASE UNCHANGED vars
  BY <1>13 DEF vars, NoSignalLost, Announced, WindowCovers
<1>14. QED
  BY <1>1, <1>2, <1>3, <1>4, <1>5, <1>6, <1>7, <1>8, <1>9, <1>10, <1>11, <1>12, <1>13
     DEF Next, Pump

LEMMA AlwaysInv == Spec => []RefreshInv
BY InitInv, StepInv, PTL DEF Spec

(* Every reachable state is well typed: the channel never holds more signals *)
(* than it has room for.                                                     *)
THEOREM RefreshTypeCorrect == Spec => []TypeOK
BY AlwaysInv, PTL DEF RefreshInv

(* A signal dropped on a full channel, or a burst served by one request,     *)
(* never leaves a call of refresh() unanswered while the pump runs.          *)
THEOREM CallsAreKept == Spec => []NoSignalLost
BY AlwaysInv, PTL DEF RefreshInv

(* A pump with nothing to do means that Jellyfin was asked to look after     *)
(* every change of a handler that succeeded, as long as nothing failed.      *)
THEOREM QuietMeansUpToDate == Spec => []UpToDateWhenQuiet
<1>1. RefreshInv => UpToDateWhenQuiet
  BY DEF RefreshInv, NoSignalLost, Announced, UpToDateWhenQuiet
<1>2. QED
  BY <1>1, AlwaysInv, PTL

(* No two requests are sent within one debounce window.                      *)
THEOREM RequestsSpaced == Spec => RequestsAreSpaced
<1>1. RefreshInv /\ [Next]_vars =>
        [pump = "window" /\ pump' = "firing" => sinceSent = Window]_vars
  <2> SUFFICES ASSUME RefreshInv, Next, pump = "window", pump' = "firing"
               PROVE  sinceSent = Window
    OBVIOUS
  <2>1. Fire
    BY DEF Next, Pump, Change, Refresh, Fail, Receive, Postpone, Fire, Answered,
           Stop, Tick, Cancel, Close, Restart
  <2>2. QED
    BY <2>1, JellyfinAssumption DEF RefreshInv, TypeOK, WindowCovers, Fire
<1>2. QED
  BY <1>1, AlwaysInv, PTL DEF Spec, RequestsAreSpaced
=============================================================================
