---------------------------- MODULE AdvancingClock ----------------------------
(***************************************************************************)
(* The clock of common/clock/advancing.go: a DeterministicClock that a    *)
(* goroutine advances with the ticks of the system's clock, while others  *)
(* advance it by hand.  Start and Stop are called by one owner, one after *)
(* the other.  Times are those since the clock was made.                  *)
(***************************************************************************)
EXTENDS DeterministicClock

CONSTANTS
  Step,    \* the durations by which users advance the clock
  MaxUser, \* bound: time advanced by hand
  MaxSys   \* bound: time of the system's clock

ASSUME AdvancingAssumption == Step \subseteq Nat /\ MaxUser \in Nat /\ MaxSys \in Nat

VARIABLES
  sys,       \* the system's clock
  tick,      \* the channel of the system's ticker, of capacity 1
  ticking,   \* the ticker runs
  running,
  loop,      \* the goroutine: "none", "select", "tick", "advance", "store"
  got,       \* the time it received
  lastTick,
  byTick,    \* the AdvanceTime under way is the goroutine's
  stopping,  \* Stop waits for the goroutine to take quit
  user       \* history: the time advanced by hand

advancingVars == <<sys, tick, ticking, running, loop, got, lastTick, byTick, stopping, user>>
vars == <<clockVars, advancingVars>>

-----------------------------------------------------------------------------
(* The system's clock. *)

\* Time goes on, or does not for the ticker to see; a tick finds the channel
\* empty or is dropped.
SysTick == \E t \in {sys, sys + 1} :
  /\ t <= MaxSys
  /\ sys' = t
  /\ tick' \in {tick} \cup (IF ticking /\ tick = NoTime THEN {t} ELSE {})
  /\ UNCHANGED <<clockVars, ticking, running, loop, got, lastTick, byTick, stopping, user>>

-----------------------------------------------------------------------------
(* The owner. *)

\* A new ticker, with a channel of its own, and a goroutine.
Start == /\ ~stopping /\ ~running
         /\ running' = TRUE /\ ticking' = TRUE /\ tick' = NoTime /\ loop' = "select"
         /\ UNCHANGED <<clockVars, sys, got, lastTick, byTick, stopping, user>>

\* Stop stops the ticker; what it sent before stays in its channel.
StopTicker == /\ ~stopping /\ running
              /\ running' = FALSE /\ ticking' = FALSE /\ stopping' = TRUE
              /\ UNCHANGED <<clockVars, sys, tick, loop, got, lastTick, byTick, user>>

\* The goroutine takes quit: it ends, and Stop returns.
Quit == /\ stopping /\ loop = "select"
        /\ stopping' = FALSE /\ loop' = "none"
        /\ UNCHANGED <<clockVars, sys, tick, ticking, running, got, lastTick, byTick, user>>

-----------------------------------------------------------------------------
(* The goroutine. *)

\* Mutant of ReceiveTick: a tick that is close to the last one is ignored, too.
ReceiveTickSlack ==
  /\ loop = "select" /\ tick # NoTime
  /\ tick' = NoTime /\ got' = tick
  /\ loop' = IF tick > lastTick + 1 THEN "tick" ELSE "select"
  /\ UNCHANGED <<clockVars, sys, ticking, running, lastTick, byTick, stopping, user>>

\* A tick is received; onTick ignores it when time has not progressed.
ReceiveTick == /\ loop = "select" /\ tick # NoTime
               /\ tick' = NoTime /\ got' = tick
               /\ loop' = IF tick > lastTick THEN "tick" ELSE "select"
               /\ UNCHANGED <<clockVars, sys, ticking, running, lastTick, byTick, stopping, user>>

OnTick == /\ loop = "tick" /\ AdvanceBegin(got - lastTick)
          /\ loop' = "advance" /\ byTick' = TRUE
          /\ UNCHANGED <<sys, tick, ticking, running, got, lastTick, stopping, user>>

\* Mutant of SetLastTick: the system's time now, not that of the tick.
SetLastTickNow == /\ loop = "store"
                  /\ lastTick' = sys /\ loop' = "select"
                  /\ UNCHANGED <<clockVars, sys, tick, ticking, running, got, byTick, stopping, user>>

SetLastTick == /\ loop = "store"
               /\ lastTick' = got /\ loop' = "select"
               /\ UNCHANGED <<clockVars, sys, tick, ticking, running, got, byTick, stopping, user>>

-----------------------------------------------------------------------------

\* A user calls AdvanceTime.
AdvanceTime(d) == /\ user + d <= MaxUser
                  /\ AdvanceBegin(d)
                  /\ user' = user + d /\ byTick' = FALSE
                  /\ UNCHANGED <<sys, tick, ticking, running, loop, got, lastTick, stopping>>

\* AdvanceTime returns, to the goroutine or to a user.
AdvanceReturn == /\ AdvanceEnd
                 /\ loop' = IF byTick THEN "store" ELSE loop
                 /\ byTick' = FALSE
                 /\ UNCHANGED <<sys, tick, ticking, running, got, lastTick, stopping, user>>

Init == /\ ClockInit
        /\ sys = 0 /\ tick = NoTime /\ ticking = FALSE /\ running = FALSE
        /\ loop = "none" /\ got = 0 /\ lastTick = 0
        /\ byTick = FALSE /\ stopping = FALSE /\ user = 0

Underway == \/ (Proceed /\ UNCHANGED advancingVars)
            \/ AdvanceReturn \/ OnTick \/ SetLastTick

Next == \/ (Use /\ UNCHANGED advancingVars)
        \/ Underway
        \/ (\E d \in Step : AdvanceTime(d))
        \/ SysTick \/ Start \/ StopTicker \/ Quit \/ ReceiveTick

Spec == Init /\ [][Next]_vars

\* AdvanceTime, the goroutine and the sleepers go on when they can.  A lock that
\* is free again and again is obtained in the end, and the goroutine's select
\* does not pass over quit for ever.
Fairness ==
  /\ WF_vars(AdvanceReturn \/ \E i \in Item : (IsDue(i) \/ Fire(i)) /\ UNCHANGED advancingVars)
  /\ WF_vars(ReceiveTick) /\ SF_vars(OnTick) /\ WF_vars(SetLastTick) /\ SF_vars(Quit)
  /\ \A i \in Item : /\ WF_vars(SleepWakes(i) /\ UNCHANGED advancingVars)
                     /\ SF_vars(ResetNow(i) /\ UNCHANGED advancingVars)

LiveSpec == Spec /\ Fairness

-----------------------------------------------------------------------------
(* Properties. *)

\* Every variable keeps its type.
TypeOK == /\ now \in Nat /\ pending \subseteq Item /\ newPending \in BOOLEAN
          /\ item \in [Item -> [kind : Kind, due : Int, period : Int,
                                stopped : BOOLEAN, run : BOOLEAN]]
          /\ buf \in [Item -> Nat \cup {NoTime}]
          /\ sleep \in [Item -> {"no", "wait", "slept", "cancelled"}]
          /\ adv \in {"idle", "loop", "fire"}
          /\ left \subseteq Item /\ cur \in Item \cup {NoItem} /\ resetting \subseteq Item
          /\ born \in [Item -> Nat] /\ fires \in [Item -> Nat] /\ stopTrue \subseteq Item
          /\ sys \in Nat /\ tick \in Nat \cup {NoTime} /\ ticking \in BOOLEAN
          /\ running \in BOOLEAN
          /\ loop \in {"none", "select", "tick", "advance", "store"}
          /\ got \in Nat /\ lastTick \in Nat /\ byTick \in BOOLEAN
          /\ stopping \in BOOLEAN /\ user \in Nat

\* No task or timer is lost, nor fires twice: when time has moved on since it was
\* made, has reached its time, and no AdvanceTime is under way, it has fired
\* once, unless it was stopped (the loop of AdvanceTime).
NoneLost == \A i \in Item :
  (adv = "idle" /\ item[i].kind \in {"task", "func", "timer"} /\ born[i] < now
     /\ item[i].due <= now /\ ~item[i].stopped)
    => fires[i] = 1

\* A Stop that returned true prevented the timer from firing, for good, even
\* when AdvanceTime had already found it due (timer.Stop and timer.fire).
StopPrevents == \A i \in stopTrue : fires[i] = 0 /\ buf[i] = NoTime

\* Ticks of a ticker are a period apart, the period of the last Reset included,
\* and none is sent after Stop (ticker.fire and ticker.Reset).
TicksApart ==
  [][\A i \in Item : (item[i].kind = "ticker" /\ fires'[i] # fires[i]) =>
       /\ ~item[i].stopped
       /\ now >= born[i] + item[i].period]_vars

\* The clock is where the ticks it followed and its users have brought it,
\* whatever the pauses between Stop and Start, ticks dropped and AdvanceTimes in
\* between: it does not drift from the system's clock (AdvancingClock.onTick).
NoDrift == loop \in {"none", "select"} => now = lastTick + user

\* AdvanceTime holds the clock's lock and waits for the lock of a ticker that
\* a Reset holds, which waits for the clock's.
Deadlocked == \/ adv = "fire" /\ cur \in resetting
              \/ adv = "loop" /\ left \cap resetting # {}

\* Unless Reset and AdvanceTime meet like that: the clock follows every tick of
\* the system's clock that its ticker could send before Stop (the goroutine of
\* Start) ...
TickFollowed == \A t \in 0..MaxSys :
  (tick = t) ~> (lastTick >= t \/ ~running \/ Deadlocked)

\* ... and every call that waits returns: SleepCtx once the clock moves to its
\* time, Stop when the goroutine is through with its tick, Reset when it gets the
\* clock's lock.
CallsReturn == /\ \A i \in Item : (sleep[i] = "wait" /\ item[i].due <= now /\ born[i] < now)
                                     ~> (sleep[i] # "wait" \/ Deadlocked)
               /\ stopping ~> (~stopping \/ Deadlocked)
               /\ \A i \in Item : (i \in resetting) ~> (i \notin resetting \/ Deadlocked)
=============================================================================
