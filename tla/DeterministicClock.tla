-------------------------- MODULE DeterministicClock --------------------------
(***************************************************************************)
(* The clock of common/clock/deterministic.go: time moves only when       *)
(* AdvanceTime is called, which fires the pending tasks, timers and       *)
(* tickers that are due.                                                  *)
(*                                                                         *)
(* The clock has a lock, and so has every timer and every ticker.         *)
(* AdvanceTime holds the clock's lock from beginning to end and takes an  *)
(* item's lock for each of its two looks at it, isDue and fire: between   *)
(* them others stop timers, reset tickers and receive from channels.      *)
(* Ticker.Reset takes the two locks the other way round.  Every other     *)
(* method is one step.  AdvanceTime may visit the items in any order; the *)
(* list it builds replaces s.pending under the lock, so an item that is   *)
(* through is taken out of pending at once.                               *)
(*                                                                         *)
(* f, the function of a timer, does not call the clock.  NewTicker and    *)
(* Reset panic on durations that are not positive.                        *)
(***************************************************************************)
EXTENDS Integers

CONSTANTS
  Item,      \* the tasks, timers and tickers that are made
  NoItem,    \* AdvanceTime is at no item
  NoTime,    \* an empty channel
  Duration   \* the durations callers ask for; 0 and less, too

ASSUME ClockAssumption == /\ NoItem \notin Item
                          /\ NoTime \notin Int
                          /\ Duration \subseteq Int

VARIABLES
  now,
  pending,     \* the items AdvanceTime will look at
  newPending,  \* newPendingCh holds its one element
  item,        \* the structs task, timer and ticker
  buf,         \* buf[i]: the channel of i, of capacity 1
  sleep,       \* sleep[i]: the SleepCtx that made i: "no", "wait", "slept", "cancelled"
  \* AdvanceTime
  adv,         \* "idle", "loop", "fire"; the clock's lock is held unless idle
  left,        \* the pending items it has still to look at
  cur,         \* the item that it found due
  resetting,   \* the tickers whose lock a Reset holds while it waits for the clock's
  \* history
  born,        \* born[i]: when i was made, a ticker also: last fired or reset
  fires,       \* fires[i]: how often i fired
  stopTrue     \* the timers for which a Stop returned true

itemVars == <<item, buf, sleep, born, fires, stopTrue>>
clockVars == <<now, pending, newPending, itemVars, adv, left, cur, resetting>>

Kind == {"none", "task", "func", "timer", "ticker"}
NewItem(k, due, d, ran) ==
  [kind |-> k, due |-> due, period |-> d, stopped |-> FALSE, run |-> ran]

ClockFree == adv = "idle"
Held(i) == i \in resetting

-----------------------------------------------------------------------------
(* Making items. *)

\* The item joins the pending ones, and a waiter is told, once.
AddPending(i) == pending' = pending \cup {i} /\ newPending' = TRUE

Make(i, k, d) ==
  /\ ClockFree /\ item[i].kind = "none"
  /\ item' = [item EXCEPT ![i] = NewItem(k, now + d, d, FALSE)]
  /\ born' = [born EXCEPT ![i] = now]
  /\ UNCHANGED <<now, stopTrue, adv, left, cur, resetting>>

\* A task without a delay is sent at once and never pending.
After(i, d) ==
  /\ Make(i, "task", d)
  /\ IF d = 0 THEN /\ buf' = [buf EXCEPT ![i] = now]
                   /\ fires' = [fires EXCEPT ![i] = 1]
                   /\ UNCHANGED <<pending, newPending>>
              ELSE AddPending(i) /\ UNCHANGED <<buf, fires>>
  /\ UNCHANGED sleep

\* A function without a delay is run at once, with the lock held.
AfterFuncNow(i) ==
  /\ ClockFree /\ item[i].kind = "none"
  /\ item' = [item EXCEPT ![i] = NewItem("func", now, 0, TRUE)]
  /\ born' = [born EXCEPT ![i] = now]
  /\ fires' = [fires EXCEPT ![i] = 1]
  /\ UNCHANGED <<now, pending, newPending, buf, sleep, stopTrue, adv, left, cur, resetting>>

AfterFunc(i, d) ==
  \/ d = 0 /\ AfterFuncNow(i)
  \/ d # 0 /\ Make(i, "func", d) /\ AddPending(i) /\ UNCHANGED <<buf, sleep, fires>>

\* A timer waits for the next AdvanceTime even when it has no delay.
NewTimer(i, d) == Make(i, "timer", d) /\ AddPending(i) /\ UNCHANGED <<buf, sleep, fires>>

NewTicker(i, d) == d > 0 /\ Make(i, "ticker", d) /\ AddPending(i) /\ UNCHANGED <<buf, sleep, fires>>

\* SleepCtx waits for a timer of its own.
SleepCtx(i, d) == /\ Make(i, "timer", d) /\ AddPending(i)
                  /\ sleep' = [sleep EXCEPT ![i] = "wait"]
                  /\ UNCHANGED <<buf, fires>>

-----------------------------------------------------------------------------
(* Using them. *)

\* timer.Stop, and whether it returns true.
TimerStop(i) ==
  /\ item[i].kind \in {"timer", "func"}
  /\ stopTrue' = IF item[i].stopped \/ item[i].run THEN stopTrue ELSE stopTrue \cup {i}
  /\ item' = [item EXCEPT ![i].stopped = TRUE]

Stop(i) ==
  /\ \/ TimerStop(i) /\ sleep[i] = "no"
     \/ /\ item[i].kind = "ticker" /\ ~Held(i)
        /\ item' = [item EXCEPT ![i].stopped = TRUE]
        /\ UNCHANGED stopTrue
  /\ UNCHANGED <<now, pending, newPending, buf, sleep, born, fires, adv, left, cur, resetting>>

\* Somebody receives from the channel of i.
Receive(i) == /\ buf[i] # NoTime /\ sleep[i] = "no"
              /\ buf' = [buf EXCEPT ![i] = NoTime]
              /\ UNCHANGED <<now, pending, newPending, item, sleep, born, fires, stopTrue,
                             adv, left, cur, resetting>>

\* The select of SleepCtx and the Stop deferred in it.
SleepWakes(i) == /\ sleep[i] = "wait" /\ buf[i] # NoTime
                 /\ sleep' = [sleep EXCEPT ![i] = "slept"]
                 /\ buf' = [buf EXCEPT ![i] = NoTime]
                 /\ TimerStop(i)
                 /\ UNCHANGED <<now, pending, newPending, born, fires, adv, left, cur, resetting>>

SleepCancelled(i) == /\ sleep[i] = "wait"
                     /\ sleep' = [sleep EXCEPT ![i] = "cancelled"]
                     /\ TimerStop(i)
                     /\ UNCHANGED <<now, pending, newPending, buf, born, fires, adv, left, cur,
                                    resetting>>

\* WaitForNewPendingTask returns true: the flag is consumed.
WaitForNewPendingTask == /\ newPending
                         /\ newPending' = FALSE
                         /\ UNCHANGED <<now, pending, itemVars, adv, left, cur, resetting>>

\* Reset has the ticker's lock and sets the period ...
ResetLock(i, d) == /\ d > 0 /\ item[i].kind = "ticker" /\ ~Held(i)
                   /\ item' = [item EXCEPT ![i].period = d]
                   /\ resetting' = resetting \cup {i}
                   /\ UNCHANGED <<now, pending, newPending, buf, sleep, born, fires, stopTrue,
                                  adv, left, cur>>

\* Mutant of ResetNow: the time is read without the clock's lock.
ResetNoLock(i) == /\ Held(i)
                  /\ item' = [item EXCEPT ![i].due = now + item[i].period]
                  /\ born' = [born EXCEPT ![i] = now]
                  /\ resetting' = resetting \ {i}
                  /\ UNCHANGED <<now, pending, newPending, buf, sleep, fires, stopTrue, adv, left, cur>>

\* ... asks the clock for the time, which needs its lock, and sets the next tick.
ResetNow(i) == /\ Held(i) /\ ClockFree
               /\ item' = [item EXCEPT ![i].due = now + item[i].period]
               /\ born' = [born EXCEPT ![i] = now]
               /\ resetting' = resetting \ {i}
               /\ UNCHANGED <<now, pending, newPending, buf, sleep, fires, stopTrue, adv, left, cur>>

-----------------------------------------------------------------------------
(* AdvanceTime. *)

AdvanceBegin(d) == /\ ClockFree
                   /\ now' = now + d
                   /\ left' = pending /\ adv' = "loop"
                   /\ UNCHANGED <<pending, newPending, itemVars, cur, resetting>>

\* Mutant of Due: an item is not due at its very time.
DueLate(i) == item[i].due < now

Due(i) == item[i].due <= now

\* isDue, for one of the items left.
IsDue(i) == /\ adv = "loop" /\ i \in left /\ ~Held(i)
            /\ left' = left \ {i}
            /\ IF Due(i) THEN adv' = "fire" /\ cur' = i ELSE UNCHANGED <<adv, cur>>
            /\ UNCHANGED <<now, pending, newPending, itemVars, resetting>>

\* fire of a task: one value, and the channel is closed.
FireTask(i) == /\ item[i].kind = "task"
               /\ buf' = [buf EXCEPT ![i] = now]
               /\ fires' = [fires EXCEPT ![i] = @ + 1]
               /\ pending' = pending \ {i}
               /\ UNCHANGED <<item, born>>

\* Mutant of FireTimer: it does not look whether it was stopped since isDue.
FireStopped(i) == /\ item[i].kind \in {"timer", "func"}
                  /\ item' = [item EXCEPT ![i].run = TRUE]
                  /\ buf' = [buf EXCEPT ![i] = IF item[i].kind = "timer" THEN now ELSE @]
                  /\ fires' = [fires EXCEPT ![i] = @ + 1]
                  /\ pending' = pending \ {i}
                  /\ UNCHANGED born

\* fire of a timer: f, unless it was stopped; f of NewTimer sends the time.
FireTimer(i) == /\ item[i].kind \in {"timer", "func"}
                /\ IF item[i].stopped
                   THEN UNCHANGED <<item, buf, fires>>
                   ELSE /\ item' = [item EXCEPT ![i].run = TRUE]
                        /\ buf' = [buf EXCEPT ![i] = IF item[i].kind = "timer" THEN now ELSE @]
                        /\ fires' = [fires EXCEPT ![i] = @ + 1]
                /\ pending' = pending \ {i}
                /\ UNCHANGED born

\* fire of a ticker: gone when stopped; a full channel drops the tick, and the
\* ticker stays due.
FireTicker(i) == /\ item[i].kind = "ticker"
                 /\ pending' = IF item[i].stopped THEN pending \ {i} ELSE pending
                 /\ IF item[i].stopped \/ buf[i] # NoTime
                    THEN UNCHANGED <<item, buf, fires, born>>
                    ELSE /\ buf' = [buf EXCEPT ![i] = now]
                         /\ item' = [item EXCEPT ![i].due = now + item[i].period]
                         /\ fires' = [fires EXCEPT ![i] = @ + 1]
                         /\ born' = [born EXCEPT ![i] = now]

Fire(i) == /\ adv = "fire" /\ cur = i /\ ~Held(i)
           /\ FireTask(i) \/ FireTimer(i) \/ FireTicker(i)
           /\ adv' = "loop" /\ cur' = NoItem
           /\ UNCHANGED <<now, newPending, sleep, stopTrue, left, resetting>>

\* Mutant of AdvanceEnd: with nothing pending, the lock is not given back.
AdvanceEndEarly == /\ adv = "loop" /\ left = {} /\ pending # {}
                   /\ adv' = "idle"
                   /\ UNCHANGED <<now, pending, newPending, itemVars, left, cur, resetting>>

AdvanceEnd == /\ adv = "loop" /\ left = {}
              /\ adv' = "idle"
              /\ UNCHANGED <<now, pending, newPending, itemVars, left, cur, resetting>>

-----------------------------------------------------------------------------

ClockInit == /\ now = 0 /\ pending = {} /\ newPending = FALSE
             /\ item = [i \in Item |-> NewItem("none", 0, 0, FALSE)]
             /\ buf = [i \in Item |-> NoTime]
             /\ sleep = [i \in Item |-> "no"]
             /\ adv = "idle" /\ left = {} /\ cur = NoItem /\ resetting = {}
             /\ born = [i \in Item |-> 0] /\ fires = [i \in Item |-> 0] /\ stopTrue = {}

\* What the users of the clock call, but for AdvanceTime.
Use == \/ WaitForNewPendingTask
       \/ \E i \in Item :
            \/ \E d \in Duration :
                 \/ After(i, d) \/ AfterFunc(i, d) \/ NewTimer(i, d) \/ NewTicker(i, d)
                 \/ SleepCtx(i, d) \/ ResetLock(i, d)
            \/ Stop(i) \/ Receive(i) \/ SleepCancelled(i)

\* What goes on once it has begun.
Proceed == \E i \in Item : SleepWakes(i) \/ ResetNow(i) \/ IsDue(i) \/ Fire(i)

=============================================================================
