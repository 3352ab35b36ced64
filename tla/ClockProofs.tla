----------------------------- MODULE ClockProofs -----------------------------
(***************************************************************************)
(* What holds of the clocks for any number of tasks, timers and tickers,  *)
(* any durations and any length of time: nothing is lost or fires twice,  *)
(* a Stop that returned true holds, ticks are a period apart, and the     *)
(* clock does not drift.                                                  *)
(***************************************************************************)
EXTENDS AdvancingClock, TLAPS

-----------------------------------------------------------------------------
(* The inductive invariant. *)

\* The part of TypeOK about the deterministic clock.
ClockTyped ==
  /\ now \in Nat /\ pending \subseteq Item /\ newPending \in BOOLEAN
  /\ item \in [Item -> [kind : Kind, due : Int, period : Int, stopped : BOOLEAN, run : BOOLEAN]]
  /\ buf \in [Item -> Nat \cup {NoTime}]
  /\ sleep \in [Item -> {"no", "wait", "slept", "cancelled"}]
  /\ adv \in {"idle", "loop", "fire"}
  /\ left \subseteq Item /\ cur \in Item \cup {NoItem} /\ resetting \subseteq Item
  /\ born \in [Item -> Nat] /\ fires \in [Item -> Nat] /\ stopTrue \subseteq Item

\* The items that fire once.
Single(i) == item[i].kind \in {"task", "func", "timer"}

\* One item: before it is made; while it is pending and after; what its Stop has
\* seen; when a ticker's next tick is, while no Reset is halfway.
ItemOK(i) ==
  /\ item[i].kind = "none" => fires[i] = 0 /\ buf[i] = NoTime /\ i \notin pending
  /\ Single(i) /\ i \in pending => fires[i] = 0
  /\ Single(i) /\ i \notin pending => item[i].stopped \/ fires[i] = 1
  /\ item[i].kind \in {"timer", "func"} /\ ~item[i].run => fires[i] = 0 /\ buf[i] = NoTime
  /\ i \in stopTrue => /\ item[i].kind \in {"timer", "func"}
                       /\ item[i].stopped /\ ~item[i].run
  /\ i \in resetting => item[i].kind = "ticker"
  /\ item[i].kind = "ticker" /\ i \notin resetting => item[i].due = born[i] + item[i].period

ItemsOK == \A i \in Item : ItemOK(i)

\* AdvanceTime: what it has looked at and kept is not due; the item that it found
\* due is still pending, and due, whatever happens before it takes its lock again.
AdvanceOK ==
  /\ left \subseteq pending
  /\ adv = "fire" => cur \in pending /\ cur \notin left /\ item[cur].due <= now
  /\ adv = "idle" => \A i \in pending : Single(i) => born[i] = now \/ item[i].due > now
  /\ adv # "idle" => \A i \in pending \ left :
                       Single(i) /\ ~(adv = "fire" /\ i = cur) => item[i].due > now

ClockInv == ClockTyped /\ ItemsOK /\ AdvanceOK

-----------------------------------------------------------------------------
(* The steps of the deterministic clock. *)

\* A new item: not pending and fired, or pending and not fired.
LEMMA MakeKeepsInv ==
  ASSUME ClockInv, NEW i \in Item, NEW d \in Duration, NEW k \in {"task", "func", "timer", "ticker"},
         Make(i, k, d),
         \/ AddPending(i) /\ UNCHANGED <<buf, fires>>
         \/ /\ k = "task"
            /\ buf' = [buf EXCEPT ![i] = now] /\ fires' = [fires EXCEPT ![i] = 1]
            /\ UNCHANGED <<pending, newPending>>,
         sleep' \in [Item -> {"no", "wait", "slept", "cancelled"}]
  PROVE  ClockInv'
<1> USE ClockAssumption DEF ClockInv, Make, AddPending, ClockFree
<1>1. /\ item'[i] = NewItem(k, now + d, d, FALSE)
      /\ \A j \in Item \ {i} : item'[j] = item[j] /\ born'[j] = born[j]
                                 /\ buf'[j] = buf[j] /\ fires'[j] = fires[j]
      /\ born'[i] = now
  BY DEF ClockTyped
<1>2. /\ item'[i].kind = k /\ item'[i].due = now + d /\ item'[i].period = d
      /\ item'[i].stopped = FALSE /\ item'[i].run = FALSE
  BY <1>1 DEF NewItem
<1>3. ClockTyped'
  <2>1. NewItem(k, now + d, d, FALSE)
          \in [kind : Kind, due : Int, period : Int, stopped : BOOLEAN, run : BOOLEAN]
    BY DEF ClockTyped, Kind, NewItem
  <2>2. item' \in [Item -> [kind : Kind, due : Int, period : Int, stopped : BOOLEAN, run : BOOLEAN]]
    BY <2>1 DEF ClockTyped
  <2>3. buf' \in [Item -> Nat \cup {NoTime}] /\ fires' \in [Item -> Nat] /\ born' \in [Item -> Nat]
    BY DEF ClockTyped
  <2> QED
    BY <2>2, <2>3 DEF ClockTyped
<1>4. fires[i] = 0 /\ buf[i] = NoTime /\ i \notin pending /\ i \notin stopTrue /\ i \notin resetting
  BY DEF ItemsOK, ItemOK
<1>5. ItemOK(i)'
  BY <1>1, <1>2, <1>4 DEF ItemOK, Single, ClockTyped
<1>6. ASSUME NEW j \in Item \ {i} PROVE ItemOK(j)'
  BY <1>1, <1>6 DEF ItemsOK, ItemOK, Single
<1>7. ItemsOK'
  BY <1>5, <1>6 DEF ItemsOK
<1>8. AdvanceOK'
  BY <1>1 DEF AdvanceOK, Single, ClockTyped
<1> QED
  BY <1>3, <1>7, <1>8

\* A function without delay has fired and is never pending.
LEMMA AfterFuncNowKeepsInv ==
  ASSUME ClockInv, NEW i \in Item, AfterFuncNow(i)
  PROVE  ClockInv'
<1> USE ClockAssumption DEF ClockInv, AfterFuncNow, ClockFree
<1>1. /\ item'[i] = NewItem("func", now, 0, TRUE)
      /\ \A j \in Item \ {i} : item'[j] = item[j] /\ born'[j] = born[j] /\ fires'[j] = fires[j]
      /\ born'[i] = now /\ fires'[i] = 1
  BY DEF ClockTyped
<1>2. item'[i].kind = "func" /\ item'[i].run = TRUE
  BY <1>1 DEF NewItem
<1>3. ClockTyped'
  BY DEF ClockTyped, Kind, NewItem
<1>4. i \notin pending /\ i \notin stopTrue /\ i \notin resetting
  BY DEF ItemsOK, ItemOK
<1>5. ItemOK(i)'
  BY <1>1, <1>2, <1>4 DEF ItemOK, Single
<1>6. ASSUME NEW j \in Item \ {i} PROVE ItemOK(j)'
  BY <1>1, <1>6 DEF ItemsOK, ItemOK, Single
<1>7. AdvanceOK'
  BY <1>1, <1>4 DEF AdvanceOK, Single, ClockTyped
<1> QED
  BY <1>3, <1>5, <1>6, <1>7 DEF ItemsOK

\* The record of one item, with one field or two changed.
LEMMA StoppedItem ==
  ASSUME ClockTyped, NEW i \in Item, item' = [item EXCEPT ![i].stopped = TRUE]
  PROVE  /\ item' \in [Item -> [kind : Kind, due : Int, period : Int,
                                stopped : BOOLEAN, run : BOOLEAN]]
         /\ \A j \in Item : /\ item'[j].kind = item[j].kind /\ item'[j].due = item[j].due
                            /\ item'[j].period = item[j].period /\ item'[j].run = item[j].run
                            /\ item'[j].stopped = IF j = i THEN TRUE ELSE item[j].stopped
  BY DEF ClockTyped

LEMMA RunItem ==
  ASSUME ClockTyped, NEW i \in Item, item' = [item EXCEPT ![i].run = TRUE]
  PROVE  /\ item' \in [Item -> [kind : Kind, due : Int, period : Int,
                                stopped : BOOLEAN, run : BOOLEAN]]
         /\ \A j \in Item : /\ item'[j].kind = item[j].kind /\ item'[j].due = item[j].due
                            /\ item'[j].period = item[j].period
                            /\ item'[j].stopped = item[j].stopped
                            /\ item'[j].run = IF j = i THEN TRUE ELSE item[j].run
  BY DEF ClockTyped

LEMMA PeriodItem ==
  ASSUME ClockTyped, NEW i \in Item, NEW d \in Int, item' = [item EXCEPT ![i].period = d]
  PROVE  /\ item' \in [Item -> [kind : Kind, due : Int, period : Int,
                                stopped : BOOLEAN, run : BOOLEAN]]
         /\ \A j \in Item : /\ item'[j].kind = item[j].kind /\ item'[j].due = item[j].due
                            /\ item'[j].period = IF j = i THEN d ELSE item[j].period
                            /\ item'[j].stopped = item[j].stopped /\ item'[j].run = item[j].run
  BY DEF ClockTyped

LEMMA DueItem ==
  ASSUME ClockTyped, NEW i \in Item, NEW d \in Int, item' = [item EXCEPT ![i].due = d]
  PROVE  /\ item' \in [Item -> [kind : Kind, due : Int, period : Int,
                                stopped : BOOLEAN, run : BOOLEAN]]
         /\ \A j \in Item : /\ item'[j].kind = item[j].kind
                            /\ item'[j].due = IF j = i THEN d ELSE item[j].due
                            /\ item'[j].period = item[j].period
                            /\ item'[j].stopped = item[j].stopped /\ item'[j].run = item[j].run
  BY DEF ClockTyped

\* The timer is stopped, whatever happens to its channel at the same time.
LEMMA TimerStopKeepsInv ==
  ASSUME ClockInv, NEW i \in Item, TimerStop(i),
         buf' = buf \/ buf' = [buf EXCEPT ![i] = NoTime],
         sleep' \in [Item -> {"no", "wait", "slept", "cancelled"}],
         UNCHANGED <<now, pending, newPending, born, fires, adv, left, cur, resetting>>
  PROVE  ClockInv'
<1> USE DEF ClockInv, TimerStop
<1>0. /\ item' \in [Item -> [kind : Kind, due : Int, period : Int,
                             stopped : BOOLEAN, run : BOOLEAN]]
      /\ \A j \in Item : /\ item'[j].kind = item[j].kind /\ item'[j].due = item[j].due
                         /\ item'[j].period = item[j].period /\ item'[j].run = item[j].run
                         /\ item'[j].stopped = IF j = i THEN TRUE ELSE item[j].stopped
  BY StoppedItem
<1>1. buf' \in [Item -> Nat \cup {NoTime}] /\ \A j \in Item : buf[j] = NoTime => buf'[j] = NoTime
  BY DEF ClockTyped
<1>2. ClockTyped'
  BY <1>0, <1>1 DEF ClockTyped
<1>3. ASSUME NEW j \in Item PROVE ItemOK(j)'
  BY <1>0, <1>1, <1>3 DEF ItemsOK, ItemOK, Single
<1>4. AdvanceOK'
  BY <1>0 DEF AdvanceOK, Single, ClockTyped
<1> QED
  BY <1>2, <1>3, <1>4 DEF ItemsOK

LEMMA StopKeepsInv ==
  ASSUME ClockInv, NEW i \in Item, Stop(i)
  PROVE  ClockInv'
<1>1. CASE TimerStop(i)
  BY <1>1, TimerStopKeepsInv DEF Stop, ClockInv, ClockTyped
<1>2. CASE item[i].kind = "ticker" /\ item' = [item EXCEPT ![i].stopped = TRUE] /\ UNCHANGED stopTrue
  <2> USE <1>2 DEF ClockInv, Stop
  <2>0. /\ item' \in [Item -> [kind : Kind, due : Int, period : Int,
                               stopped : BOOLEAN, run : BOOLEAN]]
        /\ \A j \in Item : /\ item'[j].kind = item[j].kind /\ item'[j].due = item[j].due
                           /\ item'[j].period = item[j].period /\ item'[j].run = item[j].run
                           /\ item'[j].stopped = IF j = i THEN TRUE ELSE item[j].stopped
    BY StoppedItem
  <2>2. ClockTyped'
    BY <2>0 DEF ClockTyped
  <2>3. ASSUME NEW j \in Item PROVE ItemOK(j)'
    BY <2>0, <2>3 DEF ItemsOK, ItemOK, Single
  <2>4. AdvanceOK'
    BY <2>0 DEF AdvanceOK, Single, ClockTyped
  <2> QED
    BY <2>2, <2>3, <2>4 DEF ItemsOK
<1> QED
  BY <1>1, <1>2 DEF Stop

\* A channel is emptied, or the flag consumed.
LEMMA ReceiveKeepsInv ==
  ASSUME ClockInv, WaitForNewPendingTask \/ \E i \in Item : Receive(i)
  PROVE  ClockInv'
<1> USE DEF ClockInv, WaitForNewPendingTask, Receive, itemVars
<1>0. /\ \A j \in Item : buf[j] = NoTime => buf'[j] = NoTime
      /\ UNCHANGED <<now, pending, item, sleep, born, fires, stopTrue, adv, left, cur, resetting>>
  BY DEF ClockTyped
<1>1. ClockTyped'
  BY DEF ClockTyped
<1>2. ASSUME NEW j \in Item PROVE ItemOK(j)'
  BY <1>0, <1>2 DEF ItemsOK, ItemOK, Single
<1>3. AdvanceOK'
  BY <1>0 DEF AdvanceOK, Single
<1> QED
  BY <1>1, <1>2, <1>3 DEF ItemsOK

\* A Reset changes the period at once, the next tick only with the clock's lock:
\* an AdvanceTime that has found the ticker due finds it so still.
LEMMA ResetKeepsInv ==
  ASSUME ClockInv, NEW i \in Item, ResetNow(i) \/ \E d \in Duration : ResetLock(i, d)
  PROVE  ClockInv'
<1> USE ClockAssumption DEF ClockInv
<1>1. ASSUME NEW d \in Duration, ResetLock(i, d) PROVE ClockInv'
  <2> USE <1>1 DEF ResetLock
  <2>0. /\ item' \in [Item -> [kind : Kind, due : Int, period : Int,
                               stopped : BOOLEAN, run : BOOLEAN]]
        /\ \A j \in Item : /\ item'[j].kind = item[j].kind /\ item'[j].due = item[j].due
                           /\ item'[j].period = IF j = i THEN d ELSE item[j].period
                           /\ item'[j].stopped = item[j].stopped /\ item'[j].run = item[j].run
    BY PeriodItem
  <2>1. ClockTyped'
    BY <2>0 DEF ClockTyped
  <2>2. ASSUME NEW j \in Item PROVE ItemOK(j)'
    BY <2>0, <2>2 DEF ItemsOK, ItemOK, Single
  <2>3. AdvanceOK'
    BY <2>0 DEF AdvanceOK, Single, ClockTyped
  <2> QED
    BY <2>1, <2>2, <2>3 DEF ItemsOK
<1>2. CASE ResetNow(i)
  <2> USE <1>2 DEF ResetNow, Held, ClockFree
  <2>0. /\ item' \in [Item -> [kind : Kind, due : Int, period : Int,
                               stopped : BOOLEAN, run : BOOLEAN]]
        /\ \A j \in Item : /\ item'[j].kind = item[j].kind
                           /\ item'[j].due = IF j = i THEN now + item[i].period ELSE item[j].due
                           /\ item'[j].period = item[j].period
                           /\ item'[j].stopped = item[j].stopped /\ item'[j].run = item[j].run
    <3>1. now + item[i].period \in Int
      BY DEF ClockTyped
    <3> QED
      BY <3>1, DueItem
  <2>1. born' \in [Item -> Nat] /\ \A j \in Item : born'[j] = IF j = i THEN now ELSE born[j]
    BY DEF ClockTyped
  <2>2. ClockTyped'
    BY <2>0, <2>1 DEF ClockTyped
  <2>3. ASSUME NEW j \in Item PROVE ItemOK(j)'
    BY <2>0, <2>1, <2>3 DEF ItemsOK, ItemOK, Single
  <2>4. AdvanceOK'
    BY <2>0, <2>1 DEF AdvanceOK, ItemsOK, ItemOK, Single, ClockTyped
  <2> QED
    BY <2>2, <2>3, <2>4 DEF ItemsOK
<1> QED
  BY <1>1, <1>2

\* Everything pending is looked at, however far time moves on.
LEMMA AdvanceBeginKeepsInv ==
  ASSUME ClockInv, NEW d \in Nat, AdvanceBegin(d)
  PROVE  ClockInv'
<1> USE DEF ClockInv, AdvanceBegin, itemVars, ClockFree
<1>1. ClockTyped'
  BY DEF ClockTyped
<1>2. ASSUME NEW j \in Item PROVE ItemOK(j)'
  BY <1>2 DEF ItemsOK, ItemOK, Single
<1>3. AdvanceOK'
  BY DEF AdvanceOK
<1> QED
  BY <1>1, <1>2, <1>3 DEF ItemsOK

LEMMA LookKeepsInv ==
  ASSUME ClockInv, AdvanceEnd \/ \E i \in Item : IsDue(i)
  PROVE  ClockInv'
<1> USE DEF ClockInv, itemVars
<1>1. CASE AdvanceEnd
  <2> USE <1>1 DEF AdvanceEnd
  <2>1. ClockTyped'
    BY DEF ClockTyped
  <2>2. ASSUME NEW j \in Item PROVE ItemOK(j)'
    BY <2>2 DEF ItemsOK, ItemOK, Single
  <2>3. AdvanceOK'
    BY DEF AdvanceOK, Single
  <2> QED
    BY <2>1, <2>2, <2>3 DEF ItemsOK
<1>2. ASSUME NEW i \in Item, IsDue(i) PROVE ClockInv'
  <2> USE <1>2 DEF IsDue, Due
  <2>1. ClockTyped'
    BY DEF ClockTyped
  <2>2. ASSUME NEW j \in Item PROVE ItemOK(j)'
    BY <2>2 DEF ItemsOK, ItemOK, Single
  <2>3. AdvanceOK'
    BY DEF AdvanceOK, Single, ClockTyped
  <2> QED
    BY <2>1, <2>2, <2>3 DEF ItemsOK
<1> QED
  BY <1>1, <1>2

\* What is fired is out of pending, or a ticker.
LEMMA FireKeepsInv ==
  ASSUME ClockInv, NEW i \in Item, Fire(i)
  PROVE  ClockInv'
<1> USE ClockAssumption DEF ClockInv, Fire
<1>0. i \in pending /\ i \notin left /\ item[i].due <= now /\ adv = "fire" /\ i = cur
  BY DEF AdvanceOK
<1>1. CASE FireTask(i)
  <2> USE <1>1 DEF FireTask
  <2>0. /\ fires' \in [Item -> Nat] /\ buf' \in [Item -> Nat \cup {NoTime}]
        /\ fires'[i] = fires[i] + 1
        /\ \A j \in Item \ {i} : fires'[j] = fires[j] /\ buf'[j] = buf[j]
    BY DEF ClockTyped
  <2>1. ClockTyped'
    BY <2>0 DEF ClockTyped
  <2>2. ASSUME NEW j \in Item PROVE ItemOK(j)'
    BY <1>0, <2>0, <2>2 DEF ItemsOK, ItemOK, Single
  <2>3. AdvanceOK'
    BY <1>0 DEF AdvanceOK, Single
  <2> QED
    BY <2>1, <2>2, <2>3 DEF ItemsOK
<1>2. CASE FireTimer(i) /\ item[i].stopped
  <2> USE <1>2 DEF FireTimer
  <2>1. ClockTyped'
    BY DEF ClockTyped
  <2>2. ASSUME NEW j \in Item PROVE ItemOK(j)'
    BY <1>0, <2>2 DEF ItemsOK, ItemOK, Single
  <2>3. AdvanceOK'
    BY <1>0 DEF AdvanceOK, Single
  <2> QED
    BY <2>1, <2>2, <2>3 DEF ItemsOK
<1>3. CASE FireTimer(i) /\ ~item[i].stopped
  <2> USE <1>3 DEF FireTimer
  <2>0. /\ item' \in [Item -> [kind : Kind, due : Int, period : Int,
                               stopped : BOOLEAN, run : BOOLEAN]]
        /\ \A j \in Item : /\ item'[j].kind = item[j].kind /\ item'[j].due = item[j].due
                           /\ item'[j].period = item[j].period
                           /\ item'[j].stopped = item[j].stopped
                           /\ item'[j].run = IF j = i THEN TRUE ELSE item[j].run
    BY RunItem
  <2>1. /\ fires' \in [Item -> Nat] /\ fires'[i] = fires[i] + 1
        /\ \A j \in Item \ {i} : fires'[j] = fires[j]
    BY DEF ClockTyped
  <2>2. /\ buf' \in [Item -> Nat \cup {NoTime}]
        /\ \A j \in Item \ {i} : buf'[j] = buf[j]
    BY DEF ClockTyped
  <2>3. ClockTyped'
    BY <2>0, <2>1, <2>2 DEF ClockTyped
  <2>4. ASSUME NEW j \in Item PROVE ItemOK(j)'
    BY <1>0, <2>0, <2>1, <2>2, <2>4 DEF ItemsOK, ItemOK, Single
  <2>5. AdvanceOK'
    BY <1>0, <2>0 DEF AdvanceOK, Single, ClockTyped
  <2> QED
    BY <2>3, <2>4, <2>5 DEF ItemsOK
<1>4. CASE FireTicker(i) /\ (item[i].stopped \/ buf[i] # NoTime)
  <2> USE <1>4 DEF FireTicker
  <2>1. ClockTyped'
    BY DEF ClockTyped
  <2>2. ASSUME NEW j \in Item PROVE ItemOK(j)'
    BY <1>0, <2>2 DEF ItemsOK, ItemOK, Single
  <2>3. AdvanceOK'
    BY <1>0 DEF AdvanceOK, Single
  <2> QED
    BY <2>1, <2>2, <2>3 DEF ItemsOK
<1>5. CASE FireTicker(i) /\ ~(item[i].stopped \/ buf[i] # NoTime)
  <2> USE <1>5 DEF FireTicker
  <2>0. /\ item' \in [Item -> [kind : Kind, due : Int, period : Int,
                               stopped : BOOLEAN, run : BOOLEAN]]
        /\ \A j \in Item : /\ item'[j].kind = item[j].kind
                           /\ item'[j].due = IF j = i THEN now + item[i].period ELSE item[j].due
                           /\ item'[j].period = item[j].period
                           /\ item'[j].stopped = item[j].stopped /\ item'[j].run = item[j].run
    <3>1. now + item[i].period \in Int
      BY DEF ClockTyped
    <3> QED
      BY <3>1, DueItem
  <2>1. /\ fires' \in [Item -> Nat] /\ buf' \in [Item -> Nat \cup {NoTime}]
        /\ born' \in [Item -> Nat] /\ born'[i] = now
        /\ \A j \in Item \ {i} : fires'[j] = fires[j] /\ buf'[j] = buf[j] /\ born'[j] = born[j]
    <3>0. /\ buf' = [buf EXCEPT ![i] = now] /\ born' = [born EXCEPT ![i] = now]
          /\ fires' = [fires EXCEPT ![i] = @ + 1]
      OBVIOUS
    <3>1. now \in Nat /\ fires \in [Item -> Nat] /\ born \in [Item -> Nat]
            /\ buf \in [Item -> Nat \cup {NoTime}]
      BY DEF ClockTyped
    <3> HIDE <1>5 DEF ClockInv, Fire, FireTicker
    <3> QED
      BY <3>0, <3>1
  <2>2. ClockTyped'
    BY <2>0, <2>1 DEF ClockTyped
  <2>3. ASSUME NEW j \in Item PROVE ItemOK(j)'
    BY <1>0, <2>0, <2>1, <2>3 DEF ItemsOK, ItemOK, Single
  <2>4. AdvanceOK'
    BY <1>0, <2>0, <2>1 DEF AdvanceOK, Single, ClockTyped
  <2> QED
    BY <2>2, <2>3, <2>4 DEF ItemsOK
<1> QED
  BY <1>1, <1>2, <1>3, <1>4, <1>5

LEMMA UseKeepsInv ==
  ASSUME ClockInv, Use
  PROVE  ClockInv'
<1> USE ClockAssumption
<1>1. ASSUME NEW i \in Item, NEW d \in Duration,
             After(i, d) \/ NewTimer(i, d) \/ NewTicker(i, d) \/ SleepCtx(i, d)
      PROVE  ClockInv'
  <2>1. sleep' \in [Item -> {"no", "wait", "slept", "cancelled"}]
    BY <1>1 DEF ClockInv, ClockTyped, After, NewTimer, NewTicker, SleepCtx
  <2> QED
    BY <1>1, <2>1, MakeKeepsInv DEF After, NewTimer, NewTicker, SleepCtx
<1>2. ASSUME NEW i \in Item, NEW d \in Duration, AfterFunc(i, d)
      PROVE  ClockInv'
  <2>1. AfterFuncNow(i) => ClockInv'
    BY AfterFuncNowKeepsInv
  <2>2. UNCHANGED sleep => sleep' \in [Item -> {"no", "wait", "slept", "cancelled"}]
    BY DEF ClockInv, ClockTyped
  <2> QED
    BY <1>2, <2>1, <2>2, MakeKeepsInv DEF AfterFunc
<1>3. ASSUME NEW i \in Item, SleepCancelled(i)
      PROVE  ClockInv'
  <2>1. sleep' \in [Item -> {"no", "wait", "slept", "cancelled"}]
    BY <1>3 DEF ClockInv, ClockTyped, SleepCancelled
  <2> QED
    BY <1>3, <2>1, TimerStopKeepsInv DEF SleepCancelled
<1> QED
  BY <1>1, <1>2, <1>3, ResetKeepsInv, StopKeepsInv, ReceiveKeepsInv DEF Use

LEMMA ProceedKeepsInv ==
  ASSUME ClockInv, Proceed
  PROVE  ClockInv'
<1>1. ASSUME NEW i \in Item, SleepWakes(i)
      PROVE  ClockInv'
  <2>1. sleep' \in [Item -> {"no", "wait", "slept", "cancelled"}]
    BY <1>1 DEF ClockInv, ClockTyped, SleepWakes
  <2> QED
    BY <1>1, <2>1, TimerStopKeepsInv DEF SleepWakes
<1> QED
  BY <1>1, ResetKeepsInv, LookKeepsInv, FireKeepsInv DEF Proceed

-----------------------------------------------------------------------------
(* The advancing clock. *)

\* The part of TypeOK about the goroutine and its owner.
LoopTyped == /\ sys \in Nat /\ tick \in Nat \cup {NoTime} /\ ticking \in BOOLEAN
             /\ running \in BOOLEAN
             /\ loop \in {"none", "select", "tick", "advance", "store"}
             /\ got \in Nat /\ lastTick \in Nat /\ byTick \in BOOLEAN
             /\ stopping \in BOOLEAN /\ user \in Nat

\* There is one goroutine at most; a tick it follows is newer than the last; the
\* time it adds arrives with AdvanceTime, before lastTick says so.
LoopOK == /\ stopping => ~running
          /\ loop = "none" => ~running
          /\ loop = "none" => ~stopping
          /\ loop # "none" => running \/ stopping
          /\ byTick => loop = "advance"
          /\ loop = "advance" => byTick
          /\ loop = "advance" => adv # "idle"
          /\ loop = "tick" => got > lastTick
          /\ loop \in {"none", "select", "tick"} => now = lastTick + user
          /\ loop \in {"advance", "store"} => now = got + user

AdvancingInv == ClockInv /\ LoopTyped /\ LoopOK

LEMMA AdvancingInvInit == Init => AdvancingInv
<1> SUFFICES ASSUME Init PROVE AdvancingInv
  OBVIOUS
<1> USE ClockAssumption DEF Init, ClockInit
<1>0. /\ item \in [Item -> [kind : Kind, due : Int, period : Int, stopped : BOOLEAN, run : BOOLEAN]]
      /\ \A i \in Item : item[i].kind = "none"
  BY DEF NewItem, Kind
<1>1. ClockTyped
  BY <1>0 DEF ClockTyped
<1>2. ItemsOK /\ AdvanceOK
  BY <1>0 DEF ItemsOK, ItemOK, Single, AdvanceOK
<1>3. LoopTyped
  BY DEF LoopTyped
<1>4. LoopOK
  BY DEF LoopOK
<1> QED
  BY <1>1, <1>2, <1>3, <1>4 DEF AdvancingInv, ClockInv

LEMMA ClockStepKeepsInv ==
  ASSUME AdvancingInv, Use \/ Proceed, UNCHANGED advancingVars
  PROVE  AdvancingInv'
<1>1. ClockInv'
  BY UseKeepsInv, ProceedKeepsInv DEF AdvancingInv
<1>2. now' = now /\ (adv' = "idle" <=> adv = "idle")
  <2>1. ASSUME Use PROVE now' = now /\ adv' = adv
    BY <2>1 DEF Use, WaitForNewPendingTask, After, AfterFunc, AfterFuncNow, NewTimer, NewTicker,
         SleepCtx, ResetLock, Stop, Receive, SleepCancelled, Make
  <2>2. ASSUME Proceed PROVE now' = now /\ (adv' = "idle" <=> adv = "idle")
    BY <2>2 DEF Proceed, SleepWakes, ResetNow, IsDue, Fire
  <2> QED
    BY <2>1, <2>2
<1>3. LoopTyped' /\ LoopOK'
  BY <1>2 DEF AdvancingInv, LoopTyped, LoopOK, advancingVars
<1> QED
  BY <1>1, <1>3 DEF AdvancingInv

LEMMA ClockUnchanged ==
  ASSUME ClockInv, UNCHANGED clockVars
  PROVE  ClockInv'
  BY DEF ClockInv, ClockTyped, ItemsOK, ItemOK, Single, AdvanceOK, clockVars, itemVars

LEMMA AdvancingInvNext == AdvancingInv /\ [Next]_vars => AdvancingInv'
<1> SUFFICES ASSUME AdvancingInv, [Next]_vars PROVE AdvancingInv'
  OBVIOUS
<1> USE ClockAssumption, AdvancingAssumption DEF AdvancingInv
<1>1. CASE (Use \/ Proceed) /\ UNCHANGED advancingVars
  BY <1>1, ClockStepKeepsInv
<1>2. CASE OnTick
  <2>1. got - lastTick \in Nat
    BY <1>2 DEF OnTick, LoopTyped, LoopOK
  <2>2. ClockInv'
    BY <1>2, <2>1, AdvanceBeginKeepsInv DEF OnTick
  <2>3. LoopTyped' /\ LoopOK'
    BY <1>2 DEF OnTick, AdvanceBegin, LoopTyped, LoopOK, ClockInv, ClockTyped
  <2> QED
    BY <2>2, <2>3
<1>3. ASSUME NEW d \in Step, AdvanceTime(d) PROVE AdvancingInv'
  <2>1. ClockInv'
    BY <1>3, AdvanceBeginKeepsInv DEF AdvanceTime
  <2>2. /\ adv = "idle" /\ adv' = "loop" /\ now' = now + d /\ now \in Nat /\ d \in Nat
        /\ user' = user + d /\ byTick' = FALSE
        /\ UNCHANGED <<sys, tick, ticking, running, loop, got, lastTick, stopping>>
    BY <1>3 DEF AdvanceTime, AdvanceBegin, ClockFree, ClockInv, ClockTyped
  <2>3. LoopTyped'
    <3>1. {ticking', running', byTick', stopping'} \subseteq BOOLEAN
      BY <2>2, Zenon DEF LoopTyped
    <3>2. user' \in Nat
      BY <2>2 DEF LoopTyped
    <3> QED
      BY <2>2, <3>1, <3>2, Zenon DEF LoopTyped
  <2>4. LoopOK'
    BY <2>2 DEF LoopOK, LoopTyped
  <2> QED
    BY <2>1, <2>3, <2>4
<1>4. CASE AdvanceReturn
  <2>1. ClockInv'
    BY <1>4, LookKeepsInv DEF AdvanceReturn
  <2>2. LoopTyped' /\ LoopOK'
    BY <1>4 DEF AdvanceReturn, AdvanceEnd, LoopTyped, LoopOK
  <2> QED
    BY <2>1, <2>2
<1>5. CASE SetLastTick \/ SysTick \/ Start \/ StopTicker \/ Quit \/ ReceiveTick \/ UNCHANGED vars
  <2>1. UNCHANGED clockVars
    BY <1>5 DEF SetLastTick, SysTick, Start, StopTicker, Quit, ReceiveTick, vars
  <2>2. ClockInv'
    BY <2>1, ClockUnchanged
  <2>3. now' = now /\ adv' = adv
    BY <2>1 DEF clockVars
  <2>4. LoopTyped'
    <3>1. CASE SysTick
      <4>1. sys' \in Nat /\ tick' \in Nat \cup {NoTime}
        BY <3>1 DEF SysTick, LoopTyped
      <4> QED
        BY <3>1, <4>1, Zenon DEF SysTick, LoopTyped
    <3>2. CASE ReceiveTick
      <4>1. got' \in Nat /\ tick' = NoTime /\ loop' \in {"tick", "select"}
        BY <3>2 DEF ReceiveTick, LoopTyped
      <4> QED
        BY <3>2, <4>1, Zenon DEF ReceiveTick, LoopTyped
    <3>3. CASE SetLastTick \/ Start \/ StopTicker \/ Quit
      BY <3>3, Zenon DEF SetLastTick, Start, StopTicker, Quit, LoopTyped
    <3>4. CASE UNCHANGED vars
      BY <3>4, Zenon DEF vars, advancingVars, LoopTyped
    <3> QED
      BY <1>5, <3>1, <3>2, <3>3, <3>4
  <2>5. LoopOK'
    <3>1. CASE SetLastTick \/ ReceiveTick
      BY <2>3, <3>1 DEF SetLastTick, ReceiveTick, LoopTyped, LoopOK
    <3>2. CASE SysTick \/ UNCHANGED vars
      BY <2>3, <3>2 DEF SysTick, vars, advancingVars, LoopOK
    <3>3. CASE Start \/ StopTicker \/ Quit
      BY <2>3, <3>3 DEF Start, StopTicker, Quit, LoopTyped, LoopOK
    <3> QED
      BY <1>5, <3>1, <3>2, <3>3
  <2> QED
    BY <2>2, <2>4, <2>5
<1> QED
  BY <1>1, <1>2, <1>3, <1>4, <1>5 DEF Next, Underway

-----------------------------------------------------------------------------
(* The theorems. *)

\* The clock and the goroutine stay within their types.
THEOREM ClockIsTyped == Spec => []TypeOK
<1>1. AdvancingInv => TypeOK
  BY DEF AdvancingInv, ClockInv, ClockTyped, LoopTyped, TypeOK
<1> QED
  BY <1>1, AdvancingInvInit, AdvancingInvNext, PTL DEF Spec

\* AdvanceTime loses no task or timer and fires none twice.
THEOREM NothingLost == Spec => []NoneLost
<1>1. AdvancingInv => NoneLost
  BY DEF AdvancingInv, ClockInv, ClockTyped, ItemsOK, ItemOK, AdvanceOK, Single, NoneLost
<1> QED
  BY <1>1, AdvancingInvInit, AdvancingInvNext, PTL DEF Spec

\* A timer whose Stop returned true does not fire, whatever AdvanceTime had seen.
THEOREM StopHolds == Spec => []StopPrevents
<1>1. AdvancingInv => StopPrevents
  BY DEF AdvancingInv, ClockInv, ClockTyped, ItemsOK, ItemOK, StopPrevents
<1> QED
  BY <1>1, AdvancingInvInit, AdvancingInvNext, PTL DEF Spec

\* The advancing clock does not drift from the system's clock.
THEOREM ClockKeepsTime == Spec => []NoDrift
<1>1. AdvancingInv => NoDrift
  BY DEF AdvancingInv, LoopOK, NoDrift
<1> QED
  BY <1>1, AdvancingInvInit, AdvancingInvNext, PTL DEF Spec

\* A ticker ticks only when the period of its last Reset has passed and it is not
\* stopped, although AdvanceTime looks at it twice with its lock given back in
\* between.
THEOREM TicksKeepApart == Spec => TicksApart
<1> DEFINE Apart == \A i \in Item : (item[i].kind = "ticker" /\ fires'[i] # fires[i]) =>
                      /\ ~item[i].stopped
                      /\ now >= born[i] + item[i].period
<1>1. AdvancingInv /\ [Next]_vars => [Apart]_vars
  <2> SUFFICES ASSUME AdvancingInv, Next, NEW i \in Item,
                      item[i].kind = "ticker", fires'[i] # fires[i]
               PROVE  /\ ~item[i].stopped
                      /\ now >= born[i] + item[i].period
    BY DEF vars
  <2> USE DEF AdvancingInv
  <2>1. fires \in [Item -> Nat]
    BY DEF ClockInv, ClockTyped
  <2>2. ~Use
    <3>1. ASSUME NEW j \in Item, item[j].kind = "none", NEW x, fires' = [fires EXCEPT ![j] = x]
          PROVE  FALSE
      BY <2>1, <3>1
    <3>2. ASSUME NEW j \in Item, NEW d \in Duration PROVE ~After(j, d)
      BY <3>1 DEF After, Make
    <3>3. ASSUME NEW j \in Item, NEW d \in Duration PROVE ~AfterFunc(j, d)
      BY <3>1 DEF AfterFunc, AfterFuncNow
    <3> QED
      BY <3>2, <3>3 DEF Use, WaitForNewPendingTask, NewTimer, NewTicker, SleepCtx, ResetLock,
           Stop, Receive, SleepCancelled, itemVars
  <2>3. ~(\/ AdvanceReturn \/ OnTick \/ SetLastTick \/ (\E d \in Step : AdvanceTime(d))
          \/ SysTick \/ Start \/ StopTicker \/ Quit \/ ReceiveTick)
    BY DEF AdvanceReturn, AdvanceEnd, OnTick, AdvanceBegin, SetLastTick, AdvanceTime, SysTick,
         Start, StopTicker, Quit, ReceiveTick, clockVars, itemVars
  <2>4. PICK j \in Item : Fire(j)
    BY <2>2, <2>3 DEF Next, Underway, Proceed, SleepWakes, ResetNow, IsDue, itemVars
  <2>5. j = i
    BY <2>1, <2>4 DEF Fire, FireTask, FireTimer, FireTicker
  <2>6. ~item[i].stopped /\ i \notin resetting
    BY <2>4, <2>5 DEF Fire, FireTask, FireTimer, FireTicker, Held
  <2>7. item[i].due <= now /\ item[i].due = born[i] + item[i].period
    BY <2>4, <2>5, <2>6 DEF Fire, ClockInv, AdvanceOK, ItemsOK, ItemOK
  <2> QED
    BY <2>6, <2>7
<1> QED
  BY <1>1, AdvancingInvInit, AdvancingInvNext, PTL DEF Spec, TicksApart
=============================================================================
