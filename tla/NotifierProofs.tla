--------------------------- MODULE NotifierProofs ---------------------------
(***************************************************************************)
(* What holds of the notifier beside the internal worker for every number *)
(* of businesses, rows, attempts and failures: a row is posted at most    *)
(* once for each time it was made ready, and nothing is posted or marked  *)
(* after Stop.                                                            *)
(***************************************************************************)
EXTENDS Notifier, TLAPS

-----------------------------------------------------------------------------
(* The inductive invariant. *)

\* The two tasks at each of their places: a list that is worked off, and attempts
\* that are left.
Places == /\ iw \notin {"send", "failed"} => ipending = {}
          /\ iw \in {"send", "retry", "attempt"} => iattempts < MaxAttempts
          /\ nf \in {"retry", "attempt"} => nattempts < MaxAttempts

\* Stop returns only after the task.
StoppedIsOver == nmain = "closed" => nf \in {"failed", "done"}

\* A row that waits to be marked, and how often it could still be listed as it is.
Ready(r) == status[r] = NotifyStatus(Table[r])
Open(r) == IF Ready(r) THEN 1 ELSE 0

\* A row in the list whose request is still to be made.
Listed(r) == r \in nlist /\ nf \in {"retry", "attempt"} /\ phase = "before"
Due(r) == r \in nlist /\ nf = "post"

\* Every time a row was made ready stands for at most one post: one that is done,
\* one that is due, or one that its status still asks for.  Until the list is
\* marked the status of a listed row asks for the same post as the list, if it is
\* still what it was; a row that is given another status meanwhile, and then is
\* made ready once more, is counted once more.
Counted == \A r \in Row : /\ ~Listed(r) /\ ~Due(r) => posted[r] + Open(r) <= ready[r]
                          /\ Listed(r) => posted[r] + 1 <= ready[r]
                          /\ Due(r) => posted[r] + 1 + Open(r) <= ready[r]

NotifierInv == /\ TypeOK
               /\ Places
               /\ StoppedIsOver
               /\ Counted

-----------------------------------------------------------------------------
(* The rows. *)

\* What others do to a row: each time it becomes ready is counted, and none becomes
\* marked.
RowsKept == /\ status' \in [Row -> TxStatus] /\ ready' \in [Row -> Nat]
            /\ \A r \in Row : ready[r] <= ready'[r] /\ Open(r)' + ready[r] <= Open(r) + ready'[r]
            /\ \A r \in Row : status'[r] = "notified" => status[r] = "notified"

LEMMA OpenIs == \A r \in Row : Open(r) \in {0, 1}
BY DEF Open

LEMMA UpdateKeepsRows ==
  ASSUME TypeOK, status' = UpdateInternalStatus(status, "done_success", ilist), UNCHANGED ready
  PROVE  RowsKept
<1>1. status' = status
  BY DEF TypeOK, UpdateInternalStatus
<1>2. \A r \in Row : Open(r)' = Open(r) /\ Open(r) \in {0, 1} /\ ready[r] \in Nat
  BY <1>1, OpenIs DEF Open, Ready, TypeOK
<1> QED BY <1>1, <1>2 DEF TypeOK, RowsKept

LEMMA SetStatusKeepsRows ==
  ASSUME TypeOK, NEW q \in Row, NEW new \in TxStatus \ {"notified"}, SetStatus(q, new)
  PROVE  RowsKept
<1>1. /\ status' = [status EXCEPT ![q] = new] /\ status \in [Row -> TxStatus]
      /\ ready \in [Row -> Nat] /\ status' \in [Row -> TxStatus]
  BY DEF SetStatus, TypeOK
<1>2. CASE new = NotifyStatus(Table[q])
  <2>1. ready' = [ready EXCEPT ![q] = @ + 1]
    BY <1>2 DEF SetStatus
  <2>2. ASSUME NEW r \in Row
        PROVE  ready[r] <= ready'[r] /\ Open(r)' + ready[r] <= Open(r) + ready'[r]
    <3>1. Open(r) \in {0, 1} /\ Open(r)' \in {0, 1}
      BY DEF Open
    <3>2. CASE r = q
      BY <1>1, <2>1, <3>1, <3>2
    <3>3. CASE r # q
      <4>1. Open(r)' = Open(r) /\ ready'[r] = ready[r]
        BY <1>1, <2>1, <3>3 DEF Open, Ready
      <4> QED BY <1>1, <3>1, <4>1
    <3> QED BY <3>2, <3>3
  <2> QED BY <1>1, <2>1, <2>2 DEF RowsKept
<1>3. CASE new # NotifyStatus(Table[q])
  <2>1. UNCHANGED ready
    BY <1>3 DEF SetStatus
  <2>2. ASSUME NEW r \in Row PROVE Open(r)' <= Open(r)
    <3>1. CASE r = q
      BY <1>1, <1>3, <3>1 DEF Open, Ready
    <3>2. CASE r # q
      BY <1>1, <3>2 DEF Open, Ready
    <3> QED BY <3>1, <3>2
  <2>3. \A r \in Row : Open(r) \in {0, 1} /\ Open(r)' \in {0, 1}
    BY DEF Open
  <2> QED BY <1>1, <2>1, <2>2, <2>3 DEF RowsKept
<1> QED BY <1>2, <1>3

LEMMA InternalKeepsRows ==
  ASSUME TypeOK, InternalNext
  PROVE  RowsKept
<1> USE InternalAssumption
<1>0. ASSUME UNCHANGED <<status, ready>> PROVE RowsKept
  <2>1. \A r \in Row : Open(r)' = Open(r) /\ Open(r) \in {0, 1} /\ ready[r] \in Nat
    BY <1>0, OpenIs DEF Open, Ready, TypeOK
  <2> QED BY <1>0, <2>1 DEF TypeOK, RowsKept
<1>1. ASSUME NEW r \in Row, Outside(r)
      PROVE  RowsKept
  <2>1. PICK new \in TxStatus \ {"notified"} : SetStatus(r, new)
    BY <1>1 DEF Outside, StoreInternal, UpdateInternalTx, StoreWithdraws, UpdateWithdrawByGuuid,
         Withdrawed, WithdrawSent, AskedFor, TxStatus
  <2> QED BY <2>1, SetStatusKeepsRows
<1>2. CASE InternalAttempt
  BY <1>2, UpdateKeepsRows DEF InternalAttempt
<1>3. CASE InternalAttemptFails
  BY <1>0, <1>3, UpdateKeepsRows DEF InternalAttemptFails
<1>4. CASE \/ InternalTick \/ InternalTickDone
           \/ (\E b \in Business : ListInternals(b) \/ ListInternalsFails(b))
           \/ (\E r \in ipending : SendInternal(r))
           \/ InternalFails \/ InternalRetry \/ InternalExit
  BY <1>0, <1>4 DEF InternalTick, InternalTickDone, ListInternals, ListInternalsFails,
       SendInternal, InternalFails, InternalRetry, InternalExit, InternalFrame
<1>5. CASE InternalClose \/ InternalCrash \/ InternalStart
  BY <1>0, <1>5 DEF InternalClose, InternalCrash, InternalStart
<1> QED
  BY <1>1, <1>2, <1>3, <1>4, <1>5 DEF InternalNext, Internal

-----------------------------------------------------------------------------
(* The worker. *)

\* The worker's own variables, typed and at their places.
WorkerOK == /\ broadcast \subseteq Row
            /\ iw \in {"idle", "each", "send", "retry", "attempt", "failed", "done"}
            /\ itodo \subseteq Business /\ icur \in Business \cup {NoBusiness}
            /\ ilist \subseteq Row /\ ipending \subseteq ilist
            /\ iattempts \in 0..MaxAttempts
            /\ imain \in {"run", "await", "closed", "down"}
            /\ faults \in 0..MaxFaults
            /\ iw \notin {"send", "failed"} => ipending = {}
            /\ iw \in {"send", "retry", "attempt"} => iattempts < MaxAttempts

LEMMA InternalKeepsWorker ==
  ASSUME WorkerOK, InternalNext
  PROVE  WorkerOK'
<1> USE InternalAssumption DEF WorkerOK
<1>1. ASSUME NEW r \in Row, Outside(r)
      PROVE  WorkerOK'
  BY <1>1 DEF Outside, StoreInternal, UpdateInternalTx, StoreWithdraws, UpdateWithdrawByGuuid,
       Withdrawed, WithdrawSent, SetStatus, workerVars
<1>2. CASE InternalTick \/ InternalTickDone \/ InternalExit
  BY <1>2 DEF InternalTick, InternalTickDone, InternalExit, InternalFrame
<1>3. ASSUME NEW b \in Business, ListInternals(b)
      PROVE  WorkerOK'
  BY <1>3 DEF ListInternals, InternalFrame, UnSendInternalsList, Rows
<1>4. ASSUME NEW b \in Business, ListInternalsFails(b)
      PROVE  WorkerOK'
  BY <1>4 DEF ListInternalsFails, InternalFrame, Fault
<1>5. ASSUME NEW r \in ipending, SendInternal(r)
      PROVE  WorkerOK'
  BY <1>5 DEF SendInternal, InternalFrame, Fault
<1>6. CASE InternalFails
  BY <1>6 DEF InternalFails, InternalFrame, Fault
<1>7. CASE InternalRetry
  BY <1>7 DEF InternalRetry, InternalFrame
<1>8. CASE InternalAttempt
  BY <1>8 DEF InternalAttempt
<1>9. CASE InternalAttemptFails
  BY <1>9 DEF InternalAttemptFails, Fault, AfterFailure
<1>10. CASE InternalClose
  BY <1>10 DEF InternalClose, Fault, workerVars
<1>11. CASE InternalCrash \/ InternalStart
  BY <1>11 DEF InternalCrash, InternalStart, Fault
<1> QED
  BY <1>1, <1>2, <1>3, <1>4, <1>5, <1>6, <1>7, <1>8, <1>9, <1>10, <1>11
     DEF InternalNext, Internal

-----------------------------------------------------------------------------
(* The invariant. *)

LEMMA NotifierInvInit == Init => NotifierInv
<1> SUFFICES ASSUME Init PROVE NotifierInv
  OBVIOUS
<1> USE InternalAssumption DEF Init, InternalInit
<1>1. TypeOK
  BY DEF TypeOK, TxStatus
<1>2. Places /\ StoppedIsOver
  BY DEF Places, StoppedIsOver
<1>3. Counted
  BY DEF Counted, Listed, Due, Open, Ready, NotifyStatus
<1> QED
  BY <1>1, <1>2, <1>3 DEF NotifierInv

\* Rows change behind the notifier's back.
LEMMA SyncKeepsInv ==
  ASSUME NotifierInv, InternalNext, UNCHANGED <<known, notifierVars, nmain, posted>>
  PROVE  NotifierInv'
<1> USE DEF NotifierInv
<1>1. RowsKept
  BY InternalKeepsRows
<1>2. WorkerOK'
  <2>1. WorkerOK
    BY DEF WorkerOK, TypeOK, Places
  <2> QED
    BY <2>1, InternalKeepsWorker
<1>3. UNCHANGED <<known, ids, nf, phase, ntodo, ncur, nlist, nattempts, nmain, posted>>
  BY DEF notifierVars
<1>4. TypeOK' /\ Places'
  BY <1>1, <1>2, <1>3 DEF TypeOK, Places, WorkerOK, RowsKept
<1>5. StoppedIsOver'
  BY <1>3 DEF StoppedIsOver
<1>6. Counted'
  <2> SUFFICES ASSUME NEW r \in Row
               PROVE  (/\ ~Listed(r) /\ ~Due(r) => posted[r] + Open(r) <= ready[r]
                       /\ Listed(r) => posted[r] + 1 <= ready[r]
                       /\ Due(r) => posted[r] + 1 + Open(r) <= ready[r])'
    BY DEF Counted
  <2>1. Listed(r)' = Listed(r) /\ Due(r)' = Due(r) /\ posted'[r] = posted[r] /\ posted[r] \in Nat
    BY <1>3 DEF Listed, Due, TypeOK
  <2>2. /\ ready[r] \in Nat /\ ready'[r] \in Nat /\ ready[r] <= ready'[r]
        /\ Open(r)' + ready[r] <= Open(r) + ready'[r]
        /\ Open(r) \in {0, 1} /\ Open(r)' \in {0, 1}
    BY <1>1, OpenIs DEF RowsKept, TypeOK, Open
  <2>3. /\ ~Listed(r) /\ ~Due(r) => posted[r] + Open(r) <= ready[r]
        /\ Listed(r) => posted[r] + 1 <= ready[r]
        /\ Due(r) => posted[r] + 1 + Open(r) <= ready[r]
    BY DEF Counted
  <2> QED BY <2>1, <2>2, <2>3
<1> QED
  BY <1>4, <1>5, <1>6

\* A step of the notifier in which rows are marked or stay as they are, and each
\* row is posted, due or listed as often as before, or less.
LEMMA CountedStep ==
  ASSUME NotifierInv, status' \in {status, Marked}, UNCHANGED ready,
         \A r \in Row :
           \/ posted'[r] = posted[r] /\ ~Listed(r)' /\ ~Due(r)'
           \/ posted'[r] = posted[r] /\ Listed(r)' /\ (Listed(r) \/ (Ready(r) /\ ~Due(r)))
           \/ posted'[r] = posted[r] /\ Due(r)' /\ Listed(r) /\ ~Ready(r)'
           \/ posted'[r] = posted[r] /\ Due(r)' /\ Due(r)
           \/ posted'[r] = posted[r] + 1 /\ Due(r) /\ ~Listed(r)' /\ ~Due(r)'
  PROVE  Counted'
<1> SUFFICES ASSUME NEW r \in Row
             PROVE  (/\ ~Listed(r) /\ ~Due(r) => posted[r] + Open(r) <= ready[r]
                     /\ Listed(r) => posted[r] + 1 <= ready[r]
                     /\ Due(r) => posted[r] + 1 + Open(r) <= ready[r])'
  BY DEF Counted
<1>1. posted[r] \in Nat /\ ready[r] \in Nat
  BY DEF NotifierInv, TypeOK
<1>2. Open(r) \in {0, 1} /\ Open(r)' \in {0, 1} /\ Open(r)' <= Open(r)
  <2>1. status'[r] = status[r] \/ status'[r] = "notified"
    BY DEF Marked
  <2> QED BY <2>1 DEF Open, Ready, NotifyStatus
<1>3. Ready(r) <=> Open(r) = 1
  BY DEF Open
<1>4. Ready(r)' <=> Open(r)' = 1
  BY DEF Open
<1>5. /\ ~Listed(r) /\ ~Due(r) => posted[r] + Open(r) <= ready[r]
      /\ Listed(r) => posted[r] + 1 <= ready[r]
      /\ Due(r) => posted[r] + 1 + Open(r) <= ready[r]
  BY DEF NotifierInv, Counted
<1>6. ~(Listed(r) /\ Due(r)) /\ ~(Listed(r)' /\ Due(r)')
  BY DEF Listed, Due
<1> QED BY <1>1, <1>2, <1>3, <1>4, <1>5, <1>6

\* Marking marks every row of the list that waits.
LEMMA MarkingMarks ==
  ASSUME TypeOK
  PROVE  Marked \in [Row -> TxStatus] /\ \A r \in nlist : Marked[r] # NotifyStatus(Table[r])
  BY DEF TypeOK, Marked, NotifyStatus, TxStatus

LEMMA NotifyKeepsInv == NotifierInv /\ Notify => NotifierInv'
<1> SUFFICES ASSUME NotifierInv, Notify PROVE NotifierInv'
  OBVIOUS
<1> USE InternalAssumption DEF NotifierInv, NotifierFrame, workerVars
<1>1. CASE NotifyTick \/ NotifyTickDone \/ NotifyExit \/ NotifyFails
  <2> USE <1>1 DEF NotifyTick, NotifyTickDone, NotifyExit, NotifyFails, Fault
  <2>1. TypeOK'
    BY DEF TypeOK
  <2>2. Places' /\ StoppedIsOver'
    BY DEF Places, StoppedIsOver
  <2>3. Counted'
    <3>1. UNCHANGED <<status, ready, posted>> /\ nf' \in {"each", "idle", "done", "failed"}
      OBVIOUS
    <3> QED BY <3>1, CountedStep DEF Listed, Due
  <2> QED
    BY <2>1, <2>2, <2>3
<1>2. ASSUME NEW b \in Business, QueryNotify(b)
      PROVE  NotifierInv'
  <2> USE <1>2 DEF QueryNotify
  <2>1. TypeOK'
    BY DEF TypeOK, NotifyList
  <2>2. Places' /\ StoppedIsOver'
    BY DEF Places, StoppedIsOver
  <2>3. Counted'
    <3>1. UNCHANGED <<status, ready, posted>> /\ nf = "each" /\ nf' = "retry"
      OBVIOUS
    <3>2. \A r \in nlist' : Ready(r)
      BY DEF NotifyList, Ready
    <3> QED BY <3>1, <3>2, CountedStep DEF Listed, Due
  <2> QED
    BY <2>1, <2>2, <2>3
<1>3. CASE NotifyRetry
  <2> USE <1>3 DEF NotifyRetry
  <2>1. TypeOK'
    BY DEF TypeOK
  <2>2. Places' /\ StoppedIsOver'
    BY DEF Places, StoppedIsOver
  <2>3. Counted'
    <3>1. UNCHANGED <<status, ready, posted, nlist, phase>> /\ nf = "retry" /\ nf' = "attempt"
      OBVIOUS
    <3> QED BY <3>1, CountedStep DEF Listed, Due
  <2> QED
    BY <2>1, <2>2, <2>3
<1>4. CASE NotifyAttempt
  <2> USE <1>4 DEF NotifyAttempt
  <2>1. TypeOK'
    BY MarkingMarks DEF TypeOK, AfterMark
  <2>2. Places' /\ StoppedIsOver'
    BY DEF Places, StoppedIsOver, AfterMark
  <2>3. Counted'
    <3>1. /\ status' = Marked /\ UNCHANGED <<ready, posted, nlist, phase>> /\ nf = "attempt"
          /\ nf' = IF phase = "before" THEN "post" ELSE "each"
      BY DEF AfterMark
    <3>2. \A r \in nlist : ~Ready(r)'
      BY <3>1, MarkingMarks DEF Ready
    <3> QED BY <3>1, <3>2, CountedStep DEF Listed, Due
  <2> QED
    BY <2>1, <2>2, <2>3
<1>5. CASE NotifyAttemptFails
  <2> USE <1>5 DEF NotifyAttemptFails
  <2>0. status' = status \/ status' = Marked
    OBVIOUS
  <2>1. TypeOK'
    BY <2>0, MarkingMarks DEF TypeOK, Places, AfterFailure, Fault
  <2>2. Places' /\ StoppedIsOver'
    BY DEF TypeOK, Places, StoppedIsOver, AfterFailure
  <2>3. Counted'
    <3>1. /\ UNCHANGED <<ready, posted, nlist, phase>> /\ nf = "attempt"
          /\ nf' \in {"failed", "retry"}
      BY DEF AfterFailure
    <3> QED BY <2>0, <3>1, CountedStep DEF Listed, Due
  <2> QED
    BY <2>1, <2>2, <2>3
<1>6. CASE BusinessNotify \/ BusinessNotifyFails
  <2> USE <1>6 DEF BusinessNotify, BusinessNotifyFails, Fault
  <2>0. /\ nf = "post" /\ UNCHANGED <<status, ready>> /\ posted' \in {posted, Delivered}
        /\ phase' = "after" \/ nf' \in {"failed", "hung"}
        /\ nf' # "post"
    OBVIOUS
  <2>1. TypeOK'
    BY <2>0 DEF TypeOK, Delivered
  <2>2. Places' /\ StoppedIsOver'
    BY DEF Places, StoppedIsOver
  <2>3. Counted'
    <3>1. ASSUME NEW r \in Row
          PROVE  posted'[r] = posted[r] \/ (posted'[r] = posted[r] + 1 /\ r \in nlist)
      BY <2>0 DEF Delivered
    <3>2. \A r \in Row : ~Listed(r)' /\ ~Due(r)'
      BY <2>0 DEF Listed, Due
    <3> QED BY <2>0, <3>1, <3>2, CountedStep DEF Due
  <2> QED
    BY <2>1, <2>2, <2>3
<1> QED
  BY <1>1, <1>2, <1>3, <1>4, <1>5, <1>6 DEF Notify

LEMMA OwnerKeepsInv ==
  ASSUME NotifierInv,
         \/ StopCancel \/ StopWait \/ NotifyCrash \/ NotifyStart
         \/ \E b \in Business : BusinessRegister(b)
  PROVE  NotifierInv'
<1> USE InternalAssumption DEF NotifierInv, internalVars, workerVars, notifierVars, Fault,
        StopCancel, StopWait, NotifyCrash, NotifyStart, BusinessRegister
<1>1. TypeOK'
  BY DEF TypeOK
<1>2. Places' /\ StoppedIsOver'
  BY DEF Places, StoppedIsOver
<1>3. Counted'
  <2>1. /\ UNCHANGED <<status, ready, posted>>
        /\ UNCHANGED <<nlist, nf, phase>> \/ nf' \in {"done", "idle"}
    OBVIOUS
  <2> QED BY <2>1, CountedStep DEF Listed, Due
<1> QED
  BY <1>1, <1>2, <1>3

LEMMA NotifierInvNext == NotifierInv /\ [Next]_vars => NotifierInv'
<1>1. ASSUME NotifierInv, UNCHANGED vars PROVE NotifierInv'
  BY <1>1 DEF NotifierInv, TypeOK, Places, StoppedIsOver, Counted, Listed, Due, Open, Ready,
       vars, internalVars, workerVars, notifierVars
<1> QED
  BY <1>1, SyncKeepsInv, NotifyKeepsInv, OwnerKeepsInv DEF Next

\* The tables, the worker and the notifier stay within their types, and so within
\* their attempts.
THEOREM NotifierTyped == Spec => []TypeOK
<1>1. NotifierInv => TypeOK
  BY DEF NotifierInv
<1> QED
  BY <1>1, NotifierInvInit, NotifierInvNext, PTL DEF Spec

\* A withdrawal or an internal transfer is posted at most once for each time it was
\* made ready, whoever changes its status in between and however often.
THEOREM PostedAtMostOnce == Spec => []AtMostOnce
<1>1. NotifierInv => AtMostOnce
  <2> SUFFICES ASSUME NotifierInv, NEW r \in Row PROVE posted[r] <= ready[r]
    BY DEF AtMostOnce
  <2>1. posted[r] \in Nat /\ ready[r] \in Nat /\ Open(r) \in {0, 1}
    BY OpenIs DEF NotifierInv, TypeOK
  <2>2. /\ ~Listed(r) /\ ~Due(r) => posted[r] + Open(r) <= ready[r]
        /\ Listed(r) => posted[r] + 1 <= ready[r]
        /\ Due(r) => posted[r] + 1 + Open(r) <= ready[r]
    BY DEF NotifierInv, Counted
  <2> QED BY <2>1, <2>2
<1> QED
  BY <1>1, NotifierInvInit, NotifierInvNext, PTL DEF Spec

\* After Notifier.Stop nothing is posted or marked until the next start.
THEOREM NothingPostedAfterStop == Spec => NoPostAfterStop
<1> DEFINE Quiet == nmain = "closed" =>
             /\ UNCHANGED posted
             /\ \A r \in Row : status'[r] = "notified" => status[r] = "notified"
<1>1. NotifierInv /\ [Next]_vars => [Quiet]_vars
  <2> SUFFICES ASSUME NotifierInv, Next, nmain = "closed"
               PROVE  Quiet
    OBVIOUS
  <2>1. nf \in {"failed", "done"}
    BY DEF NotifierInv, StoppedIsOver
  <2>2. CASE InternalNext /\ UNCHANGED <<known, notifierVars, nmain, posted>>
    BY <2>2, InternalKeepsRows DEF NotifierInv, RowsKept
  <2>3. ~Notify
    BY <2>1 DEF Notify, NotifyTick, NotifyTickDone, QueryNotify, NotifyFails, NotifyRetry,
         NotifyAttempt, NotifyAttemptFails, BusinessNotify, BusinessNotifyFails, NotifyExit
  <2>4. ASSUME \/ StopCancel \/ StopWait \/ NotifyCrash \/ NotifyStart
               \/ \E b \in Business : BusinessRegister(b)
        PROVE  Quiet
    BY <2>4 DEF StopCancel, StopWait, NotifyCrash, NotifyStart, BusinessRegister, internalVars
  <2> QED
    BY <2>2, <2>3, <2>4 DEF Next
<1> QED
  BY <1>1, NotifierInvInit, NotifierInvNext, PTL DEF Spec, NoPostAfterStop

=============================================================================
