------------------------- MODULE WithdrawFlowProofs -------------------------
(***************************************************************************)
(* What holds of withdrawals for every number of businesses, rows and     *)
(* failures: only stored signatures are broadcast, and nothing is after   *)
(* Close.                                                                  *)
(***************************************************************************)
EXTENDS WithdrawFlow, TLAPS

-----------------------------------------------------------------------------
(* The inductive invariant. *)

\* The worker's variables at each of its places.
Places == /\ wk \in {"send", "retry", "attempt"} => cur \in Business
          /\ wk \notin {"send", "failed"} => pending = {}
          /\ wk \in {"send", "retry", "attempt"} => attempts < MaxAttempts

\* Close returns only after the task.
ClosedIsOver == main = "closed" => wk \in {"failed", "done"}

\* A row that waits to be sent has a stored signature.
UnsentIsSaved ==
  \A b \in Business, g \in Guid :
    status[b][g] = "unsend" => Entry(b, [guid |-> g, hex |-> hex[b][g]]) \in saved

\* The worker's list stays one of stored signatures while rows are signed anew:
\* nothing stored is forgotten.
ListIsSaved == \A i \in list : Entry(cur, i) \in saved

WithdrawInv == /\ TypeOK
               /\ Places
               /\ ClosedIsOver
               /\ UnsentIsSaved
               /\ ListIsSaved
               /\ OnlySavedIsBroadcast

-----------------------------------------------------------------------------
\* What a list of unsent rows holds.
LEMMA ListedRows ==
  ASSUME TypeOK, UnsentIsSaved, NEW b \in Business
  PROVE  /\ UnSendWithdrawsList(b) \subseteq Item
         /\ \A i \in UnSendWithdrawsList(b) : Entry(b, i) \in saved
  BY DEF TypeOK, UnsentIsSaved, UnSendWithdrawsList, Item

\* The status update keeps the type, and makes no row unsent.
LEMMA StatusUpdate ==
  ASSUME TypeOK, NEW guids,
         NEW s, s = UpdateWithdrawStatus("sent", guids)
  PROVE  /\ s \in [Business -> [Guid -> TxStatus]]
         /\ \A b \in Business, g \in Guid :
              s[b][g] = "unsend" => status[b][g] = "unsend"
<1>1. \A b \in Business : /\ b # cur => s[b] = status[b]
                          /\ b = cur => s[b] = [g \in Guid |->
                               IF g \in guids /\ status[b][g] = "withdrawed"
                               THEN "sent" ELSE status[b][g]]
  BY DEF TypeOK, UpdateWithdrawStatus
<1>2. s = [b \in Business |-> s[b]]
  BY DEF TypeOK, UpdateWithdrawStatus
<1>3. \A b \in Business : s[b] \in [Guid -> TxStatus]
  <2>1. TAKE b \in Business
  <2>2. status[b] \in [Guid -> TxStatus]
    BY DEF TypeOK
  <2>3. CASE b # cur
    BY <1>1, <2>2, <2>3
  <2>4. CASE b = cur
    BY <1>1, <2>2, <2>4 DEF TxStatus
  <2> QED
    BY <2>3, <2>4
<1>4. \A b \in Business, g \in Guid : s[b][g] = "unsend" => status[b][g] = "unsend"
  BY <1>1
<1> QED
  BY <1>2, <1>3, <1>4

LEMMA WithdrawInvInit == Init => WithdrawInv
<1> SUFFICES ASSUME Init PROVE WithdrawInv
  OBVIOUS
<1> USE DEF Init
<1>1. TypeOK
  BY WithdrawAssumption DEF TypeOK, TxStatus
<1>2. Places /\ ClosedIsOver /\ UnsentIsSaved /\ ListIsSaved /\ OnlySavedIsBroadcast
  BY DEF Places, ClosedIsOver, UnsentIsSaved, ListIsSaved, OnlySavedIsBroadcast
<1> QED
  BY <1>1, <1>2 DEF WithdrawInv

\* A request changes rows and what is known of them, nothing of the worker.
LEMMA ServicesKeepInv == WithdrawInv /\ Services => WithdrawInv'
<1> SUFFICES ASSUME WithdrawInv, NEW b \in Business, NEW g \in Guid,
                    \/ BuildUnSignTransaction(b, g)
                    \/ SubmitWithdraw(b, g)
                    \/ \E x \in Signed : BuildSignedTransaction(b, g, x)
             PROVE  WithdrawInv'
  BY DEF Services
<1> USE WithdrawAssumption DEF WithdrawInv
<1>1. CASE BuildUnSignTransaction(b, g) \/ SubmitWithdraw(b, g)
  <2>0. /\ StoreWithdraws(b, g)
        /\ UNCHANGED <<workVars, main, broadcast, saved>>
        /\ known' = known \/ known' = [known EXCEPT ![b] = @ \cup {g}]
        /\ faults' = faults \/ Fault("answer")
    BY <1>1 DEF BuildUnSignTransaction, SubmitWithdraw
  <2>1. TypeOK'
    BY <2>0 DEF TypeOK, StoreWithdraws, Fault, workVars, TxStatus
  <2>2. UnsentIsSaved'
    BY <2>0 DEF UnsentIsSaved, TypeOK, StoreWithdraws
  <2>3. Places' /\ ClosedIsOver' /\ ListIsSaved' /\ OnlySavedIsBroadcast'
    BY <2>0 DEF Places, ClosedIsOver, ListIsSaved, OnlySavedIsBroadcast, workVars, Entry
  <2> QED
    BY <2>1, <2>2, <2>3
<1>2. ASSUME NEW x \in Signed, BuildSignedTransaction(b, g, x)
      PROVE  WithdrawInv'
  <2> USE <1>2 DEF BuildSignedTransaction, UpdateWithdrawByGuuid
  <2>1. TypeOK'
    BY DEF TypeOK, workVars, TxStatus
  <2>2. UnsentIsSaved'
    BY DEF UnsentIsSaved, TypeOK
  <2>3. Places' /\ ClosedIsOver' /\ ListIsSaved' /\ OnlySavedIsBroadcast'
    BY DEF Places, ClosedIsOver, ListIsSaved, OnlySavedIsBroadcast, workVars, Entry
  <2> QED
    BY <2>1, <2>2, <2>3
<1> QED
  BY <1>1, <1>2

\* The worker broadcasts what is on its list, and its update makes no row unsent.
LEMMA WorkerKeepsInv == WithdrawInv /\ Worker => WithdrawInv'
<1> SUFFICES ASSUME WithdrawInv, Worker PROVE WithdrawInv'
  OBVIOUS
<1> USE WithdrawAssumption DEF WithdrawInv, WorkerFrame, tableVars
<1>1. ASSUME Tick \/ TickDone \/ SendsDone \/ RetryAttempt \/ WorkerExit \/ WorkerFails
      PROVE  WithdrawInv'
  <2>1. TypeOK'
    BY <1>1 DEF TypeOK, Tick, TickDone, SendsDone, RetryAttempt, WorkerExit, WorkerFails,
                Fault
  <2>2. Places' /\ ClosedIsOver'
    BY <1>1 DEF Places, ClosedIsOver, Cancelled, Tick, TickDone, SendsDone, RetryAttempt,
                WorkerExit, WorkerFails
  <2>3. UnsentIsSaved' /\ ListIsSaved' /\ OnlySavedIsBroadcast'
    BY <1>1 DEF UnsentIsSaved, ListIsSaved, OnlySavedIsBroadcast, Entry, Tick, TickDone,
                SendsDone, RetryAttempt, WorkerExit, WorkerFails
  <2> QED
    BY <2>1, <2>2, <2>3
<1>2. ASSUME NEW b \in Business, ListUnSend(b) PROVE WithdrawInv'
  <2> USE <1>2 DEF ListUnSend
  <2>0. /\ list' \subseteq Item
        /\ \A i \in list' : Entry(b, i) \in saved
    BY ListedRows
  <2>1. TypeOK'
    BY <2>0 DEF TypeOK
  <2>2. Places' /\ ClosedIsOver'
    BY DEF Places, ClosedIsOver
  <2>3. UnsentIsSaved' /\ ListIsSaved' /\ OnlySavedIsBroadcast'
    BY <2>0 DEF UnsentIsSaved, ListIsSaved, OnlySavedIsBroadcast, Entry
  <2> QED
    BY <2>1, <2>2, <2>3
<1>3. ASSUME NEW b \in Business, SkipBusiness(b) PROVE WithdrawInv'
  <2> USE <1>3 DEF SkipBusiness
  <2>1. TypeOK'
    BY DEF TypeOK, Fault
  <2>2. Places' /\ ClosedIsOver' /\ UnsentIsSaved' /\ ListIsSaved' /\ OnlySavedIsBroadcast'
    BY DEF Places, ClosedIsOver, UnsentIsSaved, ListIsSaved, OnlySavedIsBroadcast, Entry
  <2> QED
    BY <2>1, <2>2
<1>4. ASSUME NEW i \in pending, SendTx(i) \/ SendTxFails(i) PROVE WithdrawInv'
  <2>1. TypeOK'
    BY <1>4 DEF TypeOK, SendTx, SendTxFails, Fault
  <2>2. Places' /\ ClosedIsOver' /\ UnsentIsSaved' /\ ListIsSaved'
    BY <1>4 DEF Places, ClosedIsOver, UnsentIsSaved, ListIsSaved, Entry, SendTx, SendTxFails
  <2>3. OnlySavedIsBroadcast'
    <3>1. Entry(cur, i) \in saved
      BY DEF ListIsSaved, TypeOK
    <3> QED
      BY <1>4, <3>1 DEF OnlySavedIsBroadcast, SendTx, SendTxFails
  <2> QED
    BY <2>1, <2>2, <2>3
<1>5. ASSUME Attempt PROVE WithdrawInv'
  <2> USE <1>5 DEF Attempt
  <2>0. /\ status' \in [Business -> [Guid -> TxStatus]]
        /\ \A b \in Business, g \in Guid :
             status'[b][g] = "unsend" => status[b][g] = "unsend"
    BY StatusUpdate
  <2>1. TypeOK'
    BY <2>0 DEF TypeOK, Places
  <2>2. Places' /\ ClosedIsOver'
    BY DEF Places, ClosedIsOver
  <2>3. UnsentIsSaved' /\ ListIsSaved' /\ OnlySavedIsBroadcast'
    BY <2>0 DEF UnsentIsSaved, ListIsSaved, OnlySavedIsBroadcast, Entry
  <2> QED
    BY <2>1, <2>2, <2>3
<1>6. ASSUME AttemptFails PROVE WithdrawInv'
  <2> USE <1>6 DEF AttemptFails
  <2>0. /\ status' \in [Business -> [Guid -> TxStatus]]
        /\ \A b \in Business, g \in Guid :
             status'[b][g] = "unsend" => status[b][g] = "unsend"
    <3>1. CASE UNCHANGED status
      BY <3>1 DEF TypeOK
    <3>2. CASE status' = UpdateWithdrawStatus("sent", {i.guid : i \in list})
      BY <3>2, StatusUpdate
    <3> QED
      BY <3>1, <3>2
  <2>1. TypeOK'
    BY <2>0 DEF TypeOK, Places, AfterFailure, Fault
  <2>2. Places' /\ ClosedIsOver'
    BY DEF Places, ClosedIsOver, AfterFailure, TypeOK
  <2>3. UnsentIsSaved' /\ ListIsSaved' /\ OnlySavedIsBroadcast'
    BY <2>0 DEF UnsentIsSaved, ListIsSaved, OnlySavedIsBroadcast, Entry
  <2> QED
    BY <2>1, <2>2, <2>3
<1> QED
  BY <1>1, <1>2, <1>3, <1>4, <1>5, <1>6 DEF Worker

LEMMA ProcessKeepsInv ==
  WithdrawInv /\ (CloseCancel \/ CloseWait \/ Crash \/ Start) => WithdrawInv'
<1> SUFFICES ASSUME WithdrawInv, CloseCancel \/ CloseWait \/ Crash \/ Start
             PROVE  WithdrawInv'
  OBVIOUS
<1> USE WithdrawAssumption DEF WithdrawInv, CloseCancel, CloseWait, Crash, Start,
        tableVars, workVars
<1>1. TypeOK'
  BY DEF TypeOK, Fault
<1>2. Places' /\ ClosedIsOver'
  BY DEF Places, ClosedIsOver
<1>3. UnsentIsSaved' /\ ListIsSaved' /\ OnlySavedIsBroadcast'
  BY DEF UnsentIsSaved, ListIsSaved, OnlySavedIsBroadcast, Entry
<1> QED
  BY <1>1, <1>2, <1>3

-----------------------------------------------------------------------------
\* The invariant of withdrawals: the rows, the worker's stale list and the
\* network only ever hold stored signatures.
THEOREM WithdrawInvariant == Spec => []WithdrawInv
<1>1. WithdrawInv /\ [Next]_vars => WithdrawInv'
  <2> SUFFICES ASSUME WithdrawInv, [Next]_vars PROVE WithdrawInv'
    OBVIOUS
  <2>1. CASE Next
    BY <2>1, ServicesKeepInv, WorkerKeepsInv, ProcessKeepsInv DEF Next
  <2>2. CASE UNCHANGED vars
    <3> USE <2>2 DEF vars, tableVars, workVars, WithdrawInv
    <3>1. TypeOK' /\ Places' /\ ClosedIsOver'
      BY DEF TypeOK, Places, ClosedIsOver
    <3>2. UnsentIsSaved' /\ ListIsSaved' /\ OnlySavedIsBroadcast'
      BY DEF UnsentIsSaved, ListIsSaved, OnlySavedIsBroadcast, Entry
    <3> QED
      BY <3>1, <3>2
  <2> QED
    BY <2>1, <2>2
<1> QED
  BY <1>1, WithdrawInvInit, PTL DEF Spec

\* Nothing reaches the network but what BuildSignedTransaction stored for that
\* row, although the worker sends from a list that may be stale.
THEOREM BroadcastsAreSaved == Spec => []OnlySavedIsBroadcast
<1>1. WithdrawInv => OnlySavedIsBroadcast
  BY DEF WithdrawInv
<1> QED
  BY <1>1, WithdrawInvariant, PTL

\* Once Withdraw.Close has returned, nothing is broadcast until the next start.
THEOREM NothingAfterClose == Spec => NoBroadcastAfterClose
<1>1. WithdrawInv /\ [Next]_vars => [main = "closed" => UNCHANGED broadcast]_vars
  <2> SUFFICES ASSUME WithdrawInv, Next, main = "closed" PROVE UNCHANGED broadcast
    BY DEF vars
  <2>1. wk \in {"failed", "done"}
    BY DEF WithdrawInv, ClosedIsOver
  <2>2. CASE Services
    BY <2>2 DEF Services, BuildUnSignTransaction, SubmitWithdraw, BuildSignedTransaction
  <2>3. CASE Worker
    BY <2>1, <2>3 DEF Worker, Tick, TickDone, ListUnSend, SkipBusiness, SendTx, SendTxFails,
                      WorkerFails, SendsDone, RetryAttempt, Attempt, AttemptFails, WorkerExit
  <2>4. CASE CloseCancel \/ CloseWait \/ Crash \/ Start
    BY <2>4 DEF CloseCancel, CloseWait, Crash, Start
  <2> QED
    BY <2>2, <2>3, <2>4 DEF Next
<1> QED
  BY <1>1, WithdrawInvariant, PTL DEF Spec, NoBroadcastAfterClose
=============================================================================
