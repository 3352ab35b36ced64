------------------------------ MODULE Notifier ------------------------------
(***************************************************************************)
(* The "notify" process, notifier/notifier.go and notifier/fallback.go,   *)
(* on the tables that the "sync" process writes: it marks the rows of a   *)
(* business as notified and then posts them to the business.              *)
(*                                                                         *)
(* The model is of a notifier that compiles, with a map for its clients   *)
(* and a pointer for its deposits.  It asks for deposits of status 0 or   *)
(* 1, which none has (see Ledger), so that it never has any.              *)
(***************************************************************************)
EXTENDS InternalFlow

VARIABLES
  known,      \* the businesses registered
  \* the notifier
  ids,        \* businessIds, read by NewNotifier
  nf,         \* "idle", "each", "retry", "attempt", "post", "hung", "failed", "done"
  phase,      \* which of its two calls BeforeAfterNotify is: "before", "after"
  ntodo,      \* the businesses of this tick it has still to look at
  ncur,       \* the business it works on
  nlist,      \* the rows it read for it
  nattempts,  \* retry.Do's attempts so far
  nmain,      \* Notifier.Stop: "run", "await", "closed"; "down" after a crash
  posted      \* history: posted[r]: how often row r was posted to its business

notifierVars == <<ids, nf, phase, ntodo, ncur, nlist, nattempts>>
vars == <<internalVars, known, notifierVars, nmain, posted>>

NotifierFrame == UNCHANGED <<ready, broadcast, workerVars, imain, known, nmain>>

-----------------------------------------------------------------------------

BusinessRegister(b) == /\ b \notin known
                       /\ known' = known \cup {b}
                       /\ UNCHANGED <<internalVars, notifierVars, nmain, posted>>

\* A tick goes through the businesses that were there when the notifier started.
NotifyTick == /\ nf = "idle" /\ nmain \in {"run", "await"}
              /\ ntodo' = ids /\ nf' = "each"
              /\ NotifierFrame
              /\ UNCHANGED <<status, faults, ids, phase, ncur, nlist, nattempts, posted>>

NotifyTickDone == /\ nf = "each" /\ ntodo = {}
                  /\ nf' = "idle"
                  /\ NotifierFrame
                  /\ UNCHANGED <<status, faults, ids, phase, ntodo, ncur, nlist, nattempts, posted>>

\* QueryNotifyWithdraws and QueryNotifyInternal; QueryNotifyDeposits finds none.
NotifyList(b) == {r \in Row : Of[r] = b /\ status[r] = NotifyStatus(Table[r])}

QueryNotify(b) == /\ nf = "each" /\ b \in ntodo
                  /\ ntodo' = ntodo \ {b} /\ ncur' = b /\ nlist' = NotifyList(b)
                  /\ phase' = "before" /\ nattempts' = 0 /\ nf' = "retry"
                  /\ NotifierFrame
                  /\ UNCHANGED <<status, faults, ids, posted>>

\* A query fails, or the context is cancelled before an attempt: the task ends.
NotifyFails == /\ \/ nf = "each" /\ ntodo # {} /\ Fault("query")
                  \/ nf = "retry" /\ nmain # "run" /\ UNCHANGED faults
               /\ nf' = "failed"
               /\ NotifierFrame
               /\ UNCHANGED <<status, ids, phase, ntodo, ncur, nlist, nattempts, posted>>

\* BeforeAfterNotify is called with isBefore both times.
NotifyRetry == /\ nf = "retry" /\ nmain = "run"
               /\ nf' = "attempt"
               /\ NotifierFrame
               /\ UNCHANGED <<status, faults, ids, phase, ntodo, ncur, nlist, nattempts, posted>>

\* UpdateWithdrawStatus and UpdateInternalStatus of the rows listed.
Marked == [r \in Row |-> IF r \in nlist /\ status[r] = NotifyStatus(Table[r])
                         THEN "notified" ELSE status[r]]

\* Mutant of AfterMark: the request is left out.
AfterMarkDone == "each"

AfterMark == IF phase = "before" THEN "post" ELSE "each"

NotifyAttempt == /\ nf = "attempt"
                 /\ status' = Marked
                 /\ nf' = AfterMark
                 /\ NotifierFrame
                 /\ UNCHANGED <<faults, ids, phase, ntodo, ncur, nlist, nattempts, posted>>

\* The transaction fails, committed or not.
NotifyAttemptFails == /\ nf = "attempt" /\ Fault("mark")
                      /\ status' \in {status, Marked}
                      /\ nattempts' = nattempts + 1 /\ nf' = AfterFailure(nattempts)
                      /\ NotifierFrame
                      /\ UNCHANGED <<ids, phase, ntodo, ncur, nlist, posted>>

\* The rows in the request: those listed, also one that has another status by now.
Delivered == [r \in Row |-> IF r \in nlist THEN posted[r] + 1 ELSE posted[r]]

\* BusinessNotify is answered; what the answer says makes no difference.
BusinessNotify == /\ nf = "post"
                  /\ posted' = Delivered
                  /\ phase' = "after" /\ nattempts' = 0 /\ nf' = "retry"
                  /\ NotifierFrame
                  /\ UNCHANGED <<status, faults, ids, ntodo, ncur, nlist>>

\* It fails, with the request received or not: the task ends.  Or it is never
\* answered: the client has no timeout.
BusinessNotifyFails == /\ nf = "post"
                       /\ \/ Fault("post") /\ nf' = "failed"
                          \/ Fault("hang") /\ nf' = "hung"
                       /\ posted' \in {posted, Delivered}
                       /\ NotifierFrame
                       /\ UNCHANGED <<status, ids, phase, ntodo, ncur, nlist, nattempts>>

\* Mutant of NotifyExit: the task waits for a context that Stop does not cancel.
NotifyExitLate == /\ nf = "idle" /\ nmain = "closed"
                  /\ nf' = "done"
                  /\ NotifierFrame
                  /\ UNCHANGED <<status, faults, ids, phase, ntodo, ncur, nlist, nattempts, posted>>

NotifyExit == /\ nf = "idle" /\ nmain = "await"
              /\ nf' = "done"
              /\ NotifierFrame
              /\ UNCHANGED <<status, faults, ids, phase, ntodo, ncur, nlist, nattempts, posted>>

Notify == \/ NotifyTick \/ NotifyTickDone \/ (\E b \in Business : QueryNotify(b))
          \/ NotifyFails \/ NotifyRetry \/ NotifyAttempt \/ NotifyAttemptFails
          \/ BusinessNotify \/ BusinessNotifyFails \/ NotifyExit

\* Mutant of StopWait: the task is not awaited.
StopNoWait == /\ nmain = "await"
              /\ nmain' = "closed"
              /\ UNCHANGED <<internalVars, known, notifierVars, posted>>

\* Stop cancels the context and waits for the task.
StopCancel == /\ nmain = "run" /\ Fault("stop")
              /\ nmain' = "await"
              /\ UNCHANGED <<status, ready, broadcast, workerVars, imain, known, notifierVars, posted>>

StopWait == /\ nmain = "await" /\ nf \in {"failed", "done"}
            /\ nmain' = "closed"
            /\ UNCHANGED <<internalVars, known, notifierVars, posted>>

NotifyCrash == /\ nmain \in {"run", "await"} /\ Fault("crash")
               /\ nmain' = "down" /\ nf' = "done" /\ ids' = {} /\ phase' = "before"
               /\ ntodo' = {} /\ ncur' = NoBusiness /\ nlist' = {} /\ nattempts' = 0
               /\ UNCHANGED <<status, ready, broadcast, workerVars, imain, known, posted>>

\* NewNotifier reads the businesses; Start.
NotifyStart == /\ nmain \in {"closed", "down"}
               /\ nmain' = "run" /\ nf' = "idle" /\ ids' = known /\ phase' = "before"
               /\ ntodo' = {} /\ ncur' = NoBusiness /\ nlist' = {} /\ nattempts' = 0
               /\ UNCHANGED <<internalVars, known, posted>>

Init == /\ InternalInit
        /\ known \in SUBSET Business /\ ids = {}
        /\ nf = "done" /\ phase = "before" /\ ntodo = {} /\ ncur = NoBusiness /\ nlist = {}
        /\ nattempts = 0 /\ nmain = "down" /\ posted = [r \in Row |-> 0]

Next == \/ (InternalNext /\ UNCHANGED <<known, notifierVars, nmain, posted>>)
        \/ Notify \/ StopCancel \/ StopWait \/ NotifyCrash \/ NotifyStart
        \/ (\E b \in Business : BusinessRegister(b))

Spec == Init /\ [][Next]_vars

\* Tickers fire again and again and calls return, but for the post that hangs;
\* select does not choose a tick for ever once its context is cancelled.  Rows,
\* registrations, crashes and starts just happen.
Fairness ==
  /\ WF_vars(Notify) /\ SF_vars(NotifyExit) /\ WF_vars(StopWait)
  /\ WF_vars(Internal /\ UNCHANGED <<known, notifierVars, nmain, posted>>)

LiveSpec == Spec /\ Fairness

-----------------------------------------------------------------------------
(* Properties. *)

\* Every variable keeps its type.
TypeOK == /\ status \in [Row -> TxStatus] /\ ready \in [Row -> Nat] /\ broadcast \subseteq Row
          /\ iw \in {"idle", "each", "send", "retry", "attempt", "failed", "done"}
          /\ itodo \subseteq Business /\ icur \in Business \cup {NoBusiness}
          /\ ilist \subseteq Row /\ ipending \subseteq ilist
          /\ iattempts \in 0..MaxAttempts
          /\ imain \in {"run", "await", "closed", "down"}
          /\ faults \in 0..MaxFaults
          /\ known \subseteq Business /\ ids \subseteq known
          /\ nf \in {"idle", "each", "retry", "attempt", "post", "hung", "failed", "done"}
          /\ phase \in {"before", "after"}
          /\ ntodo \subseteq ids /\ ncur \in Business \cup {NoBusiness} /\ nlist \subseteq Row
          /\ nattempts \in 0..MaxAttempts
          /\ nmain \in {"run", "await", "closed", "down"}
          /\ posted \in [Row -> Nat]

\* A withdrawal or an internal transfer is posted at most once for each time that
\* it was made ready, although the notifier fails, crashes and starts again, the
\* rpc handler signs a withdrawal again behind its back, and the worker of the
\* other process updates rows from a list it read long ago: rows are marked before
\* they are posted, and neither process takes a mark back on its own.
AtMostOnce == \A r \in Row : posted[r] <= ready[r]

\* Once Notifier.Stop has returned, nothing is posted or marked until the next
\* start.
NoPostAfterStop ==
  [][nmain = "closed" => /\ UNCHANGED posted
                         /\ \A r \in Row : status'[r] = "notified" => status[r] = "notified"]_vars

\* A row that waits to be notified and never was is posted to its business, unless
\* somebody gives it another status, the task ends or hangs, the notifier is
\* stopped, or the business was registered after it had started.
ReadyIsPosted ==
  \A r \in Row :
    (r \in NotifyList(Of[r]) /\ Of[r] \in ids) ~>
      (\/ posted[r] > 0 \/ status[r] \notin {NotifyStatus(Table[r]), "notified"}
       \/ nf \in {"failed", "hung"} \/ nmain # "run")

\* Stop returns, unless a business never answers.
StopReturns == (nmain = "await") ~> (nmain # "await" \/ nf = "hung")

\* An internal transfer that waits to be sent is handed to the node, although
\* other calls fail, unless the worker has ended or is being stopped.
UnsentIsBroadcast ==
  \A r \in {q \in Row : Table[q] = "internals"} : (status[r] = "unsend") ~>
    (r \in broadcast \/ status[r] # "unsend" \/ iw = "failed" \/ imain # "run")
=============================================================================
