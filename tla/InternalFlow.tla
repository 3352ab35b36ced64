---------------------------- MODULE InternalFlow ----------------------------
(***************************************************************************)
(* The worker of worker/internal.go in the "sync" process, and the tables *)
(* internals_<business> (database/internals.go) it works on.  The rows of *)
(* withdraws_<business>, which the rpc handlers, the worker of            *)
(* WithdrawFlow and the notifier change, are in the same variable.        *)
(*                                                                         *)
(* Nobody calls StoreInternal and UpdateInternalTx at this commit, and    *)
(* nobody makes a withdrawal "withdrawed"; whoever will, is external and  *)
(* may do so at any time.  The worker finds no child transactions, hence  *)
(* no balances.                                                           *)
(***************************************************************************)
EXTENDS Naturals

CONSTANTS
  Business,     \* business uids
  NoBusiness,   \* no business is being handled
  Row,          \* the rows of the tables
  Of,           \* Of[r]: the business of row r
  Table,        \* Table[r]: "internals" or "withdraws"
  MaxAttempts,  \* the attempts of retry.Do (10 in the workers)
  Faulty,       \* the calls that may fail, "crash" and "stop"
  MaxFaults,    \* bound: failures in one behaviour
  MaxReady      \* bound: MaxReady[r]: how often row r is made ready to be notified

ASSUME InternalAssumption ==
  /\ NoBusiness \notin Business
  /\ Of \in [Row -> Business]
  /\ Table \in [Row -> {"internals", "withdraws"}]
  /\ MaxAttempts \in Nat \ {0} /\ MaxFaults \in Nat /\ MaxReady \in [Row -> Nat]

VARIABLES
  status,     \* status[r]: "none" without a row, else its TxStatus
  ready,      \* history: ready[r]: how often r was given the status to be notified
  broadcast,  \* history: the rows handed to SendTx
  \* the worker
  iw,         \* "idle", "each", "send", "retry", "attempt", "failed", "done"
  itodo,      \* the businesses of this tick it has still to look at
  icur,       \* the business it works on
  ilist,      \* unSendInternalTxList
  ipending,   \* the part of it that it has still to send
  iattempts,  \* retry.Do's attempts so far
  imain,      \* Internal.Close: "run", "await", "closed"; "down" after a crash
  faults

workerVars == <<iw, itodo, icur, ilist, ipending, iattempts>>
internalVars == <<status, ready, broadcast, workerVars, imain, faults>>

TxStatus == {"none", "wait_sign", "unsend", "done_success", "withdrawed", "sent",
             "notified"}
Rows(b, t) == {r \in Row : Of[r] = b /\ Table[r] = t}

Fault(name) == name \in Faulty /\ faults < MaxFaults /\ faults' = faults + 1

-----------------------------------------------------------------------------
(* The tables. *)

\* The status in which a row of table t waits to be notified.
NotifyStatus(t) == IF t = "withdraws" THEN "withdrawed" ELSE "done_success"

SetStatus(r, new) == /\ status[r] # new
                     /\ status' = [status EXCEPT ![r] = new]
                     /\ IF new = NotifyStatus(Table[r])
                        THEN ready[r] < MaxReady[r] /\ ready' = [ready EXCEPT ![r] = @ + 1]
                        ELSE UNCHANGED ready
                     /\ UNCHANGED <<broadcast, workerVars, imain, faults>>

\* What is stored may have any status; of those only these are ever asked for.
AskedFor == {"wait_sign", "unsend", "done_success"}

StoreInternal(r, new) == Table[r] = "internals" /\ status[r] = "none" /\ SetStatus(r, new)

\* The row with the guid, whatever its status, with a signature or without.
UpdateInternalTx(r, new) == Table[r] = "internals" /\ status[r] # "none" /\ SetStatus(r, new)

\* BuildUnSignTransaction and SubmitWithdraw.
StoreWithdraws(r) == Table[r] = "withdraws" /\ status[r] = "none" /\ SetStatus(r, "wait_sign")

\* BuildSignedTransaction: the row with the guid, whatever its status.
UpdateWithdrawByGuuid(r) == Table[r] = "withdraws" /\ status[r] # "none" /\ SetStatus(r, "unsend")

\* A withdrawal is in a block.  handleBatch is to say so, but updates only what is
\* "withdrawed" already, and by keys that are new.
Withdrawed(r) == Table[r] = "withdraws" /\ status[r] # "none" /\ SetStatus(r, "withdrawed")

\* The withdraw worker, from a list it read when the row was to be sent.
WithdrawSent(r) == Table[r] = "withdraws" /\ status[r] = "withdrawed" /\ SetStatus(r, "sent")

Outside(r) == \/ \E new \in AskedFor : StoreInternal(r, new) \/ UpdateInternalTx(r, new)
              \/ StoreWithdraws(r) \/ UpdateWithdrawByGuuid(r) \/ Withdrawed(r)
              \/ WithdrawSent(r)

\* Mutant of UpdateInternalStatus: the old status is not looked at.
UpdateInternalStatusAny(table, new, rows) ==
  [r \in Row |-> IF r \in rows THEN new ELSE table[r]]

\* Of the rows given, those that are done get the new status.
UpdateInternalStatus(table, new, rows) ==
  [r \in Row |-> IF r \in rows /\ table[r] = "done_success" THEN new ELSE table[r]]

\* Mutant of UnSendInternalsList: the status asked for is the one before.
UnSignedInternalsList(b) == {r \in Rows(b, "internals") : status[r] = "wait_sign"}

UnSendInternalsList(b) == {r \in Rows(b, "internals") : status[r] = "unsend"}

-----------------------------------------------------------------------------
(* The worker. *)

InternalFrame == UNCHANGED <<status, ready, imain>>

\* A tick lists the businesses; when that fails it is over.
InternalTick == /\ iw = "idle" /\ imain \in {"run", "await"}
                /\ itodo' = Business /\ iw' = "each"
                /\ InternalFrame
                /\ UNCHANGED <<broadcast, icur, ilist, ipending, iattempts, faults>>

InternalTickDone == /\ iw = "each" /\ itodo = {}
                    /\ iw' = "idle"
                    /\ InternalFrame
                    /\ UNCHANGED <<broadcast, itodo, icur, ilist, ipending, iattempts, faults>>

\* The rows of the next business, which may be none: the transaction is run all
\* the same.
ListInternals(b) == /\ iw = "each" /\ b \in itodo
                    /\ itodo' = itodo \ {b} /\ icur' = b
                    /\ ilist' = UnSendInternalsList(b) /\ ipending' = ilist'
                    /\ iattempts' = 0 /\ iw' = "send"
                    /\ InternalFrame
                    /\ UNCHANGED <<broadcast, faults>>

\* The query fails: on to the business after it.
ListInternalsFails(b) == /\ iw = "each" /\ b \in itodo /\ Fault("list")
                         /\ itodo' = itodo \ {b}
                         /\ InternalFrame
                         /\ UNCHANGED <<broadcast, iw, icur, ilist, ipending, iattempts>>

\* SendTx: the node has the transaction, or it fails: on to the next row.
SendInternal(r) == /\ iw = "send" /\ r \in ipending
                   /\ ipending' = ipending \ {r}
                   /\ \/ broadcast' = broadcast \cup {r} /\ UNCHANGED faults
                      \/ Fault("send") /\ broadcast' \in {broadcast, broadcast \cup {r}}
                   /\ InternalFrame
                   /\ UNCHANGED <<iw, itodo, icur, ilist, iattempts>>

\* The query for the child transactions fails, or the context is cancelled before
\* an attempt: the worker ends.
InternalFails == /\ \/ iw = "send" /\ ipending # {} /\ Fault("child")
                    \/ iw = "retry" /\ imain # "run" /\ UNCHANGED faults
                 /\ iw' = "failed"
                 /\ InternalFrame
                 /\ UNCHANGED <<broadcast, itodo, icur, ilist, ipending, iattempts>>

InternalRetry == /\ \/ iw = "send" /\ ipending = {} /\ iw' = "retry"
                    \/ iw = "retry" /\ imain = "run" /\ iw' = "attempt"
                 /\ InternalFrame
                 /\ UNCHANGED <<broadcast, itodo, icur, ilist, ipending, iattempts, faults>>

InternalAttempt == /\ iw = "attempt"
                   /\ status' = UpdateInternalStatus(status, "done_success", ilist)
                   /\ iw' = "each" /\ icur' = NoBusiness /\ ilist' = {}
                   /\ UNCHANGED <<ready, broadcast, itodo, ipending, iattempts, imain, faults>>

AfterFailure(n) == IF n + 1 = MaxAttempts THEN "failed" ELSE "retry"

\* The update, or the commit around it, fails.
InternalAttemptFails ==
  /\ iw = "attempt" /\ Fault("update")
  /\ status' \in {status, UpdateInternalStatus(status, "done_success", ilist)}
  /\ iattempts' = iattempts + 1 /\ iw' = AfterFailure(iattempts)
  /\ UNCHANGED <<ready, broadcast, itodo, icur, ilist, ipending, imain>>

InternalExit == /\ iw = "idle" /\ imain = "await"
                /\ iw' = "done"
                /\ InternalFrame
                /\ UNCHANGED <<broadcast, itodo, icur, ilist, ipending, iattempts, faults>>

Internal == \/ InternalTick \/ InternalTickDone
            \/ (\E b \in Business : ListInternals(b) \/ ListInternalsFails(b))
            \/ (\E r \in ipending : SendInternal(r))
            \/ InternalFails \/ InternalRetry \/ InternalAttempt \/ InternalAttemptFails
            \/ InternalExit

\* Close cancels the context and waits for the task.
InternalClose == /\ \/ imain = "run" /\ Fault("stop") /\ imain' = "await"
                    \/ /\ imain = "await" /\ iw \in {"failed", "done"}
                       /\ imain' = "closed" /\ UNCHANGED faults
                 /\ UNCHANGED <<status, ready, broadcast, workerVars>>

InternalCrash == /\ imain \in {"run", "await"} /\ Fault("crash")
                 /\ imain' = "down" /\ iw' = "done"
                 /\ itodo' = {} /\ icur' = NoBusiness /\ ilist' = {} /\ ipending' = {}
                 /\ iattempts' = 0
                 /\ UNCHANGED <<status, ready, broadcast>>

\* NewInternal and Start.
InternalStart == /\ imain \in {"closed", "down"}
                 /\ imain' = "run" /\ iw' = "idle"
                 /\ itodo' = {} /\ icur' = NoBusiness /\ ilist' = {} /\ ipending' = {}
                 /\ iattempts' = 0
                 /\ UNCHANGED <<status, ready, broadcast, faults>>

InternalInit == /\ status = [r \in Row |-> "none"] /\ ready = [r \in Row |-> 0]
                /\ broadcast = {}
                /\ iw = "idle" /\ itodo = {} /\ icur = NoBusiness /\ ilist = {} /\ ipending = {}
                /\ iattempts = 0 /\ imain = "run" /\ faults = 0

InternalNext == \/ \E r \in Row : Outside(r)
                \/ Internal \/ InternalClose \/ InternalCrash \/ InternalStart
=============================================================================
