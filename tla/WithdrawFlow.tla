---------------------------- MODULE WithdrawFlow ----------------------------
(***************************************************************************)
(* A withdrawal from its request to the network: the requests of          *)
(* services/handle.go in the "rpc" process, the worker of                 *)
(* worker/withdraw.go in the "sync" process, and the table                *)
(* withdraws_<business> (database/withdraws.go) between them.             *)
(*                                                                         *)
(* The scanner and the notifier call UpdateWithdrawStatus too, the first  *)
(* with keys it has just made and the second with rows "withdrawed":      *)
(* neither changes a row.  The child transactions of SubmitWithdraw       *)
(* carry an id of their own, under which the worker does not look, so it  *)
(* never has a balance to update; they are left out.  The table is one    *)
(* that takes the records of the services.                                *)
(***************************************************************************)
EXTENDS Naturals

CONSTANTS
  Business,     \* business uids
  NoBusiness,   \* no business is being handled
  Guid,         \* the keys uuid.New makes
  Signed,       \* what the wallet node may return for a signed transaction; an
                \* error code in its answer is not looked at
  Unsigned,     \* "0x0", the TxSignHex of a row that is not signed yet
  MaxAttempts,  \* the attempts of retry.Do (10 in the worker)
  Faulty,       \* the calls that may fail, "crash" and "stop"
  MaxFaults     \* bound: failures in one behaviour

ASSUME WithdrawAssumption ==
  /\ NoBusiness \notin Business
  /\ Unsigned \notin Signed
  /\ MaxAttempts \in Nat \ {0}
  /\ MaxFaults \in Nat

VARIABLES
  \* the table
  status,     \* status[b][g]: "none" without a row, else its TxStatus
  hex,        \* hex[b][g]: TxSignHex
  \* the client of the services
  known,      \* known[b]: the keys it was given
  \* the worker
  wk,         \* "idle", "each", "send", "retry", "attempt", "failed", "done"
  todo,       \* the businesses of this tick it has still to look at
  cur,        \* the business it works on
  list,       \* unSendTransactionList: keys, each with the TxSignHex listed
  pending,    \* the part of list that it has still to send
  attempts,   \* retry.Do's attempts so far
  main,       \* Withdraw.Close: "run", "await", "closed"; "down" after a crash
  faults,
  \* the network and history
  broadcast,  \* what was handed to SendTx: business, key, TxSignHex
  saved       \* every TxSignHex stored, with its business and key

tableVars == <<status, hex>>
workVars == <<wk, todo, cur, list, pending, attempts>>
vars == <<tableVars, known, workVars, main, faults, broadcast, saved>>

TxStatus == {"none", "wait_sign", "unsend", "sent", "withdrawed"}
Item == [guid : Guid, hex : Signed \cup {Unsigned}]
Entry(b, i) == [business |-> b, guid |-> i.guid, hex |-> i.hex]

Fault(name) == name \in Faulty /\ faults < MaxFaults /\ faults' = faults + 1

-----------------------------------------------------------------------------
(* The services. *)

\* StoreWithdraws: a row that waits for its signature.
StoreWithdraws(b, g) == /\ status[b][g] = "none"
                        /\ status' = [status EXCEPT ![b][g] = "wait_sign"]
                        /\ hex' = [hex EXCEPT ![b][g] = Unsigned]

\* BuildUnSignTransaction returns the key of the row it stores; the answer may
\* be lost.
BuildUnSignTransaction(b, g) ==
  /\ StoreWithdraws(b, g)
  /\ \/ known' = [known EXCEPT ![b] = @ \cup {g}] /\ UNCHANGED faults
     \/ Fault("answer") /\ UNCHANGED known
  /\ UNCHANGED <<workVars, main, broadcast, saved>>

\* SubmitWithdraw stores a row and returns nothing.
SubmitWithdraw(b, g) == /\ StoreWithdraws(b, g)
                        /\ UNCHANGED <<known, workVars, main, faults, broadcast, saved>>

\* The row is saved with the signed transaction and as unsent, whatever it was
\* before.  For a key without a row an empty record is saved, which the table
\* refuses.
UpdateWithdrawByGuuid(b, g, x) == /\ status' = [status EXCEPT ![b][g] = "unsend"]
                                  /\ hex' = [hex EXCEPT ![b][g] = x]

\* BuildSignedTransaction for a key the client was given.
BuildSignedTransaction(b, g, x) ==
  /\ g \in known[b]
  /\ UpdateWithdrawByGuuid(b, g, x)
  /\ saved' = saved \cup {Entry(b, [guid |-> g, hex |-> x])}
  /\ UNCHANGED <<known, workVars, main, faults, broadcast>>

Services == \E b \in Business, g \in Guid :
              \/ BuildUnSignTransaction(b, g)
              \/ SubmitWithdraw(b, g)
              \/ \E x \in Signed : BuildSignedTransaction(b, g, x)

-----------------------------------------------------------------------------
(* The worker. *)

Cancelled == main # "run"
WorkerFrame == UNCHANGED <<tableVars, known, main, saved>>

\* A tick lists the businesses, each once (when that fails it is over).  After the context
\* is cancelled select may still choose a tick.
Tick == /\ wk = "idle" /\ main \in {"run", "await"}
        /\ todo' = Business /\ wk' = "each"
        /\ WorkerFrame
        /\ UNCHANGED <<cur, list, pending, attempts, faults, broadcast>>

TickDone == /\ wk = "each" /\ todo = {}
            /\ wk' = "idle"
            /\ WorkerFrame
            /\ UNCHANGED <<todo, cur, list, pending, attempts, faults, broadcast>>

\* Mutant of UnSendWithdrawsList: rows that wait for their signature, too.
UnSendWithdrawsListAll(b) ==
  {[guid |-> g, hex |-> hex[b][g]] : g \in {k \in Guid : status[b][k] # "none"}}

UnSendWithdrawsList(b) ==
  {[guid |-> g, hex |-> hex[b][g]] : g \in {k \in Guid : status[b][k] = "unsend"}}

\* The next business has rows to send ...
ListUnSend(b) == /\ wk = "each" /\ b \in todo
                 /\ UnSendWithdrawsList(b) # {}
                 /\ todo' = todo \ {b} /\ cur' = b
                 /\ list' = UnSendWithdrawsList(b)
                 /\ pending' = list'
                 /\ attempts' = 0 /\ wk' = "send"
                 /\ WorkerFrame
                 /\ UNCHANGED <<faults, broadcast>>

\* ... or none, or the query fails: on to the one after it.
SkipBusiness(b) == /\ wk = "each" /\ b \in todo
                   /\ \/ UnSendWithdrawsList(b) = {} /\ UNCHANGED faults
                      \/ Fault("list")
                   /\ todo' = todo \ {b}
                   /\ WorkerFrame
                   /\ UNCHANGED <<wk, cur, list, pending, attempts, broadcast>>

\* SendTx: the node has the transaction; the answer may be lost, which is an
\* error like any other.
SendTx(i) == /\ wk = "send" /\ i \in pending
             /\ UNCHANGED faults \/ Fault("send_ack")
             /\ broadcast' = broadcast \cup {Entry(cur, i)}
             /\ pending' = pending \ {i}
             /\ WorkerFrame
             /\ UNCHANGED <<wk, todo, cur, list, attempts>>

\* SendTx fails: on to the next row.
SendTxFails(i) == /\ wk = "send" /\ i \in pending
                  /\ Fault("send")
                  /\ pending' = pending \ {i}
                  /\ WorkerFrame
                  /\ UNCHANGED <<wk, todo, cur, list, attempts, broadcast>>

\* The query for the child transactions fails, which ends the worker; so does a
\* context cancelled before an attempt.
WorkerFails == /\ \/ wk = "send" /\ pending # {} /\ Fault("child")
                  \/ wk = "retry" /\ Cancelled /\ UNCHANGED faults
               /\ wk' = "failed"
               /\ WorkerFrame
               /\ UNCHANGED <<todo, cur, list, pending, attempts, broadcast>>

SendsDone == /\ wk = "send" /\ pending = {}
             /\ wk' = "retry"
             /\ WorkerFrame
             /\ UNCHANGED <<todo, cur, list, pending, attempts, faults, broadcast>>

RetryAttempt == /\ wk = "retry" /\ ~Cancelled
                /\ wk' = "attempt"
                /\ WorkerFrame
                /\ UNCHANGED <<todo, cur, list, pending, attempts, faults, broadcast>>

\* Mutant of UpdateWithdrawStatus: the old status is not looked at.
UpdateWithdrawStatusAny(new, guids) ==
  [status EXCEPT ![cur] = [g \in Guid |-> IF g \in guids THEN new ELSE @[g]]]

\* Of the rows given, those in status "withdrawed" get the new one.
UpdateWithdrawStatus(new, guids) ==
  [status EXCEPT ![cur] = [g \in Guid |-> IF g \in guids /\ @[g] = "withdrawed"
                                          THEN new ELSE @[g]]]

\* The status of the whole list is updated, sent or not, outside the
\* transaction that surrounds the update.
Attempt == /\ wk = "attempt"
           /\ status' = UpdateWithdrawStatus("sent", {i.guid : i \in list})
           /\ wk' = "each" /\ cur' = NoBusiness /\ list' = {}
           /\ UNCHANGED <<hex, known, todo, pending, attempts, main, faults, broadcast, saved>>

AfterFailure == IF attempts + 1 = MaxAttempts THEN "failed" ELSE "retry"

\* The update or the commit after it fails.
AttemptFails == /\ wk = "attempt"
                /\ \/ Fault("update") /\ UNCHANGED status
                   \/ /\ Fault("commit")
                      /\ status' = UpdateWithdrawStatus("sent", {i.guid : i \in list})
                /\ attempts' = attempts + 1
                /\ wk' = AfterFailure
                /\ UNCHANGED <<hex, known, todo, cur, list, pending, main, broadcast, saved>>

\* Mutant of WorkerExit: the cancelled context is not looked at.
WorkerExitRunning == /\ wk = "idle" /\ main = "closed"
                     /\ wk' = "done"
                     /\ WorkerFrame
                     /\ UNCHANGED <<todo, cur, list, pending, attempts, faults, broadcast>>

WorkerExit == /\ wk = "idle" /\ main = "await"
              /\ wk' = "done"
              /\ WorkerFrame
              /\ UNCHANGED <<todo, cur, list, pending, attempts, faults, broadcast>>

Worker == \/ Tick \/ TickDone
          \/ (\E b \in Business : ListUnSend(b) \/ SkipBusiness(b))
          \/ (\E i \in pending : SendTx(i) \/ SendTxFails(i))
          \/ WorkerFails \/ SendsDone \/ RetryAttempt \/ Attempt \/ AttemptFails
          \/ WorkerExit

-----------------------------------------------------------------------------
(* The process. *)

\* Withdraw.Close cancels the worker's context ...
CloseCancel == /\ main = "run" /\ Fault("stop")
               /\ main' = "await"
               /\ UNCHANGED <<tableVars, known, workVars, broadcast, saved>>

\* Mutant of CloseWait: the task is not awaited.
CloseNoWait == /\ main = "await"
               /\ main' = "closed"
               /\ UNCHANGED <<tableVars, known, workVars, faults, broadcast, saved>>

\* ... and waits for its task.
CloseWait == /\ main = "await" /\ wk \in {"failed", "done"}
             /\ main' = "closed"
             /\ UNCHANGED <<tableVars, known, workVars, faults, broadcast, saved>>

Crash == /\ main \in {"run", "await"} /\ Fault("crash")
         /\ main' = "down" /\ wk' = "done"
         /\ todo' = {} /\ cur' = NoBusiness /\ list' = {} /\ pending' = {}
         /\ attempts' = 0
         /\ UNCHANGED <<tableVars, known, broadcast, saved>>

\* NewWithdraw and Start.
Start == /\ main \in {"closed", "down"}
         /\ main' = "run" /\ wk' = "idle"
         /\ todo' = {} /\ cur' = NoBusiness /\ list' = {} /\ pending' = {}
         /\ attempts' = 0
         /\ UNCHANGED <<tableVars, known, faults, broadcast, saved>>

Init == /\ status = [b \in Business |-> [g \in Guid |-> "none"]]
        /\ hex = [b \in Business |-> [g \in Guid |-> Unsigned]]
        /\ known = [b \in Business |-> {}]
        /\ wk = "idle" /\ todo = {} /\ cur = NoBusiness /\ list = {} /\ pending = {}
        /\ attempts = 0 /\ main = "run" /\ faults = 0
        /\ broadcast = {} /\ saved = {}

Next == Services \/ Worker \/ CloseCancel \/ CloseWait \/ Crash \/ Start

Spec == Init /\ [][Next]_vars

\* The ticker fires again and again, calls return, Close goes on; select does
\* not choose a tick for ever once the context is cancelled.  Requests, crashes
\* and starts just happen.
Fairness == WF_vars(Worker) /\ SF_vars(WorkerExit) /\ WF_vars(CloseWait)

LiveSpec == Spec /\ Fairness

-----------------------------------------------------------------------------
(* Properties. *)

\* Every variable keeps its type.
TypeOK == /\ status \in [Business -> [Guid -> TxStatus]]
          /\ hex \in [Business -> [Guid -> Signed \cup {Unsigned}]]
          /\ known \in [Business -> SUBSET Guid]
          /\ wk \in {"idle", "each", "send", "retry", "attempt", "failed", "done"}
          /\ todo \subseteq Business
          /\ cur \in Business \cup {NoBusiness}
          /\ list \subseteq Item /\ pending \subseteq list
          /\ attempts \in 0..MaxAttempts
          /\ main \in {"run", "await", "closed", "down"}
          /\ faults \in 0..MaxFaults

\* Nothing reaches the network but what BuildSignedTransaction stored for that
\* row of that business: not the placeholder of a row that waits for its
\* signature, and nothing from a list of another business, whatever is stored
\* between the query and the broadcasts.
OnlySavedIsBroadcast == broadcast \subseteq saved

\* Once Withdraw.Close has returned, nothing is broadcast until the next start.
NoBroadcastAfterClose == [][main = "closed" => UNCHANGED broadcast]_vars

\* A withdrawal that waits to be sent is handed to the node, although
\* broadcasts of it or of others failed before: unless it is signed anew, the
\* worker has ended, or the process is being stopped.
SignedIsBroadcast ==
  \A b \in Business, g \in Guid, x \in Signed :
    (status[b][g] = "unsend" /\ hex[b][g] = x) ~>
      \/ Entry(b, [guid |-> g, hex |-> x]) \in broadcast
      \/ hex[b][g] # x
      \/ wk = "failed" \/ main # "run"

\* A worker that is asked to stop does.
CloseCompletes == (main = "await") ~> (main # "await")

\* A row in status "unsend" is not sent yet, once the worker is through with it.
UnSentIsNotSent ==
  \A b \in Business, g \in Guid :
    (wk = "idle" /\ status[b][g] = "unsend") =>
      Entry(b, [guid |-> g, hex |-> hex[b][g]]) \notin broadcast
=============================================================================
