------------------------------- MODULE Ledger -------------------------------
(***************************************************************************)
(* What handleBatch of worker/deposit.go writes for one business: the     *)
(* records its Handle... functions build from a batch, the retried        *)
(* database transaction that stores them, and the tables deposits_,       *)
(* balances_, transactions_, child_txs_ and vins_ of the business.        *)
(*                                                                         *)
(* A record's key is made once per batch, before the first attempt: it is *)
(* the number of the batch with the transaction it is about.  A batch may *)
(* come again, after a failed StoreBlockss or a restart, with new keys.   *)
(*                                                                         *)
(* processBatch never fills VinList, so nothing is made of the inputs: no *)
(* vouts, no spent vins, no balance for a withdrawal.  The rows of        *)
(* withdraws_ and internals_ are updated by keys that are new, and none   *)
(* matches.  Nothing else writes locked balances: they stay 0.  The       *)
(* tables are ones that take the records: their status is a string, so    *)
(* that a query for status 0 finds no row that has one of the TxStatus.   *)
(***************************************************************************)
EXTENDS Integers, FiniteSetsExt

CONSTANTS
  Addr,          \* the addresses of outputs
  NoAddr,        \* "", the FromAddress of every balance record
  Tx,            \* the transactions of the chain
  TxType,        \* TxType[t]: what processBatch made of t for the business
  Out,           \* Out[t]: its outputs, each with an address and an amount
  Block,         \* Block[t]: the height of its block
  Confirmations, \* the configured confirmations
  MaxAttempts,   \* the attempts of retry.Do (10 in handleBatch)
  MaxBatches,    \* bound: batches received
  MaxFaults      \* bound: failures and crashes

Types == {"unknown", "deposit", "withdraw", "collection", "hot2cold", "cold2hot"}

ASSUME LedgerAssumption ==
  /\ NoAddr \in Addr
  /\ TxType \in [Tx -> Types]
  /\ DOMAIN Out = Tx /\ IsFiniteSet(Tx) /\ \A t \in Tx : IsFiniteSet(DOMAIN Out[t])
  /\ \A t \in Tx : \A i \in DOMAIN Out[t] : Out[t][i].addr \in Addr /\ Out[t][i].amount \in Nat
  /\ Block \in [Tx -> Nat \ {0}]
  /\ Confirmations \in Nat
  /\ MaxAttempts \in Nat \ {0} /\ MaxBatches \in Nat /\ MaxFaults \in Nat

VARIABLES
  pc,         \* handleBatch: "recv", "retry", "balances", "store", "commit", "failed"
  batch,      \* the transactions of the batch it works on
  number,     \* batches so far, the number of this one
  left,       \* the balance records UpdateOrCreate has still to apply
  attempts,   \* retry.Do's attempts so far
  db,         \* the tables, as committed
  work,       \* the tables, as the open transaction sees them
  faults,
  \* history
  top,        \* the greatest BlockHeight received
  last        \* the BlockHeight committed last

vars == <<pc, batch, number, left, attempts, db, work, faults, top, last>>

Key == [batch : 1..MaxBatches, tx : Tx]

\* Mutant of KeyOf: the key is made anew for each attempt.
KeyOfAttempt(t) == [batch |-> number + attempts, tx |-> t]

\* The key of a record about t.
KeyOf(t) == [batch |-> number, tx |-> t]

\* A record of one output.
Outputs(txs) == UNION {{[tx |-> t, i |-> i] : i \in DOMAIN Out[t]} : t \in txs}
Output(o) == Out[o.tx][o.i]

Deposits == [key : Key, confirms : 0..255, status : {"unsafe", "finalized"}]
Empty == [deposits |-> {}, balance |-> [a \in Addr |-> 0], txs |-> {}, childs |-> {}, vins |-> {}]

Fault == faults < MaxFaults /\ faults' = faults + 1

-----------------------------------------------------------------------------
(* What a batch is turned into. *)

\* Deposit.confirms has 8 bits.
Confirms == Confirmations % 256

\* BlockHeight of the batch: that of its last block with transactions.
BlockHeight == Max({Block[t] : t \in batch})

BatchOf(types) == {t \in batch : TxType[t] \in types}

\* A child transaction for each output of t, made by one of the Handle... functions.
ChildTxs(t, by) == {[key |-> KeyOf(t), i |-> i, by |-> by] : i \in DOMAIN Out[t]}

\* HandleDeposit.
HandleDeposit(t) == [key |-> KeyOf(t), confirms |-> 0, status |-> "unsafe"]

DepositList == {HandleDeposit(t) : t \in BatchOf({"deposit"})}
DepositListChildTxFlowList == UNION {ChildTxs(t, "deposit") : t \in BatchOf({"deposit"})}

\* HandleInternalTx, of which only the child transactions are inserted.
InternalTypes == {"collection", "hot2cold", "cold2hot"}
HandleInternalTx(t) == ChildTxs(t, "internal")
InternalsChildTxFlowList == UNION {HandleInternalTx(t) : t \in BatchOf(InternalTypes)}

\* HandleTransaction: a row for each, and once more the outputs of a deposit.
TransactionFlowList == {KeyOf(t) : t \in batch}
TransactionChildTxFlowList == UNION {ChildTxs(t, "transaction") : t \in BatchOf({"deposit"})}

\* HandleVin: a vins row for every output of every transaction ...
VinList == {[key |-> KeyOf(o.tx), i |-> o.i] : o \in Outputs(batch)}

\* ... and a balance record for those of some types.
BalanceList == Outputs(BatchOf({"deposit"} \cup InternalTypes))

-----------------------------------------------------------------------------
(* The tables. *)

DepositKeys(deposits) == {d.key : d \in deposits}

\* UpdateDepositsComfirms for one row.  It asks for status 0.
Confirmed(d, h) ==
  IF d.status # "0" \/ Block[d.key.tx] > h THEN d
  ELSE IF h - Block[d.key.tx] >= Confirms
       THEN [d EXCEPT !.confirms = Confirms, !.status = "finalized"]
       ELSE [d EXCEPT !.confirms = (h - Block[d.key.tx]) % 256]

\* The locked part of every balance.
LockBalance == 0

\* UpdateOrCreate for one record.  An internal transfer takes the amount from a
\* locked balance first; a balance below 0 is refused by the column's domain.
Refused(type, amount) == type # "deposit" /\ LockBalance - amount < 0

BalanceAfter(b, type, a, amount) ==
  CASE type = "deposit" -> [b EXCEPT ![a] = @ + amount]
    [] type \in {"collection", "hot2cold"} ->
         [[b EXCEPT ![NoAddr] = LockBalance - amount] EXCEPT ![a] = @ + amount]
    [] OTHER -> [[b EXCEPT ![a] = LockBalance - amount] EXCEPT ![NoAddr] = @ + amount]

-----------------------------------------------------------------------------
(* handleBatch. *)

\* A batch: the transactions between two heights, from no later than the first
\* that was never received.  A business without transactions in it is passed over.
Receive(from, to) ==
  /\ pc = "recv" /\ number < MaxBatches
  /\ from <= top + 1
  /\ batch' = {t \in Tx : Block[t] \in from..to}
  /\ batch' # {}
  /\ number' = number + 1
  /\ top' = Max({top} \cup {Block[t] : t \in batch'})
  /\ attempts' = 0 /\ pc' = "retry"
  /\ UNCHANGED <<left, db, work, faults, last>>

\* Mutant of Unique: a key that is there already is passed over.
UniqueIgnored(new, old) == TRUE

\* The primary keys of the rows to insert are not there yet.
Unique(new, old) == new \cap old = {}

\* An attempt begins: StoreDeposits, then UpdateDepositsComfirms.
BeginAttempt ==
  /\ pc = "retry"
  /\ Unique(DepositKeys(DepositList), DepositKeys(db.deposits))
  /\ work' = [db EXCEPT !.deposits = {Confirmed(d, BlockHeight) : d \in db.deposits \cup DepositList},
                        !.childs = @ \cup DepositListChildTxFlowList]
  /\ left' = BalanceList /\ pc' = "balances"
  /\ UNCHANGED <<batch, number, attempts, db, faults, top, last>>

UpdateOrCreate(o) ==
  /\ pc = "balances" /\ o \in left
  /\ ~Refused(TxType[o.tx], Output(o).amount)
  /\ work' = [work EXCEPT !.balance = BalanceAfter(@, TxType[o.tx], Output(o).addr, Output(o).amount)]
  /\ left' = left \ {o}
  /\ UNCHANGED <<pc, batch, number, attempts, db, faults, top, last>>

BalancesDone == /\ pc = "balances" /\ left = {}
                /\ pc' = "store"
                /\ UNCHANGED <<batch, number, left, attempts, db, work, faults, top, last>>

\* The child transactions of the internal ones, StoreTransactions with its child
\* transactions, and StoreVins.
StoreRows == /\ pc = "store"
             /\ Unique(TransactionFlowList, work.txs)
             /\ work' = [work EXCEPT !.txs = @ \cup TransactionFlowList,
                                     !.childs = @ \cup InternalsChildTxFlowList
                                                  \cup TransactionChildTxFlowList,
                                     !.vins = @ \cup VinList]
             /\ pc' = "commit"
             /\ UNCHANGED <<batch, number, left, attempts, db, faults, top, last>>

Commit == /\ pc = "commit"
          /\ db' = work /\ last' = BlockHeight
          /\ pc' = "recv" /\ batch' = {}
          /\ UNCHANGED <<number, left, attempts, work, faults, top>>

AfterFailure == IF attempts + 1 = MaxAttempts THEN "failed" ELSE "retry"

\* Mutant of Rollback: what the attempt did stays.
RollbackNothing == work

\* The tables after an attempt that failed.
Rollback == db

\* A statement of the attempt is refused, or fails, and it is rolled back; or
\* the commit is done and its answer lost.
AttemptFails ==
  /\ \/ /\ pc = "retry" /\ ~Unique(DepositKeys(DepositList), DepositKeys(db.deposits))
        /\ db' = Rollback /\ UNCHANGED <<faults, last>>
     \/ /\ pc = "balances" /\ \E o \in left : Refused(TxType[o.tx], Output(o).amount)
        /\ db' = Rollback /\ UNCHANGED <<faults, last>>
     \/ /\ pc = "store" /\ ~Unique(TransactionFlowList, work.txs)
        /\ db' = Rollback /\ UNCHANGED <<faults, last>>
     \/ /\ pc \in {"balances", "store", "commit"} /\ Fault
        /\ db' = Rollback /\ UNCHANGED last
     \/ /\ pc = "commit" /\ Fault
        /\ db' = work /\ last' = BlockHeight
  /\ attempts' = attempts + 1 /\ left' = {}
  /\ pc' = AfterFailure
  /\ UNCHANGED <<batch, number, work, top>>

\* The process dies, or is stopped (retry.Do then gives up before its next
\* attempt), or is started again after the handler has failed.
Restart == /\ (pc = "failed" /\ UNCHANGED faults) \/ Fault
           /\ pc' = "recv" /\ batch' = {} /\ left' = {} /\ attempts' = 0
           /\ UNCHANGED <<number, db, work, top, last>>

Init == /\ pc = "recv" /\ batch = {} /\ number = 0 /\ left = {} /\ attempts = 0
        /\ db = Empty /\ work = Empty
        /\ faults = 0 /\ top = 0 /\ last = 0

Next == \/ \E from, to \in {Block[t] : t \in Tx} : Receive(from, to)
        \/ BeginAttempt \/ (\E o \in left : UpdateOrCreate(o)) \/ BalancesDone
        \/ StoreRows \/ Commit \/ AttemptFails \/ Restart

Spec == Init /\ [][Next]_vars

-----------------------------------------------------------------------------
(* Properties. *)

\* Every variable keeps its type.
TypeOK == /\ pc \in {"recv", "retry", "balances", "store", "commit", "failed"}
          /\ batch \subseteq Tx /\ number \in 0..MaxBatches
          /\ left \subseteq Outputs(Tx)
          /\ attempts \in 0..MaxAttempts
          /\ db.deposits \subseteq Deposits /\ work.deposits \subseteq Deposits
          /\ db.balance \in [Addr -> Nat] /\ work.balance \in [Addr -> Nat]
          /\ db.txs \subseteq Key /\ work.txs \subseteq Key
          /\ faults \in 0..MaxFaults /\ top \in Nat /\ last \in Nat

\* What a batch writes is there together or not at all, whichever statement
\* failed and whenever the process died: a deposit has its row exactly when its
\* transaction has one, a transaction has all its outputs, and the child
\* transactions of a deposit are there twice.
WrittenTogether ==
  /\ DepositKeys(db.deposits) = {k \in db.txs : TxType[k.tx] = "deposit"}
  /\ db.vins = UNION {{[key |-> k, i |-> i] : i \in DOMAIN Out[k.tx]} : k \in db.txs}
  /\ db.childs = UNION {[key : {k}, i : DOMAIN Out[k.tx],
                         by : CASE TxType[k.tx] = "deposit" -> {"deposit", "transaction"}
                                [] TxType[k.tx] \in InternalTypes -> {"internal"}
                                [] OTHER -> {}] : k \in db.txs}

\* No balance exceeds the outputs recorded for its address: no attempt that is
\* repeated after a rollback, or after a commit whose answer was lost, credits an
\* output again (UpdateOrCreate has no key to tell).  A batch that comes again is
\* recorded and credited again, under new keys.
BalanceIsBacked ==
  \A a \in Addr :
    db.balance[a] <= MapThenSumSet(LAMBDA v : Out[v.key.tx][v.i].amount,
                                   {v \in db.vins : Out[v.key.tx][v.i].addr = a})

\* A deposit counts as received once a block was written that is as far above
\* its own as is configured: the comment of UpdateDepositsComfirms.
DeepIsFinal ==
  \A d \in db.deposits :
    last - Block[d.key.tx] > Confirmations => d.status = "finalized"

\* Whatever is retried, lost, repeated or cut off, handleBatch writes each batch it
\* receives in one step and at most once: the keys are made once per batch, and a
\* row that is there already refuses the whole attempt.
Writes == INSTANCE BatchWrites WITH
            received <- number,
            txs <- db.txs
ImplementsBatchWrites == Writes!Spec
=============================================================================
