---------------------------- MODULE LedgerProofs ----------------------------
(***************************************************************************)
(* What one batch writes is there together or not at all, balances are     *)
(* backed by outputs and what is committed stays: for every finite chain,  *)
(* every number of batches, attempts and failures.                         *)
(***************************************************************************)
EXTENDS Ledger, TLAPS, FiniteSetTheorems

-----------------------------------------------------------------------------
(* The inductive invariant. *)

\* The rows that belong to a row k of transactions_.
VinsOf(k) == {[key |-> k, i |-> i] : i \in DOMAIN Out[k.tx]}
By(k) == CASE TxType[k.tx] = "deposit" -> {"deposit", "transaction"}
           [] TxType[k.tx] \in InternalTypes -> {"internal"}
           [] OTHER -> {}
ChildsOf(k) == [key : {k}, i : DOMAIN Out[k.tx], by : By(k)]
DepositsOf(keys) == {k \in keys : TxType[k.tx] = "deposit"}

\* Tables in which every transaction has its rows.
Whole(t) == /\ DepositKeys(t.deposits) = DepositsOf(t.txs)
            /\ t.vins = UNION {VinsOf(k) : k \in t.txs}
            /\ t.childs = UNION {ChildsOf(k) : k \in t.txs}

\* What the open transaction has changed when it comes to StoreRows.
HalfWritten == /\ DepositKeys(work.deposits) = DepositKeys(db.deposits) \cup DepositKeys(DepositList)
               /\ work.txs = db.txs /\ work.vins = db.vins
               /\ work.childs = db.childs \cup DepositListChildTxFlowList

\* A record of five tables.
IsTable(t) == t = [deposits |-> t.deposits, balance |-> t.balance, txs |-> t.txs,
                   childs |-> t.childs, vins |-> t.vins]

\* A row of deposits_.
IsDeposit(d) == d = [key |-> d.key, confirms |-> d.confirms, status |-> d.status]

LedgerInv == /\ batch \subseteq Tx
             /\ IsTable(db) /\ IsTable(work)
             /\ \A d \in db.deposits \cup work.deposits : IsDeposit(d)
             /\ Whole(db)
             /\ pc \in {"balances", "store"} => HalfWritten
             /\ pc = "commit" => Whole(work)

-----------------------------------------------------------------------------
(* The tables a statement leaves. *)

LEMMA BalanceTable ==
  ASSUME NEW t, IsTable(t), NEW a, NEW u, u = [t EXCEPT !.balance = a]
  PROVE  /\ IsTable(u) /\ u.deposits = t.deposits /\ u.childs = t.childs
         /\ u.txs = t.txs /\ u.vins = t.vins
  BY DEF IsTable

\* UpdateDepositsComfirms changes no key.
LEMMA ConfirmedKeepsKeys ==
  ASSUME NEW D, NEW h, \A d \in D : IsDeposit(d)
  PROVE  /\ DepositKeys({Confirmed(d, h) : d \in D}) = DepositKeys(D)
         /\ \A d \in {Confirmed(e, h) : e \in D} : IsDeposit(d)
<1>1. ASSUME NEW d \in D PROVE Confirmed(d, h).key = d.key /\ IsDeposit(Confirmed(d, h))
  <2>1. d = [key |-> d.key, confirms |-> d.confirms, status |-> d.status]
    BY <1>1 DEF IsDeposit
  <2>2. ASSUME NEW x, NEW e, e = [d EXCEPT !.confirms = x]
        PROVE  e.key = d.key /\ IsDeposit(e)
    BY <2>1, <2>2 DEF IsDeposit
  <2>3. ASSUME NEW x, NEW s, NEW e, e = [d EXCEPT !.confirms = x, !.status = s]
        PROVE  e.key = d.key /\ IsDeposit(e)
    BY <2>1, <2>3 DEF IsDeposit
  <2> QED
    BY <2>2, <2>3, <1>1 DEF Confirmed
<1> QED
  BY <1>1 DEF DepositKeys

-----------------------------------------------------------------------------
(* The rows of a batch. *)

LEMMA BatchKeys ==
  ASSUME NEW t
  PROVE  KeyOf(t).tx = t
  BY DEF KeyOf

LEMMA BatchDeposits == DepositKeys(DepositList) = DepositsOf(TransactionFlowList)
<1>1. \A t : HandleDeposit(t).key = KeyOf(t)
  BY DEF HandleDeposit
<1>2. DepositKeys(DepositList) = {KeyOf(t) : t \in BatchOf({"deposit"})}
  BY <1>1 DEF DepositKeys, DepositList
<1>3. DepositsOf(TransactionFlowList) = {KeyOf(t) : t \in BatchOf({"deposit"})}
  BY BatchKeys DEF DepositsOf, TransactionFlowList, BatchOf
<1> QED
  BY <1>2, <1>3

LEMMA BatchVins == VinList = UNION {VinsOf(k) : k \in TransactionFlowList}
<1>1. ASSUME NEW v
      PROVE  v \in VinList <=> \E t \in batch : \E i \in DOMAIN Out[t] : v = [key |-> KeyOf(t), i |-> i]
  <2>1. v \in VinList <=> \E o \in Outputs(batch) : v = [key |-> KeyOf(o.tx), i |-> o.i]
    BY DEF VinList
  <2>2. ASSUME NEW o \in Outputs(batch)
        PROVE  o.tx \in batch /\ o.i \in DOMAIN Out[o.tx]
    BY DEF Outputs
  <2>3. ASSUME NEW t \in batch, NEW i \in DOMAIN Out[t]
        PROVE  \E o \in Outputs(batch) : o.tx = t /\ o.i = i
    <3>1. [tx |-> t, i |-> i] \in Outputs(batch)
      BY DEF Outputs
    <3> QED
      BY <3>1
  <2> QED
    BY <2>1, <2>2, <2>3
<1>2. ASSUME NEW v
      PROVE  v \in UNION {VinsOf(k) : k \in TransactionFlowList}
               <=> \E t \in batch : \E i \in DOMAIN Out[t] : v = [key |-> KeyOf(t), i |-> i]
  <2>1. \A t : VinsOf(KeyOf(t)) = {[key |-> KeyOf(t), i |-> i] : i \in DOMAIN Out[t]}
    BY BatchKeys DEF VinsOf
  <2>2. v \in UNION {VinsOf(k) : k \in TransactionFlowList}
          <=> \E t \in batch : v \in VinsOf(KeyOf(t))
    BY DEF TransactionFlowList
  <2> QED
    BY <2>1, <2>2
<1> QED
  BY <1>1, <1>2

\* A set of records with one key.
LEMMA Records ==
  ASSUME NEW k, NEW D, NEW B, NEW c
  PROVE  c \in [key : {k}, i : D, by : B]
           <=> \E i \in D : \E b \in B : c = [key |-> k, i |-> i, by |-> b]
  OBVIOUS

LEMMA BatchChilds ==
  DepositListChildTxFlowList \cup InternalsChildTxFlowList \cup TransactionChildTxFlowList
    = UNION {ChildsOf(k) : k \in TransactionFlowList}
<1>1. ASSUME NEW t \in batch, NEW c
      PROVE  c \in ChildsOf(KeyOf(t)) <=> \E by \in By(KeyOf(t)) : c \in ChildTxs(t, by)
  <2>1. KeyOf(t).tx = t
    BY BatchKeys
  <2>2. c \in ChildsOf(KeyOf(t))
          <=> \E i \in DOMAIN Out[t] : \E b \in By(KeyOf(t)) : c = [key |-> KeyOf(t), i |-> i, by |-> b]
    BY <2>1, Records DEF ChildsOf
  <2>3. ASSUME NEW b
        PROVE  c \in ChildTxs(t, b) <=> \E i \in DOMAIN Out[t] : c = [key |-> KeyOf(t), i |-> i, by |-> b]
    BY DEF ChildTxs
  <2> QED
    BY <2>2, <2>3
<1>2. ASSUME NEW t \in batch, NEW c
      PROVE  c \in ChildsOf(KeyOf(t)) <=>
               \/ TxType[t] = "deposit" /\ c \in ChildTxs(t, "deposit")
               \/ TxType[t] = "deposit" /\ c \in ChildTxs(t, "transaction")
               \/ TxType[t] \in InternalTypes /\ c \in ChildTxs(t, "internal")
  <2>1. KeyOf(t).tx = t
    BY BatchKeys
  <2>2. CASE TxType[t] = "deposit"
    BY <1>1, <2>1, <2>2 DEF By, InternalTypes
  <2>3. CASE TxType[t] \in InternalTypes
    BY <1>1, <2>1, <2>3 DEF By, InternalTypes
  <2>4. CASE TxType[t] # "deposit" /\ TxType[t] \notin InternalTypes
    BY <1>1, <2>1, <2>4 DEF By
  <2> QED
    BY <2>2, <2>3, <2>4
<1>3. ASSUME NEW c
      PROVE  c \in UNION {ChildsOf(k) : k \in TransactionFlowList}
               <=> \E t \in batch : c \in ChildsOf(KeyOf(t))
  BY DEF TransactionFlowList
<1>4. ASSUME NEW c
      PROVE  /\ c \in DepositListChildTxFlowList
                  <=> \E t \in batch : TxType[t] = "deposit" /\ c \in ChildTxs(t, "deposit")
             /\ c \in TransactionChildTxFlowList
                  <=> \E t \in batch : TxType[t] = "deposit" /\ c \in ChildTxs(t, "transaction")
             /\ c \in InternalsChildTxFlowList
                  <=> \E t \in batch : TxType[t] \in InternalTypes /\ c \in ChildTxs(t, "internal")
  BY DEF DepositListChildTxFlowList, InternalsChildTxFlowList, HandleInternalTx,
       TransactionChildTxFlowList, BatchOf
<1>5. ASSUME NEW c
      PROVE  c \in DepositListChildTxFlowList \cup InternalsChildTxFlowList
                      \cup TransactionChildTxFlowList
               <=> c \in UNION {ChildsOf(k) : k \in TransactionFlowList}
  BY <1>2, <1>3, <1>4
<1> QED
  BY <1>5

-----------------------------------------------------------------------------
(* The invariant. *)

\* Whole tables and the rows of a batch make whole tables.
LEMMA WholeGrows ==
  ASSUME NEW old, NEW new, Whole(old),
         DepositKeys(new.deposits) = DepositKeys(old.deposits) \cup DepositKeys(DepositList),
         new.txs = old.txs \cup TransactionFlowList,
         new.vins = old.vins \cup VinList,
         new.childs = old.childs \cup DepositListChildTxFlowList
                        \cup InternalsChildTxFlowList \cup TransactionChildTxFlowList
  PROVE  Whole(new)
<1>1. DepositKeys(new.deposits) = DepositsOf(new.txs)
  BY BatchDeposits DEF Whole, DepositsOf
<1>2. new.vins = UNION {VinsOf(k) : k \in new.txs}
  <2> DEFINE All == UNION {VinsOf(k) : k \in old.txs \cup TransactionFlowList}
             Old == UNION {VinsOf(k) : k \in old.txs}
             New == UNION {VinsOf(k) : k \in TransactionFlowList}
  <2>1. All = Old \cup New
    <3>1. ASSUME NEW v PROVE v \in All <=> \E k \in old.txs \cup TransactionFlowList : v \in VinsOf(k)
      OBVIOUS
    <3>2. ASSUME NEW v PROVE v \in Old <=> \E k \in old.txs : v \in VinsOf(k)
      OBVIOUS
    <3>3. ASSUME NEW v PROVE v \in New <=> \E k \in TransactionFlowList : v \in VinsOf(k)
      OBVIOUS
    <3> HIDE DEF All, Old, New
    <3> QED
      BY <3>1, <3>2, <3>3
  <2> QED
    BY <2>1, BatchVins DEF Whole
<1>3. new.childs = UNION {ChildsOf(k) : k \in new.txs}
  <2> DEFINE All == UNION {ChildsOf(k) : k \in old.txs \cup TransactionFlowList}
             Old == UNION {ChildsOf(k) : k \in old.txs}
             New == UNION {ChildsOf(k) : k \in TransactionFlowList}
  <2>1. All = Old \cup New
    <3>1. ASSUME NEW v PROVE v \in All <=> \E k \in old.txs \cup TransactionFlowList : v \in ChildsOf(k)
      OBVIOUS
    <3>2. ASSUME NEW v PROVE v \in Old <=> \E k \in old.txs : v \in ChildsOf(k)
      OBVIOUS
    <3>3. ASSUME NEW v PROVE v \in New <=> \E k \in TransactionFlowList : v \in ChildsOf(k)
      OBVIOUS
    <3> HIDE DEF All, Old, New
    <3> QED
      BY <3>1, <3>2, <3>3
  <2>2. new.childs = old.childs \cup (DepositListChildTxFlowList \cup InternalsChildTxFlowList
                                        \cup TransactionChildTxFlowList)
    OBVIOUS
  <2> QED
    BY <2>1, <2>2, BatchChilds DEF Whole
<1> QED
  BY <1>1, <1>2, <1>3 DEF Whole

LEMMA LedgerInvInit == Init => LedgerInv
<1> SUFFICES ASSUME Init PROVE LedgerInv
  OBVIOUS
<1>1. Whole(Empty) /\ IsTable(Empty) /\ Empty.deposits = {}
  BY DEF Empty, Whole, IsTable, DepositKeys, DepositsOf
<1> QED
  BY <1>1 DEF Init, LedgerInv

LEMMA LedgerInvNext == LedgerInv /\ [Next]_vars => LedgerInv'
<1> SUFFICES ASSUME LedgerInv, [Next]_vars PROVE LedgerInv'
  OBVIOUS
<1> USE DEF LedgerInv
<1>1. ASSUME NEW from, NEW to, Receive(from, to) PROVE LedgerInv'
  BY <1>1 DEF Receive, Whole
<1>2. CASE BeginAttempt
  <2>1. \A d \in db.deposits \cup DepositList : IsDeposit(d)
    BY DEF DepositList, HandleDeposit, IsDeposit
  <2> DEFINE All == db.deposits \cup DepositList
             New == {Confirmed(d, BlockHeight) : d \in All}
             Childs == db.childs \cup DepositListChildTxFlowList
  <2>2. work' = [db EXCEPT !.deposits = New, !.childs = Childs]
    BY <1>2 DEF BeginAttempt
  <2>3. DepositKeys(New) = DepositKeys(All) /\ \A d \in New : IsDeposit(d)
    <3> HIDE DEF All
    <3> QED
      BY <2>1, ConfirmedKeepsKeys DEF All
  <2>4. /\ IsTable(work') /\ work'.deposits = New /\ work'.childs = Childs
        /\ work'.txs = db.txs /\ work'.vins = db.vins
    <3> HIDE DEF New, Childs
    <3> QED
      BY <2>2 DEF IsTable
  <2>5. DepositKeys(All) = DepositKeys(db.deposits) \cup DepositKeys(DepositList)
    BY DEF DepositKeys
  <2>6. UNCHANGED <<batch, number, db>> /\ pc' = "balances"
    BY <1>2 DEF BeginAttempt
  <2>7. DepositList' = DepositList /\ DepositListChildTxFlowList' = DepositListChildTxFlowList
    BY <2>6 DEF DepositList, DepositListChildTxFlowList, HandleDeposit, BatchOf, ChildTxs, KeyOf
  <2>8. HalfWritten'
    BY <2>3, <2>4, <2>5, <2>6, <2>7 DEF HalfWritten, DepositKeys
  <2> QED
    BY <2>3, <2>4, <2>6, <2>8 DEF Whole, IsTable
<1>3. ASSUME NEW o \in left, UpdateOrCreate(o) PROVE LedgerInv'
  <2>1. /\ IsTable(work') /\ work'.deposits = work.deposits /\ work'.childs = work.childs
        /\ work'.txs = work.txs /\ work'.vins = work.vins
    BY <1>3, BalanceTable DEF UpdateOrCreate
  <2>2. UNCHANGED <<pc, batch, number, db>> /\ pc = "balances"
    BY <1>3 DEF UpdateOrCreate
  <2>3. HalfWritten'
    BY <2>1, <2>2 DEF HalfWritten, DepositList, DepositListChildTxFlowList, HandleDeposit,
         BatchOf, ChildTxs, KeyOf, DepositKeys
  <2> QED
    BY <2>1, <2>2, <2>3 DEF Whole, IsTable
<1>4. CASE BalancesDone \/ UNCHANGED vars
  <2>1. UNCHANGED <<batch, number, db, work>> /\ (pc' = pc \/ (pc = "balances" /\ pc' = "store"))
    BY <1>4 DEF BalancesDone, vars
  <2>2. HalfWritten => HalfWritten'
    BY <2>1 DEF HalfWritten, DepositList, DepositListChildTxFlowList, HandleDeposit,
         BatchOf, ChildTxs, KeyOf, DepositKeys
  <2> QED
    BY <2>1, <2>2 DEF Whole, IsTable
<1>5. CASE StoreRows
  <2>1. /\ IsTable(work') /\ work'.deposits = work.deposits
        /\ work'.txs = work.txs \cup TransactionFlowList
        /\ work'.childs = work.childs \cup InternalsChildTxFlowList \cup TransactionChildTxFlowList
        /\ work'.vins = work.vins \cup VinList
    <3> DEFINE Txs == work.txs \cup TransactionFlowList
               Childs == work.childs \cup InternalsChildTxFlowList \cup TransactionChildTxFlowList
               Vins == work.vins \cup VinList
    <3>1. work' = [work EXCEPT !.txs = Txs, !.childs = Childs, !.vins = Vins]
      BY <1>5 DEF StoreRows
    <3> HIDE DEF Txs, Childs, Vins
    <3>2. /\ IsTable(work') /\ work'.deposits = work.deposits
          /\ work'.txs = Txs /\ work'.childs = Childs /\ work'.vins = Vins
      BY <3>1 DEF IsTable
    <3> QED
      BY <3>2 DEF Txs, Childs, Vins
  <2>2. HalfWritten /\ UNCHANGED <<batch, db>> /\ pc' = "commit"
    BY <1>5 DEF StoreRows
  <2>3. Whole(work')
    BY <2>1, <2>2, WholeGrows DEF HalfWritten
  <2> QED
    BY <2>1, <2>2, <2>3 DEF Whole, IsTable
<1>6. CASE Commit
  BY <1>6 DEF Commit, Whole, IsTable
<1>7. CASE AttemptFails
  <2>1. /\ db' = db \/ (pc = "commit" /\ db' = work)
        /\ UNCHANGED <<batch, work>> /\ pc' \in {"failed", "retry"}
    BY <1>7 DEF AttemptFails, Rollback, AfterFailure
  <2> QED
    BY <2>1 DEF Whole, IsTable
<1>8. CASE Restart
  BY <1>8 DEF Restart, Whole, IsTable
<1> QED
  BY <1>1, <1>2, <1>3, <1>4, <1>5, <1>6, <1>7, <1>8 DEF Next

\* A batch's deposits, transactions, child transactions and vins are committed
\* together or not at all.
THEOREM BatchIsWrittenTogether == Spec => []WrittenTogether
<1>1. LedgerInv => WrittenTogether
  BY DEF LedgerInv, Whole, WrittenTogether, DepositsOf, VinsOf, ChildsOf, By
<1> QED
  BY <1>1, LedgerInvInit, LedgerInvNext, PTL DEF Spec

-----------------------------------------------------------------------------
(* Types. *)

\* handleBatch is at work on a batch.
Working == pc \in {"retry", "balances", "store", "commit"} =>
             batch # {} /\ number >= 1 /\ attempts < MaxAttempts

\* The blocks of a batch were received.
Received == \A t \in batch : Block[t] <= top

\* The inductive invariant.
TypeInv == TypeOK /\ Working /\ Received

\* The greatest height of blocks that are bounded.
LEMMA MaxOfBounded ==
  ASSUME NEW S \in SUBSET Nat, S # {}, NEW n \in Nat, \A x \in S : x <= n
  PROVE  Max(S) \in S /\ \A y \in S : Max(S) >= y
<1> DEFINE below == {n - x : x \in S}
           less == OpToRel(<, Nat)
<1>1. below \subseteq Nat /\ below # {}
  <2>1. \A x \in S : n - x \in Nat
    OBVIOUS
  <2> QED BY <2>1, Zenon
<1>2. IsWellFoundedOn(less, Nat)
  BY NatLessThanWellFounded
<1>3. PICK m \in below : \A y \in below : ~(<<y, m>> \in less)
  <2> HIDE DEF less, below
  <2> QED BY ONLY <1>1, <1>2, WFMin, Zenon
<1>4. PICK x \in S : m = n - x
  OBVIOUS
<1>5. ASSUME NEW y \in S PROVE x >= y
  <2>1. n - y \in below /\ n - y \in Nat /\ m \in Nat
    BY <1>1
  <2>2. ~(n - y < m)
    BY <1>3, <2>1 DEF OpToRel
  <2> QED BY <1>4, <2>1, <2>2
<1>6. \E z \in S : \A y \in S : z >= y
  BY <1>5
<1> QED BY <1>6 DEF Max

\* The height of a batch is that of one of its blocks, which was received.
LEMMA BlockHeightReceived ==
  ASSUME batch \subseteq Tx, batch # {}, top \in Nat, Received
  PROVE  BlockHeight \in Nat /\ BlockHeight <= top
<1> DEFINE S == {Block[t] : t \in batch}
<1>1. S \in SUBSET Nat /\ S # {} /\ \A x \in S : x <= top
  BY LedgerAssumption DEF Received
<1>2. Max(S) \in S
  <2> HIDE DEF S
  <2> QED BY <1>1, MaxOfBounded
<1> HIDE DEF S
<1>3. Max(S) \in Nat /\ Max(S) <= top
  BY <1>1, <1>2
<1> QED BY <1>3 DEF BlockHeight, S

\* UpdateDepositsComfirms for one row.
LEMMA ConfirmedType == ASSUME NEW d \in Deposits, NEW h PROVE Confirmed(d, h) \in Deposits
BY DEF Deposits, Confirmed

\* Receiving a batch.
LEMMA TypeReceive ==
  ASSUME TypeInv, NEW from \in Nat, NEW to \in Nat, Receive(from, to)
  PROVE  TypeInv'
<1> USE DEF TypeInv
<1>1. /\ batch' = {t \in Tx : Block[t] \in from..to} /\ batch' # {}
      /\ number' = number + 1 /\ number < MaxBatches /\ attempts' = 0 /\ pc' = "retry"
      /\ UNCHANGED <<left, db, work, faults, last>>
  BY DEF Receive
<1> DEFINE S == {top} \cup {Block[t] : t \in batch'}
<1>2. top \in Nat /\ S \in SUBSET Nat /\ top \in S /\ \A x \in S : x <= top + to
  BY <1>1, LedgerAssumption DEF TypeOK
<1>3. top' \in S /\ \A y \in S : top' >= y
  <2>1. top' = Max(S)
    BY DEF Receive
  <2>2. S # {} /\ top + to \in Nat
    BY <1>2
  <2> HIDE DEF S
  <2>3. Max(S) \in S /\ \A y \in S : Max(S) >= y
    BY <1>2, <2>2, MaxOfBounded
  <2> QED BY <2>1, <2>3
<1>4. top' \in Nat /\ top <= top' /\ \A t \in batch' : Block[t] <= top'
  BY <1>2, <1>3
<1>5. TypeOK'
  BY <1>1, <1>4, LedgerAssumption DEF TypeOK
<1>6. Working' /\ Received'
  BY <1>1, <1>4, LedgerAssumption DEF Working, Received, TypeOK
<1> QED BY <1>5, <1>6

\* An attempt begins.
LEMMA TypeBegin == ASSUME LedgerInv, TypeInv, BeginAttempt PROVE TypeInv'
<1> USE DEF TypeInv
<1>1. /\ pc = "retry" /\ pc' = "balances" /\ left' = BalanceList
      /\ UNCHANGED <<batch, number, attempts, db, faults, top, last>>
  BY DEF BeginAttempt
<1>2. batch # {} /\ number \in 1..MaxBatches /\ batch \subseteq Tx
  BY <1>1 DEF Working, TypeOK
<1> DEFINE New == {Confirmed(d, BlockHeight) : d \in db.deposits \cup DepositList}
<1>3. New \subseteq Deposits
  <2>1. ASSUME NEW d \in DepositList PROVE d \in Deposits
    <3>1. PICK t \in batch : d = HandleDeposit(t)
      BY DEF DepositList, BatchOf
    <3>2. KeyOf(t) \in Key
      BY <1>2 DEF KeyOf, Key
    <3> QED BY <3>1, <3>2 DEF HandleDeposit, Deposits
  <2> QED BY <2>1, ConfirmedType DEF TypeOK
<1>4. /\ work'.deposits = New /\ work'.balance = db.balance /\ work'.txs = db.txs
  <2> DEFINE Childs == db.childs \cup DepositListChildTxFlowList
  <2>1. work' = [db EXCEPT !.deposits = New, !.childs = Childs]
    BY DEF BeginAttempt
  <2> HIDE DEF New, Childs
  <2> QED BY <2>1 DEF LedgerInv, IsTable
<1> HIDE DEF New
<1>5. BalanceList \subseteq Outputs(Tx)
  BY <1>2 DEF BalanceList, BatchOf, Outputs
<1>6. TypeOK'
  BY <1>1, <1>3, <1>4, <1>5 DEF TypeOK
<1>7. Working' /\ Received'
  BY <1>1 DEF Working, Received
<1> QED BY <1>6, <1>7

\* A balance after a record that is not refused.
LEMMA BalanceType ==
  ASSUME NEW b \in [Addr -> Nat], NEW o \in Outputs(Tx),
         ~Refused(TxType[o.tx], Output(o).amount)
  PROVE  BalanceAfter(b, TxType[o.tx], Output(o).addr, Output(o).amount) \in [Addr -> Nat]
<1>1. o.tx \in Tx /\ o.i \in DOMAIN Out[o.tx]
  BY DEF Outputs
<1>2. Output(o).addr \in Addr /\ Output(o).amount \in Nat /\ NoAddr \in Addr
  BY <1>1, LedgerAssumption DEF Output
<1>3. CASE TxType[o.tx] = "deposit"
  BY <1>2, <1>3 DEF BalanceAfter
<1>4. CASE TxType[o.tx] # "deposit"
  <2>1. Output(o).amount = 0
    BY <1>2, <1>4 DEF Refused, LockBalance
  <2> QED BY <1>2, <1>4, <2>1 DEF BalanceAfter, LockBalance
<1> QED BY <1>3, <1>4

\* The statements of an attempt leave the deposits alone.
LEMMA TypeStatement ==
  ASSUME LedgerInv, TypeInv,
         (\E o \in left : UpdateOrCreate(o)) \/ BalancesDone \/ StoreRows \/ UNCHANGED vars
  PROVE  TypeInv'
<1> USE DEF TypeInv
<1>1. /\ UNCHANGED <<batch, number, attempts, db, faults, top, last>> /\ left' \subseteq left
      /\ \/ pc' = pc \/ (pc = "balances" /\ pc' = "store") \/ (pc = "store" /\ pc' = "commit")
  BY DEF UpdateOrCreate, BalancesDone, StoreRows, vars
<1>2. work'.deposits = work.deposits /\ work'.balance \in [Addr -> Nat] /\ work'.txs \subseteq Key
  <2>1. ASSUME NEW o \in left, UpdateOrCreate(o)
        PROVE  work'.deposits = work.deposits /\ work'.balance \in [Addr -> Nat] /\ work'.txs = work.txs
    <3> DEFINE B == BalanceAfter(work.balance, TxType[o.tx], Output(o).addr, Output(o).amount)
    <3>1. B \in [Addr -> Nat]
      BY <2>1, BalanceType DEF UpdateOrCreate, TypeOK
    <3>2. work' = [work EXCEPT !.balance = B]
      BY <2>1 DEF UpdateOrCreate
    <3> HIDE DEF B
    <3> QED BY <3>1, <3>2 DEF LedgerInv, IsTable
  <2>2. CASE StoreRows
    <3> DEFINE Txs == work.txs \cup TransactionFlowList
               Childs == work.childs \cup InternalsChildTxFlowList \cup TransactionChildTxFlowList
               Vins == work.vins \cup VinList
    <3>1. work' = [work EXCEPT !.txs = Txs, !.childs = Childs, !.vins = Vins] /\ pc = "store"
      BY <2>2 DEF StoreRows
    <3>2. TransactionFlowList \subseteq Key
      <4>1. number \in 1..MaxBatches /\ batch \subseteq Tx
        BY <3>1 DEF Working, TypeOK
      <4> QED BY <4>1 DEF TransactionFlowList, KeyOf, Key
    <3>3. Txs \subseteq Key
      BY <3>2 DEF TypeOK
    <3> HIDE DEF Txs, Childs, Vins
    <3>4. work'.deposits = work.deposits /\ work'.balance = work.balance /\ work'.txs = Txs
      BY <3>1 DEF LedgerInv, IsTable
    <3> QED BY <3>3, <3>4 DEF TypeOK
  <2>3. CASE BalancesDone \/ UNCHANGED vars
    BY <2>3 DEF BalancesDone, vars, TypeOK
  <2> QED BY <2>1, <2>2, <2>3 DEF TypeOK
<1>3. TypeOK'
  BY <1>1, <1>2 DEF TypeOK
<1>4. Working' /\ Received'
  BY <1>1 DEF Working, Received
<1> QED BY <1>3, <1>4

\* An attempt ends, or the process does: the tables are the ones before, or those
\* of the transaction at its commit.
LEMMA TypeEnd == ASSUME TypeInv, Commit \/ AttemptFails \/ Restart PROVE TypeInv'
<1> USE DEF TypeInv
<1>1. /\ UNCHANGED <<number, work, top>> /\ batch' \in {batch, {}} /\ left' \in {left, {}}
      /\ \/ UNCHANGED <<db, last>>
         \/ pc = "commit" /\ db' = work /\ last' = BlockHeight
      /\ pc' \in {"recv", "failed", "retry"}
  BY DEF Commit, AttemptFails, Restart, Rollback, AfterFailure
<1>2. /\ attempts' \in 0..MaxAttempts
      /\ pc' = "retry" => batch' = batch /\ batch # {} /\ number >= 1 /\ attempts' < MaxAttempts
  <2>1. CASE Commit
    BY <2>1 DEF Commit, TypeOK
  <2>2. CASE Restart
    BY <2>2, LedgerAssumption DEF Restart
  <2>3. CASE AttemptFails
    <3>1. pc \in {"retry", "balances", "store", "commit"} /\ UNCHANGED batch /\ attempts' = attempts + 1
      BY <2>3 DEF AttemptFails
    <3>2. batch # {} /\ number >= 1 /\ attempts < MaxAttempts
      BY <3>1 DEF Working
    <3>3. pc' = "retry" => attempts + 1 # MaxAttempts
      BY <2>3 DEF AttemptFails, AfterFailure
    <3> QED BY <3>1, <3>2, <3>3, LedgerAssumption DEF TypeOK
  <2> QED BY <2>1, <2>2, <2>3
<1>3. faults' \in 0..MaxFaults
  BY LedgerAssumption DEF Commit, AttemptFails, Restart, Fault, TypeOK
<1>4. pc = "commit" => BlockHeight \in Nat
  BY BlockHeightReceived DEF Working, TypeOK
<1>5. TypeOK'
  BY <1>1, <1>2, <1>3, <1>4 DEF TypeOK
<1>6. Working' /\ Received'
  BY <1>1, <1>2 DEF Working, Received
<1> QED BY <1>5, <1>6

\* They hold in every state.
LEMMA TypeInvHolds == Spec => []TypeInv
<1>1. Init => TypeInv
  BY LedgerAssumption DEF Init, TypeInv, TypeOK, Working, Received, Empty
<1>2. LedgerInv /\ TypeInv /\ [Next]_vars => TypeInv'
  <2> SUFFICES ASSUME LedgerInv, TypeInv, [Next]_vars PROVE TypeInv'
    OBVIOUS
  <2>1. ASSUME NEW from \in {Block[t] : t \in Tx}, NEW to \in {Block[t] : t \in Tx}, Receive(from, to)
        PROVE  TypeInv'
    <3>1. from \in Nat /\ to \in Nat
      BY LedgerAssumption
    <3> QED BY <2>1, <3>1, TypeReceive
  <2> QED BY <2>1, TypeBegin, TypeStatement, TypeEnd DEF Next
<1> QED BY <1>1, <1>2, LedgerInvInit, LedgerInvNext, PTL DEF Spec

\* The tables, and what the open transaction makes of them, keep their types: no
\* balance is ever negative, and a deposit's confirmations fit their column.
THEOREM LedgerTypes == Spec => []TypeOK
<1>1. TypeInv => TypeOK
  BY DEF TypeInv
<1> QED BY <1>1, TypeInvHolds, PTL

-----------------------------------------------------------------------------
(* Sums of amounts.  MapThenSumSet is a recursive function over the subsets of a  *)
(* set; what it computes is shown from a least counterexample.                     *)

\* The output a row of vins_ is about.
Amount(v) == Out[v.key.tx][v.i].amount
AddrOf(v) == Out[v.key.tx][v.i].addr

\* The element that a fold takes next.
Pick(s) == CHOOSE x \in s : TRUE

\* What a sum over s is, given the sums f over smaller sets.
SumOf(s, f) == IF s = {} THEN 0 ELSE Amount(Pick(s)) + f[s \ {Pick(s)}]

\* f gives the sum over each set of U.
Sums(f, U) == f = [s \in U |-> SumOf(s, f)]

\* The subsets of S with at most n elements.
Small(S, n) == {s \in SUBSET S : Cardinality(s) <= n}

\* The sums over the subsets of S, as MapThenSumSet computes them.
SumsOf(S) == CHOOSE f : Sums(f, SUBSET S)

\* The sum over S.
Total(S) == MapThenSumSet(LAMBDA v : Amount(v), S)

LEMMA TotalIs == ASSUME NEW S PROVE Total(S) = SumsOf(S)[S]
BY DEF Total, MapThenSumSet, MapThenFoldSet, SumsOf, Sums, SumOf, Pick

LEMMA Picked == ASSUME NEW s, s # {} PROVE Pick(s) \in s
BY DEF Pick

\* A set of natural numbers has a least element.
LEMMA Least ==
  ASSUME NEW S \in SUBSET Nat, S # {}
  PROVE  \E m \in S : \A n \in S : m <= n
<1> DEFINE less == OpToRel(<, Nat)
<1>1. IsWellFoundedOn(less, Nat)
  BY NatLessThanWellFounded
<1>2. PICK m \in S : \A n \in S : ~(<<n, m>> \in less)
  <2> HIDE DEF less
  <2> QED BY ONLY <1>1, S \in SUBSET Nat, S # {}, WFMin
<1>3. ASSUME NEW n \in S PROVE m <= n
  <2>1. ~(n < m)
    BY <1>2 DEF OpToRel
  <2> QED BY <2>1
<1> QED BY <1>3

\* A subset without an element of it is smaller.
LEMMA Smaller ==
  ASSUME NEW S, IsFiniteSet(S), NEW s \in SUBSET S, NEW x \in s
  PROVE  /\ IsFiniteSet(s) /\ Cardinality(s) \in Nat /\ Cardinality(s \ {x}) \in Nat
         /\ Cardinality(s \ {x}) = Cardinality(s) - 1 /\ s \ {x} \in SUBSET S
<1>1. IsFiniteSet(s)
  BY FS_Subset
<1>2. IsFiniteSet(s \ {x}) /\ Cardinality(s \ {x}) = Cardinality(s) - 1
  BY <1>1, FS_RemoveElement
<1>3. Cardinality(s) \in Nat /\ Cardinality(s \ {x}) \in Nat
  BY <1>1, <1>2, FS_CardinalityType
<1> QED BY <1>1, <1>2, <1>3

\* The sums over the subsets of a finite set exist: those over larger sets are made
\* of those over smaller ones.
LEMMA SumsGrow ==
  ASSUME NEW S, IsFiniteSet(S), NEW n \in Nat, NEW g, Sums(g, Small(S, n))
  PROVE  \E f : Sums(f, Small(S, n + 1))
<1> DEFINE f == [s \in Small(S, n + 1) |-> SumOf(s, g)]
<1>1. ASSUME NEW s \in Small(S, n + 1) PROVE SumOf(s, g) = SumOf(s, f)
  <2>1. CASE s = {}
    BY <2>1 DEF SumOf
  <2>2. CASE s # {}
    <3> DEFINE t == s \ {Pick(s)}
    <3>1. Pick(s) \in s
      BY <2>2, Picked
    <3>2. t \in Small(S, n) /\ t \in Small(S, n + 1)
      BY <3>1, Smaller DEF Small
    <3>3. g[t] = SumOf(t, g)
      BY <3>2 DEF Sums
    <3>4. f[t] = SumOf(t, g)
      BY <3>2
    <3> HIDE DEF f, t
    <3>5. f[t] = g[t]
      BY <3>3, <3>4
    <3> QED BY <2>2, <3>5 DEF SumOf, t
  <2> QED BY <2>1, <2>2
<1>2. f = [s \in Small(S, n + 1) |-> SumOf(s, f)]
  <2>1. \A s \in Small(S, n + 1) : f[s] = SumOf(s, f)
    BY <1>1
  <2>2. f = [s \in Small(S, n + 1) |-> f[s]]
    OBVIOUS
  <2> HIDE DEF f
  <2> QED BY <2>1, <2>2
<1> HIDE DEF f
<1> QED BY <1>2 DEF Sums

LEMMA SumsExist == ASSUME NEW S, IsFiniteSet(S) PROVE Sums(SumsOf(S), SUBSET S)
<1> DEFINE without == {n \in Nat : ~\E f : Sums(f, Small(S, n))}
<1>1. without = {}
  <2>1. SUFFICES ASSUME without # {} PROVE FALSE
    OBVIOUS
  <2>2. PICK m \in without : \A n \in without : m <= n
    <3> HIDE DEF without
    <3>1. without \in SUBSET Nat
      BY DEF without
    <3> QED BY <2>1, <3>1, Least
  <2>3. CASE m = 0
    <3> DEFINE f == [s \in Small(S, 0) |-> 0]
    <3>1. ASSUME NEW s \in Small(S, 0) PROVE s = {}
      <4>1. IsFiniteSet(s) /\ Cardinality(s) <= 0
        BY FS_Subset DEF Small
      <4>2. Cardinality(s) = 0
        BY <4>1, FS_CardinalityType
      <4> QED BY <4>1, <4>2, FS_EmptySet
    <3>2. \A s \in Small(S, 0) : SumOf(s, f) = 0
      BY <3>1 DEF SumOf
    <3> HIDE DEF f
    <3>3. f = [s \in Small(S, 0) |-> SumOf(s, f)]
      BY <3>2 DEF f
    <3> QED BY <2>2, <2>3, <3>3 DEF Sums
  <2>4. CASE m # 0
    <3>1. m - 1 \in Nat /\ m - 1 \notin without
      BY <2>2, <2>4
    <3>2. PICK g : Sums(g, Small(S, m - 1))
      BY <3>1
    <3>3. \E f : Sums(f, Small(S, (m - 1) + 1))
      <4> HIDE DEF without
      <4> QED BY ONLY IsFiniteSet(S), <3>1, <3>2, SumsGrow
    <3>4. (m - 1) + 1 = m
      BY <2>2
    <3> QED BY <2>2, <3>3, <3>4
  <2> QED BY <2>3, <2>4
<1>2. Cardinality(S) \in Nat /\ Small(S, Cardinality(S)) = SUBSET S
  <2>1. Cardinality(S) \in Nat
    BY FS_CardinalityType
  <2>2. \A s \in SUBSET S : Cardinality(s) <= Cardinality(S)
    BY FS_Subset
  <2> QED BY <2>1, <2>2 DEF Small
<1>3. \E f : Sums(f, SUBSET S)
  <2>1. \E f : Sums(f, Small(S, Cardinality(S)))
    BY <1>1, <1>2
  <2> QED BY <1>2, <2>1
<1> QED BY <1>3 DEF SumsOf

\* A sum does not depend on the set of which s is taken to be a subset.
LEMMA TotalWithin ==
  ASSUME NEW T, IsFiniteSet(T), NEW S \in SUBSET T PROVE Total(S) = SumsOf(T)[S]
<1> DEFINE f == SumsOf(S)
           g == SumsOf(T)
           differ == {n \in Nat : \E s \in SUBSET S : Cardinality(s) = n /\ f[s] # g[s]}
<1>1. IsFiniteSet(S) /\ Sums(f, SUBSET S) /\ Sums(g, SUBSET T)
  BY FS_Subset, SumsExist
<1> HIDE DEF f, g
<1>2. \A s \in SUBSET S : f[s] = SumOf(s, f) /\ g[s] = SumOf(s, g)
  BY <1>1 DEF Sums
<1>3. differ = {}
  <2>1. SUFFICES ASSUME differ # {} PROVE FALSE
    OBVIOUS
  <2>2. PICK m \in differ : \A n \in differ : m <= n
    <3> HIDE DEF differ
    <3>1. differ \in SUBSET Nat
      BY DEF differ
    <3> QED BY <2>1, <3>1, Least
  <2>3. PICK s \in SUBSET S : Cardinality(s) = m /\ f[s] # g[s]
    BY <2>2
  <2>4. s # {}
    BY <1>2, <2>3 DEF SumOf
  <2> DEFINE t == s \ {Pick(s)}
  <2>5. t \in SUBSET S /\ Cardinality(t) \in Nat /\ Cardinality(t) = m - 1 /\ m \in Nat
    BY <1>1, <2>3, <2>4, Picked, Smaller
  <2>6. f[t] = g[t]
    <3>1. Cardinality(t) \notin differ
      <4> HIDE DEF differ, t
      <4> QED BY <2>2, <2>5
    <3> QED BY <2>5, <3>1
  <2>7. f[s] = Amount(Pick(s)) + f[t] /\ g[s] = Amount(Pick(s)) + g[t]
    BY <1>2, <2>4 DEF SumOf
  <2> QED BY <2>3, <2>6, <2>7
<1>4. IsFiniteSet(S) => Cardinality(S) \in Nat
  BY FS_CardinalityType
<1>5. f[S] = g[S]
  BY <1>1, <1>3, <1>4
<1> QED BY <1>5, TotalIs DEF f, g

\* A sum of natural numbers is one.
LEMMA TotalNat ==
  ASSUME NEW T, IsFiniteSet(T), \A v \in T : Amount(v) \in Nat, NEW S \in SUBSET T
  PROVE  Total(S) \in Nat
<1> DEFINE g == SumsOf(T)
           wrong == {n \in Nat : \E s \in SUBSET T : Cardinality(s) = n /\ g[s] \notin Nat}
<1>1. Sums(g, SUBSET T)
  BY SumsExist
<1> HIDE DEF g
<1>2. \A s \in SUBSET T : g[s] = SumOf(s, g)
  BY <1>1 DEF Sums
<1>3. wrong = {}
  <2>1. SUFFICES ASSUME wrong # {} PROVE FALSE
    OBVIOUS
  <2>2. PICK m \in wrong : \A n \in wrong : m <= n
    <3> HIDE DEF wrong
    <3>1. wrong \in SUBSET Nat
      BY DEF wrong
    <3> QED BY <2>1, <3>1, Least
  <2>3. PICK s \in SUBSET T : Cardinality(s) = m /\ g[s] \notin Nat
    BY <2>2
  <2>4. s # {}
    BY <1>2, <2>3 DEF SumOf
  <2> DEFINE t == s \ {Pick(s)}
  <2>5. /\ t \in SUBSET T /\ Cardinality(t) \in Nat /\ Cardinality(t) = m - 1 /\ m \in Nat
        /\ Amount(Pick(s)) \in Nat
    BY <2>3, <2>4, Picked, Smaller
  <2>6. g[t] \in Nat
    <3>1. Cardinality(t) \notin wrong
      <4> HIDE DEF wrong, t
      <4> QED BY <2>2, <2>5
    <3> QED BY <2>5, <3>1
  <2>7. g[s] = Amount(Pick(s)) + g[t]
    BY <1>2, <2>4 DEF SumOf
  <2> QED BY <2>3, <2>5, <2>6, <2>7
<1>4. IsFiniteSet(S) /\ Cardinality(S) \in Nat
  BY FS_Subset, FS_CardinalityType
<1>5. g[S] \in Nat
  BY <1>3, <1>4
<1> QED BY <1>5, TotalWithin DEF g

\* One element more adds its amount, whichever the fold takes first.
LEMMA TotalAdd ==
  ASSUME NEW T, IsFiniteSet(T), \A v \in T : Amount(v) \in Nat, NEW S \in SUBSET T, NEW y \in T \ S
  PROVE  Total(S \cup {y}) = Total(S) + Amount(y)
<1> DEFINE g == SumsOf(T)
           wrong == {n \in Nat : \E s \in SUBSET T : \E x \in T \ s :
                                   Cardinality(s) = n /\ g[s \cup {x}] # g[s] + Amount(x)}
<1>1. Sums(g, SUBSET T) /\ \A s \in SUBSET T : g[s] \in Nat
  BY SumsExist, TotalWithin, TotalNat
<1> HIDE DEF g
<1>2. \A s \in SUBSET T : g[s] = SumOf(s, g)
  BY <1>1 DEF Sums
<1>3. wrong = {}
  <2>1. SUFFICES ASSUME wrong # {} PROVE FALSE
    OBVIOUS
  <2>2. PICK m \in wrong : \A n \in wrong : m <= n
    <3> HIDE DEF wrong
    <3>1. wrong \in SUBSET Nat
      BY DEF wrong
    <3> QED BY <2>1, <3>1, Least
  <2>3. PICK s \in SUBSET T : \E x \in T \ s : Cardinality(s) = m /\ g[s \cup {x}] # g[s] + Amount(x)
    BY <2>2
  <2>4. PICK x \in T \ s : Cardinality(s) = m /\ g[s \cup {x}] # g[s] + Amount(x)
    BY <2>3
  <2> DEFINE u == s \cup {x}
             p == Pick(u)
             t == s \ {p}
  <2>5. u \in SUBSET T /\ u # {} /\ p \in u
    BY Picked
  <2>6. g[u] = Amount(p) + g[u \ {p}]
    BY <1>2, <2>5 DEF SumOf
  <2> HIDE DEF p
  <2>7. CASE p = x
    <3>1. u \ {p} = s
      BY <2>7
    <3>2. g[u] = Amount(x) + g[s] /\ Amount(x) \in Nat /\ g[s] \in Nat
      BY <1>1, <2>6, <2>7, <3>1
    <3> QED BY <2>4, <3>2
  <2>8. CASE p # x
    <3>1. p \in s /\ p \in T /\ u \ {p} = t \cup {x} /\ t \cup {p} = s /\ p \in T \ t /\ x \in T \ t
      BY <2>5, <2>8
    <3>2. t \in SUBSET T /\ Cardinality(t) \in Nat /\ Cardinality(t) = m - 1 /\ m \in Nat
      BY <2>4, <3>1, Smaller
    <3>3. Cardinality(t) \notin wrong
      <4> HIDE DEF wrong, t
      <4> QED BY <2>2, <3>2
    <3> HIDE DEF t, u
    <3>4. g[t \cup {x}] = g[t] + Amount(x) /\ g[t \cup {p}] = g[t] + Amount(p)
      BY <3>1, <3>2, <3>3
    <3>5. Amount(x) \in Nat /\ Amount(p) \in Nat /\ g[t] \in Nat
      BY <1>1, <3>1, <3>2
    <3>6. g[u] = Amount(p) + (g[t] + Amount(x)) /\ g[s] = g[t] + Amount(p)
      BY <2>6, <3>1, <3>4
    <3>7. g[u] = g[s] + Amount(x)
      BY <3>5, <3>6
    <3> QED BY <2>4, <3>7 DEF u
  <2> QED BY <2>7, <2>8
<1>4. Cardinality(S) \in Nat
  BY FS_Subset, FS_CardinalityType
<1>5. g[S \cup {y}] = g[S] + Amount(y)
  BY <1>3, <1>4
<1> QED BY <1>5, TotalWithin DEF g

\* More elements do not make a sum smaller.
LEMMA TotalGrows ==
  ASSUME NEW T, IsFiniteSet(T), \A v \in T : Amount(v) \in Nat,
         NEW R \in SUBSET T, NEW S \in SUBSET R
  PROVE  Total(S) <= Total(R)
<1> DEFINE wrong == {n \in Nat : \E s \in SUBSET R : Cardinality(s) = n /\ ~(Total(R \ s) <= Total(R))}
<1>1. wrong = {}
  <2>1. SUFFICES ASSUME wrong # {} PROVE FALSE
    OBVIOUS
  <2>2. PICK m \in wrong : \A n \in wrong : m <= n
    <3> HIDE DEF wrong
    <3>1. wrong \in SUBSET Nat
      BY DEF wrong
    <3> QED BY <2>1, <3>1, Least
  <2>3. PICK s \in SUBSET R : Cardinality(s) = m /\ ~(Total(R \ s) <= Total(R))
    BY <2>2
  <2>4. \A z \in SUBSET R : Total(z) \in Nat
    BY TotalNat
  <2>5. s # {}
    <3>1. s = {} => R \ s = R
      OBVIOUS
    <3> QED BY <2>3, <2>4, <3>1
  <2>6. PICK x \in s : TRUE
    BY <2>5
  <2> DEFINE t == s \ {x}
  <2>7. t \in SUBSET R /\ Cardinality(t) \in Nat /\ Cardinality(t) = m - 1 /\ m \in Nat
    BY <2>3, <2>6, Smaller
  <2>8. Total(R \ t) <= Total(R)
    <3>1. Cardinality(t) \notin wrong
      <4> HIDE DEF wrong, t
      <4> QED BY <2>2, <2>7
    <3> QED BY <2>7, <3>1
  <2>9. R \ t = (R \ s) \cup {x} /\ R \ s \in SUBSET T /\ x \in T \ (R \ s)
    BY <2>6
  <2>10. Total(R \ t) = Total(R \ s) + Amount(x) /\ Amount(x) \in Nat
    BY <2>9, TotalAdd
  <2>11. Total(R \ s) \in Nat /\ Total(R \ t) \in Nat /\ Total(R) \in Nat
    BY <2>4
  <2> QED BY <2>3, <2>8, <2>10, <2>11
<1>2. R \ (R \ S) = S /\ R \ S \in SUBSET R
  OBVIOUS
<1>3. Cardinality(R \ S) \in Nat
  <2>1. R \ S \in SUBSET T
    OBVIOUS
  <2> QED BY <2>1, FS_Subset, FS_CardinalityType
<1>4. Total(R \ (R \ S)) <= Total(R)
  BY <1>1, <1>2, <1>3
<1> QED BY <1>2, <1>4

-----------------------------------------------------------------------------
(* Balances. *)

\* The rows of vins_ that there can be.
AllVins == UNION {VinsOf(k) : k \in Key}

\* The rows the open transaction will insert for the outputs it has credited.
Vin(o) == [key |-> KeyOf(o.tx), i |-> o.i]
Credited == {Vin(o) : o \in BalanceList \ left}

\* The balances do not exceed the rows V.
At(a, V) == {v \in V : AddrOf(v) = a}
Backed(b, V) == \A a \in Addr : b[a] <= Total(At(a, V))

\* The inductive invariant.  When a commit's answer was lost, the keys are there
\* already and the attempt will be refused.
BackedInv == /\ pc = "balances" => left \subseteq BalanceList
             /\ Backed(db.balance, db.vins)
             /\ (pc \in {"balances", "store"} /\ Unique(TransactionFlowList, db.txs)) =>
                  Backed(work.balance, db.vins \cup Credited)
             /\ pc = "commit" => Backed(work.balance, work.vins)

LEMMA VinsFinite == IsFiniteSet(AllVins) /\ \A v \in AllVins : Amount(v) \in Nat
<1>1. IsFiniteSet(Key)
  <2> DEFINE P == (1..MaxBatches) \X Tx
             f == [p \in P |-> [batch |-> p[1], tx |-> p[2]]]
  <2>1. IsFiniteSet(P)
    <3>1. IsFiniteSet(1..MaxBatches) /\ IsFiniteSet(Tx)
      BY FS_Interval, LedgerAssumption
    <3> QED BY <3>1, FS_Product
  <2>2. f \in Surjection(P, Key)
    <3>1. f \in [P -> Key]
      BY DEF Key
    <3>2. ASSUME NEW k \in Key PROVE \E p \in P : f[p] = k
      <4>1. k = [batch |-> k.batch, tx |-> k.tx] /\ k.batch \in 1..MaxBatches /\ k.tx \in Tx
        BY DEF Key
      <4>2. <<k.batch, k.tx>> \in P /\ f[<<k.batch, k.tx>>] = k
        BY <4>1
      <4> QED BY <4>2
    <3> QED BY <3>1, <3>2 DEF Surjection
  <2> HIDE DEF P, f
  <2> QED BY <2>1, <2>2, FS_Surjection
<1>2. ASSUME NEW k \in Key PROVE IsFiniteSet(VinsOf(k))
  <2> DEFINE D == DOMAIN Out[k.tx]
             f == [i \in D |-> [key |-> k, i |-> i]]
  <2>1. IsFiniteSet(D)
    BY LedgerAssumption DEF Key
  <2>2. f \in Surjection(D, VinsOf(k))
    <3>1. f \in [D -> VinsOf(k)]
      BY DEF VinsOf
    <3>2. ASSUME NEW v \in VinsOf(k) PROVE \E i \in D : f[i] = v
      BY DEF VinsOf
    <3> QED BY <3>1, <3>2 DEF Surjection
  <2> HIDE DEF D, f
  <2> QED BY <2>1, <2>2, FS_Surjection
<1>3. IsFiniteSet({VinsOf(k) : k \in Key})
  <2> DEFINE F == {VinsOf(k) : k \in Key}
             f == [k \in Key |-> VinsOf(k)]
  <2>1. f \in Surjection(Key, F)
    <3>1. f \in [Key -> F]
      OBVIOUS
    <3>2. ASSUME NEW V \in F PROVE \E k \in Key : f[k] = V
      OBVIOUS
    <3> QED BY <3>1, <3>2 DEF Surjection
  <2> HIDE DEF F, f
  <2>2. IsFiniteSet(F)
    BY <1>1, <2>1, FS_Surjection
  <2> QED BY <2>2 DEF F
<1>4. IsFiniteSet(AllVins)
  BY <1>2, <1>3, FS_UNION DEF AllVins
<1>5. ASSUME NEW v \in AllVins PROVE Amount(v) \in Nat
  <2>1. PICK k \in Key : v \in VinsOf(k)
    BY DEF AllVins
  <2>2. k.tx \in Tx /\ v.key = k /\ v.i \in DOMAIN Out[k.tx]
    BY <2>1 DEF Key, VinsOf
  <2> QED BY <2>2, LedgerAssumption DEF Amount
<1> QED BY <1>4, <1>5

\* What is backed by some rows is backed by more.
LEMMA BackedMore ==
  ASSUME NEW b, NEW V, NEW W, V \subseteq W, W \subseteq AllVins,
         b \in [Addr -> Nat], Backed(b, V)
  PROVE  Backed(b, W)
<1> SUFFICES ASSUME NEW a \in Addr PROVE b[a] <= Total(At(a, W))
  BY DEF Backed
<1>1. At(a, W) \in SUBSET AllVins /\ At(a, V) \in SUBSET At(a, W) /\ At(a, V) \in SUBSET AllVins
  BY DEF At
<1>2. Total(At(a, V)) <= Total(At(a, W))
  BY <1>1, VinsFinite, TotalGrows
<1>3. Total(At(a, V)) \in Nat /\ Total(At(a, W)) \in Nat
  BY <1>1, VinsFinite, TotalNat
<1>4. b[a] <= Total(At(a, V)) /\ b[a] \in Nat
  BY DEF Backed
<1> QED BY <1>2, <1>3, <1>4

\* A row more backs its amount more, for its address.
LEMMA BackedAdd ==
  ASSUME NEW b \in [Addr -> Nat], NEW V, V \subseteq AllVins, NEW v \in AllVins, v \notin V,
         Backed(b, V), NEW c \in [Addr -> Nat],
         \A a \in Addr : c[a] <= b[a] + (IF a = AddrOf(v) THEN Amount(v) ELSE 0)
  PROVE  Backed(c, V \cup {v})
<1> SUFFICES ASSUME NEW a \in Addr PROVE c[a] <= Total(At(a, V \cup {v}))
  BY DEF Backed
<1>1. /\ At(a, V) \in SUBSET AllVins /\ Amount(v) \in Nat /\ Total(At(a, V)) \in Nat
      /\ b[a] <= Total(At(a, V)) /\ b[a] \in Nat /\ c[a] \in Nat
  BY VinsFinite, TotalNat DEF At, Backed
<1>2. CASE a = AddrOf(v)
  <2>1. At(a, V \cup {v}) = At(a, V) \cup {v} /\ v \in AllVins \ At(a, V)
    BY <1>2 DEF At
  <2>2. Total(At(a, V) \cup {v}) = Total(At(a, V)) + Amount(v)
    BY <1>1, <2>1, VinsFinite, TotalAdd
  <2>3. c[a] <= b[a] + Amount(v)
    BY <1>2
  <2> QED BY <1>1, <2>1, <2>2, <2>3
<1>3. CASE a # AddrOf(v)
  <2>1. At(a, V \cup {v}) = At(a, V)
    BY <1>3 DEF At
  <2>2. c[a] <= b[a] + 0
    BY <1>3
  <2> QED BY <1>1, <2>1, <2>2
<1> QED BY <1>2, <1>3

\* UpdateOrCreate credits no address with more than the output.
LEMMA BalanceCredit ==
  ASSUME NEW b \in [Addr -> Nat], NEW o \in Outputs(Tx),
         ~Refused(TxType[o.tx], Output(o).amount), NEW a \in Addr
  PROVE  BalanceAfter(b, TxType[o.tx], Output(o).addr, Output(o).amount)[a]
           <= b[a] + (IF a = Output(o).addr THEN Output(o).amount ELSE 0)
<1>1. o.tx \in Tx /\ o.i \in DOMAIN Out[o.tx]
  BY DEF Outputs
<1>2. Output(o).addr \in Addr /\ Output(o).amount \in Nat /\ NoAddr \in Addr
  BY <1>1, LedgerAssumption DEF Output
<1>3. CASE TxType[o.tx] = "deposit"
  BY <1>2, <1>3 DEF BalanceAfter
<1>4. CASE TxType[o.tx] # "deposit"
  <2>1. Output(o).amount = 0
    BY <1>2, <1>4 DEF Refused, LockBalance
  <2> QED BY <1>2, <1>4, <2>1 DEF BalanceAfter, LockBalance
<1> QED BY <1>3, <1>4

\* The rows of the tables, and of a batch, are of those there can be.
LEMMA VinsThere ==
  ASSUME LedgerInv, TypeInv
  PROVE  /\ db.vins = UNION {VinsOf(k) : k \in db.txs} /\ db.vins \subseteq AllVins
         /\ pc \in {"retry", "balances", "store", "commit"} => VinList \subseteq AllVins
         /\ VinList = {Vin(o) : o \in Outputs(batch)} /\ Credited \subseteq VinList
<1>1. db.vins = UNION {VinsOf(k) : k \in db.txs} /\ db.txs \subseteq Key
  BY DEF LedgerInv, Whole, TypeInv, TypeOK
<1>2. db.vins \subseteq AllVins
  BY <1>1 DEF AllVins
<1>3. ASSUME pc \in {"retry", "balances", "store", "commit"} PROVE VinList \subseteq AllVins
  <2>1. number \in 1..MaxBatches /\ batch \subseteq Tx
    BY <1>3 DEF TypeInv, Working, TypeOK
  <2>2. TransactionFlowList \subseteq Key
    BY <2>1 DEF TransactionFlowList, KeyOf, Key
  <2> QED BY <2>2, BatchVins DEF AllVins
<1>4. VinList = {Vin(o) : o \in Outputs(batch)}
  BY DEF VinList, Vin
<1>5. BalanceList \subseteq Outputs(batch)
  BY DEF BalanceList, BatchOf, Outputs
<1>6. Credited \subseteq VinList
  BY <1>4, <1>5 DEF Credited
<1> QED BY <1>1, <1>2, <1>3, <1>4, <1>6

\* A record is credited.
LEMMA BackedCredit ==
  ASSUME LedgerInv, TypeInv, BackedInv, NEW o \in left, UpdateOrCreate(o)
  PROVE  BackedInv'
<1> DEFINE B == BalanceAfter(work.balance, TxType[o.tx], Output(o).addr, Output(o).amount)
           V == db.vins \cup Credited
<1>1. /\ pc = "balances" /\ left \subseteq BalanceList /\ left' = left \ {o}
      /\ UNCHANGED <<pc, batch, number, db>> /\ work' = [work EXCEPT !.balance = B]
      /\ ~Refused(TxType[o.tx], Output(o).amount)
  BY DEF UpdateOrCreate, BackedInv
<1>2. /\ o \in Outputs(batch) /\ o \in Outputs(Tx) /\ o.tx \in batch /\ o.i \in DOMAIN Out[o.tx]
      /\ o \in BalanceList
      /\ \A p \in BalanceList : p = [tx |-> p.tx, i |-> p.i]
  BY <1>1 DEF BalanceList, BatchOf, Outputs, LedgerInv
<1>3. work.balance \in [Addr -> Nat]
  BY DEF TypeInv, TypeOK
<1>4. B \in [Addr -> Nat]
  BY <1>1, <1>2, <1>3, BalanceType
<1>5. \A a \in Addr : B[a] <= work.balance[a] + (IF a = Output(o).addr THEN Output(o).amount ELSE 0)
  BY <1>1, <1>2, <1>3, BalanceCredit
<1>6. Output(o).addr = AddrOf(Vin(o)) /\ Output(o).amount = Amount(Vin(o))
  BY DEF Output, AddrOf, Amount, Vin, KeyOf
<1> HIDE DEF B
<1>7. work'.balance = B
  BY <1>1 DEF LedgerInv, IsTable
<1>8. Credited' = Credited \cup {Vin(o)} /\ Vin(o) \notin Credited
  <2>1. BalanceList' = BalanceList /\ \A p : Vin(p)' = Vin(p)
    BY <1>1 DEF BalanceList, BatchOf, Vin, KeyOf
  <2>2. \A p \in BalanceList : Vin(p) = Vin(o) => p = o
    BY <1>2 DEF Vin, KeyOf
  <2>3. Credited' = {Vin(p) : p \in BalanceList \ (left \ {o})}
    BY <1>1, <2>1 DEF Credited
  <2> QED BY <1>2, <2>2, <2>3 DEF Credited
<1>9. ASSUME Unique(TransactionFlowList, db.txs) PROVE Backed(B, db.vins \cup Credited')
  <2>1. V \subseteq AllVins /\ Vin(o) \in AllVins
    BY <1>1, <1>2, VinsThere
  <2>2. Vin(o) \notin db.vins
    <3>1. KeyOf(o.tx) \in TransactionFlowList
      BY <1>2 DEF TransactionFlowList
    <3>2. KeyOf(o.tx) \notin db.txs
      BY <1>9, <3>1 DEF Unique
    <3>3. ASSUME NEW k \in db.txs, Vin(o) \in VinsOf(k) PROVE FALSE
      <4>1. Vin(o).key = k
        BY <3>3 DEF VinsOf
      <4> QED BY <3>2, <4>1 DEF Vin
    <3> QED BY <3>3, VinsThere
  <2>3. Backed(work.balance, V)
    BY <1>1, <1>9 DEF BackedInv
  <2> HIDE DEF V
  <2>4. Vin(o) \notin V
    BY <1>8, <2>2 DEF V
  <2>5. Backed(B, V \cup {Vin(o)})
    BY <1>3, <1>4, <1>5, <1>6, <2>1, <2>3, <2>4, BackedAdd
  <2>6. V \cup {Vin(o)} = db.vins \cup Credited'
    BY <1>8 DEF V
  <2> QED BY <2>5, <2>6
<1>10. TransactionFlowList' = TransactionFlowList /\ BalanceList' = BalanceList
  BY <1>1 DEF TransactionFlowList, KeyOf, BalanceList, BatchOf
<1>11. (pc \in {"balances", "store"} /\ Unique(TransactionFlowList, db.txs))' =>
         Backed(work.balance, db.vins \cup Credited)'
  BY <1>1, <1>7, <1>9, <1>10 DEF Backed, Unique
<1>12. Backed(db.balance, db.vins)'
  BY <1>1 DEF BackedInv, Backed
<1> QED BY <1>1, <1>10, <1>11, <1>12 DEF BackedInv

\* The other steps.
LEMMA BackedNext == ASSUME LedgerInv, TypeInv, BackedInv, [Next]_vars PROVE BackedInv'
<1>k. ASSUME UNCHANGED db PROVE Backed(db.balance, db.vins)'
  BY <1>k DEF BackedInv, Backed
<1>1. ASSUME NEW from, NEW to, Receive(from, to) PROVE BackedInv'
  <2>1. UNCHANGED db /\ pc' = "retry"
    BY <1>1 DEF Receive
  <2> QED BY <1>k, <2>1 DEF BackedInv
<1>2. CASE BeginAttempt
  <2>1. UNCHANGED <<db, batch, number>> /\ left' = BalanceList /\ pc' = "balances"
    BY <1>2 DEF BeginAttempt
  <2>2. BalanceList' = BalanceList
    BY <2>1 DEF BalanceList, BatchOf
  <2>3. Credited' = {}
    BY <2>1, <2>2 DEF Credited
  <2>4. work'.balance = db.balance
    <3> DEFINE D == {Confirmed(d, BlockHeight) : d \in db.deposits \cup DepositList}
               C == db.childs \cup DepositListChildTxFlowList
    <3>1. work' = [db EXCEPT !.deposits = D, !.childs = C]
      BY <1>2 DEF BeginAttempt
    <3> HIDE DEF D, C
    <3> QED BY <3>1 DEF LedgerInv, IsTable
  <2>5. db'.vins \cup Credited' = db.vins
    BY <2>1, <2>3
  <2>6. Backed(work.balance, db.vins \cup Credited)'
    BY <2>4, <2>5 DEF BackedInv, Backed
  <2> QED BY <1>k, <2>1, <2>2, <2>6 DEF BackedInv
<1>3. CASE BalancesDone
  <2>1. UNCHANGED <<batch, number, left, db, work>> /\ pc = "balances" /\ pc' = "store"
    BY <1>3 DEF BalancesDone
  <2>2. Credited' = Credited /\ TransactionFlowList' = TransactionFlowList
    BY <2>1 DEF Credited, Vin, BalanceList, BatchOf, KeyOf, TransactionFlowList
  <2> QED BY <2>1, <2>2 DEF BackedInv, Backed, Unique
<1>4. CASE StoreRows
  <2> DEFINE Txs == work.txs \cup TransactionFlowList
             Childs == work.childs \cup InternalsChildTxFlowList \cup TransactionChildTxFlowList
             Vins == work.vins \cup VinList
  <2>1. /\ pc = "store" /\ pc' = "commit" /\ UNCHANGED db /\ Unique(TransactionFlowList, work.txs)
        /\ work' = [work EXCEPT !.txs = Txs, !.childs = Childs, !.vins = Vins]
    BY <1>4 DEF StoreRows
  <2> HIDE DEF Txs, Childs, Vins
  <2>2. work'.balance = work.balance /\ work'.vins = Vins
    BY <2>1 DEF LedgerInv, IsTable
  <2>3. work.txs = db.txs /\ work.vins = db.vins /\ Vins = db.vins \cup VinList
    BY <2>1 DEF LedgerInv, HalfWritten, Vins
  <2>4. Backed(work.balance, db.vins \cup Credited)
    BY <2>1, <2>3 DEF BackedInv
  <2>5. db.vins \cup Credited \subseteq Vins /\ Vins \subseteq AllVins /\ work.balance \in [Addr -> Nat]
    BY <2>1, <2>3, VinsThere DEF TypeInv, TypeOK
  <2>6. Backed(work.balance, Vins)
    BY <2>4, <2>5, BackedMore
  <2>7. Backed(work.balance, work.vins)'
    BY <2>2, <2>6 DEF Backed
  <2> QED BY <1>k, <2>1, <2>7 DEF BackedInv
<1>5. CASE Commit \/ AttemptFails \/ Restart
  <2>1. /\ pc' \in {"recv", "failed", "retry"}
        /\ UNCHANGED db \/ (pc = "commit" /\ db' = work)
    BY <1>5 DEF Commit, AttemptFails, Restart, Rollback, AfterFailure
  <2>2. ASSUME pc = "commit", db' = work PROVE Backed(db.balance, db.vins)'
    BY <2>2 DEF BackedInv, Backed
  <2> QED BY <1>k, <2>1, <2>2 DEF BackedInv
<1>6. CASE UNCHANGED vars
  <2>1. UNCHANGED <<pc, batch, number, left, db, work>>
    BY <1>6 DEF vars
  <2>2. Credited' = Credited /\ TransactionFlowList' = TransactionFlowList /\ BalanceList' = BalanceList
    BY <2>1 DEF Credited, Vin, BalanceList, BatchOf, KeyOf, TransactionFlowList
  <2> QED BY <2>1, <2>2 DEF BackedInv, Backed, Unique
<1> QED BY <1>1, <1>2, <1>3, <1>4, <1>5, <1>6, BackedCredit DEF Next

\* No balance exceeds the outputs recorded for its address, for every chain and
\* however often an attempt of handleBatch is rolled back, committed without an
\* answer, or repeated after a restart: UpdateOrCreate has no key of its own, and
\* the keys of the rows inserted with it are what keeps it from crediting again.
THEOREM BalancesAreBacked == Spec => []BalanceIsBacked
<1>1. Init => BackedInv
  <2> SUFFICES ASSUME Init PROVE BackedInv
    OBVIOUS
  <2>1. pc = "recv" /\ db.balance = [a \in Addr |-> 0] /\ db.vins = {}
    BY DEF Init, Empty
  <2>2. ASSUME NEW a \in Addr PROVE db.balance[a] <= Total(At(a, db.vins))
    <3>1. At(a, db.vins) \in SUBSET AllVins
      BY <2>1 DEF At
    <3>2. Total(At(a, db.vins)) \in Nat
      BY <3>1, VinsFinite, TotalNat
    <3> QED BY <2>1, <3>2
  <2> QED BY <2>1, <2>2 DEF BackedInv, Backed
<1>2. BackedInv => BalanceIsBacked
  BY DEF BackedInv, Backed, BalanceIsBacked, Total, Amount, At, AddrOf
<1>3. LedgerInv /\ TypeInv /\ BackedInv /\ [Next]_vars => BackedInv'
  BY BackedNext
<1>4. Spec => []LedgerInv
  BY LedgerInvInit, LedgerInvNext, PTL DEF Spec
<1> QED BY <1>1, <1>2, <1>3, <1>4, TypeInvHolds, PTL DEF Spec

-----------------------------------------------------------------------------
(* What was committed stays. *)

\* Tables t have every row that tables s have.
Keeps(s, t) == /\ s.txs \subseteq t.txs /\ s.vins \subseteq t.vins /\ s.childs \subseteq t.childs
               /\ DepositKeys(s.deposits) \subseteq DepositKeys(t.deposits)

\* The open transaction has what is committed.
WorkKeeps == pc \in {"balances", "store", "commit"} => Keeps(db, work)

\* No step takes a committed row away, whether it commits, rolls back or ends the
\* process (handleBatch).
RowsStay == [][Keeps(db, db')]_vars

LEMMA KeepsSame == ASSUME NEW s PROVE Keeps(s, s)
BY DEF Keeps

LEMMA WorkKeepsNext == ASSUME LedgerInv, WorkKeeps, [Next]_vars PROVE WorkKeeps'
<1>1. CASE BeginAttempt
  <2> DEFINE D == {Confirmed(d, BlockHeight) : d \in db.deposits \cup DepositList}
             C == db.childs \cup DepositListChildTxFlowList
  <2>1. work' = [db EXCEPT !.deposits = D, !.childs = C] /\ db' = db
    BY <1>1 DEF BeginAttempt
  <2>2. DepositKeys(db.deposits) \subseteq DepositKeys(D)
    <3>1. \A d \in db.deposits \cup DepositList : IsDeposit(d)
      BY DEF LedgerInv, DepositList, HandleDeposit, IsDeposit
    <3>2. DepositKeys(D) = DepositKeys(db.deposits \cup DepositList)
      BY <3>1, ConfirmedKeepsKeys
    <3> QED BY <3>2 DEF DepositKeys
  <2>3. db.childs \subseteq C
    OBVIOUS
  <2> HIDE DEF D, C
  <2>4. work'.deposits = D /\ work'.childs = C /\ work'.txs = db.txs /\ work'.vins = db.vins
    BY <2>1 DEF LedgerInv, IsTable
  <2> QED BY <2>1, <2>2, <2>3, <2>4 DEF WorkKeeps, Keeps
<1>2. ASSUME NEW o \in left, UpdateOrCreate(o) PROVE WorkKeeps'
  <2> DEFINE B == BalanceAfter(work.balance, TxType[o.tx], Output(o).addr, Output(o).amount)
  <2>1. work' = [work EXCEPT !.balance = B] /\ UNCHANGED <<db, pc>>
    BY <1>2 DEF UpdateOrCreate
  <2> HIDE DEF B
  <2>2. /\ work'.deposits = work.deposits /\ work'.childs = work.childs
        /\ work'.txs = work.txs /\ work'.vins = work.vins
    BY <2>1 DEF LedgerInv, IsTable
  <2> QED BY <2>1, <2>2 DEF WorkKeeps, Keeps
<1>3. CASE StoreRows
  <2> DEFINE Txs == work.txs \cup TransactionFlowList
             Childs == work.childs \cup InternalsChildTxFlowList \cup TransactionChildTxFlowList
             Vins == work.vins \cup VinList
  <2>1. /\ pc = "store" /\ UNCHANGED db
        /\ work' = [work EXCEPT !.txs = Txs, !.childs = Childs, !.vins = Vins]
    BY <1>3 DEF StoreRows
  <2>2. work.txs \subseteq Txs /\ work.childs \subseteq Childs /\ work.vins \subseteq Vins
    OBVIOUS
  <2> HIDE DEF Txs, Childs, Vins
  <2>3. work'.deposits = work.deposits /\ work'.childs = Childs /\ work'.txs = Txs /\ work'.vins = Vins
    BY <2>1 DEF LedgerInv, IsTable
  <2> QED BY <2>1, <2>2, <2>3 DEF WorkKeeps, Keeps
<1>4. CASE BalancesDone \/ UNCHANGED vars
  BY <1>4 DEF BalancesDone, vars, WorkKeeps
<1>5. CASE Commit \/ AttemptFails \/ Restart \/ \E from, to \in {Block[t] : t \in Tx} : Receive(from, to)
  BY <1>5 DEF Commit, AttemptFails, Restart, Receive, AfterFailure, WorkKeeps
<1> QED BY <1>1, <1>2, <1>3, <1>4, <1>5 DEF Next

\* Committed rows stay, for every chain, whatever fails and whichever batches come
\* again (handleBatch, UpdateDepositsComfirms).
THEOREM CommittedStays == Spec => RowsStay
<1>1. Init => WorkKeeps
  BY DEF Init, WorkKeeps
<1>2. LedgerInv /\ WorkKeeps /\ [Next]_vars => WorkKeeps'
  BY WorkKeepsNext
<1>3. WorkKeeps /\ [Next]_vars => [Keeps(db, db')]_vars
  <2> SUFFICES ASSUME WorkKeeps, Next PROVE Keeps(db, db')
    BY DEF vars
  <2>1. UNCHANGED db \/ (pc = "commit" /\ db' = work)
    BY DEF Next, Receive, BeginAttempt, UpdateOrCreate, BalancesDone, StoreRows, Commit, AttemptFails,
           Restart, Rollback
  <2> QED BY <2>1, KeepsSame DEF WorkKeeps
<1>4. Spec => []LedgerInv
  BY LedgerInvInit, LedgerInvNext, PTL DEF Spec
<1> QED BY <1>1, <1>2, <1>3, <1>4, PTL DEF Spec, RowsStay

-----------------------------------------------------------------------------
(* A batch is written in one step, at most once. *)

\* No row is of a batch that is still to come; of the batch in hand all rows are
\* there, after a commit whose answer was lost, or none; and what is about to be
\* committed is what there was with this batch.
Fresh == \A k \in db.txs : k.batch # number
Numbered == /\ \A k \in db.txs : k.batch <= number
            /\ pc \in {"retry", "balances", "store"} => Fresh \/ TransactionFlowList \subseteq db.txs
            /\ pc = "commit" => Fresh /\ work.txs = db.txs \cup TransactionFlowList

LEMMA NumberedNext ==
  ASSUME LedgerInv, TypeInv, Numbered, [Next]_vars PROVE Numbered'
<1>t. number \in Nat /\ \A k \in db.txs : k.batch \in Nat
  BY LedgerAssumption DEF TypeInv, TypeOK, Key
<1>f. \A k \in TransactionFlowList : k.batch = number
  BY DEF TransactionFlowList, KeyOf
<1>n. pc \in {"retry", "balances", "store", "commit"} => TransactionFlowList # {}
  BY DEF TypeInv, Working, TransactionFlowList
<1>1. ASSUME NEW from, NEW to, Receive(from, to) PROVE Numbered'
  <2>1. number' = number + 1 /\ UNCHANGED db /\ pc' = "retry"
    BY <1>1 DEF Receive
  <2>2. ASSUME NEW k \in db'.txs PROVE k.batch <= number' /\ k.batch # number'
    BY <1>t, <2>1 DEF Numbered
  <2> QED BY <2>1, <2>2 DEF Numbered, Fresh
<1>2. CASE BeginAttempt \/ (\E o \in left : UpdateOrCreate(o)) \/ BalancesDone
  <2>1. /\ UNCHANGED <<db, number, batch>> /\ pc \in {"retry", "balances"}
        /\ pc' \in {"balances", "store"}
    BY <1>2 DEF BeginAttempt, UpdateOrCreate, BalancesDone
  <2>2. TransactionFlowList' = TransactionFlowList
    BY <2>1 DEF TransactionFlowList, KeyOf
  <2> QED BY <2>1, <2>2 DEF Numbered, Fresh
<1>3. CASE StoreRows
  <2> DEFINE Txs == work.txs \cup TransactionFlowList
             Childs == work.childs \cup InternalsChildTxFlowList \cup TransactionChildTxFlowList
             Vins == work.vins \cup VinList
  <2>1. /\ pc = "store" /\ pc' = "commit" /\ UNCHANGED <<db, number, batch>>
        /\ Unique(TransactionFlowList, work.txs)
        /\ work' = [work EXCEPT !.txs = Txs, !.childs = Childs, !.vins = Vins]
    BY <1>3 DEF StoreRows
  <2> HIDE DEF Txs, Childs, Vins
  <2>2. work'.txs = Txs /\ work.txs = db.txs
    BY <2>1 DEF LedgerInv, IsTable, HalfWritten
  <2>3. Fresh
    BY <1>n, <2>1, <2>2 DEF Numbered, Unique
  <2>4. TransactionFlowList' = TransactionFlowList
    BY <2>1 DEF TransactionFlowList, KeyOf
  <2> QED BY <2>1, <2>2, <2>3, <2>4 DEF Numbered, Fresh, Txs
<1>4. CASE Commit \/ AttemptFails \/ Restart
  <2>1. /\ number' = number /\ pc' \in {"recv", "failed", "retry"}
        /\ pc' = "retry" => batch' = batch /\ pc \in {"retry", "balances", "store", "commit"}
        /\ UNCHANGED db \/ (pc = "commit" /\ db' = work)
    BY <1>4 DEF Commit, AttemptFails, Restart, Rollback, AfterFailure
  <2>2. pc' = "retry" => TransactionFlowList' = TransactionFlowList
    BY <2>1 DEF TransactionFlowList, KeyOf
  <2>3. CASE UNCHANGED db
    BY <2>1, <2>2, <2>3 DEF Numbered, Fresh
  <2>4. CASE pc = "commit" /\ db' = work
    <3>1. db'.txs = db.txs \cup TransactionFlowList
      BY <2>4 DEF Numbered
    <3>2. \A k \in db'.txs : k.batch <= number'
      BY <1>t, <1>f, <2>1, <3>1 DEF Numbered
    <3> QED BY <2>1, <2>2, <3>1, <3>2 DEF Numbered
  <2> QED BY <2>1, <2>3, <2>4
<1>5. CASE UNCHANGED vars
  <2>1. UNCHANGED <<db, work, number, batch, pc>>
    BY <1>5 DEF vars
  <2>2. TransactionFlowList' = TransactionFlowList
    BY <2>1 DEF TransactionFlowList, KeyOf
  <2> QED BY <2>1, <2>2 DEF Numbered, Fresh
<1> QED BY <1>1, <1>2, <1>3, <1>4, <1>5 DEF Next

\* Every step is one of the abstract specification, or changes nothing it sees.
LEMMA WritesNext ==
  ASSUME LedgerInv, TypeInv, Numbered, [Next]_vars
  PROVE  [Writes!Next]_(Writes!vars)
<1>0. ASSUME UNCHANGED <<number, db>> PROVE UNCHANGED Writes!vars
  BY <1>0 DEF Writes!vars
<1>1. ASSUME NEW from, NEW to, Receive(from, to) PROVE Writes!Next
  <2>1. number' = number + 1 /\ UNCHANGED db
    BY <1>1 DEF Receive
  <2>2. Writes!Receive
    BY <2>1, Zenon DEF Writes!Receive
  <2> QED BY <2>2 DEF Writes!Next
<1>2. ASSUME pc = "commit", db' = work, number' = number PROVE Writes!Next
  <2>0. PICK B \in SUBSET Tx : B = batch
    BY DEF LedgerInv
  <2>1. /\ B # {} /\ Fresh
        /\ db'.txs = db.txs \cup {[batch |-> number, tx |-> t] : t \in B}
    BY <1>2, <2>0 DEF LedgerInv, TypeInv, Working, Numbered, TransactionFlowList, KeyOf
  <2>2. Writes!Write(B)
    BY <1>2, <2>1 DEF Writes!Write, Fresh
  <2> QED BY <2>2 DEF Writes!Next
<1>3. CASE ~\E from, to \in {Block[t] : t \in Tx} : Receive(from, to)
  <2>1. number' = number /\ (UNCHANGED db \/ (pc = "commit" /\ db' = work))
    BY <1>3 DEF Next, BeginAttempt, UpdateOrCreate, BalancesDone, StoreRows, Commit, AttemptFails,
                Restart, Rollback, vars
  <2> QED BY <1>0, <1>2, <2>1
<1> QED BY <1>1, <1>3

\* handleBatch implements BatchWrites: retries, lost answers, crashes and batches
\* that come again included, for every finite chain.
THEOREM LedgerImplementsBatchWrites == Spec => ImplementsBatchWrites
<1>1. Init => Numbered /\ Writes!Init
  BY DEF Init, Empty, Numbered, Writes!Init
<1>2. LedgerInv /\ TypeInv /\ Numbered /\ [Next]_vars => Numbered'
  BY NumberedNext
<1>3. LedgerInv /\ TypeInv /\ Numbered /\ [Next]_vars => [Writes!Next]_(Writes!vars)
  BY WritesNext
<1>4. Spec => []LedgerInv
  BY LedgerInvInit, LedgerInvNext, PTL DEF Spec
<1> QED BY <1>1, <1>2, <1>3, <1>4, TypeInvHolds, PTL DEF Spec, ImplementsBatchWrites, Writes!Spec
=============================================================================
