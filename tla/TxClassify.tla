---------------------------- MODULE TxClassify ----------------------------
(***************************************************************************)
(* worker/synchronizer.go, the body of processBatch's transaction loop,   *)
(* and the address queries of database/addresses.go it asks: what the     *)
(* scanner makes of one transaction for one business.                     *)
(*                                                                         *)
(* A transaction is the sequence of its input addresses (a vin with       *)
(* several addresses joined by "|" contributes each of them) and the      *)
(* sequence of its output addresses.  An address book maps each address   *)
(* to its kind in the table addresses_<business>: AddressType 0 "user",   *)
(* 1 "hot", 2 "cold", any other "other" (ExportAddressesByPublicKeys      *)
(* stores the type it is given), or "none" when it has no row.            *)
(***************************************************************************)
EXTENDS Integers, Sequences, SequencesExt

CONSTANTS Addr,   \* the addresses that occur in blocks and in address tables
          Lower,  \* strings.ToLower on them; in Addr only for a lower-case one
          Nil     \* the nil *Addresses

ASSUME ClassifyAssumption == DOMAIN Lower = Addr /\ Nil \notin Addr

Kind == {"none", "user", "hot", "cold", "other"}
Books == [Addr -> Kind]
EmptyBook == [a \in Addr |-> "none"]
Txs == [vin : Seq(Addr), vout : Seq(Addr)]

\* QueryAddressesByToAddress: the row of an address, or ErrRecordNotFound.
HasRow(book, a) == book[a] # "none"

\* AddressExist: the kind found for an output address, which is looked up in
\* lower case among rows that keep the letters they came with.
KindOfOutput(book, o) == IF Lower[o] \in Addr THEN book[Lower[o]] ELSE "none"

\* QueryHotWalletInfo and QueryColdWalletInfo: some row of that kind, or nil.
Wallets(book, kind) ==
  LET rows == {a \in Addr : book[a] = kind} IN IF rows = {} THEN {Nil} ELSE rows

\* The types in the order in which processBatch assigns them.
TxTypes == <<"unknown", "deposit", "withdraw", "collection", "hot2cold", "cold2hot">>

\* The flags that a pair of an output o and an input address a sets.
Flags(book, hot, cold, o, a) ==
  LET to == KindOfOutput(book, o)
  IN  [unknown    |-> TRUE,
       deposit    |-> ~HasRow(book, a) /\ to = "user",
       withdraw   |-> a = hot /\ to = "none",
       collection |-> to = "hot" /\ HasRow(book, a),
       hot2cold   |-> a = hot /\ to = "cold",
       cold2hot   |-> a = cold /\ to = "hot"]

\* The types a transaction has some flag for, by their place in TxTypes.
Flagged(book, hot, cold, tx) ==
  {i \in DOMAIN TxTypes : \E o \in ToSet(tx.vout), a \in ToSet(tx.vin) :
                            Flags(book, hot, cold, o, a)[TxTypes[i]]}

\* Of the types flagged the one assigned last stays.
TxType(book, hot, cold, tx) == TxTypes[Max(Flagged(book, hot, cold, tx))]

\* One transaction: its type, or "drop" where processBatch returns a nil error
\* after a failed address query, or "panic" where it reads the address of a
\* wallet that is nil.  The first input address is asked for before the wallets
\* are read, the others after.
Verdict(book, hot, cold, tx) ==
  IF tx.vout = <<>> \/ tx.vin = <<>> THEN "unknown"
  ELSE IF ~HasRow(book, tx.vin[1]) THEN "drop"
  ELSE IF hot = Nil \/ cold = Nil THEN "panic"
  ELSE IF \E a \in ToSet(tx.vin) : ~HasRow(book, a) THEN "drop"
  ELSE TxType(book, hot, cold, tx)

\* The wallet rows are whichever the database returns.
Verdicts(book, tx) == {Verdict(book, hot, cold, tx) :
                         hot \in Wallets(book, "hot"), cold \in Wallets(book, "cold")}

\* The transactions of one block for one business: "ok", or the first verdict
\* that ends processBatch.  Without its table every address query fails, the
\* one for the hot wallet first.
BlockVerdicts(hasTable, book, txList) ==
  IF hasTable
  THEN LET Bad(t) == Verdicts(book, t) \intersect {"drop", "panic"}
           first  == SelectInSeq(txList, LAMBDA t : Bad(t) # {})
       IN  IF first = 0 THEN {"ok"} ELSE Bad(txList[first])
  ELSE IF \E t \in ToSet(txList) : t.vout # <<>> THEN {"drop"} ELSE {"ok"}
=============================================================================
