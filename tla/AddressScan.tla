---------------------------- MODULE AddressScan ----------------------------
(***************************************************************************)
(* One business whose address table grows (StoreAddresses of              *)
(* database/addresses.go) while transactions are scanned: every reachable *)
(* book meets every small transaction.                                    *)
(***************************************************************************)
EXTENDS TxClassify

CONSTANT MaxLen   \* bound: inputs and outputs of a transaction

VARIABLES book,  \* the table addresses_<business>
          tx     \* the transaction processBatch looks at

SmallTxs == LET Lists == BoundedSeq(Addr, MaxLen) IN [vin : Lists, vout : Lists]

Init == book = EmptyBook /\ tx \in SmallTxs

\* StoreAddresses: the row of a new address, of the type the request names.
StoreAddress(a, k) == /\ ~HasRow(book, a)
                      /\ book' = [book EXCEPT ![a] = k]
                      /\ UNCHANGED tx

Next == \E a \in Addr, k \in Kind \ {"none"} : StoreAddress(a, k)

Spec == Init /\ [][Next]_<<book, tx>>

-----------------------------------------------------------------------------
AllFrom(kind) == tx.vin # <<>> /\ \A a \in ToSet(tx.vin) : book[a] = kind
AllTo(kind) == tx.vout # <<>> /\ \A o \in ToSet(tx.vout) : book[o] = kind
LowerCase == \A a \in ToSet(tx.vin) \cup ToSet(tx.vout) : Lower[a] = a
OneWalletEach == \A k \in {"hot", "cold"} :
                   \E w \in Addr : {a \in Addr : book[a] = k} = {w}

\* A transfer from addresses of one kind to addresses of one kind gets the type
\* the comment above processBatch gives it, for every kind the business owns
\* the inputs of and lower-case addresses.
PlainTransfersAsDocumented ==
  LowerCase /\ OneWalletEach =>
    /\ AllFrom("hot") /\ AllTo("none") => Verdicts(book, tx) = {"withdraw"}
    /\ AllFrom("user") /\ AllTo("hot") => Verdicts(book, tx) = {"collection"}
    /\ AllFrom("hot") /\ AllTo("cold") => Verdicts(book, tx) = {"hot2cold"}
    /\ AllFrom("cold") /\ AllTo("hot") => Verdicts(book, tx) = {"cold2hot"}

\* A payment from the hot wallet to foreign addresses is a withdrawal (the second
\* line of the same comment) also when its change goes back to the hot wallet, as
\* it does in what BuildUnSignTransaction has signed.
WithdrawalMayHaveChange ==
  (LowerCase /\ OneWalletEach /\ AllFrom("hot")
     /\ {book[o] : o \in ToSet(tx.vout)} = {"none", "hot"}) =>
    Verdicts(book, tx) = {"withdraw"}

\* An external payment to a user's address is a deposit (the first line of the
\* comment above processBatch).
ExternalPaymentIsDeposit ==
  (LowerCase /\ OneWalletEach /\ AllFrom("none") /\ AllTo("user")) =>
    Verdicts(book, tx) = {"deposit"}
=============================================================================
