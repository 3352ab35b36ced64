------------------------- MODULE AddressScanProofs -------------------------
(***************************************************************************)
(* What processBatch makes of a transaction, for every address book and    *)
(* every number of inputs and outputs.                                     *)
(***************************************************************************)
EXTENDS AddressScan, TLAPS

-----------------------------------------------------------------------------
(* The type that is assigned last. *)

LEMMA MaxIs ==
  ASSUME NEW S \in SUBSET Int, NEW m \in S, \A y \in S : m >= y
  PROVE  Max(S) = m
<1>1. ASSUME NEW x \in S, \A y \in S : x >= y PROVE x = m
  BY <1>1
<1>2. Max(S) \in S /\ \A y \in S : Max(S) >= y
  BY DEF Max
<1> QED BY <1>1, <1>2

\* The six types by their place.
LEMMA TypePlaces ==
  /\ DOMAIN TxTypes = 1..6
  /\ TxTypes[1] = "unknown" /\ TxTypes[2] = "deposit" /\ TxTypes[3] = "withdraw"
  /\ TxTypes[4] = "collection" /\ TxTypes[5] = "hot2cold" /\ TxTypes[6] = "cold2hot"
BY DEF TxTypes

\* When each type is flagged.
LEMMA FlaggedTypes ==
  ASSUME NEW bk, NEW hot, NEW cold, NEW t
  PROVE  LET F == Flagged(bk, hot, cold, t)
         IN  /\ F \subseteq 1..6
             /\ 1 \in F <=> \E o \in ToSet(t.vout), a \in ToSet(t.vin) : TRUE
             /\ 2 \in F <=> \E o \in ToSet(t.vout), a \in ToSet(t.vin) :
                              ~HasRow(bk, a) /\ KindOfOutput(bk, o) = "user"
             /\ 3 \in F <=> \E o \in ToSet(t.vout), a \in ToSet(t.vin) :
                              a = hot /\ KindOfOutput(bk, o) = "none"
             /\ 4 \in F <=> \E o \in ToSet(t.vout), a \in ToSet(t.vin) :
                              KindOfOutput(bk, o) = "hot" /\ HasRow(bk, a)
             /\ 5 \in F <=> \E o \in ToSet(t.vout), a \in ToSet(t.vin) :
                              a = hot /\ KindOfOutput(bk, o) = "cold"
             /\ 6 \in F <=> \E o \in ToSet(t.vout), a \in ToSet(t.vin) :
                              a = cold /\ KindOfOutput(bk, o) = "hot"
<1>1. ASSUME NEW o, NEW a
      PROVE  LET f == Flags(bk, hot, cold, o, a)
                 to == KindOfOutput(bk, o)
             IN  /\ f["unknown"]
                 /\ f["deposit"] <=> ~HasRow(bk, a) /\ to = "user"
                 /\ f["withdraw"] <=> a = hot /\ to = "none"
                 /\ f["collection"] <=> to = "hot" /\ HasRow(bk, a)
                 /\ f["hot2cold"] <=> a = hot /\ to = "cold"
                 /\ f["cold2hot"] <=> a = cold /\ to = "hot"
  BY DEF Flags
<1> DEFINE F == Flagged(bk, hot, cold, t)
           Sets(i) == \E o \in ToSet(t.vout), a \in ToSet(t.vin) :
                        Flags(bk, hot, cold, o, a)[TxTypes[i]]
<1>2. F \subseteq 1..6 /\ \A i \in 1..6 : i \in F <=> Sets(i)
  BY TypePlaces DEF Flagged
<1> HIDE DEF F
<1>3. 1 \in F <=> \E o \in ToSet(t.vout), a \in ToSet(t.vin) : Flags(bk, hot, cold, o, a)["unknown"]
  BY <1>2, TypePlaces
<1>4. 2 \in F <=> \E o \in ToSet(t.vout), a \in ToSet(t.vin) : Flags(bk, hot, cold, o, a)["deposit"]
  BY <1>2, TypePlaces
<1>5. 3 \in F <=> \E o \in ToSet(t.vout), a \in ToSet(t.vin) : Flags(bk, hot, cold, o, a)["withdraw"]
  BY <1>2, TypePlaces
<1>6. 4 \in F <=> \E o \in ToSet(t.vout), a \in ToSet(t.vin) : Flags(bk, hot, cold, o, a)["collection"]
  BY <1>2, TypePlaces
<1>7. 5 \in F <=> \E o \in ToSet(t.vout), a \in ToSet(t.vin) : Flags(bk, hot, cold, o, a)["hot2cold"]
  BY <1>2, TypePlaces
<1>8. 6 \in F <=> \E o \in ToSet(t.vout), a \in ToSet(t.vin) : Flags(bk, hot, cold, o, a)["cold2hot"]
  BY <1>2, TypePlaces
<1> HIDE DEF Sets
<1>9. /\ 1 \in F <=> \E o \in ToSet(t.vout), a \in ToSet(t.vin) : TRUE
      /\ 2 \in F <=> \E o \in ToSet(t.vout), a \in ToSet(t.vin) :
                       ~HasRow(bk, a) /\ KindOfOutput(bk, o) = "user"
  BY <1>1, <1>3, <1>4, Zenon
<1>10. /\ 3 \in F <=> \E o \in ToSet(t.vout), a \in ToSet(t.vin) :
                        a = hot /\ KindOfOutput(bk, o) = "none"
       /\ 4 \in F <=> \E o \in ToSet(t.vout), a \in ToSet(t.vin) :
                        KindOfOutput(bk, o) = "hot" /\ HasRow(bk, a)
  BY <1>1, <1>5, <1>6, Zenon
<1>11. /\ 5 \in F <=> \E o \in ToSet(t.vout), a \in ToSet(t.vin) :
                        a = hot /\ KindOfOutput(bk, o) = "cold"
       /\ 6 \in F <=> \E o \in ToSet(t.vout), a \in ToSet(t.vin) :
                        a = cold /\ KindOfOutput(bk, o) = "hot"
  BY <1>1, <1>7, <1>8, Zenon
<1> QED BY <1>2, <1>9, <1>10, <1>11, Zenon DEF F

\* The members of a sequence that is not empty.
LEMMA Members ==
  ASSUME NEW s \in Seq(Addr), s # <<>>
  PROVE  ToSet(s) \subseteq Addr /\ s[1] \in ToSet(s)
<1>1. Len(s) \in Nat \ {0} /\ DOMAIN s = 1..Len(s)
  OBVIOUS
<1>2. 1 \in DOMAIN s /\ \A i \in DOMAIN s : s[i] \in Addr
  BY <1>1
<1> QED BY <1>2, Zenon DEF ToSet

\* The wallets of a business with one of each.
LEMMA OneWallet ==
  ASSUME NEW bk, NEW k, NEW w \in Addr, {a \in Addr : bk[a] = k} = {w}
  PROVE  /\ Wallets(bk, k) = {w} /\ w # Nil /\ bk[w] = k
         /\ \A a \in Addr : bk[a] = k => a = w
BY ClassifyAssumption DEF Wallets

-----------------------------------------------------------------------------
(* The transactions scanned. *)

ScanTypes == book \in Books /\ tx \in Txs

LEMMA SmallTxsAreTxs == ASSUME MaxLen \in Nat PROVE SmallTxs \subseteq Txs
<1>1. BoundedSeq(Addr, MaxLen) \subseteq Seq(Addr)
  BY DEF BoundedSeq, SeqOf
<1> QED BY <1>1 DEF SmallTxs, Txs

LEMMA ScanTypesHold == ASSUME MaxLen \in Nat PROVE Spec => []ScanTypes
<1>1. Init => ScanTypes
  BY SmallTxsAreTxs DEF Init, ScanTypes, Books, EmptyBook, Kind
<1>2. ScanTypes /\ [Next]_<<book, tx>> => ScanTypes'
  BY DEF ScanTypes, Next, StoreAddress, Books
<1> QED BY <1>1, <1>2, PTL DEF Spec

-----------------------------------------------------------------------------
(* The types of transactions. *)

\* An output in lower case is found under its own address.
LEMMA LowerOutput ==
  ASSUME ScanTypes, LowerCase, NEW o \in ToSet(tx.vout), tx.vout # <<>>
  PROVE  KindOfOutput(book, o) = book[o]
<1>1. o \in Addr
  BY Members DEF ScanTypes, Txs
<1> QED BY <1>1 DEF LowerCase, KindOfOutput

\* A transfer between addresses of two kinds, the inputs' owned by the business:
\* it is accepted, and its type is the one flagged last.
LEMMA PlainTransfer ==
  ASSUME ScanTypes, LowerCase, OneWalletEach,
         NEW from \in {"user", "hot", "cold"}, NEW to, AllFrom(from), AllTo(to)
  PROVE  \E hot, cold \in Addr :
           /\ \A a \in Addr : (book[a] = "hot" <=> a = hot) /\ (book[a] = "cold" <=> a = cold)
           /\ Verdicts(book, tx) = {TxType(book, hot, cold, tx)}
<1>1. PICK hot \in Addr : {a \in Addr : book[a] = "hot"} = {hot}
  BY DEF OneWalletEach
<1>2. PICK cold \in Addr : {a \in Addr : book[a] = "cold"} = {cold}
  BY DEF OneWalletEach
<1>3. /\ Wallets(book, "hot") = {hot} /\ hot # Nil /\ book[hot] = "hot"
      /\ \A a \in Addr : book[a] = "hot" => a = hot
  BY <1>1, OneWallet
<1>4. /\ Wallets(book, "cold") = {cold} /\ cold # Nil /\ book[cold] = "cold"
      /\ \A a \in Addr : book[a] = "cold" => a = cold
  BY <1>2, OneWallet
<1>5. tx.vin # <<>> /\ tx.vout # <<>> /\ tx.vin[1] \in ToSet(tx.vin)
  BY Members DEF ScanTypes, Txs, AllFrom, AllTo
<1>6. \A a \in ToSet(tx.vin) : HasRow(book, a)
  BY DEF AllFrom, HasRow
<1>7. Verdict(book, hot, cold, tx) = TxType(book, hot, cold, tx)
  BY <1>3, <1>4, <1>5, <1>6, Zenon DEF Verdict
<1>8. Verdicts(book, tx) = {TxType(book, hot, cold, tx)}
  <2>1. \A v : v \in Verdicts(book, tx) <=>
                 \E x \in Wallets(book, "hot"), y \in Wallets(book, "cold") : v = Verdict(book, x, y, tx)
    BY DEF Verdicts
  <2>2. \A v : v \in Verdicts(book, tx) <=> v = Verdict(book, hot, cold, tx)
    BY <1>3, <1>4, <2>1
  <2> QED BY <1>7, <2>2
<1> QED BY <1>3, <1>4, <1>8

\* The type that processBatch's comment gives to each of the four transfers.
LEMMA PlainTypes == ScanTypes => PlainTransfersAsDocumented
<1> SUFFICES ASSUME ScanTypes, LowerCase, OneWalletEach,
                    NEW from \in {"user", "hot", "cold"}, NEW to \in {"none", "hot", "cold"},
                    NEW place \in 3..6,
                    <<from, to, place>> \in {<<"hot", "none", 3>>, <<"user", "hot", 4>>,
                                             <<"hot", "cold", 5>>, <<"cold", "hot", 6>>},
                    AllFrom(from), AllTo(to)
             PROVE  Verdicts(book, tx) = {TxTypes[place]}
  BY TypePlaces DEF PlainTransfersAsDocumented
<1>1. PICK hot, cold \in Addr :
        /\ \A a \in Addr : (book[a] = "hot" <=> a = hot) /\ (book[a] = "cold" <=> a = cold)
        /\ Verdicts(book, tx) = {TxType(book, hot, cold, tx)}
  BY PlainTransfer
<1>2. /\ tx.vin # <<>> /\ tx.vout # <<>>
      /\ ToSet(tx.vin) \subseteq Addr /\ tx.vin[1] \in ToSet(tx.vin)
      /\ ToSet(tx.vout) \subseteq Addr /\ tx.vout[1] \in ToSet(tx.vout)
  BY Members DEF ScanTypes, Txs, AllFrom, AllTo
<1>3. /\ \A o \in ToSet(tx.vout) : KindOfOutput(book, o) = to
      /\ \A a \in ToSet(tx.vin) : book[a] = from /\ HasRow(book, a)
  BY <1>2, LowerOutput DEF AllFrom, AllTo, HasRow
<1> DEFINE F == Flagged(book, hot, cold, tx)
<1>4. /\ F \subseteq 1..6
      /\ 2 \notin F
      /\ 3 \in F <=> from = "hot" /\ to = "none"
      /\ 4 \in F <=> to = "hot"
      /\ 5 \in F <=> from = "hot" /\ to = "cold"
      /\ 6 \in F <=> from = "cold" /\ to = "hot"
  <2>1. \A a \in ToSet(tx.vin) : (a = hot <=> from = "hot") /\ (a = cold <=> from = "cold")
    BY <1>1, <1>2, <1>3
  <2>i. PICK a1 \in ToSet(tx.vin), o1 \in ToSet(tx.vout) : TRUE
    BY <1>2
  <2>2. F \subseteq 1..6 /\ 2 \notin F
    BY <1>3, FlaggedTypes, Zenon
  <2>3. 3 \in F <=> from = "hot" /\ to = "none"
    <3>1. 3 \in F <=> \E o \in ToSet(tx.vout), a \in ToSet(tx.vin) :
                        a = hot /\ KindOfOutput(book, o) = "none"
      BY FlaggedTypes
    <3> HIDE DEF F
    <3> QED BY <1>3, <2>1, <2>i, <3>1
  <2>4. 4 \in F <=> to = "hot"
    <3>1. 4 \in F <=> \E o \in ToSet(tx.vout), a \in ToSet(tx.vin) :
                        KindOfOutput(book, o) = "hot" /\ HasRow(book, a)
      BY FlaggedTypes
    <3> HIDE DEF F
    <3> QED BY <1>3, <2>1, <2>i, <3>1
  <2>5. 5 \in F <=> from = "hot" /\ to = "cold"
    <3>1. 5 \in F <=> \E o \in ToSet(tx.vout), a \in ToSet(tx.vin) :
                        a = hot /\ KindOfOutput(book, o) = "cold"
      BY FlaggedTypes
    <3> HIDE DEF F
    <3> QED BY <1>3, <2>1, <2>i, <3>1
  <2>6. 6 \in F <=> from = "cold" /\ to = "hot"
    <3>1. 6 \in F <=> \E o \in ToSet(tx.vout), a \in ToSet(tx.vin) :
                        a = cold /\ KindOfOutput(book, o) = "hot"
      BY FlaggedTypes
    <3> HIDE DEF F
    <3> QED BY <1>3, <2>1, <2>i, <3>1
  <2> QED BY <2>2, <2>3, <2>4, <2>5, <2>6
<1> HIDE DEF F
<1>5. place \in F /\ \A y \in F : place >= y
  <2>1. \A y \in F : y \in {1, 3, 4, 5, 6}
    BY <1>4
  <2> QED BY <1>4, <2>1
<1>6. Max(F) = place
  <2>1. F \in SUBSET Int
    BY <1>4
  <2> QED BY <1>5, <2>1, MaxIs
<1> QED BY <1>1, <1>6 DEF TxType, F

\* Withdrawals, collections and transfers between the wallets get the type the
\* comment above processBatch gives them, with any number of inputs and outputs.
THEOREM PlainTransfersTyped == ASSUME MaxLen \in Nat PROVE Spec => []PlainTransfersAsDocumented
BY ScanTypesHold, PlainTypes, PTL
=============================================================================
