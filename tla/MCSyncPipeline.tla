--------------------------- MODULE MCSyncPipeline ---------------------------
(* Small instances of the scanner.                                          *)
EXTENDS SyncPipeline

MCAddr == {"u", "h", "c", "x"}
MCLower == [a \in MCAddr |-> a]

\* The business owns a user address, a hot and a cold wallet; "x" is foreign.
FullBook == [a \in MCAddr |->
  CASE a = "u" -> "user" [] a = "h" -> "hot" [] a = "c" -> "cold" [] OTHER -> "none"]
\* A business that never exported a wallet.
UserOnlyBook == [a \in MCAddr |-> IF a = "u" THEN "user" ELSE "none"]
FullBooks == [b \in Business |-> FullBook]
MixedBooks == [b \in Business |-> IF b \in Registered THEN FullBook ELSE UserOnlyBook]

Collection == [vin |-> <<"u">>, vout |-> <<"h">>]
Withdrawal == [vin |-> <<"h">>, vout |-> <<"x">>]
Foreign == [vin |-> <<"x">>, vout |-> <<"u">>]

\* Blocks the scanner accepts: some with transactions, some without.
BusyBlocks == [h \in Heights |-> IF h % 3 = 1 THEN <<>> ELSE <<Withdrawal>>]
\* The block at 3 has an internal transfer, the one at 4 pays a user from outside.
ScannedBlocks == [h \in Heights |-> CASE h = 3 -> <<Withdrawal, Collection>>
                                     [] h = 4 -> <<Withdrawal, Foreign>>
                                     [] OTHER -> <<Withdrawal>>]
AllCalls == {"header", "header_code", "scan", "block_code", "query", "cold", "store",
             "store_ack", "list", "tx", "commit", "commit_ack"}

\* A build that lacks nothing; one that cannot look a transaction up; one whose
\* inserts are refused; and the one of this commit, which lacks all four.
WholeBuild == {{}}
ScanBuilds == {{}, {"tx"}, {"insert", "time"}, {"latest", "tx", "insert", "time"}}

RetriedCalls == {"header", "scan", "store", "commit"}
=============================================================================
