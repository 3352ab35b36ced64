------------------------------ MODULE MCLedger ------------------------------
(* Five transactions on four blocks. *)
EXTENDS Ledger, Sequences

MCTxType == [d1 |-> "deposit", d2 |-> "deposit", w |-> "withdraw", c |-> "cold2hot",
             k |-> "collection"]
MCOut == [d1 |-> <<[addr |-> "u", amount |-> 1], [addr |-> "h", amount |-> 2]>>,
          d2 |-> <<[addr |-> "u", amount |-> 2]>>,
          w  |-> <<[addr |-> "x", amount |-> 1], [addr |-> "h", amount |-> 1]>>,
          c  |-> <<[addr |-> "h", amount |-> 0]>>,
          k  |-> <<[addr |-> "h", amount |-> 1]>>]
MCBlock == [d1 |-> 1, d2 |-> 2, w |-> 3, c |-> 2, k |-> 4]
=============================================================================
