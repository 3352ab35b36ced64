----------------------------- MODULE BatchWrites -----------------------------
(***************************************************************************)
(* What handleBatch of worker/deposit.go promises for one business,       *)
(* without its attempts and statements: the batch received last is        *)
(* written in one step or not at all, and never twice.                    *)
(***************************************************************************)
EXTENDS Naturals

CONSTANT Tx         \* the transactions of the chain

VARIABLES received, \* the number of batches received
          txs       \* the transactions written, each with the number of its batch

vars == <<received, txs>>

Init == received = 0 /\ txs = {}

Receive == received' = received + 1 /\ UNCHANGED txs

\* The transactions B of the batch received last are written.
Write(B) == /\ B # {} /\ \A k \in txs : k.batch # received
            /\ txs' = txs \cup {[batch |-> received, tx |-> t] : t \in B}
            /\ UNCHANGED received

Next == Receive \/ \E B \in SUBSET Tx : Write(B)

Spec == Init /\ [][Next]_vars
=============================================================================
