----------------------------- MODULE MCNotifier -----------------------------
(* A business with an internal transfer and a withdrawal.                   *)
EXTENDS Notifier

MCOf == [i |-> "b1", w |-> "b1"]
MCTable == [i |-> "internals", w |-> "withdraws"]
MCReady == [i |-> 1, w |-> 2]
=============================================================================
