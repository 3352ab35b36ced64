---------------------------- MODULE HeaderStream ----------------------------
(***************************************************************************)
(* What BatchBlock promises to the synchronizer, without its RPC calls:   *)
(* batches of consecutive confirmed heights, each batch starting right    *)
(* after the previous one and holding at most Step heights.               *)
(***************************************************************************)
EXTENDS Integers, Sequences

CONSTANT Step      \* the largest batch

VARIABLES safe,    \* the greatest confirmed height of the chain
          cursor,  \* the last height handed out
          batch    \* the heights the caller holds

vars == <<safe, cursor, batch>>

\* The heights lo+1 .. hi, in order.
HeightsAfter(lo, hi) == [i \in 1..(hi - lo) |-> lo + i]

Init == /\ safe \in Int
        /\ cursor \in Int
        /\ batch = <<>>

\* The chain confirms more blocks.
Confirm == /\ safe' \in Int /\ safe' > safe
           /\ UNCHANGED <<cursor, batch>>

\* Hand out the next batch, the one up to height e.
Emit(e) == /\ batch = <<>>
           /\ cursor < e /\ e <= safe /\ e - cursor <= Step
           /\ cursor' = e
           /\ batch' = HeightsAfter(cursor, e)
           /\ UNCHANGED safe

\* The caller is done with its batch.
Take == /\ batch # <<>>
        /\ batch' = <<>>
        /\ UNCHANGED <<safe, cursor>>

Next == Confirm \/ (\E e \in (cursor + 1)..safe : Emit(e)) \/ Take

Spec == Init /\ [][Next]_vars
=============================================================================
