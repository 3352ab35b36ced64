--------------------------- MODULE MCAdvancingClock ---------------------------
(* The durations TLC asks for: one in the past, none, and one ahead. *)
EXTENDS AdvancingClock

MCDuration == {-1, 0, 2}
=============================================================================
