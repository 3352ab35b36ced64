--------------------------- MODULE MCAddressScan ---------------------------
(* Three lower-case addresses and one with capital letters, "K".            *)
EXTENDS AddressScan

MCAddr == {"a", "b", "c", "K"}
MCLower == [x \in MCAddr |-> IF x = "K" THEN "k" ELSE x]
=============================================================================
