---------------------------- MODULE MCUdpBudget ----------------------------
(* Small instances of UdpBudget for TLC. *)
EXTENDS UdpBudget, TLC

Symmetry == Permutations(Workers)
=============================================================================
