---------------------------- MODULE MCTcpAccept ----------------------------
(***************************************************************************)
(* Two workers that compete for a handful of descriptors and sessions.     *)
(***************************************************************************)
EXTENDS TcpAccept, TLC

Symmetry == Permutations(Workers)
=============================================================================
