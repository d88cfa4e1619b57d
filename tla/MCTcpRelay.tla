----------------------------- MODULE MCTcpRelay -----------------------------
(***************************************************************************)
(* Bounds for model checking one TCP connection: the client sends three    *)
(* units, the upstream its two reply units and three of payload,           *)
(* through pipes of two.                                                   *)
(***************************************************************************)
EXTENDS TcpRelay

SentBound == [s \in Sides |-> IF s = "client" THEN 3 ELSE 5]
=============================================================================
