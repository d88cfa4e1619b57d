--------------------------- MODULE MCRelayRegistry ---------------------------
EXTENDS RelayRegistry, TLC

CONSTANTS w1, w2, s1, s2, d1

\* One worker has a session and a DNS channel, the other a session.
Placement == (s1 :> w1) @@ (s2 :> w2) @@ (d1 :> w1)

Symmetry == Permutations(Ports)
=============================================================================
