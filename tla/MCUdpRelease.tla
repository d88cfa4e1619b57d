---------------------------- MODULE MCUdpRelease ----------------------------
EXTENDS UdpRelease, TLC

CONSTANT port

\* A client may use its port from two addresses.
SamePort == [c \in Clients |-> port]

Symmetry == Permutations(Clients)
=============================================================================
