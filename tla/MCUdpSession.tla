---------------------------- MODULE MCUdpSession ----------------------------
EXTENDS UdpSession

Symmetry == Permutations(Clients)
=============================================================================
