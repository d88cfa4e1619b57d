---- MODULE MCUdpDownlink ----
EXTENDS UdpDownlink
CONSTANTS port
OnePort == [r \in Remotes |-> port]
Symmetry == Permutations(Sessions) \cup Permutations(Remotes)
                \cup Permutations(Fds) \cup Permutations(Channels)
====
