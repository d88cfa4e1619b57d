----------------------------- MODULE MCInstance -----------------------------
EXTENDS Instance, TLC

CONSTANTS connect, peer

Leaf1 == <<"connect">>
Hook2 == [l \in {"connect", "cap", "peer"} |-> IF l = "connect" THEN connect ELSE peer]

\* The connect hook is exclusive, with a placeholder or a program to be left alone; the
\* getpeername hook is free.
InitialHooks2 == {(connect :> at) @@ (peer :> Empty) : at \in {Placeholder, Alone(Foreign)}}

Symmetry == Permutations(Procs) \cup Permutations(Gens) \cup Permutations(Inodes)
=============================================================================
