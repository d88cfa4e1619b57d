------------------------------ MODULE MCBridge ------------------------------
EXTENDS Bridge

\* Zeros for the defaults, more and fewer sessions than workers, more bindings than sessions.
Requests2 == [workers : {0, 2, 9}, tcp : {0, 1, 5}, udp : {0, 1, 3}, bindings : {0, 2, 7}]

\* From no room at all, over room for one worker only, to room for everything.
Nofiles2 == {Unlimited} \cup 4..60
=============================================================================
