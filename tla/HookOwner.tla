----------------------------- MODULE HookOwner -----------------------------
(***************************************************************************)
(* What the helpers promise to the rest of the system about the hooks of   *)
(* the cgroup (README.md, "exclusive hooks"): a hook belongs to the        *)
(* system, our programs are guests.  Only the system changes what the      *)
(* system has there.                                                       *)
(***************************************************************************)
EXTENDS Naturals

CONSTANTS Hooks, Exclusive, Own, Allow

VARIABLES
    view,   \* hook -> what the system has there, and whether for itself alone
    ours,   \* hook -> our programs in it
    edits   \* how often the system has changed a hook

vars == <<view, ours, edits>>

Init ==
    /\ ours = [h \in Hooks |-> {}]
    /\ edits = 0
    /\ \A h \in Hooks : view[h].exclusive => view[h].progs # {}

\* A program of ours joins, or stands in for a placeholder.
Take(h) ==
    /\ \E x \in Own \ ours[h] : ours' = [ours EXCEPT ![h] = @ \cup {x}]
    /\ view[h].exclusive => h \in Exclusive /\ view[h].progs = {Allow} /\ ours[h] = {}
    /\ UNCHANGED <<view, edits>>

Give(h) ==
    /\ \E x \in ours[h] : ours' = [ours EXCEPT ![h] = @ \ {x}]
    /\ UNCHANGED <<view, edits>>

System(h) ==
    /\ edits' = edits + 1
    /\ \E v \in {view'[h]} : view' = [view EXCEPT ![h] = v]
    /\ \E o \in {ours[h], {}} : ours' = [ours EXCEPT ![h] = o]

Guests == ours' # ours /\ \E h \in Hooks : Take(h) \/ Give(h)

Next == Guests \/ \E h \in Hooks : System(h)

Spec == Init /\ [][Next]_vars
=============================================================================
