---------------------------- MODULE CgroupHooks ----------------------------
(***************************************************************************)
(* What the helper does to the hooks of its cgroup (bpf/syscall.c) and to  *)
(* the pins that make its programs findable after a crash                  *)
(* (shared/bpf_cgroup_owned.h), as operators on one hook.                  *)
(*                                                                         *)
(* A hook holds programs and a mode.  With BPF_F_ALLOW_MULTI several       *)
(* programs share it; without, one program has it alone and the next one   *)
(* replaces it.  Replacement has no compare-and-swap: the code checks what *)
(* is there immediately before, and the check and the replacement are one  *)
(* step here, as the comment in bpf2socks_bpf_prog_attach concedes.        *)
(***************************************************************************)
EXTENDS Integers, Sequences, Functions

CONSTANTS
    Ordinary,   \* leaves attached first, in order
    Cap,        \* leaf of the no-op program that probes the getpeername hook
    Peer,       \* leaf of the getpeername program
    HookOf,     \* leaf -> hook
    Exclusive,  \* hooks for which exclusive_hook holds
    Gens,       \* process identifiers, one for each life of a helper
    None

\* asterisk_cgroup_programs, less the leaves of the other address family
Catalog == Ordinary \o <<Cap, Peer>>

Leaves == Range(Catalog)

Hooks == {HookOf[l] : l \in Leaves}

ASSUME CatalogAssumption ==
    /\ Ordinary \in Seq(Range(Ordinary)) \ {<<>>}
    /\ Cap # Peer /\ {Cap, Peer} \cap Range(Ordinary) = {}
    /\ HookOf[Cap] = HookOf[Peer]
    /\ \A l, m \in Range(Ordinary) : HookOf[l] = HookOf[m] => l = m
    /\ Exclusive \subseteq Hooks
    /\ HookOf[Peer] \notin Exclusive
    /\ None \notin Gens

\* Programs: of the system, one that allows everything and one that does not; and
\* the ones a helper has loaded for a leaf.
Allow == <<"allow", None>>
Foreign == <<"foreign", None>>
Own == Leaves \X Gens
Programs == {Allow, Foreign} \cup Own

HookStates == [multi : BOOLEAN, progs : SUBSET Programs]

Empty == [multi |-> FALSE, progs |-> {}]
Alone(x) == [multi |-> FALSE, progs |-> {x}]
Placeholder == Alone(Allow)

-----------------------------------------------------------------------------
(* The kernel. *)

CanJoin(at) == at.progs = {} \/ at.multi

Joined(at, x) == [multi |-> TRUE, progs |-> at.progs \cup {x}]

Left(at, x) == IF at.progs \subseteq {x} THEN Empty ELSE [at EXCEPT !.progs = @ \ {x}]

\* What the rest of the system may do to a hook: attach, replace or detach.
SystemChanges(at) ==
    {Alone(x) : x \in IF at.multi THEN {} ELSE {Allow, Foreign}}
        \cup {Joined(at, x) : x \in IF CanJoin(at) THEN {Foreign} ELSE {}}
        \cup {Left(at, x) : x \in at.progs \cap {Allow, Foreign}}

-----------------------------------------------------------------------------
(* Each operation yields the set of its outcomes: whether it succeeded, the *)
(* hook after it, and the leaves whose original program the helper keeps    *)
(* (exclusive_attachments).  Any of its system calls may fail.              *)

Outcome(ok, at, kept) == [ok |-> ok, at |-> at, kept |-> kept]

\* Mutant of Attach: whatever program has the hook is replaced.
AttachOver(l, x, at, kept) ==
    {Outcome(FALSE, at, kept)} \cup
    IF CanJoin(at) THEN {Outcome(TRUE, Joined(at, x), kept)}
    ELSE IF HookOf[l] \in Exclusive /\ l \notin kept THEN {Outcome(TRUE, Alone(x), kept \cup {l})}
    ELSE {}

\* bpf2socks_bpf_prog_attach of program x, loaded for leaf l
Attach(l, x, at, kept) ==
    {Outcome(FALSE, at, kept)} \cup
    IF CanJoin(at) THEN {Outcome(TRUE, Joined(at, x), kept)}
    ELSE IF HookOf[l] \in Exclusive /\ l \notin kept /\ at = Placeholder
         THEN {Outcome(TRUE, Alone(x), kept \cup {l})}
    ELSE {}

\* bpf2socks_bpf_prog_detach
Detach(l, x, at, kept) ==
    {Outcome(FALSE, at, kept)} \cup
    IF l \in kept
    THEN {IF at = Alone(x) THEN Outcome(TRUE, Placeholder, kept \ {l})
                           ELSE Outcome(FALSE, at, kept \ {l})}
    ELSE IF x \notin at.progs THEN {Outcome(TRUE, at, kept)}
    ELSE IF at.multi THEN {Outcome(TRUE, Left(at, x), kept)}
    ELSE {}

\* asterisk_cgroup_detach_pins for the program x found in one pin: an exclusive
\* attachment is replaced by a new program that allows everything.
DetachPinned(x, at) ==
    LET after == CASE x \notin at.progs -> at
                   [] x \in at.progs /\ at.multi -> Left(at, x)
                   [] OTHER -> Placeholder
    IN  {Outcome(FALSE, at, {}), Outcome(FALSE, after, {}), Outcome(TRUE, after, {})}
=============================================================================
