------------------------- MODULE RelayRegistryProofs -------------------------
(***************************************************************************)
(* The registry's promises for any number of workers, sessions, channels   *)
(* and ports, and any number of retries.                                   *)
(***************************************************************************)
EXTENDS RelayRegistry, TLAPS

\* What the stage of an association says about its claim.
ClaimsPlaced ==
    \A a \in Assocs :
        /\ claimed[a] => stage[a] \in {"ready", "release"} /\ addr[a] \in Ports
        /\ stage[a] = "claim" => addr[a] \in Ports

\* An association uses a port it does not own only after its last retry.
UnownedIsLast ==
    \A a \in Assocs :
        stage[a] = "ready" /\ addr[a] \in Ports /\ ~claimed[a] =>
            a \in Sessions /\ retries[a] = MaxRetries

IInv == TypeOK /\ ClaimsExact /\ ClaimsPlaced /\ UnownedIsLast

\* Steps that touch neither the registry nor a claim keep ClaimsExact.
LEMMA UnclaimedStep ==
  ASSUME TypeOK, ClaimsExact, NEW a \in Assocs, ~claimed[a],
         UNCHANGED <<live, claimed>>,
         \A b \in Assocs : b # a => addr'[b] = addr[b]
  PROVE  ClaimsExact'
  <1>1. \A b \in Assocs : claimed[b] => addr'[b] = addr[b]
    OBVIOUS
  <1> QED BY <1>1 DEF ClaimsExact

\* The initial states satisfy the invariant.
LEMMA InitInv == Init => IInv
  <1> SUFFICES ASSUME Init PROVE IInv
    OBVIOUS
  <1>1. TypeOK
    BY RegistryAssumption DEF Init, TypeOK, Stages
  <1>2. ClaimsExact
    BY DEF Init, ClaimsExact
  <1>3. ClaimsPlaced /\ UnownedIsLast
    BY DEF Init, ClaimsPlaced, UnownedIsLast
  <1> QED BY <1>1, <1>2, <1>3 DEF IInv

\* Every step of an association keeps it.
LEMMA StepInv == IInv /\ [Next]_vars => IInv'
  <1> SUFFICES ASSUME IInv, [Next]_vars PROVE IInv'
    OBVIOUS
  <1>0. TypeOK /\ ClaimsExact /\ ClaimsPlaced /\ UnownedIsLast
    BY DEF IInv
  <1>1. ASSUME NEW a \in Assocs, Open(a) PROVE IInv'
    <2>1. ~claimed[a]
      BY <1>0, <1>1 DEF Open, ClaimsPlaced
    <2>2. TypeOK'
      BY <1>0, <1>1 DEF Open, Goto, TypeOK, Stages
    <2>3. ClaimsExact'
      BY <1>0, <1>1, <2>1, UnclaimedStep DEF Open
    <2>4. ClaimsPlaced' /\ UnownedIsLast'
      BY <1>0, <1>1, <2>1 DEF Open, Goto, TypeOK, ClaimsPlaced, UnownedIsLast
    <2> QED BY <2>2, <2>3, <2>4 DEF IInv
  <1>2. ASSUME NEW a \in Assocs, NEW p \in Ports \cup {Shared}, Reply(a, p) PROVE IInv'
    <2>1. ~claimed[a]
      BY <1>0, <1>2 DEF Reply, ClaimsPlaced
    <2>2. TypeOK'
      BY <1>0, <1>2 DEF Reply, Goto, TypeOK, Stages
    <2>3. ClaimsExact'
      BY <1>0, <1>2, <2>1, UnclaimedStep DEF Reply, TypeOK
    <2>4. ClaimsPlaced'
      BY <1>0, <1>2, <2>1 DEF Reply, NeedsClaim, Goto, TypeOK, ClaimsPlaced
    <2>5. UnownedIsLast'
      BY <1>0, <1>2, <2>1, RegistryAssumption DEF Reply, NeedsClaim, Goto, TypeOK, UnownedIsLast
    <2> QED BY <2>2, <2>3, <2>4, <2>5 DEF IInv
  <1>3. ASSUME NEW a \in Assocs, HandshakeFails(a) PROVE IInv'
    <2>1. ~claimed[a]
      BY <1>0, <1>3 DEF HandshakeFails, ClaimsPlaced
    <2>2. TypeOK'
      BY <1>0, <1>3 DEF HandshakeFails, Goto, TypeOK, Stages
    <2>3. ClaimsExact'
      BY <1>0, <1>3, <2>1, UnclaimedStep DEF HandshakeFails
    <2>4. ClaimsPlaced' /\ UnownedIsLast'
      BY <1>0, <1>3, <2>1 DEF HandshakeFails, Goto, TypeOK, ClaimsPlaced, UnownedIsLast
    <2> QED BY <2>2, <2>3, <2>4 DEF IInv
  <1>4. ASSUME NEW a \in Assocs, Claim(a) PROVE IInv'
    <2>1. ~claimed[a] /\ addr[a] \in Ports /\ addr[a] \notin live
      BY <1>0, <1>4 DEF Claim, Taken, ClaimsPlaced
    <2>2. TypeOK'
      BY <1>0, <1>4, <2>1 DEF Claim, Goto, TypeOK, Stages
    <2>3. ClaimsExact'
      <3>1. \A b \in Assocs : claimed[b] => addr[b] # addr[a]
        BY <1>0, <2>1 DEF ClaimsExact
      <3>2. addr' = addr /\ claimed' = [claimed EXCEPT ![a] = TRUE] /\ live' = live \cup {addr[a]}
        BY <1>4 DEF Claim
      <3>3. \A b \in Assocs : claimed'[b] <=> claimed[b] \/ b = a
        BY <1>0, <3>2 DEF TypeOK
      <3> QED BY <1>0, <3>1, <3>2, <3>3 DEF ClaimsExact
    <2>4. ClaimsPlaced'
      BY <1>0, <1>4, <2>1 DEF Claim, Goto, TypeOK, ClaimsPlaced
    <2>5. UnownedIsLast'
      BY <1>0, <1>4, <2>1 DEF Claim, Goto, TypeOK, UnownedIsLast
    <2> QED BY <2>2, <2>3, <2>4, <2>5 DEF IInv
  <1>5. ASSUME NEW a \in Assocs, Restart(a) PROVE IInv'
    <2>1. ~claimed[a]
      BY <1>0, <1>5 DEF Restart, ClaimsPlaced
    <2>a. retries[a] \in 0..MaxRetries /\ retries[a] < MaxRetries
      BY <1>0, <1>5 DEF Restart, MayRetry, TypeOK
    <2>b. retries[a] + 1 \in 0..MaxRetries
      BY <2>a, RegistryAssumption
    <2>2. TypeOK'
      BY <1>0, <1>5, <2>b DEF Restart, Goto, TypeOK, Stages
    <2>3. ClaimsExact'
      BY <1>0, <1>5, <2>1, UnclaimedStep DEF Restart, TypeOK
    <2>4. ClaimsPlaced' /\ UnownedIsLast'
      BY <1>0, <1>5, <2>1 DEF Restart, Goto, TypeOK, ClaimsPlaced, UnownedIsLast
    <2> QED BY <2>2, <2>3, <2>4 DEF IInv
  <1>6. ASSUME NEW a \in Assocs, GiveUp(a) PROVE IInv'
    <2>1. ~claimed[a]
      BY <1>0, <1>6 DEF GiveUp, ClaimsPlaced
    <2>a. retries[a] \in 0..MaxRetries /\ (a \in Sessions => ~(retries[a] < MaxRetries))
      BY <1>0, <1>6 DEF GiveUp, MayRetry, TypeOK
    <2>b. a \in Sessions => retries[a] = MaxRetries
      BY <2>a, RegistryAssumption
    <2>2. TypeOK'
      BY <1>0, <1>6 DEF GiveUp, Goto, TypeOK, Stages
    <2>3. ClaimsExact'
      BY <1>0, <1>6, <2>1, UnclaimedStep DEF GiveUp
    <2>4. ClaimsPlaced' /\ UnownedIsLast'
      BY <1>0, <1>6, <2>1, <2>b DEF GiveUp, Goto, TypeOK, ClaimsPlaced, UnownedIsLast
    <2> QED BY <2>2, <2>3, <2>4 DEF IInv
  <1>7. ASSUME NEW a \in Assocs, Drop(a) PROVE IInv'
    <2>1. TypeOK'
      BY <1>0, <1>7 DEF Drop, Goto, TypeOK, Stages
    <2>2. ClaimsExact'
      BY <1>0, <1>7 DEF Drop, ClaimsExact
    <2>3. ClaimsPlaced' /\ UnownedIsLast'
      BY <1>0, <1>7 DEF Drop, Goto, TypeOK, ClaimsPlaced, UnownedIsLast
    <2> QED BY <2>1, <2>2, <2>3 DEF IInv
  <1>8. ASSUME NEW a \in Assocs, Release(a) PROVE IInv'
    <2>1. TypeOK'
      BY <1>0, <1>8 DEF Release, Goto, TypeOK, Stages
    <2>2. ClaimsExact'
      <3>1. addr' = addr /\ claimed' = [claimed EXCEPT ![a] = FALSE]
        BY <1>8 DEF Release
      <3>2. \A b \in Assocs : claimed'[b] <=> claimed[b] /\ b # a
        BY <1>0, <3>1 DEF TypeOK
      <3>3. CASE claimed[a]
        <4>1. live' = live \ {addr[a]}
          BY <1>8, <3>3 DEF Release
        <4>2. \A b \in Assocs : claimed[b] /\ b # a => addr[b] # addr[a]
          BY <1>0, <3>3 DEF ClaimsExact
        <4> QED BY <1>0, <3>1, <3>2, <4>1, <4>2 DEF ClaimsExact
      <3>4. CASE ~claimed[a]
        BY <1>0, <1>8, <3>1, <3>2, <3>4 DEF Release, ClaimsExact
      <3> QED BY <3>3, <3>4
    <2>3. ClaimsPlaced' /\ UnownedIsLast'
      BY <1>0, <1>8 DEF Release, Goto, TypeOK, ClaimsPlaced, UnownedIsLast
    <2> QED BY <2>1, <2>2, <2>3 DEF IInv
  <1>9. ASSUME NEW a \in Assocs, CloseSockets(a) PROVE IInv'
    <2>1. ~claimed[a]
      BY <1>0, <1>9 DEF CloseSockets, ClaimsPlaced
    <2>2. TypeOK'
      BY <1>0, <1>9, RegistryAssumption DEF CloseSockets, Goto, TypeOK, Stages
    <2>3. ClaimsExact'
      BY <1>0, <1>9, <2>1, UnclaimedStep DEF CloseSockets, TypeOK
    <2>4. ClaimsPlaced' /\ UnownedIsLast'
      BY <1>0, <1>9, <2>1 DEF CloseSockets, Goto, TypeOK, ClaimsPlaced, UnownedIsLast
    <2> QED BY <2>2, <2>3, <2>4 DEF IInv
  <1>10. CASE UNCHANGED vars
    BY <1>0, <1>10 DEF vars, IInv, TypeOK, ClaimsExact, ClaimsPlaced, UnownedIsLast
  <1> QED
    BY <1>1, <1>2, <1>3, <1>4, <1>5, <1>6, <1>7, <1>8, <1>9, <1>10 DEF Next, Handler

\* An association that relays is the owner of its port or out of retries.
LEMMA InvExclusive == IInv => ExclusiveUse
  <1> SUFFICES ASSUME IInv, NEW a \in Assocs, NEW b \in Assocs, NEW p \in Ports,
                      a # b, stage[a] = "ready", stage[b] = "ready", Uses(a, p), Uses(b, p)
               PROVE  \E s \in {a, b} \cap Sessions : retries[s] = MaxRetries /\ ~claimed[s]
    BY DEF ExclusiveUse
  <1>1. addr[a] = p /\ addr[b] = p
    BY DEF Uses
  <1>2. ~claimed[a] \/ ~claimed[b]
    BY <1>1 DEF IInv, ClaimsExact
  <1> QED BY <1>1, <1>2 DEF IInv, UnownedIsLast

\* The invariant holds in every reachable state.
LEMMA InvAlways == Spec => []IInv
  <1> QED BY InitInv, StepInv, PTL DEF Spec

\* The registry is true of a port exactly while one association has claimed it,
\* for any number of workers and associations.
THEOREM RegistryExact == Spec => []ClaimsExact
  <1>1. IInv => ClaimsExact
    BY DEF IInv
  <1> QED BY <1>1, InvAlways, PTL

\* Two associations in use share a port only where complete_udp_associate ran out
\* of retries, whatever ports the server hands out.
THEOREM PortsExclusive == Spec => []ExclusiveUse
  <1> QED BY InvExclusive, InvAlways, PTL
=============================================================================
