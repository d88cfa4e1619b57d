---------------------------- MODULE TcpAcceptProofs ----------------------------
(***************************************************************************)
(* That no session and no descriptor is leaked or given back twice by the  *)
(* TCP threads, and that none of them stops listening without knowing it,  *)
(* for any number of threads, any budget, descriptor limit and pool size.  *)
(***************************************************************************)
EXTENDS TcpAccept, FiniteSetTheorems, WellFoundedInduction, TLAPS

-----------------------------------------------------------------------------
(* Sums.  The library's induction rules take a predicate as a parameter;   *)
(* these take a set, which first-order provers can instantiate.            *)

\* Induction, with a set for the predicate: over numbers, ...
LEMMA Numbers ==
  ASSUME NEW G, 0 \in G, \A n \in Nat : n \in G => n + 1 \in G
  PROVE  Nat \subseteq G
<1> DEFINE Bad == Nat \ G
<1> SUFFICES ASSUME Bad # {} PROVE FALSE
  OBVIOUS
<1>1. PICK n \in Bad : \A k \in Bad : ~(<<k, n>> \in OpToRel(<, Nat))
  BY WFMin, NatLessThanWellFounded, Zenon
<1>2. \A k \in Bad : ~(k < n)
  BY <1>1, Zenon DEF OpToRel
<1>3. n # 0 /\ n - 1 \in Nat
  OBVIOUS
<1>4. n - 1 \in G
  BY <1>2, <1>3
<1>5. n - 1 + 1 \in G
  BY <1>3, <1>4
<1>6. QED
  BY <1>5

\* ... and over the subsets of a finite set.
LEMMA Subsets ==
  ASSUME NEW S, IsFiniteSet(S), NEW G,
         \A T \in SUBSET S : (\A x \in T : T \ {x} \in G) => T \in G
  PROVE  SUBSET S \subseteq G
<1> DEFINE H == {n \in Nat : \A T \in SUBSET S : Cardinality(T) = n => T \in G}
<1>0. \A T \in SUBSET S : IsFiniteSet(T) /\ Cardinality(T) \in Nat
  BY FS_Subset, FS_CardinalityType
<1>1. 0 \in H
  <2>1. \A T \in SUBSET S : Cardinality(T) = 0 => T = {}
    BY <1>0, FS_EmptySet
  <2>2. QED
    BY <2>1
<1>2. ASSUME NEW n \in Nat, n \in H PROVE n + 1 \in H
  <2>1. SUFFICES ASSUME NEW T \in SUBSET S, Cardinality(T) = n + 1 PROVE T \in G
    OBVIOUS
  <2>2. ASSUME NEW x \in T PROVE T \ {x} \in G
    <3>1. Cardinality(T \ {x}) = n
      BY <1>0, <2>1, FS_RemoveElement
    <3>2. QED
      BY <1>2, <3>1
  <2>3. QED
    BY <2>2
<1>3. Nat \subseteq H
  <2> HIDE DEF H
  <2>1. QED
    BY <1>1, <1>2, Numbers
<1>4. QED
  BY <1>0, <1>3

\* What SumFunctionOnSet computes with: the sums over all subsets, in the order of
\* the elements CHOOSE finds.
Some(T) == CHOOSE x \in T : TRUE
Sums(f, S) == CHOOSE sum : sum = [T \in SUBSET S |-> IF T = {} THEN 0 ELSE f[Some(T)] + sum[T \ {Some(T)}]]

\* The recursive definition of Sums has a solution.
LEMMA SumsDefined ==
  ASSUME NEW S, IsFiniteSet(S), NEW f
  PROVE  Sums(f, S) = [T \in SUBSET S |->
                         IF T = {} THEN 0 ELSE f[Some(T)] + Sums(f, S)[T \ {Some(T)}]]
<1> DEFINE Part(n) == {T \in SUBSET S : Cardinality(T) <= n}
<1> DEFINE Good(n, sum) ==
             sum = [T \in Part(n) |-> IF T = {} THEN 0 ELSE f[Some(T)] + sum[T \ {Some(T)}]]
<1> DEFINE G == {n \in Nat : \E sum : Good(n, sum)}
<1>0. \A T \in SUBSET S : IsFiniteSet(T) /\ Cardinality(T) \in Nat
  BY FS_Subset, FS_CardinalityType
<1>1. 0 \in G
  <2>1. Part(0) = {{}}
    BY <1>0, FS_EmptySet
  <2>2. Good(0, [T \in {{}} |-> 0])
    BY <2>1, Zenon
  <2>3. QED
    BY <2>2, Zenon
<1>2. ASSUME NEW n \in Nat, n \in G PROVE n + 1 \in G
  <2>1. PICK sum : Good(n, sum)
    BY <1>2, Zenon
  <2> DEFINE new == [T \in Part(n + 1) |-> IF T = {} THEN 0 ELSE f[Some(T)] + sum[T \ {Some(T)}]]
  <2>2. ASSUME NEW T \in Part(n + 1), T # {}
        PROVE  T \ {Some(T)} \in Part(n) /\ T \ {Some(T)} \in Part(n + 1)
    <3>1. Some(T) \in T
      BY <2>2 DEF Some
    <3>2. T \in SUBSET S /\ Cardinality(T) <= n + 1 /\ T \ {Some(T)} \in SUBSET S
      OBVIOUS
    <3>3. Cardinality(T \ {Some(T)}) = Cardinality(T) - 1
      BY <1>0, <3>1, <3>2, FS_RemoveElement
    <3>4. QED
      BY <1>0, <3>2, <3>3
  <2>3. ASSUME NEW U \in Part(n), U \in Part(n + 1) PROVE new[U] = sum[U]
    BY <2>1, <2>3, Zenon
  <2>4. Good(n + 1, new)
    BY <2>2, <2>3, Zenon
  <2>5. n + 1 \in Nat
    OBVIOUS
  <2>6. QED
    BY <2>4, <2>5, Zenon
<1>3. Cardinality(S) \in G
  <2> HIDE DEF G
  <2>1. QED
    BY <1>0, <1>1, <1>2, Numbers
<1>4. Part(Cardinality(S)) = SUBSET S
  BY <1>0, FS_Subset
<1>5. QED
  BY <1>3, <1>4, Zenon DEF Sums

\* The sum over a set is an element and the sum over the others.
LEMMA SumsStep ==
  ASSUME NEW S, IsFiniteSet(S), NEW f, NEW T \in SUBSET S
  PROVE  Sums(f, S)[T] = IF T = {} THEN 0 ELSE f[Some(T)] + Sums(f, S)[T \ {Some(T)}]
<1> DEFINE sum == Sums(f, S)
<1>1. sum = [U \in SUBSET S |-> IF U = {} THEN 0 ELSE f[Some(U)] + sum[U \ {Some(U)}]]
  BY SumsDefined, Zenon
<1> HIDE DEF sum
<1>2. sum[T] = IF T = {} THEN 0 ELSE f[Some(T)] + sum[T \ {Some(T)}]
  BY <1>1, Zenon
<1>3. QED
  BY <1>2, Zenon DEF sum

Removable(f, S, T) == \A x \in T : Sums(f, S)[T] = f[x] + Sums(f, S)[T \ {x}]

\* Which element is taken first does not matter.
LEMMA OneMore ==
  ASSUME NEW S, IsFiniteSet(S), NEW f \in [S -> Nat]
  PROVE  \A T \in SUBSET S : Sums(f, S)[T] \in Nat /\ Removable(f, S, T)
<1> DEFINE sum == Sums(f, S)
<1> DEFINE P(T) == /\ sum[T] \in Nat
                   /\ \A x \in T : sum[T \ {x}] \in Nat /\ sum[T] = f[x] + sum[T \ {x}]
<1> DEFINE G == {T \in SUBSET S : P(T)}
<1>1. \A T \in SUBSET S : sum[T] = IF T = {} THEN 0 ELSE f[Some(T)] + sum[T \ {Some(T)}]
  BY SumsStep, Zenon
<1> HIDE DEF sum
<1>2. ASSUME NEW T \in SUBSET S, \A x \in T : T \ {x} \in G PROVE T \in G
  <2>0. \A x \in T : P(T \ {x})
    BY <1>2, Zenon
  <2>1. CASE T = {}
    <3>1. sum[T] = 0
      BY <1>1, <2>1, Zenon
    <3>2. QED
      BY <2>1, <3>1
  <2>2. CASE T # {}
    <3>1. PICK y \in T : sum[T] = f[y] + sum[T \ {y}]
      <4>1. Some(T) \in T
        BY <2>2 DEF Some
      <4>2. QED
        BY <1>1, <2>2, <4>1, Zenon
    <3>2. f[y] \in Nat /\ sum[T \ {y}] \in Nat
      BY <2>0
    <3>3. ASSUME NEW x \in T PROVE sum[T \ {x}] \in Nat /\ sum[T] = f[x] + sum[T \ {x}]
      <4>1. CASE x = y
        BY <3>1, <3>2, <4>1, Zenon
      <4>2. CASE x # y
        <5>1. sum[T \ {y}] = f[x] + sum[(T \ {y}) \ {x}] /\ sum[(T \ {y}) \ {x}] \in Nat
          BY <2>0, <4>2, Zenon
        <5>2. sum[T \ {x}] = f[y] + sum[(T \ {x}) \ {y}] /\ sum[T \ {x}] \in Nat
          BY <2>0, <4>2, Zenon
        <5>3. (T \ {x}) \ {y} = (T \ {y}) \ {x} /\ f[x] \in Nat
          OBVIOUS
        <5> DEFINE a == sum[T]
        <5> DEFINE b == sum[T \ {y}]
        <5> DEFINE c == sum[T \ {x}]
        <5> DEFINE d == sum[(T \ {y}) \ {x}]
        <5>4. /\ a = f[y] + b /\ b = f[x] + d /\ c = f[y] + d
              /\ f[x] \in Nat /\ f[y] \in Nat /\ b \in Nat /\ c \in Nat /\ d \in Nat
          BY <3>1, <3>2, <5>1, <5>2, <5>3, Zenon
        <5> HIDE DEF a, b, c, d
        <5>5. a = f[x] + c
          BY <5>4
        <5>6. QED
          BY <5>2, <5>5, Zenon DEF a, c
      <4>3. QED
        BY <4>1, <4>2
    <3>4. sum[T] \in Nat
      BY <3>1, <3>2
    <3>5. QED
      BY <3>3, <3>4, Zenon
  <2>3. QED
    BY <2>1, <2>2, Zenon
<1>3. SUBSET S \subseteq G
  <2> HIDE DEF G
  <2>1. QED
    BY <1>2, Subsets, Zenon
<1>4. QED
  BY <1>3, Zenon DEF sum, Removable

\* Functions that agree on a set have the same sum over it.
LEMMA SumsAgree ==
  ASSUME NEW S, IsFiniteSet(S), NEW f \in [S -> Nat], NEW g \in [S -> Nat]
  PROVE  \A T \in SUBSET S : (\A x \in T : f[x] = g[x]) => Sums(f, S)[T] = Sums(g, S)[T]
<1> DEFINE G == {T \in SUBSET S : (\A x \in T : f[x] = g[x]) => Sums(f, S)[T] = Sums(g, S)[T]}
<1>1. ASSUME NEW T \in SUBSET S, \A x \in T : T \ {x} \in G PROVE T \in G
  <2>1. SUFFICES ASSUME \A x \in T : f[x] = g[x] PROVE Sums(f, S)[T] = Sums(g, S)[T]
    BY Zenon
  <2>2. CASE T = {}
    BY <2>2, SumsStep, Zenon
  <2>3. CASE T # {}
    <3>1. PICK x \in T : TRUE
      BY <2>3, Zenon
    <3>2. Sums(f, S)[T \ {x}] = Sums(g, S)[T \ {x}]
      BY <1>1, <2>1, Zenon
    <3>3. Sums(f, S)[T] = f[x] + Sums(f, S)[T \ {x}] /\ Sums(g, S)[T] = g[x] + Sums(g, S)[T \ {x}]
      <4>1. Removable(f, S, T) /\ Removable(g, S, T)
        BY OneMore, Zenon
      <4>2. QED
        BY <4>1, Zenon DEF Removable
    <3>4. QED
      BY <2>1, <3>2, <3>3, Zenon
  <2>4. QED
    BY <2>2, <2>3, Zenon
<1>2. SUBSET S \subseteq G
  <2> HIDE DEF G
  <2>1. QED
    BY <1>1, Subsets, Zenon
<1>3. QED
  BY <1>2, Zenon

\* SumFunction is the sum over the whole domain.
LEMMA SumNatural ==
  ASSUME NEW S, IsFiniteSet(S), NEW f \in [S -> Nat]
  PROVE  SumFunction(f) = Sums(f, S)[S] /\ SumFunction(f) \in Nat
<1>1. SumFunction(f) = Sums(f, S)[S]
  <2>1. DOMAIN f = S
    OBVIOUS
  <2>2. QED
    BY <2>1, Zenon DEF SumFunction, SumFunctionOnSet, FoldFunctionOnSet, MapThenFoldSet, Sums, Some
<1>2. S \in SUBSET S
  OBVIOUS
<1>3. QED
  BY <1>1, <1>2, OneMore, Zenon

\* A sum is any one of its terms and the rest, ...
LEMMA SumSplits ==
  ASSUME NEW S, IsFiniteSet(S), NEW f \in [S -> Nat], NEW x \in S
  PROVE  SumFunction(f) = f[x] + Sums(f, S)[S \ {x}] /\ Sums(f, S)[S \ {x}] \in Nat
<1>1. SumFunction(f) = Sums(f, S)[S]
  BY SumNatural, Zenon
<1>2. S \in SUBSET S /\ S \ {x} \in SUBSET S
  OBVIOUS
<1>3. Sums(f, S)[S] = f[x] + Sums(f, S)[S \ {x}]
  <2>1. Removable(f, S, S)
    BY <1>2, OneMore, Zenon
  <2>2. QED
    BY <2>1, Zenon DEF Removable
<1>4. Sums(f, S)[S \ {x}] \in Nat
  BY <1>2, OneMore, Zenon
<1>5. QED
  BY <1>1, <1>3, <1>4, Zenon

\* A sum changes with the one summand that changes.
SameRest(f, g, x) == \E rest \in Nat : SumFunction(f) = f[x] + rest /\ SumFunction(g) = g[x] + rest

\* ... so that changing one term changes the sum by as much.
LEMMA SumChanges ==
  ASSUME NEW S, IsFiniteSet(S), NEW f \in [S -> Nat], NEW g \in [S -> Nat],
         NEW x \in S, \A y \in S \ {x} : f[y] = g[y]
  PROVE  SameRest(f, g, x)
<1>1. Sums(f, S)[S \ {x}] = Sums(g, S)[S \ {x}]
  BY SumsAgree, Zenon
<1>2. SumFunction(f) = f[x] + Sums(f, S)[S \ {x}] /\ Sums(f, S)[S \ {x}] \in Nat
  BY SumSplits
<1>3. SumFunction(g) = g[x] + Sums(g, S)[S \ {x}]
  BY SumSplits
<1>4. QED
  BY <1>1, <1>2, <1>3, Zenon DEF SameRest

\* The sum of a constant, for 0 and 1.
LEMMA SumsConstant ==
  ASSUME NEW S, IsFiniteSet(S), NEW c \in {0, 1}
  PROVE  SumFunction([x \in S |-> c]) = c * Cardinality(S)
<1> DEFINE f == [x \in S |-> c]
<1> DEFINE G == {T \in SUBSET S : Sums(f, S)[T] = c * Cardinality(T)}
<1>0. f \in [S -> Nat] /\ \A T \in SUBSET S : IsFiniteSet(T) /\ Cardinality(T) \in Nat
  BY FS_Subset, FS_CardinalityType
<1>1. ASSUME NEW T \in SUBSET S, \A x \in T : T \ {x} \in G PROVE T \in G
  <2>1. CASE T = {}
    <3> HIDE DEF f
    <3>1. Sums(f, S)[T] = 0
      BY <2>1, SumsStep, Zenon
    <3>2. Cardinality(T) = 0
      BY <2>1, FS_EmptySet, Zenon
    <3>3. QED
      BY <3>1, <3>2
  <2>2. CASE T # {}
    <3>1. PICK x \in T : TRUE
      BY <2>2, Zenon
    <3>2. Sums(f, S)[T] = f[x] + Sums(f, S)[T \ {x}]
      <4> HIDE DEF f
      <4>1. Removable(f, S, T)
        BY <1>0, OneMore, Zenon
      <4>2. QED
        BY <4>1, Zenon DEF Removable
    <3>3. f[x] = c /\ Sums(f, S)[T \ {x}] = c * Cardinality(T \ {x})
      BY <1>1, Zenon
    <3>4. Cardinality(T \ {x}) = Cardinality(T) - 1
      BY <1>0, FS_RemoveElement
    <3> HIDE DEF f
    <3>5. Sums(f, S)[T] = c * Cardinality(T)
      BY <1>0, <3>2, <3>3, <3>4
    <3>6. QED
      BY <3>5, Zenon
  <2>3. QED
    BY <2>1, <2>2, Zenon
<1>2. SUBSET S \subseteq G
  <2> HIDE DEF G
  <2>1. QED
    BY <1>1, Subsets, Zenon
<1>3. SumFunction(f) = Sums(f, S)[S]
  BY Zenon DEF SumFunction, SumFunctionOnSet, FoldFunctionOnSet, MapThenFoldSet, Sums, Some
<1>4. QED
  BY <1>2, <1>3, Zenon
-----------------------------------------------------------------------------
(* The invariant. *)

\* The types of what belongs to one worker.
Shape ==
    /\ others \in 0..Others
    /\ pc \in [Workers -> Labels]
    /\ seen \in [Workers -> 0..Cap]
    /\ armed \in [Workers -> SUBSET Listeners]
    /\ paused \in [Workers -> BOOLEAN]
    /\ due \in [Workers -> BOOLEAN]
    /\ spare \in [Workers -> BOOLEAN]
    /\ shaking \in [Workers -> Nat]
    /\ relaying \in [Workers -> Nat]
    /\ pool \in [Workers -> 0..PoolCap]
    /\ dead \in [Workers -> BOOLEAN]
    /\ deadPipes \in [Workers -> Nat]

\* The value a compare-and-swap starts from was below the cap.
RoomSeen == \A w \in Workers : pc[w] = "cas" => HasSession(seen[w])

\* The connection being added is still active.
Adding == \A w \in Workers : pc[w] = "add" => shaking[w] > 0

\* The spare descriptor is away while it stands in for the missing one.
SpareAway == \A w \in Workers : pc[w] \in {"spare_accept", "spare_open"} => ~spare[w]

\* The inductive invariant.
IInv ==
    /\ TypeOK
    /\ RoomSeen
    /\ Adding
    /\ SpareAway
    /\ SessionsCounted
    /\ NoFdLeak
    /\ NeverDeaf

\* A step of a worker touches nothing of another's, ...
Frame(w) ==
    \A v \in Workers \ {w} :
        /\ pc'[v] = pc[v] /\ seen'[v] = seen[v]
        /\ armed'[v] = armed[v] /\ paused'[v] = paused[v] /\ spare'[v] = spare[v]
        /\ shaking'[v] = shaking[v] /\ relaying'[v] = relaying[v]
        /\ pool'[v] = pool[v] /\ deadPipes'[v] = deadPipes[v]

\* ... takes from the budget and from the descriptor table what it then holds, ...
Balance(w) ==
    /\ used' \in Int /\ used' - Sessions(w)' = used - Sessions(w)
    /\ free' \in Int /\ free' + others' + Fds(w)' = free + others + Fds(w)

\* ... within their limits, and knows when it has stopped listening.
Safe(w) ==
    /\ used' <= Cap /\ free' >= 0
    /\ pc'[w] = "cas" => HasSession(seen'[w])
    /\ pc'[w] = "add" => shaking'[w] > 0
    /\ pc'[w] \in {"spare_accept", "spare_open"} => ~spare'[w]
    /\ \/ paused'[w]
       \/ armed'[w] = Listeners /\ (spare'[w] \/ pc'[w] \in {"spare_accept", "spare_open"})

Sound(w) == Shape' /\ Frame(w) /\ Balance(w) /\ Safe(w)
-----------------------------------------------------------------------------
(* The pieces. *)

\* What is assumed of the constants.
LEMMA Limits ==
  /\ Cap \in Nat /\ FdLimit \in Nat /\ PoolCap \in Nat /\ Others \in Nat
  /\ IsFiniteSet(Workers) /\ Cardinality(Workers) \in Nat /\ Cardinality(Workers) <= FdLimit
BY AcceptAssumption, FS_CardinalityType

\* The types of the invariant, without the intervals.
LEMMA Typed ==
  ASSUME TypeOK
  PROVE  Shape /\ used \in Nat /\ used <= Cap /\ free \in Nat /\ free <= FdLimit /\ others \in Nat
BY Limits DEF TypeOK, Shape

\* What a worker holds is a number of sessions and of descriptors, before ...
LEMMA Counts ==
  ASSUME Shape, NEW w \in Workers
  PROVE  Sessions(w) \in Nat /\ Fds(w) \in Nat
<1>1. shaking[w] \in Nat /\ relaying[w] \in Nat /\ pool[w] \in Nat /\ deadPipes[w] \in Nat
  BY Limits DEF Shape
<1>2. QED
  BY <1>1 DEF Sessions, Fds

\* ... and after a step.
LEMMA CountsAfter ==
  ASSUME Shape', NEW w \in Workers
  PROVE  Sessions(w)' \in Nat /\ Fds(w)' \in Nat
<1>1. shaking'[w] \in Nat /\ relaying'[w] \in Nat /\ pool'[w] \in Nat /\ deadPipes'[w] \in Nat
  BY Limits DEF Shape
<1>2. QED
  BY <1>1 DEF Sessions, Fds

\* A balanced step of a worker keeps the accounts.
LEMMA BalanceKept ==
  ASSUME IInv, NEW w \in Workers, Shape', Frame(w), Balance(w)
  PROVE  SessionsCounted' /\ NoFdLeak' /\ used' \in Nat /\ free' <= FdLimit
<1> DEFINE f == [v \in Workers |-> Sessions(v)]
<1> DEFINE g == [v \in Workers |-> Sessions(v)']
<1> DEFINE h == [v \in Workers |-> Fds(v)]
<1> DEFINE k == [v \in Workers |-> Fds(v)']
<1>0. Shape /\ used \in Nat /\ free \in Nat /\ others \in Nat /\ others' \in Nat /\ FdLimit \in Nat
  BY Typed, Limits DEF IInv, Shape
<1>1. f \in [Workers -> Nat] /\ g \in [Workers -> Nat] /\ h \in [Workers -> Nat] /\ k \in [Workers -> Nat]
  BY <1>0, Counts, CountsAfter, Zenon
<1>2. \A v \in Workers \ {w} : f[v] = g[v] /\ h[v] = k[v]
  BY Zenon DEF Frame, Sessions, Fds
<1>3. f[w] = Sessions(w) /\ g[w] = Sessions(w)' /\ h[w] = Fds(w) /\ k[w] = Fds(w)'
  BY Zenon
<1>4. used = SumFunction(f) /\ free + others + SumFunction(h) = FdLimit
  BY Zenon DEF IInv, SessionsCounted, NoFdLeak
<1>5. /\ SessionsCounted' <=> used' = SumFunction(g)
      /\ NoFdLeak' <=> free' + others' + SumFunction(k) = FdLimit
  BY Zenon DEF SessionsCounted, NoFdLeak
<1> HIDE DEF f, g, h, k
<1>6. PICK r \in Nat : SumFunction(f) = f[w] + r /\ SumFunction(g) = g[w] + r
  <2>1. SameRest(f, g, w)
    BY <1>1, <1>2, Limits, SumChanges, Zenon
  <2>2. QED
    BY <2>1, Zenon DEF SameRest
<1>7. PICK s \in Nat : SumFunction(h) = h[w] + s /\ SumFunction(k) = k[w] + s
  <2>1. SameRest(h, k, w)
    BY <1>1, <1>2, Limits, SumChanges, Zenon
  <2>2. QED
    BY <2>1, Zenon DEF SameRest
<1>8. f[w] \in Nat /\ g[w] \in Nat /\ h[w] \in Nat /\ k[w] \in Nat
  BY <1>1, Zenon
<1>9. /\ used' \in Int /\ used' - g[w] = used - f[w]
      /\ free' \in Int /\ free' + others' + k[w] = free + others + h[w]
  BY <1>3, Zenon DEF Balance
<1>10. used' = SumFunction(g) /\ used' \in Nat
  BY <1>0, <1>4, <1>6, <1>8, <1>9
<1>11. free' + others' + SumFunction(k) = FdLimit /\ free' <= FdLimit
  <2>1. free + others + (h[w] + s) = FdLimit
    BY <1>4, <1>7, Zenon
  <2>2. free' + others' + (k[w] + s) = FdLimit /\ free' <= FdLimit
    BY <1>0, <1>8, <1>9, <2>1
  <2>3. QED
    BY <1>7, <2>2, Zenon
<1>12. QED
  BY <1>5, <1>10, <1>11

\* A sound step of one worker keeps the invariant.
LEMMA SoundInv ==
  ASSUME IInv, NEW w \in Workers, Sound(w)
  PROVE  IInv'
<1>1. Shape' /\ Frame(w) /\ Balance(w) /\ Safe(w)
  BY Zenon DEF Sound
<1>2. SessionsCounted' /\ NoFdLeak' /\ used' \in Nat /\ free' <= FdLimit
  BY <1>1, BalanceKept
<1>3. used' \in 0..Cap /\ free' \in 0..FdLimit
  BY <1>1, <1>2, Limits DEF Safe, Balance
<1>4. TypeOK'
  BY <1>1, <1>3, Zenon DEF TypeOK, Shape
<1>5. RoomSeen'
  BY <1>1, Zenon DEF IInv, RoomSeen, Frame, Safe, HasSession
<1>6. Adding'
  BY <1>1, Zenon DEF IInv, Adding, Frame, Safe
<1>7. SpareAway'
  BY <1>1, Zenon DEF IInv, SpareAway, Frame, Safe
<1>8. NeverDeaf'
  BY <1>1, Zenon DEF IInv, NeverDeaf, Frame, Safe
<1>9. QED
  BY <1>2, <1>4, <1>5, <1>6, <1>7, <1>8, Zenon DEF IInv

\* At the start each worker holds its spare descriptor and nothing else.
LEMMA InvInit == Init => IInv
<1> SUFFICES ASSUME Init PROVE IInv
  OBVIOUS
<1>1. TypeOK
  BY Limits DEF Init, TypeOK, Zero, Labels
<1>2. RoomSeen /\ Adding /\ SpareAway /\ NeverDeaf
  BY Zenon DEF Init, RoomSeen, Adding, SpareAway, NeverDeaf
<1>3. SessionsCounted
  <2>1. \A w \in Workers : Sessions(w) = 0
    BY DEF Init, Sessions, Zero
  <2>2. [w \in Workers |-> Sessions(w)] = [w \in Workers |-> 0]
    BY <2>1, Zenon
  <2>3. SumFunction([w \in Workers |-> 0]) = 0 * Cardinality(Workers)
    BY Limits, SumsConstant, Zenon
  <2>4. QED
    <3>1. 0 * Cardinality(Workers) = 0
      BY Limits
    <3>2. QED
      BY <2>2, <2>3, <3>1, Zenon DEF Init, SessionsCounted
<1>4. NoFdLeak
  <2>1. \A w \in Workers : Fds(w) = 1
    BY DEF Init, Fds, Zero
  <2>2. [w \in Workers |-> Fds(w)] = [w \in Workers |-> 1]
    BY <2>1, Zenon
  <2>3. SumFunction([w \in Workers |-> 1]) = 1 * Cardinality(Workers)
    BY Limits, SumsConstant, Zenon
  <2>4. QED
    BY <2>2, <2>3, Limits DEF Init, NoFdLeak
<1>5. QED
  BY <1>1, <1>2, <1>3, <1>4 DEF IInv
-----------------------------------------------------------------------------
(* The steps. *)

\* The amounts of one worker are numbers.
LEMMA Amounts ==
  ASSUME IInv, NEW w \in Workers
  PROVE  /\ used \in Nat /\ free \in Nat /\ others \in Nat /\ spare[w] \in BOOLEAN
         /\ shaking[w] \in Nat /\ relaying[w] \in Nat /\ pool[w] \in Nat /\ deadPipes[w] \in Nat
<1>1. Shape /\ used \in Nat /\ free \in Nat /\ others \in Nat
  BY Typed DEF IInv
<1>2. QED
  BY <1>1, Limits DEF Shape

\* What is known of one worker.
LEMMA Local ==
  ASSUME IInv, NEW w \in Workers
  PROVE  /\ Shape /\ used \in Nat /\ used <= Cap /\ free \in Nat /\ others \in Nat /\ Cap \in Nat /\ PoolCap \in Nat
         /\ pc[w] \in Labels /\ seen[w] \in Nat /\ spare[w] \in BOOLEAN /\ paused[w] \in BOOLEAN
         /\ shaking[w] \in Nat /\ relaying[w] \in Nat /\ pool[w] \in Nat /\ pool[w] <= PoolCap
         /\ deadPipes[w] \in Nat
         /\ pc[w] = "cas" => seen[w] < Cap
         /\ pc[w] = "add" => shaking[w] > 0
         /\ pc[w] \in {"spare_accept", "spare_open"} => ~spare[w]
         /\ paused[w] \/ (armed[w] = Listeners /\ (spare[w] \/ pc[w] \in {"spare_accept", "spare_open"}))
<1>1. Shape /\ used \in Nat /\ used <= Cap /\ free \in Nat /\ others \in Nat
  BY Typed DEF IInv
<1>2. Cap \in Nat /\ PoolCap \in Nat
  BY Limits
<1>3. /\ pc[w] \in Labels /\ seen[w] \in Nat /\ spare[w] \in BOOLEAN /\ paused[w] \in BOOLEAN
      /\ shaking[w] \in Nat /\ relaying[w] \in Nat /\ pool[w] \in Nat /\ pool[w] <= PoolCap
      /\ deadPipes[w] \in Nat
  BY <1>1, <1>2 DEF Shape
<1>4. /\ pc[w] = "cas" => seen[w] < Cap
      /\ pc[w] = "add" => shaking[w] > 0
      /\ pc[w] \in {"spare_accept", "spare_open"} => ~spare[w]
      /\ paused[w] \/ (armed[w] = Listeners /\ (spare[w] \/ pc[w] \in {"spare_accept", "spare_open"}))
  BY Zenon DEF IInv, RoomSeen, Adding, SpareAway, NeverDeaf, HasSession
<1>5. QED
  BY <1>1, <1>2, <1>3, <1>4, Zenon

\* A step that only moves the worker, between labels at which it holds the same.
LEMMA Quiet ==
  ASSUME IInv, NEW w \in Workers, NEW l \in Labels, Goto(w, l),
         UNCHANGED <<budget, free, others, listening, connections>>,
         {pc[w], l} \cap {"reserve", "cas", "connect", "unreserve"} = {}, l # "add",
         pc[w] \in {"spare_accept", "spare_open"} <=> l \in {"spare_accept", "spare_open"}
  PROVE  Sound(w)
<1> USE DEF Goto, budget, listening, connections
<1>0. Shape
  BY Local, Zenon
<1>1. Shape'
  BY <1>0 DEF Shape
<1>2. Frame(w)
  BY <1>0 DEF Frame, Shape
<1>3. /\ pc'[w] = l /\ seen'[w] = seen[w] /\ armed'[w] = armed[w] /\ paused'[w] = paused[w] /\ spare'[w] = spare[w]
      /\ shaking'[w] = shaking[w] /\ relaying'[w] = relaying[w] /\ pool'[w] = pool[w]
      /\ deadPipes'[w] = deadPipes[w]
  BY <1>0, Zenon DEF Shape
<1>4. pc[w] \notin {"reserve", "cas", "connect", "unreserve"} /\ l \notin {"reserve", "cas", "connect", "unreserve"}
  BY Zenon
<1>5. Balance(w)
  <2>1. Sessions(w)' = Sessions(w) /\ Fds(w)' = Fds(w)
    BY <1>3, <1>4, Zenon DEF Sessions, Fds
  <2>2. Sessions(w) \in Nat /\ Fds(w) \in Nat /\ used \in Nat /\ free \in Nat /\ others \in Nat
    BY <1>0, Counts, Amounts
  <2>3. QED
    BY <2>1, <2>2 DEF Balance
<1>6. Safe(w)
  <2>1. used' <= Cap /\ free' >= 0
    BY Local
  <2>2. QED
    BY <1>3, <1>4, <2>1, Local, Zenon DEF Safe
<1>7. QED
  BY <1>1, <1>2, <1>5, <1>6 DEF Sound

\* The steps that only move on: the event loop's, EAGAIN, and a successful add_fd.
LEMMA QuietSteps ==
  ASSUME IInv, NEW w \in Workers,
         \/ EpollWait(w) \/ ListenerEvent(w) \/ BatchDone(w) \/ ExpireDone(w) \/ NoMoreClients(w)
         \/ SpareAccept(w) \/ AddConnection(w)
  PROVE  Sound(w)
<1>1. \E l \in {"dispatch", "accept", "resume", "free", "spare_open"} :
         /\ Goto(w, l) /\ UNCHANGED <<budget, free, others, listening, connections>>
         /\ {pc[w], l} \cap {"reserve", "cas", "connect", "unreserve"} = {}
         /\ pc[w] \in {"spare_accept", "spare_open"} <=> l \in {"spare_accept", "spare_open"}
  BY DEF EpollWait, ListenerEvent, BatchDone, ExpireDone, NoMoreClients, SpareAccept, AddConnection
<1>2. {"dispatch", "accept", "resume", "free", "spare_open"} \subseteq Labels \ {"add"}
  BY DEF Labels
<1>3. QED
  BY <1>1, <1>2, Quiet

\* accept4 takes a descriptor for the client.
LEMMA AcceptClientSound ==
  ASSUME IInv, NEW w \in Workers, AcceptClient(w)
  PROVE  Sound(w)
<1> USE DEF AcceptClient, Goto, budget, listening, connections
<1>0. Shape
  BY Local, Zenon
<1>1. Shape'
  BY <1>0, Local DEF Shape, Labels
<1>2. Frame(w)
  BY <1>0 DEF Frame, Shape
<1>3. /\ pc'[w] = "reserve" /\ seen'[w] = seen[w] /\ armed'[w] = armed[w] /\ paused'[w] = paused[w] /\ spare'[w] = spare[w]
      /\ shaking'[w] = shaking[w] /\ relaying'[w] = relaying[w] /\ pool'[w] = pool[w] /\ deadPipes'[w] = deadPipes[w]
  BY <1>0, Zenon DEF Shape
<1>4. Balance(w)
  <2>1. used' = used /\ free' = free - 1 /\ others' = others /\ pc[w] = "accept"
    BY Zenon
  <2> HIDE DEF AcceptClient
  <2>2. Sessions(w)' = Sessions(w)
    BY <1>3, <2>1, Zenon DEF Sessions
  <2>3. Fds(w)' = Fds(w) + 1
    BY <1>3, <2>1, Amounts DEF Fds
  <2>4. Sessions(w) \in Nat /\ Fds(w) \in Nat
    BY <1>0, Counts
  <2>5. QED
    BY <2>1, <2>2, <2>3, <2>4, Amounts DEF Balance
<1>5. Safe(w)
  BY <1>3, Local DEF Safe, HasSession
<1>6. QED
  BY <1>1, <1>2, <1>4, <1>5 DEF Sound

\* handle_accept_fd_exhaustion gives the spare descriptor away.
LEMMA AcceptExhaustedSound ==
  ASSUME IInv, NEW w \in Workers, AcceptExhausted(w)
  PROVE  Sound(w)
<1> USE DEF AcceptExhausted, Goto, budget, listening, connections
<1>0. Shape
  BY Local, Zenon
<1>1. Shape'
  BY <1>0, Local DEF Shape, Labels
<1>2. Frame(w)
  BY <1>0 DEF Frame, Shape
<1>3. /\ pc'[w] = "spare_accept" /\ seen'[w] = seen[w] /\ armed'[w] = armed[w] /\ paused'[w] = paused[w] /\ spare'[w] = FALSE
      /\ shaking'[w] = shaking[w] /\ relaying'[w] = relaying[w] /\ pool'[w] = pool[w] /\ deadPipes'[w] = deadPipes[w]
  BY <1>0, Zenon DEF Shape
<1>4. Balance(w)
  <2>1. used' = used /\ free' = (IF spare[w] THEN 1 ELSE 0) /\ others' = others /\ pc[w] = "accept" /\ free = 0
    BY Zenon
  <2> HIDE DEF AcceptExhausted
  <2>2. Sessions(w)' = Sessions(w)
    BY <1>3, <2>1, Zenon DEF Sessions
  <2>3. Fds(w)' = Fds(w) - (IF spare[w] THEN 1 ELSE 0)
    BY <1>3, <2>1, Amounts DEF Fds
  <2>4. Sessions(w) \in Nat /\ Fds(w) \in Nat
    BY <1>0, Counts
  <2>5. QED
    BY <2>1, <2>2, <2>3, <2>4, Amounts DEF Balance
<1>5. Safe(w)
  BY <1>3, Local DEF Safe, HasSession
<1>6. QED
  BY <1>1, <1>2, <1>4, <1>5 DEF Sound

\* ... and opens it again if one is free; the listeners are paused either way.
LEMMA SpareOpenSound ==
  ASSUME IInv, NEW w \in Workers, SpareOpen(w)
  PROVE  Sound(w)
<1> USE DEF SpareOpen, Goto, budget, listening, connections, PauseListeners
<1>0. Shape
  BY Local, Zenon
<1>1. Shape'
  BY <1>0, Local DEF Shape, Labels
<1>2. Frame(w)
  BY <1>0 DEF Frame, Shape
<1>3. /\ pc'[w] = "dispatch" /\ seen'[w] = seen[w] /\ armed'[w] = {} /\ paused'[w] = TRUE /\ spare'[w] = (free > 0)
      /\ shaking'[w] = shaking[w] /\ relaying'[w] = relaying[w] /\ pool'[w] = pool[w] /\ deadPipes'[w] = deadPipes[w]
  BY <1>0, Zenon DEF Shape
<1>4. Balance(w)
  <2>1. ~spare[w]
    BY Local, Zenon
  <2>2. Sessions(w)' = Sessions(w)
    BY <1>3, Zenon DEF Sessions
  <2>3. Fds(w) = 2 * shaking[w] + 6 * relaying[w] + 2 * pool[w] + 4 * deadPipes[w]
    BY <2>1, Amounts DEF Fds
  <2>4. Fds(w)' = Fds(w) + (IF free > 0 THEN 1 ELSE 0)
    <3> HIDE DEF SpareOpen
    <3>1. CASE free > 0
      <4>1. spare'[w]
        BY <1>3, <3>1, Zenon
      <4>2. Fds(w)' = 1 + 0 + 2 * shaking[w] + 6 * relaying[w] + 2 * pool[w] + 4 * deadPipes[w]
        BY <1>3, <4>1, Zenon DEF Fds
      <4>3. QED
        BY <2>3, <3>1, <4>2, Amounts
    <3>2. CASE ~(free > 0)
      BY <1>3, <2>3, <3>2, Amounts DEF Fds
    <3>3. QED
      BY <3>1, <3>2
  <2>5. Sessions(w) \in Nat /\ Fds(w) \in Nat
    BY <1>0, Counts
  <2> HIDE DEF SpareOpen
  <2>6. free' = (IF free > 0 THEN free - 1 ELSE free) /\ used' = used /\ others' = others
    BY Zenon DEF SpareOpen
  <2>7. QED
    BY <2>2, <2>4, <2>5, <2>6, Amounts DEF Balance
<1>5. Safe(w)
  BY <1>3, Local DEF Safe, HasSession
<1>6. QED
  BY <1>1, <1>2, <1>4, <1>5 DEF Sound

\* A client without an original destination gives its descriptor back.
LEMMA RejectClientSound ==
  ASSUME IInv, NEW w \in Workers, RejectClient(w)
  PROVE  Sound(w)
<1> USE DEF RejectClient, Goto, budget, listening, connections
<1>0. Shape
  BY Local, Zenon
<1>1. Shape'
  BY <1>0, Local DEF Shape, Labels
<1>2. Frame(w)
  BY <1>0 DEF Frame, Shape
<1>3. /\ pc'[w] = "accept" /\ seen'[w] = seen[w] /\ armed'[w] = armed[w] /\ paused'[w] = paused[w] /\ spare'[w] = spare[w]
      /\ shaking'[w] = shaking[w] /\ relaying'[w] = relaying[w] /\ pool'[w] = pool[w] /\ deadPipes'[w] = deadPipes[w]
  BY <1>0, Zenon DEF Shape
<1>4. Balance(w)
  <2>1. used' = used /\ free' = free + 1 /\ others' = others /\ pc[w] = "reserve"
    BY Zenon
  <2> HIDE DEF RejectClient
  <2>2. Sessions(w)' = Sessions(w)
    BY <1>3, <2>1, Zenon DEF Sessions
  <2>3. Fds(w)' = Fds(w) - 1
    BY <1>3, <2>1, Amounts DEF Fds
  <2>4. Sessions(w) \in Nat /\ Fds(w) \in Nat
    BY <1>0, Counts
  <2>5. QED
    BY <2>1, <2>2, <2>3, <2>4, Amounts DEF Balance
<1>5. Safe(w)
  BY <1>3, Local DEF Safe, HasSession
<1>6. QED
  BY <1>1, <1>2, <1>4, <1>5 DEF Sound

\* reserve_tcp_session reads the budget and finds room.
LEMMA ReserveSessionSound ==
  ASSUME IInv, NEW w \in Workers, ReserveSession(w)
  PROVE  Sound(w)
<1> USE DEF ReserveSession, Goto, budget, listening, connections
<1>0. Shape
  BY Local, Zenon
<1>1. Shape'
  BY <1>0, Local DEF Shape, Labels
<1>2. Frame(w)
  BY <1>0 DEF Frame, Shape
<1>3. /\ pc'[w] = "cas" /\ seen'[w] = used /\ armed'[w] = armed[w] /\ paused'[w] = paused[w] /\ spare'[w] = spare[w]
      /\ shaking'[w] = shaking[w] /\ relaying'[w] = relaying[w] /\ pool'[w] = pool[w] /\ deadPipes'[w] = deadPipes[w]
  BY <1>0, Zenon DEF Shape
<1>4. Balance(w)
  <2>1. used' = used /\ free' = free /\ others' = others /\ pc[w] = "reserve"
    BY Zenon
  <2> HIDE DEF ReserveSession
  <2>2. Sessions(w)' = Sessions(w)
    BY <1>3, <2>1, Zenon DEF Sessions
  <2>3. Fds(w)' = Fds(w)
    BY <1>3, <2>1, Zenon DEF Fds
  <2>4. Sessions(w) \in Nat /\ Fds(w) \in Nat
    BY <1>0, Counts
  <2>5. QED
    BY <2>1, <2>2, <2>3, <2>4, Amounts DEF Balance
<1>5. Safe(w)
  BY <1>3, Local DEF Safe, HasSession
<1>6. QED
  BY <1>1, <1>2, <1>4, <1>5 DEF Sound

\* A client without a session gives its descriptor back.
LEMMA OverCapacitySound ==
  ASSUME IInv, NEW w \in Workers, OverCapacity(w)
  PROVE  Sound(w)
<1> USE DEF OverCapacity, Goto, budget, listening, connections
<1>0. Shape
  BY Local, Zenon
<1>1. Shape'
  BY <1>0, Local DEF Shape, Labels
<1>2. Frame(w)
  BY <1>0 DEF Frame, Shape
<1>3. /\ pc'[w] = "accept" /\ seen'[w] = seen[w] /\ armed'[w] = armed[w] /\ paused'[w] = paused[w] /\ spare'[w] = spare[w]
      /\ shaking'[w] = shaking[w] /\ relaying'[w] = relaying[w] /\ pool'[w] = pool[w] /\ deadPipes'[w] = deadPipes[w]
  BY <1>0, Zenon DEF Shape
<1>4. Balance(w)
  <2>1. used' = used /\ free' = free + 1 /\ others' = others /\ pc[w] = "reserve"
    BY Zenon
  <2> HIDE DEF OverCapacity
  <2>2. Sessions(w)' = Sessions(w)
    BY <1>3, <2>1, Zenon DEF Sessions
  <2>3. Fds(w)' = Fds(w) - 1
    BY <1>3, <2>1, Amounts DEF Fds
  <2>4. Sessions(w) \in Nat /\ Fds(w) \in Nat
    BY <1>0, Counts
  <2>5. QED
    BY <2>1, <2>2, <2>3, <2>4, Amounts DEF Balance
<1>5. Safe(w)
  BY <1>3, Local DEF Safe, HasSession
<1>6. QED
  BY <1>1, <1>2, <1>4, <1>5 DEF Sound

\* create_connection turns the client and the reservation into a connection.
LEMMA CreateConnectionSound ==
  ASSUME IInv, NEW w \in Workers, CreateConnection(w)
  PROVE  Sound(w)
<1> USE DEF CreateConnection, Goto, budget, listening, connections
<1>0. Shape
  BY Local, Zenon
<1>1. Shape'
  BY <1>0, Local DEF Shape, Labels
<1>2. Frame(w)
  BY <1>0 DEF Frame, Shape
<1>3. /\ pc'[w] = "add" /\ seen'[w] = seen[w] /\ armed'[w] = armed[w] /\ paused'[w] = paused[w] /\ spare'[w] = spare[w]
      /\ shaking'[w] = shaking[w] + 1 /\ relaying'[w] = relaying[w] /\ pool'[w] = pool[w] /\ deadPipes'[w] = deadPipes[w]
  BY <1>0, Zenon DEF Shape
<1>4. Balance(w)
  <2>1. used' = used /\ free' = free - 1 /\ others' = others /\ pc[w] = "connect"
    BY Zenon
  <2> HIDE DEF CreateConnection
  <2>2. Sessions(w)' = Sessions(w)
    BY <1>3, <2>1, Amounts DEF Sessions
  <2>3. Fds(w)' = Fds(w) + 1
    BY <1>3, <2>1, Amounts DEF Fds
  <2>4. Sessions(w) \in Nat /\ Fds(w) \in Nat
    BY <1>0, Counts
  <2>5. QED
    BY <2>1, <2>2, <2>3, <2>4, Amounts DEF Balance
<1>5. Safe(w)
  BY <1>3, Local DEF Safe, HasSession
<1>6. QED
  BY <1>1, <1>2, <1>4, <1>5 DEF Sound

\* A connection that was not created gives the client's descriptor back ...
LEMMA ConnectFailsSound ==
  ASSUME IInv, NEW w \in Workers, ConnectFails(w)
  PROVE  Sound(w)
<1> USE DEF ConnectFails, Goto, budget, listening, connections
<1>0. Shape
  BY Local, Zenon
<1>1. Shape'
  BY <1>0, Local DEF Shape, Labels
<1>2. Frame(w)
  BY <1>0 DEF Frame, Shape
<1>3. /\ pc'[w] = "unreserve" /\ seen'[w] = seen[w] /\ armed'[w] = armed[w] /\ paused'[w] = paused[w] /\ spare'[w] = spare[w]
      /\ shaking'[w] = shaking[w] /\ relaying'[w] = relaying[w] /\ pool'[w] = pool[w] /\ deadPipes'[w] = deadPipes[w]
  BY <1>0, Zenon DEF Shape
<1>4. Balance(w)
  <2>1. free' = free + 1 /\ used' = used /\ others' = others /\ pc[w] = "connect"
    BY Zenon
  <2> HIDE DEF ConnectFails
  <2>2. Sessions(w)' = Sessions(w)
    BY <1>3, <2>1, Zenon DEF Sessions
  <2>3. Fds(w)' = Fds(w) - 1
    BY <1>3, <2>1, Amounts DEF Fds
  <2>4. Sessions(w) \in Nat /\ Fds(w) \in Nat
    BY <1>0, Counts
  <2>5. QED
    BY <2>1, <2>2, <2>3, <2>4, Amounts DEF Balance
<1>5. Safe(w)
  BY <1>3, Local DEF Safe, HasSession
<1>6. QED
  BY <1>1, <1>2, <1>4, <1>5 DEF Sound

\* ... and then its reservation.
LEMMA UnreserveSound ==
  ASSUME IInv, NEW w \in Workers, Unreserve(w)
  PROVE  Sound(w)
<1> USE DEF Unreserve, Goto, budget, listening, connections
<1>0. Shape
  BY Local, Zenon
<1>1. Shape'
  BY <1>0, Local DEF Shape, Labels
<1>2. Frame(w)
  BY <1>0 DEF Frame, Shape
<1>3. /\ pc'[w] = "accept" /\ seen'[w] = seen[w] /\ armed'[w] = armed[w] /\ paused'[w] = paused[w] /\ spare'[w] = spare[w]
      /\ shaking'[w] = shaking[w] /\ relaying'[w] = relaying[w] /\ pool'[w] = pool[w] /\ deadPipes'[w] = deadPipes[w]
  BY <1>0, Zenon DEF Shape
<1>4. Balance(w)
  <2>1. used' = used - 1 /\ free' = free /\ others' = others /\ pc[w] = "unreserve"
    BY Zenon
  <2> HIDE DEF Unreserve
  <2>2. Sessions(w)' = Sessions(w) - 1
    BY <1>3, <2>1, Amounts DEF Sessions
  <2>3. Fds(w)' = Fds(w)
    BY <1>3, <2>1, Zenon DEF Fds
  <2>4. Sessions(w) \in Nat /\ Fds(w) \in Nat
    BY <1>0, Counts
  <2>5. QED
    BY <2>1, <2>2, <2>3, <2>4, Amounts DEF Balance
<1>5. Safe(w)
  BY <1>3, Local DEF Safe, HasSession
<1>6. QED
  BY <1>1, <1>2, <1>4, <1>5 DEF Sound

\* EMFILE in create_connection gives both back and pauses the listeners.
LEMMA ConnectExhaustedSound ==
  ASSUME IInv, NEW w \in Workers, ConnectExhausted(w)
  PROVE  Sound(w)
<1> USE DEF ConnectExhausted, Goto, budget, listening, connections, PauseListeners
<1>0. Shape
  BY Local, Zenon
<1>1. Shape'
  BY <1>0, Local DEF Shape, Labels
<1>2. Frame(w)
  BY <1>0 DEF Frame, Shape
<1>3. /\ pc'[w] = "dispatch" /\ seen'[w] = seen[w] /\ armed'[w] = {} /\ paused'[w] = TRUE /\ spare'[w] = spare[w]
      /\ shaking'[w] = shaking[w] /\ relaying'[w] = relaying[w] /\ pool'[w] = pool[w] /\ deadPipes'[w] = deadPipes[w]
  BY <1>0, Zenon DEF Shape
<1>4. Balance(w)
  <2>1. used' = used - 1 /\ free' = free + 1 /\ others' = others /\ pc[w] = "connect"
    BY Zenon
  <2> HIDE DEF ConnectExhausted
  <2>2. Sessions(w)' = Sessions(w) - 1
    BY <1>3, <2>1, Amounts DEF Sessions
  <2>3. Fds(w)' = Fds(w) - 1
    BY <1>3, <2>1, Amounts DEF Fds
  <2>4. Sessions(w) \in Nat /\ Fds(w) \in Nat
    BY <1>0, Counts
  <2>5. QED
    BY <2>1, <2>2, <2>3, <2>4, Amounts DEF Balance
<1>5. Safe(w)
  BY <1>3, Local DEF Safe, HasSession
<1>6. QED
  BY <1>1, <1>2, <1>4, <1>5 DEF Sound

\* A connection epoll_ctl refuses gives back its session and both sockets.
LEMMA AddFailsSound ==
  ASSUME IInv, NEW w \in Workers, AddFails(w)
  PROVE  Sound(w)
<1> USE DEF AddFails, Goto, budget, listening, connections
<1>0. Shape
  BY Local, Zenon
<1>1. Shape'
  BY <1>0, Local DEF Shape, Labels
<1>2. Frame(w)
  BY <1>0 DEF Frame, Shape
<1>3. /\ pc'[w] = "accept" /\ seen'[w] = seen[w] /\ armed'[w] = armed[w] /\ paused'[w] = paused[w] /\ spare'[w] = spare[w]
      /\ shaking'[w] = shaking[w] - 1 /\ relaying'[w] = relaying[w] /\ pool'[w] = pool[w] /\ deadPipes'[w] = deadPipes[w]
  BY <1>0, Zenon DEF Shape
<1>4. Balance(w)
  <2>1. used' = used - 1 /\ free' = free + 2 /\ others' = others /\ pc[w] = "add"
    BY Zenon
  <2> HIDE DEF AddFails
  <2>2. Sessions(w)' = Sessions(w) - 1
    BY <1>3, <2>1, Amounts DEF Sessions
  <2>3. Fds(w)' = Fds(w) - 2
    BY <1>3, <2>1, Amounts DEF Fds
  <2>4. Sessions(w) \in Nat /\ Fds(w) \in Nat
    BY <1>0, Counts
  <2>5. QED
    BY <2>1, <2>2, <2>3, <2>4, Amounts DEF Balance
<1>5. Safe(w)
  BY <1>3, Local DEF Safe, HasSession
<1>6. QED
  BY <1>1, <1>2, <1>4, <1>5 DEF Sound

\* Two pipes come from the pool first, and from the descriptor table beyond it.
LEMMA RelayStartsSound ==
  ASSUME IInv, NEW w \in Workers, RelayStarts(w)
  PROVE  Sound(w)
<1> USE DEF RelayStarts, Goto, budget, listening, connections
<1>0. Shape
  BY Local, Zenon
<1>1. Shape'
  BY <1>0, Local DEF Shape, Labels
<1>2. Frame(w)
  BY <1>0 DEF Frame, Shape
<1>3. /\ pc'[w] = pc[w] /\ seen'[w] = seen[w] /\ armed'[w] = armed[w] /\ paused'[w] = paused[w] /\ spare'[w] = spare[w]
      /\ shaking'[w] = shaking[w] - 1 /\ relaying'[w] = relaying[w] + 1 /\ pool'[w] = (IF pool[w] < 2 THEN 0 ELSE pool[w] - 2) /\ deadPipes'[w] = deadPipes[w]
  BY <1>0, Zenon DEF Shape
<1>4. Balance(w)
  <2>1. Sessions(w)' = Sessions(w)
    BY <1>3, Amounts DEF Sessions
  <2>2. PipeFds(w) \in Nat /\ Fds(w)' = Fds(w) + PipeFds(w)
    <3>1. CASE pool[w] < 2
      <4>1. pool'[w] = 0 /\ PipeFds(w) = 4 - 2 * pool[w]
        BY <1>3, <3>1, Amounts DEF PipeFds
      <4>2. QED
        BY <1>3, <3>1, <4>1, Amounts DEF Fds
    <3>2. CASE ~(pool[w] < 2)
      <4>1. pool'[w] = pool[w] - 2 /\ PipeFds(w) = 0
        BY <1>3, <3>2, Amounts DEF PipeFds
      <4>2. QED
        BY <1>3, <4>1, Amounts DEF Fds
    <3>3. QED
      BY <3>1, <3>2
  <2>3. Sessions(w) \in Nat /\ Fds(w) \in Nat
    BY <1>0, Counts
  <2>4. free' = free - PipeFds(w) /\ used' = used /\ others' = others
    BY Zenon
  <2>5. QED
    BY <2>1, <2>2, <2>3, <2>4, Amounts DEF Balance
<1>5. Safe(w)
  BY <1>3, Local DEF Safe, HasSession, PipeFds
<1>6. QED
  BY <1>1, <1>2, <1>4, <1>5 DEF Sound

\* Without descriptors for its pipes a connection closes those the pool gave it.
LEMMA RelayFailsSound ==
  ASSUME IInv, NEW w \in Workers, RelayFails(w)
  PROVE  Sound(w)
<1> USE DEF RelayFails, Goto, budget, listening, connections
<1>0. Shape
  BY Local, Zenon
<1>1. Shape'
  BY <1>0, Local DEF Shape, Labels
<1>2. Frame(w)
  BY <1>0 DEF Frame, Shape
<1>3. /\ pc'[w] = pc[w] /\ seen'[w] = seen[w] /\ armed'[w] = armed[w] /\ paused'[w] = paused[w] /\ spare'[w] = spare[w]
      /\ shaking'[w] = shaking[w] - 1 /\ relaying'[w] = relaying[w] /\ pool'[w] = 0 /\ deadPipes'[w] = deadPipes[w]
  BY <1>0, Zenon DEF Shape
<1>4. Balance(w)
  <2>1. free' = free + 2 + 2 * pool[w] /\ used' = used - 1 /\ others' = others /\ pc[w] = "dispatch"
    BY Zenon
  <2> HIDE DEF RelayFails
  <2>2. Sessions(w)' = Sessions(w) - 1
    BY <1>3, <2>1, Amounts DEF Sessions
  <2>3. Fds(w)' = Fds(w) - 2 - 2 * pool[w]
    BY <1>3, <2>1, Amounts DEF Fds
  <2>4. Sessions(w) \in Nat /\ Fds(w) \in Nat
    BY <1>0, Counts
  <2>5. QED
    BY <2>1, <2>2, <2>3, <2>4, Amounts DEF Balance
<1>5. Safe(w)
  BY <1>3, Local DEF Safe, HasSession, PipeFds
<1>6. QED
  BY <1>1, <1>2, <1>4, <1>5 DEF Sound

\* Time passes.
LEMMA ResumeDueSound ==
  ASSUME IInv, NEW w \in Workers, ResumeDue(w)
  PROVE  Sound(w)
<1> USE DEF ResumeDue, Goto, budget, listening, connections
<1>0. Shape
  BY Local, Zenon
<1>1. Shape'
  BY <1>0, Local DEF Shape, Labels
<1>2. Frame(w)
  BY <1>0 DEF Frame, Shape
<1>3. /\ pc'[w] = pc[w] /\ seen'[w] = seen[w] /\ armed'[w] = armed[w] /\ paused'[w] = paused[w] /\ spare'[w] = spare[w]
      /\ shaking'[w] = shaking[w] /\ relaying'[w] = relaying[w] /\ pool'[w] = pool[w] /\ deadPipes'[w] = deadPipes[w]
  BY <1>0, Zenon DEF Shape
<1>4. Balance(w)
  <2>1. used' = used /\ free' = free /\ others' = others
    BY Zenon
  <2> HIDE DEF ResumeDue
  <2>2. Sessions(w)' = Sessions(w)
    BY <1>3, <2>1, Zenon DEF Sessions
  <2>3. Fds(w)' = Fds(w)
    BY <1>3, <2>1, Zenon DEF Fds
  <2>4. Sessions(w) \in Nat /\ Fds(w) \in Nat
    BY <1>0, Counts
  <2>5. QED
    BY <2>1, <2>2, <2>3, <2>4, Amounts DEF Balance
<1>5. Safe(w)
  BY <1>3, Local DEF Safe, HasSession
<1>6. QED
  BY <1>1, <1>2, <1>4, <1>5 DEF Sound

\* The compare-and-swap adds one to a value that was below the cap, or changes nothing.
LEMMA CasSound ==
  ASSUME IInv, NEW w \in Workers, ReserveSessionCas(w)
  PROVE  Sound(w)
<1> USE DEF ReserveSessionCas, Goto, listening, connections
<1>0. Shape
  BY Local, Zenon
<1>1. Shape'
  BY <1>0, Local DEF Shape, Labels
<1>2. Frame(w)
  BY <1>0 DEF Frame, Shape
<1>3. /\ seen'[w] = 0 /\ armed'[w] = armed[w] /\ paused'[w] = paused[w] /\ spare'[w] = spare[w]
      /\ shaking'[w] = shaking[w] /\ relaying'[w] = relaying[w] /\ pool'[w] = pool[w] /\ deadPipes'[w] = deadPipes[w]
  BY <1>0, Zenon DEF Shape
<1>4. pc[w] = "cas" /\ free' = free /\ others' = others
  BY Zenon
<1>5. CASE used = seen[w]
  <2>1. used' = used + 1 /\ pc'[w] = "connect"
    BY <1>0, <1>5, Zenon DEF Shape
  <2> HIDE DEF ReserveSessionCas
  <2>2. Balance(w)
    <3>1. Sessions(w)' = Sessions(w) + 1
      BY <1>3, <1>4, <2>1, Amounts DEF Sessions
    <3>2. Fds(w)' = Fds(w)
      BY <1>3, <1>4, <2>1, Zenon DEF Fds
    <3>3. Sessions(w) \in Nat /\ Fds(w) \in Nat
      BY <1>0, Counts
    <3>4. QED
      BY <1>4, <2>1, <3>1, <3>2, <3>3, Amounts DEF Balance
  <2>3. Safe(w)
    BY <1>3, <1>4, <1>5, <2>1, Local DEF Safe, HasSession
  <2>4. QED
    BY <1>1, <1>2, <2>2, <2>3 DEF Sound
<1>6. CASE used # seen[w]
  <2>1. used' = used /\ pc'[w] = "reserve"
    BY <1>0, <1>6, Zenon DEF Shape
  <2> HIDE DEF ReserveSessionCas
  <2>2. Balance(w)
    <3>1. Sessions(w)' = Sessions(w)
      BY <1>3, <1>4, <2>1, Zenon DEF Sessions
    <3>2. Fds(w)' = Fds(w)
      BY <1>3, <1>4, <2>1, Zenon DEF Fds
    <3>3. Sessions(w) \in Nat /\ Fds(w) \in Nat
      BY <1>0, Counts
    <3>4. QED
      BY <1>4, <2>1, <3>1, <3>2, <3>3, Amounts DEF Balance
  <2>3. Safe(w)
    BY <1>3, <1>4, <2>1, Local DEF Safe, HasSession
  <2>4. QED
    BY <1>1, <1>2, <2>2, <2>3 DEF Sound
<1>7. QED
  BY <1>5, <1>6

\* close_connection gives back a session and the two sockets of a connection there
\* is; its pipes stay with the closed connection.
LEMMA EndsSound ==
  ASSUME IInv, NEW w \in Workers, ConnectionEnds(w)
  PROVE  Sound(w)
<1> USE DEF ConnectionEnds, CloseConnection, listening
<1>0. Shape
  BY Local, Zenon
<1>1. Shape'
  BY <1>0, Local DEF Shape
<1>2. Frame(w)
  BY <1>0 DEF Frame, Shape
<1>3. /\ pc'[w] = pc[w] /\ seen'[w] = seen[w] /\ armed'[w] = armed[w] /\ paused'[w] = paused[w]
      /\ spare'[w] = spare[w] /\ pool'[w] = pool[w]
  BY <1>0, Zenon DEF Shape
<1>4. pc[w] \in {"dispatch", "expire"} /\ used' = used - 1 /\ free' = free + 2 /\ others' = others
  BY Zenon
<1>5. \/ shaking'[w] = shaking[w] - 1 /\ relaying'[w] = relaying[w] /\ deadPipes'[w] = deadPipes[w]
      \/ shaking'[w] = shaking[w] /\ relaying'[w] = relaying[w] - 1 /\ deadPipes'[w] = deadPipes[w] + 1
  BY <1>0 DEF Shape
<1> HIDE DEF ConnectionEnds
<1>6. Balance(w)
  <2>1. Sessions(w)' = Sessions(w) - 1
    BY <1>3, <1>4, <1>5, Amounts DEF Sessions
  <2>2. Fds(w)' = Fds(w) - 2
    BY <1>3, <1>4, <1>5, Amounts DEF Fds
  <2>3. Sessions(w) \in Nat /\ Fds(w) \in Nat
    BY <1>0, Counts
  <2>4. QED
    BY <1>4, <2>1, <2>2, <2>3, Amounts DEF Balance
<1>7. Safe(w)
  BY <1>3, <1>4, Local DEF Safe
<1>8. QED
  BY <1>1, <1>2, <1>6, <1>7 DEF Sound

\* free_closed_connections pools some of the pipes and closes the others.
LEMMA FreeSound ==
  ASSUME IInv, NEW w \in Workers, NEW kept \in 0..PoolCap, FreeClosed(w, kept)
  PROVE  Sound(w)
<1> USE DEF FreeClosed, Goto, budget
<1>0. Shape
  BY Local, Zenon
<1>3. /\ pc[w] = "free" /\ pc'[w] = "resume_top" /\ seen'[w] = seen[w] /\ armed'[w] = armed[w]
      /\ paused'[w] = paused[w] /\ spare'[w] = spare[w]
      /\ shaking'[w] = shaking[w] /\ relaying'[w] = relaying[w] /\ pool'[w] = pool[w] + kept
      /\ deadPipes'[w] = 0
  BY <1>0, Zenon DEF Shape
<1>4. /\ kept \in Nat /\ pool[w] + kept \in 0..PoolCap /\ kept <= 2 * deadPipes[w]
      /\ free' = free + 2 * (2 * deadPipes[w] - kept) /\ used' = used /\ others' = others
  BY Local
<1>1. Shape'
  BY <1>0, <1>4 DEF Shape, Labels
<1>2. Frame(w)
  BY <1>0 DEF Frame, Shape
<1> HIDE DEF FreeClosed
<1>5. Balance(w)
  <2>1. Sessions(w)' = Sessions(w)
    BY <1>3, Zenon DEF Sessions
  <2>2. Fds(w)' = Fds(w) + 2 * kept - 4 * deadPipes[w]
    BY <1>3, <1>4, Amounts DEF Fds
  <2>3. Sessions(w) \in Nat /\ Fds(w) \in Nat
    BY <1>0, Counts
  <2>4. QED
    BY <1>4, <2>1, <2>2, <2>3, Amounts DEF Balance
<1>6. Safe(w)
  BY <1>3, <1>4, Local DEF Safe
<1>7. QED
  BY <1>1, <1>2, <1>5, <1>6 DEF Sound

\* resume_tcp_listeners_if_due listens again only with both listeners and a spare.
LEMMA ResumeSound ==
  ASSUME IInv, NEW w \in Workers, NEW added \in SUBSET Listeners, ResumeListeners(w, added)
  PROVE  Sound(w)
<1> DEFINE try == paused[w] /\ due[w]
<1> DEFINE opens == try /\ ~spare[w] /\ free > 0
<1> DEFINE ok == try /\ (spare[w] \/ opens)
<1> USE DEF Goto, budget, connections
<1>0. Shape
  BY Local, Zenon
<1>1. /\ pc[w] \in {"resume", "resume_top"}
      /\ free' = IF opens THEN free - 1 ELSE free
      /\ spare' = [spare EXCEPT ![w] = @ \/ opens]
      /\ armed' = [armed EXCEPT ![w] = IF ok THEN @ \cup added ELSE @]
      /\ paused' = [paused EXCEPT ![w] = @ /\ ~(ok /\ armed'[w] = Listeners)]
      /\ due' = [due EXCEPT ![w] = @ /\ ~try]
      /\ pc' = [pc EXCEPT ![w] = IF pc[w] = "resume" THEN "expire" ELSE "wait"]
      /\ UNCHANGED <<used, seen, others, shaking, relaying, pool, dead, deadPipes>>
  BY Zenon DEF ResumeListeners
<1>2. Shape'
  BY <1>0, <1>1, Zenon DEF Shape, Labels
<1>3. Frame(w)
  BY <1>0, <1>1, Zenon DEF Frame, Shape
<1>4. /\ pc'[w] \in {"expire", "wait"} /\ (spare'[w] <=> spare[w] \/ opens)
      /\ armed'[w] = IF ok THEN armed[w] \cup added ELSE armed[w]
      /\ (paused'[w] <=> paused[w] /\ ~(ok /\ armed'[w] = Listeners))
  BY <1>0, <1>1, Zenon DEF Shape
<1>5. opens => ~spare[w] /\ free > 0
  BY Zenon
<1>6. ok => spare[w] \/ opens
  BY Zenon
<1>7. ok => paused[w]
  BY Zenon
<1> HIDE DEF opens, ok, try
<1>8. Balance(w)
  <2>1. Sessions(w)' = Sessions(w)
    BY <1>1, <1>4, Zenon DEF Sessions
  <2>2. Fds(w)' = Fds(w) + IF opens THEN 1 ELSE 0
    BY <1>1, <1>4, <1>5, Amounts DEF Fds
  <2>3. Sessions(w) \in Nat /\ Fds(w) \in Nat
    BY <1>0, Counts
  <2>4. QED
    BY <1>1, <2>1, <2>2, <2>3, Amounts DEF Balance
<1>9. Safe(w)
  <2>1. used' <= Cap /\ free' >= 0
    BY <1>1, <1>5, Local
  <2>2. \/ paused'[w]
        \/ armed'[w] = Listeners /\ spare'[w]
    BY <1>1, <1>4, <1>6, <1>7, Local, Zenon
  <2>3. QED
    BY <1>4, <2>1, <2>2, Zenon DEF Safe
<1>10. QED
  BY <1>2, <1>3, <1>8, <1>9 DEF Sound

\* The other threads of the process open and close descriptors.
LEMMA OthersInv ==
  ASSUME IInv, OtherOpens \/ OtherCloses
  PROVE  IInv'
<1>0. /\ free \in Nat /\ others \in Nat /\ free <= FdLimit /\ FdLimit \in Nat /\ Others \in Nat /\ others <= Others
      /\ used \in 0..Cap
  BY Typed, Limits DEF IInv, TypeOK
<1>1. UNCHANGED <<used, seen, pc, armed, paused, due, spare, shaking, relaying, pool, dead, deadPipes>>
  BY Zenon DEF OtherOpens, OtherCloses, budget, listening, connections
<1>2. /\ free' \in Nat /\ others' \in 0..Others /\ free' + others' = free + others
  BY <1>0 DEF OtherOpens, OtherCloses
<1>3. [w \in Workers |-> Fds(w)'] = [w \in Workers |-> Fds(w)]
  BY <1>1, Zenon DEF Fds
<1>4. [w \in Workers |-> Sessions(w)'] = [w \in Workers |-> Sessions(w)]
  BY <1>1, Zenon DEF Sessions
<1>5. SessionsCounted'
  BY <1>1, <1>4, Zenon DEF IInv, SessionsCounted
<1>6. NoFdLeak'
  BY <1>2, <1>3, Zenon DEF IInv, NoFdLeak
<1>7. free' \in 0..FdLimit
  <2> DEFINE h == [w \in Workers |-> Fds(w)]
  <2>1. h \in [Workers -> Nat]
    BY Typed, Counts, Zenon DEF IInv
  <2>2. free + others + SumFunction(h) = FdLimit
    BY Zenon DEF IInv, NoFdLeak
  <2> HIDE DEF h
  <2>3. SumFunction(h) \in Nat
    BY <2>1, Limits, SumNatural, Zenon
  <2>4. others' \in Nat
    BY <1>0, <1>2
  <2>5. \A a, b, c, d, k, n \in Nat : a + b = c + d /\ c + d + k = n => a <= n
    OBVIOUS
  <2>6. free' <= FdLimit
    BY <1>0, <1>2, <2>2, <2>3, <2>4, <2>5, Zenon
  <2>7. QED
    BY <1>0, <1>2, <2>6
<1>8. TypeOK'
  BY <1>0, <1>1, <1>2, <1>7, Zenon DEF IInv, TypeOK
<1>9. RoomSeen' /\ Adding' /\ SpareAway' /\ NeverDeaf'
  BY <1>1, Zenon DEF IInv, RoomSeen, Adding, SpareAway, NeverDeaf
<1>10. QED
  BY <1>5, <1>6, <1>8, <1>9, Zenon DEF IInv

\* Every step of a worker or of the rest of the process keeps the invariant.
LEMMA InvNext == IInv /\ [Next]_vars => IInv'
<1> SUFFICES ASSUME IInv, [Next]_vars PROVE IInv'
  OBVIOUS
<1>1. CASE OtherOpens \/ OtherCloses
  BY <1>1, OthersInv
<1>2. ASSUME NEW w \in Workers,
             Looping(w) \/ ListenerEvent(w) \/ Accepting(w) \/ Relaying(w) \/ ResumeDue(w)
      PROVE  IInv'
  <2>1. CASE Looping(w)
    BY <2>1, QuietSteps, FreeSound, ResumeSound, SoundInv, Zenon DEF Looping
  <2>2. CASE ListenerEvent(w) \/ ResumeDue(w)
    BY <2>2, QuietSteps, ResumeDueSound, SoundInv, Zenon
  <2>3. CASE Accepting(w)
    BY <2>3, QuietSteps, AcceptClientSound, AcceptExhaustedSound, SpareOpenSound, RejectClientSound,
       ReserveSessionSound, OverCapacitySound, CasSound, CreateConnectionSound, ConnectFailsSound,
       UnreserveSound, ConnectExhaustedSound, AddFailsSound, SoundInv, Zenon DEF Accepting
  <2>4. CASE Relaying(w)
    BY <2>4, EndsSound, RelayStartsSound, RelayFailsSound, SoundInv, Zenon DEF Relaying
  <2>5. QED
    BY <1>2, <2>1, <2>2, <2>3, <2>4, Zenon
<1>3. CASE UNCHANGED vars
  <2>1. [w \in Workers |-> Fds(w)'] = [w \in Workers |-> Fds(w)]
    BY <1>3, Zenon DEF Fds, vars
  <2>2. [w \in Workers |-> Sessions(w)'] = [w \in Workers |-> Sessions(w)]
    BY <1>3, Zenon DEF Sessions, vars
  <2>3. SessionsCounted' /\ NoFdLeak'
    BY <1>3, <2>1, <2>2, Zenon DEF IInv, SessionsCounted, NoFdLeak, vars
  <2>4. TypeOK'
    BY <1>3, Zenon DEF IInv, TypeOK, vars
  <2>5. RoomSeen' /\ Adding' /\ SpareAway' /\ NeverDeaf'
    BY <1>3, Zenon DEF IInv, RoomSeen, Adding, SpareAway, NeverDeaf, vars
  <2>6. QED
    BY <2>3, <2>4, <2>5, Zenon DEF IInv
<1>4. QED
  BY <1>1, <1>2, <1>3, Zenon DEF Next

\* The invariant behind the theorems: the accounts of sessions and descriptors, and
\* what a worker holds where.
THEOREM InvHolds == Spec => []IInv
BY InvInit, InvNext, PTL DEF Spec

\* reserve_tcp_session, accept_ready_clients, create_connection, close_connection and
\* free_closed_connections leak no session and no descriptor and give none back twice,
\* whichever call fails, for any number of workers and any limits.
THEOREM NothingIsLeaked == Spec => []NothingLeaked
<1>1. IInv => NothingLeaked
  BY Zenon DEF IInv, NothingLeaked
<1>2. QED
  BY <1>1, InvHolds, PTL

\* handle_accept_fd_exhaustion and resume_tcp_listeners_if_due leave no worker deaf: one
\* that does not poll both listeners, or has no spare descriptor, knows that it paused.
THEOREM IsNeverDeaf == Spec => []NeverDeaf
<1>1. IInv => NeverDeaf
  BY Zenon DEF IInv
<1>2. QED
  BY <1>1, InvHolds, PTL
=============================================================================
