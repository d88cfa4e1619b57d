------------------------------ MODULE MCTokens ------------------------------
(* Two local sockets, one tethered endpoint, two destinations, six tokens. *)
EXTENDS Tokens, TLC

CONSTANTS l1, l2, h1, a, b, t1, t2, t3, t4, t5, t6, c1, c2

\* Every flow has tokens of its own, or flows share them and TC meets an
\* address it skips.
MCHashes ==
    {l1 :> (a :> <<t1>> @@ b :> <<t2>>) @@ l2 :> (a :> <<t3>> @@ b :> <<t4>>)
        @@ h1 :> (a :> <<t3, t4>> @@ b :> <<t5, t6>>),
     l1 :> (a :> <<t1>> @@ b :> <<t1>>) @@ l2 :> (a :> <<t2>> @@ b :> <<t1>>)
        @@ h1 :> (a :> <<t1, t2>> @@ b :> <<None, t1>>)}

Cast(cs, ds, n) == [clients |-> cs, dsts |-> ds, calls |-> n]

Symmetry == Permutations({c1, c2})

MCCasts == {Cast({l1, l2}, {a, b}, 3), Cast({l1}, {a, b}, 4), Cast({h1}, {a, b}, 4), Cast({l1, h1}, {a, b}, 3)}
=============================================================================
