----------------------------- MODULE MCPackCache -----------------------------
(* Three workers over three packs, of which one alone exceeds the budget   *)
(* and any two of the others fill or overflow it.                          *)
EXTENDS PackCache, TLC

CONSTANTS w1, w2, w3, k1, k2, k3, n1, n2, n3

MCWorkers  == {w1, w2, w3}
MCPacks    == {k1, k2, k3}
MCNotifies == {n1, n2, n3}
MCSize     == (k1 :> 1) @@ (k2 :> 2) @@ (k3 :> 4)
MCMaxBytes == 3

Symmetry == Permutations(MCWorkers) \cup Permutations(MCNotifies)
=============================================================================
