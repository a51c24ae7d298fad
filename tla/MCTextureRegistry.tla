-------------------------- MODULE MCTextureRegistry --------------------------
(* TextureRegistry for TLC: two threads that share a context or not.       *)
EXTENDS TextureRegistry, TLC

CONSTANTS t1, t2, a1, a2, x1, x2, c1, c2

TwoThreads == {t1, t2}
OneOrTwoContexts == {[t \in {t1, t2} |-> c1], t1 :> c1 @@ t2 :> c2}
TwoAddresses == {a1, a2}
TwoDescriptors == {x1, x2}
Interchangeable == Permutations({a1, a2}) \cup Permutations({x1, x2})
=============================================================================
