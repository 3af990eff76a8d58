--------------------------- MODULE MCCloudReembed ----------------------------
(* One job for each of the first two versions of a memory. *)
EXTENDS CloudReembed, TLC

CONSTANTS e1, e2, n1, n2, d1, d2, i1, o1

NonceOf == [e \in Envelopes |-> IF e = e1 THEN n1 ELSE n2]
PrincipalOf == [e \in Envelopes |-> o1]
JobRefs == {<<i1, 1>>, <<i1, 2>>}
Jobs == {[envelope |-> e1, key |-> d1, ref |-> <<i1, 1>>],
         [envelope |-> e2, key |-> d2, ref |-> <<i1, 2>>]}

Symmetric == Permutations(Runners) \cup Permutations(Contents)
==============================================================================
